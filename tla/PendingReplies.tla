--------------------------- MODULE PendingReplies ---------------------------
(***************************************************************************)
(* The replies that calls give to the application                          *)
(* (src/dbuspendingreply.cpp), where they are made                         *)
(* (src/dbusconnection.cpp, src/dbus.cpp), the coalescing of property      *)
(* Gets, and when a reply is deleted.                                      *)
(*                                                                         *)
(* A reply is settled once and emits finished once; then its receivers are *)
(* disconnected.  In flight it is a child of the object that made it; with *)
(* an engine it is handed to JavaScript's collector when it settles.       *)
(* There is one thread.  The application runs between two events and in    *)
(* its handlers, where it may call again and destroy any reply it was      *)
(* given, and the object that made it.  The Get of a property keeps plain  *)
(* pointers to its replies; using one to a destroyed reply is undefined,   *)
(* and from there on the model says nothing.                               *)
(*                                                                         *)
(* An operator named X_Y is a faulty variant of X that a run's mutant puts *)
(* in the place of X; no definition uses it.                               *)
(***************************************************************************)
EXTENDS Naturals, Sequences, SequencesExt, Entries

CONSTANTS MaxReplies,  \* how many calls the application makes
          Names,       \* wire names of properties
          CallMakers,  \* what the application makes plain calls with
          Handlers,    \* what the application connects to finished: nothing,
                       \* a plain handler, or one that refers to its reply
          NoReply      \* no reply

Replies == 1 .. MaxReplies

ASSUME RepliesAssumption == MaxReplies \in Nat /\ NoReply \notin Replies
ASSUME MakersAssumption == CallMakers \subseteq {"proxy", "connection"}
ASSUME HandlersAssumption == Handlers \subseteq {"none", "plain", "capturing"}

VARIABLES engine,    \* none, alive or gone
          creators,  \* which of the proxy and the connection are alive
          reply,     \* the DBusPendingReply objects
          wire,      \* replies whose watcher has not emitted finished
          gets,      \* m_pendingGets: owner and waiters of the Get of a name
          events,    \* what was posted to replies: finished, deferred deletes
          emitting,  \* the reply whose finished is being emitted
          finishing, \* finishPendingGet: who is still to be completed
          caller     \* a reply just returned to the application
vars == <<engine, creators, reply, wire, gets, events, emitting, finishing, caller>>

-----------------------------------------------------------------------------
(* State.                                                                  *)

\* owner: the parent or the collector; or how it ended, deleted by a deferred
\* deletion or the engine, or destroyed by the application, alone or with the
\* parent.  of: the object that made it.  receiver: who is connected to
\* finished; a capturing handler refers to its reply, nobody else does.
\* told: how often finished reached a receiver.
Reply == [owner : {"unborn", "parent", "js", "deleted", "destroyed"},
          of : {"proxy", "connection"},
          promise : BOOLEAN, settled : BOOLEAN,
          receiver : {"none", "promise", "plain", "capturing"}, told : {0, 1}]

Unborn == [owner |-> "unborn", of |-> "proxy", promise |-> FALSE, settled |-> FALSE,
           receiver |-> "none", told |-> 0]

Exists(r) == reply[r].owner \in {"parent", "js"}

TypeOK ==
    /\ engine \in {"none", "alive", "gone"}
    /\ creators \subseteq {"proxy", "connection"}
    /\ reply \in [Replies -> Reply]
    /\ wire \subseteq Replies
    /\ gets \in [Names -> Seq(Replies)]
    /\ events \in Seq({"finished", "delete"} \X Replies)
    /\ emitting \in Replies \cup {NoReply}
    /\ finishing \in Seq(Replies)
    /\ caller \in Replies \cup {NoReply}
    \* Only an engine collects, and only what somebody can have a wrapper of.
    /\ \A r \in Replies : reply[r].owner = "js" => engine = "alive" /\ ~reply[r].promise

Init ==
    /\ engine \in {"none", "alive"}
    /\ creators = {"proxy", "connection"}
    /\ reply = [r \in Replies |-> Unborn]
    /\ wire = {}
    /\ gets = [n \in Names |-> <<>>]
    /\ events = <<>>
    /\ emitting = NoReply
    /\ finishing = <<>>
    /\ caller = NoReply

\* The event loop takes the next event when nothing is on the stack.
Idle == emitting = NoReply /\ finishing = <<>> /\ caller = NoReply

\* Where the application runs: from the event loop and in its handlers.
InHandler == emitting # NoReply /\ reply[emitting].receiver # "none"
UserMayRun == caller = NoReply /\ (InHandler \/ Idle)

-----------------------------------------------------------------------------
(* Settling.                                                               *)

\* The lifetime policy: what settles with an engine goes to the collector.
HandedOff_Always(rec) == IF rec.promise THEN rec ELSE [rec EXCEPT !.owner = "js"]
HandedOff(rec) ==
    IF engine = "alive" /\ ~rec.promise THEN [rec EXCEPT !.owner = "js"] ELSE rec

\* settle() with queued delivery: posted, and handed off in the same frame.
SettleLater(r, rec) ==
    /\ reply' = [reply EXCEPT ![r] = HandedOff([rec EXCEPT !.settled = TRUE])]
    /\ events' = Append(events, <<"finished", r>>)

\* deliverFinished: emit to who is connected.
Told(rec) == IF rec.receiver = "none" THEN rec ELSE [rec EXCEPT !.told = @ + 1]

\* settle() with direct delivery: emitted at once; the rest follows when the
\* receivers return.
SettleNow(r) ==
    /\ reply' = [reply EXCEPT ![r] = Told([@ EXCEPT !.settled = TRUE])]
    /\ emitting' = r

\* The receivers return: they are disconnected, and after a direct delivery
\* the reply is handed off; after a queued one it is already.  If one of them
\* destroyed the reply, nothing is left to do.
EmissionReturns_KeepsReceivers ==
    /\ emitting # NoReply
    /\ caller = NoReply
    /\ emitting' = NoReply
    /\ reply' = IF Exists(emitting) THEN [reply EXCEPT ![emitting] = HandedOff(@)] ELSE reply
    /\ UNCHANGED <<engine, creators, wire, gets, events, finishing, caller>>
EmissionReturns ==
    /\ emitting # NoReply
    /\ caller = NoReply
    /\ emitting' = NoReply
    /\ reply' = [reply EXCEPT ![emitting] =
                    LET rec == [@ EXCEPT !.receiver = "none"] IN
                    IF Exists(emitting) THEN HandedOff(rec) ELSE rec]
    /\ UNCHANGED <<engine, creators, wire, gets, events, finishing, caller>>

\* The posted emission.  A promise posts the deletion of its reply before it
\* resolves or rejects.
Deliver ==
    LET r == Head(events)[2] IN
    /\ Idle
    /\ events # <<>>
    /\ Head(events)[1] = "finished"
    /\ reply' = [reply EXCEPT ![r] = Told(@)]
    /\ events' = IF reply[r].receiver = "promise" THEN Append(Tail(events), <<"delete", r>>)
                 ELSE Tail(events)
    /\ emitting' = r
    /\ UNCHANGED <<engine, creators, wire, gets, finishing, caller>>

-----------------------------------------------------------------------------
(* Calls.                                                                  *)

\* The next reply object, a child of the object that makes it.
IsNew(r, of) ==
    /\ UserMayRun
    /\ of \in creators
    /\ reply[r].owner = "unborn"
    /\ \A q \in 1 .. r - 1 : reply[q].owner # "unborn"
New_HandedOff(of) == HandedOff([Unborn EXCEPT !.owner = "parent", !.of = of])
New(of) == [Unborn EXCEPT !.owner = "parent", !.of = of]

\* call, callMethod, asyncCall: on the wire, or failed at once because an
\* argument cannot be sent.
OnTheWire_HandedOff(r, rec) ==
    /\ reply' = [reply EXCEPT ![r] = HandedOff(rec)]
    /\ wire' = wire \cup {r}
    /\ UNCHANGED events
OnTheWire(r, rec) ==
    /\ reply' = [reply EXCEPT ![r] = rec]
    /\ wire' = wire \cup {r}
    /\ UNCHANGED events
\* Faulty: emitted before anybody can be connected.
FailLocally_AtOnce(r, rec) ==
    /\ reply' = [reply EXCEPT ![r] = HandedOff([rec EXCEPT !.settled = TRUE])]
    /\ UNCHANGED <<wire, events>>
FailLocally(r, rec) == SettleLater(r, rec) /\ UNCHANGED wire

StartCall(r, rec) == OnTheWire(r, rec) \/ FailLocally(r, rec)

Call(r, of) ==
    /\ IsNew(r, of)
    /\ StartCall(r, New(of))
    /\ caller' = r
    /\ UNCHANGED <<engine, creators, gets, emitting, finishing>>

\* asyncCall with callbacks: connected within the call, never returned.  (A
\* failed one is connected after it settled.)
PromiseReply == [New("connection") EXCEPT !.promise = TRUE, !.receiver = "promise"]
Promise(r) ==
    /\ IsNew(r, "connection")
    /\ StartCall(r, PromiseReply)
    /\ UNCHANGED <<engine, creators, gets, emitting, finishing, caller>>

\* getProperty: joins the Get of that name, or sends one and owns it.
GetProperty(r, n) ==
    /\ IsNew(r, "proxy")
    /\ reply' = [reply EXCEPT ![r] = New("proxy")]
    /\ gets' = [gets EXCEPT ![n] = Append(@, r)]
    /\ wire' = IF gets[n] = <<>> THEN wire \cup {r} ELSE wire
    /\ caller' = r
    /\ UNCHANGED <<engine, creators, events, emitting, finishing>>

\* In the same turn the application connects to what it was given, or not.
Returned(receiver) ==
    /\ caller # NoReply
    /\ reply' = [reply EXCEPT ![caller].receiver = receiver]
    /\ caller' = NoReply
    /\ UNCHANGED <<engine, creators, wire, gets, events, emitting, finishing>>

-----------------------------------------------------------------------------
(* Answers.  Every call ends: with a reply, an error, or a timeout.        *)

IsGet(r) == \E n \in Names : r \in ToSet(gets[n])

\* onFinished: the delivery is queued if an engine may listen, else direct.
\* The watcher of a reply that was destroyed finds nobody connected.
OnFinished(r) ==
    /\ Idle
    /\ r \in wire
    /\ ~IsGet(r)
    /\ Exists(r)
    /\ wire' = wire \ {r}
    /\ IF engine = "alive" THEN SettleLater(r, reply[r]) /\ UNCHANGED emitting
       ELSE /\ SettleNow(r)
            /\ events' = IF reply[r].promise THEN Append(events, <<"delete", r>>) ELSE events
    /\ UNCHANGED <<engine, creators, gets, finishing, caller>>

\* finishPendingGet: the record goes first, then all of it is completed.
FinishGet_KeepsRecord(n) ==
    /\ Idle
    /\ gets[n] # <<>>
    /\ Head(gets[n]) \in wire
    /\ wire' = wire \ {Head(gets[n])}
    /\ finishing' = gets[n]
    /\ UNCHANGED <<engine, creators, reply, gets, events, emitting, caller>>
FinishGet_OwnerOnly(n) ==
    /\ Idle
    /\ gets[n] # <<>>
    /\ wire' = wire \ {Head(gets[n])}
    /\ gets' = [gets EXCEPT ![n] = <<>>]
    /\ finishing' = <<Head(gets[n])>>
    /\ UNCHANGED <<engine, creators, reply, events, emitting, caller>>
FinishGet(n) ==
    /\ Idle
    /\ gets[n] # <<>>
    /\ wire' = wire \ {Head(gets[n])}
    /\ gets' = [gets EXCEPT ![n] = <<>>]
    /\ finishing' = gets[n]
    /\ UNCHANGED <<engine, creators, reply, events, emitting, caller>>

\* completeFromReply, for the owner and for each waiter in turn, by a plain
\* pointer: the test for null does not see that a reply was destroyed.
Complete ==
    /\ emitting = NoReply
    /\ caller = NoReply
    /\ finishing # <<>>
    /\ Exists(Head(finishing))
    /\ SettleNow(Head(finishing))
    /\ finishing' = Tail(finishing)
    /\ UNCHANGED <<engine, creators, wire, gets, events, caller>>

\* The next one to complete is not there any more.  What the program does then
\* is undefined; the model stops.
Undefined ==
    /\ emitting = NoReply
    /\ caller = NoReply
    /\ finishing # <<>>
    /\ ~Exists(Head(finishing))

-----------------------------------------------------------------------------
(* Deletion.                                                               *)

\* What was posted to a deleted object is gone with it.  (The handler that
\* is running runs on.)
Ghost(r, how) == [reply[r] EXCEPT !.owner = how, !.settled = FALSE,
                                  !.receiver = IF r = emitting THEN @ ELSE "none"]
Purged(dead) == EntriesAt(events, {i \in DOMAIN events : events[i][2] \notin dead})
Deleted(dead, how) ==
    /\ reply' = [r \in Replies |-> IF r \in dead THEN Ghost(r, how) ELSE reply[r]]
    /\ events' = Purged(dead)

\* The application destroys a reply it was given: the one whose handler runs
\* or any other, settled or not; a deferred destroy() is this step in the
\* event loop.  Its watcher is not its child and answers yet, and the record of
\* a shared Get keeps its pointers.
DestroyReply(r) ==
    /\ UserMayRun
    /\ Exists(r)
    /\ ~reply[r].promise
    /\ Deleted({r}, "destroyed")
    /\ UNCHANGED <<engine, creators, wire, gets, emitting, finishing, caller>>

\* The application destroys the proxy or the connection, and with it the
\* watchers and the replies that are still its children.
DestroyCreator(c) ==
    /\ UserMayRun
    /\ c \in creators
    /\ creators' = creators \ {c}
    /\ Deleted({r \in Replies : reply[r].owner = "parent" /\ reply[r].of = c}, "destroyed")
    /\ wire' = {r \in wire : reply[r].of # c}
    /\ gets' = IF c = "proxy" THEN [n \in Names |-> <<>>] ELSE gets
    /\ UNCHANGED <<engine, emitting, finishing, caller>>

\* The engine goes, with what it collects and all JavaScript handlers.
EngineGoes ==
    LET dead == {r \in Replies : reply[r].owner = "js"} IN
    /\ Idle
    /\ engine = "alive"
    /\ engine' = "gone"
    /\ reply' = [r \in Replies |->
                    IF r \in dead THEN Ghost(r, "deleted")
                    ELSE [reply[r] EXCEPT !.receiver = IF reply[r].promise THEN @ ELSE "none"]]
    /\ events' = Purged(dead)
    /\ UNCHANGED <<creators, wire, gets, emitting, finishing, caller>>

\* The collector finds a reply nobody refers to, and posts its deletion.
Collect(r) ==
    /\ caller # r
    /\ emitting # r
    /\ reply[r].owner = "js"
    /\ reply[r].receiver # "capturing"
    /\ ~Contains(events, <<"delete", r>>)
    /\ events' = Append(events, <<"delete", r>>)
    /\ UNCHANGED <<engine, creators, reply, wire, gets, emitting, finishing, caller>>

DeferredDelete ==
    /\ Idle
    /\ events # <<>>
    /\ Head(events)[1] = "delete"
    /\ Deleted({Head(events)[2]}, "deleted")
    /\ UNCHANGED <<engine, creators, wire, gets, emitting, finishing, caller>>

-----------------------------------------------------------------------------
(* Specification.                                                          *)

Next ==
    \/ \E r \in Replies : \/ \E of \in CallMakers : Call(r, of)
                          \/ Promise(r)
                          \/ \E n \in Names : GetProperty(r, n)
                          \/ OnFinished(r)
                          \/ DestroyReply(r)
                          \/ Collect(r)
    \/ \E receiver \in Handlers : Returned(receiver)
    \/ \E n \in Names : FinishGet(n)
    \/ Complete \/ Deliver \/ EmissionReturns
    \/ EngineGoes \/ DeferredDelete
    \/ \E c \in creators : DestroyCreator(c)

\* Calls return and handlers too, the event loop runs what was posted,
\* QtDBus ends every call, and the collector runs now and then.
Fairness ==
    /\ WF_vars(\E receiver \in Handlers : Returned(receiver))
    /\ WF_vars(Complete) /\ WF_vars(EmissionReturns)
    /\ WF_vars(Deliver) /\ WF_vars(DeferredDelete)
    /\ \A r \in Replies : WF_vars(OnFinished(r)) /\ WF_vars(Collect(r))
    /\ \A n \in Names : WF_vars(FinishGet(n))

Spec == Init /\ [][Next]_vars /\ Fairness

-----------------------------------------------------------------------------
(* Properties.                                                             *)

\* The plain pointers that a Get keeps, in its record and while it is being
\* finished (m_pendingGets, finishPendingGet), are to replies that exist and
\* wait, or that the application itself destroyed: no collector, engine,
\* deferred deletion or answer gets at a reply while a Get holds it.
OnlyDestroyedDangle ==
    \A r \in (UNION {ToSet(gets[n]) : n \in Names}) \cup ToSet(finishing) :
        reply[r].owner \in {"parent", "destroyed"} /\ ~reply[r].settled

\* finishPendingGet answers replies that are there: what its comment promises,
\* the owner and every waiter.  It fails (README, section 11).
AnswersTheLiving ==
    finishing # <<>> /\ emitting = NoReply /\ caller = NoReply => Exists(Head(finishing))

\* A Get that can be joined has an answer to come, and only one: nobody joins
\* one whose answer is being given out, and a name is asked for once.
GetsAreShared ==
    \A n \in Names : gets[n] # <<>> => ToSet(gets[n]) \cap wire = {Head(gets[n])}

\* A posted deletion finds a reply that has settled and told its receivers,
\* however early the collector or the promise posted it.
DeletedWhenDone ==
    [][DeferredDelete => LET r == Head(events)[2] IN
                         reply[r].settled /\ reply[r].receiver = "none"]_vars

\* Who connects right after the call is told, on every path that a reply can
\* settle by, unless the reply or the engine is destroyed first, or a Get has
\* run into a reply that was.
HandlersAreTold ==
    \A r \in Replies : reply[r].receiver \in {"plain", "capturing"} ~>
                       reply[r].told = 1 \/ ~Exists(r) \/ engine = "gone" \/ Undefined

\* A promise resolves or rejects, and its reply is deleted, with an engine or
\* without, unless the connection is destroyed (or the program is undefined).
PromisesEnd ==
    \A r \in Replies : reply[r].promise ~>
        \/ (reply[r].told = 1 \/ "connection" \notin creators) /\ ~Exists(r)
        \/ Undefined

\* With an engine, replies the application does not keep are collected, even
\* those that their own handlers refer to (unless the program is undefined).
NothingAccumulates ==
    \A r \in Replies : Exists(r) /\ engine = "alive" ~>
                       ~Exists(r) \/ engine = "gone" \/ Undefined
=============================================================================
