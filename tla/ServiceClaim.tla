---------------------------- MODULE ServiceClaim ----------------------------
(***************************************************************************)
(* The well-known-name registry of the path dispatcher                     *)
(* (src/dbuspathdispatcher.cpp): one claim record per name, shared by the  *)
(* adaptors of one bus connection, the asynchronous RequestName of a       *)
(* flagged claim, the blocking registration of a plain one, the blocking   *)
(* release at the last detach, and the OwnerChangeRelay that turns changes *)
(* of ownership into nameAcquired / nameLost.                              *)
(*                                                                         *)
(* Everything of the library runs on the main thread: attach and detach by *)
(* the threading contract (src/docs/PARITY.md, "Threading contract"), and  *)
(* owner changes, RequestName replies and relay wakes because they are     *)
(* posted to it.  mainQ is that thread's queue of posted events, up the    *)
(* connection's outgoing socket.  A blocking call holds the main thread    *)
(* (main.op) while the daemon and the other peer go on.                    *)
(*                                                                         *)
(* An operator named X_Y is a faulty variant of X that a run's mutant puts *)
(* in the place of X; no definition uses it.                               *)
(***************************************************************************)
EXTENDS Integers, Sequences, FiniteSets

CONSTANTS Names,            \* well-known names
          Adaptors,         \* adaptor slots: a destroyed one may be created again
          FlagSets,         \* the acquisition flags an adaptor may carry
          MaxToken,         \* bound: no attach once this many tokens were issued
          MaxQueue,         \* bound: the peer pauses while mainQ is this long
          CallsMayTimeOut,  \* may a blocking call give up before its answer?
          LinkMayDrop       \* may the connection to the daemon die?

ASSUME NamesAssumption    == Names # {}
ASSUME AdaptorsAssumption == Adaptors # {}
ASSUME FlagsAssumption    == FlagSets \subseteq [allow : BOOLEAN, replace : BOOLEAN, queue : BOOLEAN]
ASSUME BoundsAssumption   == MaxToken \in Nat /\ MaxQueue \in Nat
ASSUME SwitchAssumption   == CallsMayTimeOut \in BOOLEAN /\ LinkMayDrop \in BOOLEAN

VARIABLES claims,      \* serviceClaims(): the record of each name
          nextToken,   \* nextRequestToken()
          armed,       \* ownerChangeReceivers() holds this connection's receiver
          main,        \* the main thread: idle, or the bus call it is inside
          life,        \* each adaptor slot: free, attaching, attached, unregistered
          heard,       \* what each adaptor was told last of its name
          mainQ,       \* events posted to the main thread
          notes,       \* ownerChangeNotes()
          drainPosted, \* ownerChangeDrainPosted()
          relay,       \* OwnerChangeRelay::event: running, holders still to tell
          up,          \* calls sent and not yet handled by the daemon
          broker,      \* the daemon's record of each name
          link         \* the connection: up, down, or down and reported

claimVars == <<claims, nextToken, armed>>
adaptorVars == <<life, heard>>
relayVars == <<notes, drainPosted, relay>>
busVars == <<up, broker, link>>
vars == <<claims, nextToken, armed, main, life, heard, mainQ, notes, drainPosted,
          relay, up, broker, link>>

Us == "us"
Peer == "peer"
NoOne == "none"
Clients == {Us, Peer}
Flags == [allow : BOOLEAN, replace : BOOLEAN, queue : BOOLEAN]
Plain == [allow |-> FALSE, replace |-> FALSE, queue |-> FALSE]

AnyName == CHOOSE n \in Names : TRUE
AnyAdaptor == CHOOSE a \in Adaptors : TRUE

\* The reply codes of RequestName.
PrimaryOwner == 1
InQueue == 2
Exists == 3
AlreadyOwner == 4

-----------------------------------------------------------------------------
(* The claim record.                                                       *)

Claim == [exists : BOOLEAN, refs : Nat, owned : BOOLEAN, queued : BOOLEAN,
          pending : BOOLEAN, tearingDown : BOOLEAN, notifyQueued : BOOLEAN,
          lastNotifiedOwned : BOOLEAN, requestToken : Nat, lostSinceSend : BOOLEAN,
          requestSent : BOOLEAN, flagged : BOOLEAN, holders : SUBSET Adaptors]

NoClaim == [exists |-> FALSE, refs |-> 0, owned |-> FALSE, queued |-> FALSE,
            pending |-> FALSE, tearingDown |-> FALSE, notifyQueued |-> FALSE,
            lastNotifiedOwned |-> FALSE, requestToken |-> 0, lostSinceSend |-> FALSE,
            requestSent |-> FALSE, flagged |-> FALSE, holders |-> {}]

flaggedForClaim(f) == f.allow \/ f.replace \/ f.queue

\* attach() on a tombstone takes the record over; what it does not reset stays.
Adopted(c) ==
    IF c.tearingDown
    THEN [c EXCEPT !.tearingDown = FALSE, !.refs = 0, !.holders = {}, !.owned = FALSE,
                   !.queued = FALSE, !.pending = FALSE, !.notifyQueued = FALSE,
                   !.lastNotifiedOwned = FALSE]
    ELSE c

\* A further adaptor joins a record that has holders.
Joined(c, a) == [c EXCEPT !.refs = @ + 1, !.holders = @ \cup {a}]

\* The first holder of a record, flagged (token is the id of its RequestName) or plain.
FirstClaim(c, a) ==
    [c EXCEPT !.exists = TRUE, !.refs = 1, !.holders = @ \cup {a},
              !.notifyQueued = FALSE, !.lastNotifiedOwned = FALSE]
FlaggedClaim(c, a, token) ==
    [FirstClaim(c, a) EXCEPT !.requestToken = token, !.lostSinceSend = FALSE,
                             !.flagged = TRUE, !.requestSent = TRUE, !.pending = FALSE]
PlainClaim(c, a) == [FirstClaim(c, a) EXCEPT !.pending = TRUE]

\* detach(): one holder fewer, or the tombstone with a fresh token.
OneHolderFewer_KeepsHolder(c, a) == [c EXCEPT !.refs = @ - 1]
OneHolderFewer(c, a) == [c EXCEPT !.refs = @ - 1, !.holders = @ \ {a}]
Tombstone(c, token) ==
    [c EXCEPT !.refs = 0, !.holders = {}, !.requestToken = token,
              !.owned = FALSE, !.tearingDown = TRUE]
needUnregister_OwnedOnly(c) == c.owned
needUnregister(c) == c.owned \/ c.requestSent

-----------------------------------------------------------------------------
(* The daemon (external): one owner and at most one waiting client a name, *)
(* with the flags each client gave last.                                   *)

BrokerName == [owner : Clients \cup {NoOne}, waiter : Clients \cup {NoOne},
               flags : [Clients -> Flags]]

ReplyCode(b, who, f) ==
    IF b.owner = NoOne THEN PrimaryOwner
    ELSE IF b.owner = who THEN AlreadyOwner
    ELSE IF f.replace /\ b.flags[b.owner].allow THEN PrimaryOwner
    ELSE IF f.queue THEN InQueue
    ELSE Exists

AfterRequest(b, who, f) ==
    LET code == ReplyCode(b, who, f)
        flags == [b.flags EXCEPT ![who] = f]
    IN  CASE code = PrimaryOwner ->
                [owner |-> who, flags |-> flags,
                 waiter |-> IF b.owner # NoOne /\ b.flags[b.owner].queue THEN b.owner ELSE NoOne]
          [] code = AlreadyOwner -> [b EXCEPT !.flags = flags]
          [] code = InQueue      -> [b EXCEPT !.flags = flags, !.waiter = who]
          [] code = Exists       -> [b EXCEPT !.waiter = IF @ = who THEN NoOne ELSE @]

AfterRelease(b, who) ==
    IF b.owner = who THEN [b EXCEPT !.owner = b.waiter, !.waiter = NoOne]
    ELSE IF b.waiter = who THEN [b EXCEPT !.waiter = NoOne]
    ELSE b

-----------------------------------------------------------------------------
(* Events and calls.                                                       *)

OwnerChanged(n, b) == [t |-> "ownerChanged", n |-> n, owner |-> b.owner]
Reply(n, code, token) == [t |-> "reply", n |-> n, code |-> code, token |-> token]
Wake == [t |-> "wake"]
ConnectionLost == [t |-> "lost"]

Event == [t : {"ownerChanged"}, n : Names, owner : Clients \cup {NoOne}]
         \cup [t : {"reply"}, n : Names, code : 1 .. 4, token : Nat]
         \cup {Wake, ConnectionLost}

\* NameOwnerChanged reaches the receiver only once it is armed.
Broadcast(q, n, old, new) ==
    IF armed /\ old.owner # new.owner THEN Append(q, OwnerChanged(n, new)) ELSE q

Call(t, n, f, token) == [t |-> t, n |-> n, f |-> f, token |-> token]
CallSet == [t : {"request", "register", "release"}, n : Names, f : Flags, token : Nat]
Sent(call) == IF link = "up" THEN Append(up, call) ELSE up

Ops == {"idle", "watch", "register", "registered", "release", "released"}
MainState == [op : Ops, n : Names, a : Adaptors, token : Nat, code : 0 .. 4]
Idle == [op |-> "idle", n |-> AnyName, a |-> AnyAdaptor, token |-> 0, code |-> 0]
Inside(op, n, a, token) == [op |-> op, n |-> n, a |-> a, token |-> token, code |-> 0]

RelayState == [on : BOOLEAN, inHandler : BOOLEAN, acquired : BOOLEAN, todo : SUBSET Adaptors]
RelayOff == [on |-> FALSE, inHandler |-> FALSE, acquired |-> FALSE, todo |-> {}]
RelayDraining == [RelayOff EXCEPT !.on = TRUE]

\* What an adaptor has heard after one more notification: a repeated one is
\* "double", a loss without an acquisition before it is "orphan".
Heard == {"none", "acquired", "lost", "double", "orphan"}
AfterHearing(h, kind) ==
    IF h = kind THEN "double"
    ELSE IF h = "none" /\ kind = "lost" THEN "orphan"
    ELSE kind

TypeOK ==
    /\ claims \in [Names -> Claim]
    /\ nextToken \in Nat
    /\ armed \in BOOLEAN
    /\ main \in MainState
    /\ life \in [Adaptors -> {"free", "attaching", "attached", "unregistered"}]
    /\ heard \in [Adaptors -> Heard]
    /\ mainQ \in Seq(Event)
    /\ notes \in SUBSET Names
    /\ drainPosted \in BOOLEAN
    /\ relay \in RelayState
    /\ up \in Seq(CallSet)
    /\ broker \in [Names -> BrokerName]
    /\ link \in {"up", "down", "reported"}

Init ==
    /\ claims = [n \in Names |-> NoClaim]
    /\ nextToken = 0
    /\ armed = FALSE
    /\ main = Idle
    /\ life = [a \in Adaptors |-> "free"]
    /\ heard = [a \in Adaptors |-> "none"]
    /\ mainQ = <<>>
    /\ notes = {}
    /\ drainPosted = FALSE
    /\ relay = RelayOff
    /\ up = <<>>
    /\ broker = [n \in Names |-> [owner |-> NoOne, waiter |-> NoOne,
                                  flags |-> [w \in Clients |-> Plain]]]
    /\ link = "up"

-----------------------------------------------------------------------------
(* attach                                                                  *)

\* QML and C++ code of the application runs between events, and inside the
\* handlers the relay calls; never inside a blocking call.
UserMayRun == main.op = "idle" /\ (relay.on => relay.inHandler)

\* The acquisition was delivered already: no note will tell the joiner.
ToldDirectly_Owned(c) == c.owned
ToldDirectly(c) == c.owned /\ c.lastNotifiedOwned

StartAttach(a) ==
    /\ UserMayRun
    /\ life[a] = "free"
    /\ nextToken < MaxToken

\* A later adaptor joins; when the acquisition was already delivered it is told directly.
AttachJoin(a, n) ==
    LET c == Adopted(claims[n]) IN
    /\ StartAttach(a)
    /\ c.pending \/ c.refs > 0
    /\ claims' = [claims EXCEPT ![n] = Joined(c, a)]
    /\ life' = [life EXCEPT ![a] = "attached"]
    /\ heard' = [heard EXCEPT ![a] =
                    IF ToldDirectly(c) THEN "acquired" ELSE "none"]
    /\ UNCHANGED <<nextToken, armed, main, mainQ, relayVars, busVars>>

\* The first claimant with flags: arm the receiver, then send RequestName.
AttachFlagged(a, n, f) ==
    LET c == Adopted(claims[n])
        token == nextToken + 1
    IN
    /\ StartAttach(a)
    /\ ~(c.pending \/ c.refs > 0)
    /\ flaggedForClaim(f)
    /\ armed' = TRUE
    /\ nextToken' = token
    /\ claims' = [claims EXCEPT ![n] = FlaggedClaim(c, a, token)]
    /\ up' = Sent(Call("request", n, f, token))
    /\ main' = Inside("watch", n, a, token)
    /\ life' = [life EXCEPT ![a] = "attaching"]
    /\ heard' = [heard EXCEPT ![a] = "none"]
    /\ UNCHANGED <<mainQ, relayVars, broker, link>>

WatchReply_Unanswered ==
    /\ main.op = "watch"
    /\ mainQ' = Append(mainQ, Reply(main.n, main.code, main.token))
    /\ life' = [life EXCEPT ![main.a] = "attached"]
    /\ main' = Idle
    /\ UNCHANGED <<claimVars, heard, relayVars, busVars>>

\* The reply watcher of that RequestName now exists: an answer that came
\* before it is posted only here, behind the signals posted meanwhile.
WatchReply ==
    /\ main.op = "watch"
    /\ mainQ' = IF main.code = 0 THEN mainQ
                ELSE Append(mainQ, Reply(main.n, main.code, main.token))
    /\ life' = [life EXCEPT ![main.a] = "attached"]
    /\ main' = Idle
    /\ UNCHANGED <<claimVars, heard, relayVars, busVars>>

\* The first claimant without flags: a pending record, then the blocking registerService.
AttachPlain(a, n) ==
    LET c == Adopted(claims[n]) IN
    /\ StartAttach(a)
    /\ Plain \in FlagSets
    /\ ~(c.pending \/ c.refs > 0)
    /\ claims' = [claims EXCEPT ![n] = PlainClaim(c, a)]
    /\ up' = Sent(Call("register", n, Plain, 0))
    /\ main' = Inside("register", n, a, 0)
    /\ life' = [life EXCEPT ![a] = "attaching"]
    /\ heard' = [heard EXCEPT ![a] = "none"]
    /\ UNCHANGED <<nextToken, armed, mainQ, relayVars, broker, link>>

\* A blocking call fails at once on a dead connection, or gives up on its timeout.
CallFails(op) == main.op = op /\ (link # "up" \/ CallsMayTimeOut)

RegisterReturns ==
    LET ok == main.op = "registered" /\ main.code \in {PrimaryOwner, AlreadyOwner} IN
    /\ main.op = "registered" \/ CallFails("register")
    /\ claims' = [claims EXCEPT ![main.n].pending = FALSE,
                                ![main.n].owned = @ \/ ok,
                                ![main.n].lastNotifiedOwned = @ \/ ok]
    /\ heard' = IF ok THEN [heard EXCEPT ![main.a] = AfterHearing(@, "acquired")] ELSE heard
    /\ life' = [life EXCEPT ![main.a] = "attached"]
    /\ main' = Idle
    /\ UNCHANGED <<nextToken, armed, mainQ, relayVars, busVars>>

-----------------------------------------------------------------------------
(* detach: from unregister() and the engine's teardown, which leave the    *)
(* adaptor alive, or from the destructor, after which no QPointer sees it. *)

Gone(a) == [relay EXCEPT !.todo = @ \ {a}]

Leave(a, after) ==
    /\ UserMayRun
    /\ life[a] = "attached"
    /\ life' = [life EXCEPT ![a] = after]
    /\ relay' = IF after = "free" THEN Gone(a) ELSE relay
    /\ UNCHANGED <<armed, heard, mainQ, notes, drainPosted, broker, link>>

DetachOne(a, n, after) ==
    /\ Leave(a, after)
    /\ claims[n].refs > 1
    /\ claims' = [claims EXCEPT ![n] = OneHolderFewer(@, a)]
    /\ UNCHANGED <<nextToken, main, up>>

\* The last holder leaves: release the name if it is owned or was requested.
\* Otherwise no call is made and the tombstone stays in the registry.
DetachLast(a, n, after) ==
    LET c == claims[n]
        token == nextToken + 1
    IN
    /\ Leave(a, after)
    /\ c.refs <= 1
    /\ nextToken' = token
    /\ claims' = [claims EXCEPT ![n] = Tombstone(c, token)]
    /\ IF needUnregister(c)
       THEN /\ up' = Sent(Call("release", n, Plain, token))
            /\ main' = Inside("release", n, a, token)
       ELSE UNCHANGED <<up, main>>

\* The release answered, failed or timed out: the tombstone goes.
ReleaseReturns ==
    LET c == claims[main.n] IN
    /\ main.op = "released" \/ CallFails("release")
    /\ claims' = [claims EXCEPT ![main.n] =
                     IF c.tearingDown /\ c.refs = 0 THEN NoClaim
                     ELSE IF c.requestToken = main.token THEN [c EXCEPT !.requestSent = FALSE]
                     ELSE c]
    /\ main' = Idle
    /\ UNCHANGED <<nextToken, armed, adaptorVars, mainQ, relayVars, busVars>>

\* An adaptor that was unregistered before is destroyed: nothing to detach.
DestroyUnregistered(a) ==
    /\ UserMayRun
    /\ life[a] = "unregistered"
    /\ life' = [life EXCEPT ![a] = "free"]
    /\ relay' = Gone(a)
    /\ UNCHANGED <<claimVars, main, heard, mainQ, notes, drainPosted, busVars>>

-----------------------------------------------------------------------------
(* Events on the main thread.                                              *)

Dispatching(t) ==
    /\ main.op = "idle"
    /\ ~relay.on
    /\ mainQ # <<>>
    /\ Head(mainQ).t = t

\* postNote: enqueue, and one wake unless one is already on its way.
PostNotes(ns) ==
    IF ns = {}
    THEN /\ mainQ' = Tail(mainQ)
         /\ UNCHANGED <<notes, drainPosted>>
    ELSE /\ notes' = notes \cup ns
         /\ drainPosted' = TRUE
         /\ mainQ' = IF drainPosted THEN Tail(mainQ) ELSE Append(Tail(mainQ), Wake)

\* handleServiceOwnerChange
AfterOwnerChange_NoNotice(c, owner) ==
    CASE c.exists /\ owner = Us /\ ~c.owned -> [c EXCEPT !.owned = TRUE, !.queued = FALSE]
      [] c.exists /\ owner # Us /\ c.owned ->
            [c EXCEPT !.owned = FALSE, !.lostSinceSend = TRUE, !.notifyQueued = TRUE]
      [] OTHER -> c
AfterOwnerChange(c, owner) ==
    CASE c.exists /\ owner = Us /\ ~c.owned ->
            [c EXCEPT !.owned = TRUE, !.queued = FALSE, !.notifyQueued = TRUE]
      [] c.exists /\ owner # Us /\ c.owned ->
            [c EXCEPT !.owned = FALSE, !.lostSinceSend = TRUE, !.notifyQueued = TRUE]
      [] OTHER -> c

HandleOwnerChange ==
    /\ Dispatching("ownerChanged")
    /\ LET e == Head(mainQ)
           c == AfterOwnerChange(claims[e.n], e.owner)
       IN  /\ claims' = [claims EXCEPT ![e.n] = c]
           /\ PostNotes(IF c.owned # claims[e.n].owned THEN {e.n} ELSE {})
    /\ UNCHANGED <<nextToken, armed, main, adaptorVars, relay, busVars>>

\* handleRequestNameReply
StaleReply(c, token) == ~c.exists \/ c.requestToken # token \/ c.refs = 0 \/ c.tearingDown

AfterReply_IgnoresLoss(c, code, token) ==
    IF StaleReply(c, token) THEN c
    ELSE IF code \in {PrimaryOwner, AlreadyOwner} /\ ~c.owned
         THEN [c EXCEPT !.owned = TRUE, !.queued = FALSE, !.notifyQueued = TRUE]
    ELSE IF code = InQueue THEN [c EXCEPT !.queued = TRUE]
    ELSE c

AfterReply(c, code, token) ==
    IF StaleReply(c, token) THEN c
    ELSE IF c.lostSinceSend THEN [c EXCEPT !.lostSinceSend = FALSE]
    ELSE IF code \in {PrimaryOwner, AlreadyOwner} /\ ~c.owned
         THEN [c EXCEPT !.owned = TRUE, !.queued = FALSE, !.notifyQueued = TRUE]
    ELSE IF code = InQueue THEN [c EXCEPT !.queued = TRUE]
    ELSE c

HandleReply ==
    /\ Dispatching("reply")
    /\ LET e == Head(mainQ)
           c == AfterReply(claims[e.n], e.code, e.token)
       IN  /\ claims' = [claims EXCEPT ![e.n] = c]
           /\ PostNotes(IF c.owned # claims[e.n].owned THEN {e.n} ELSE {})
    /\ UNCHANGED <<nextToken, armed, main, adaptorVars, relay, busVars>>

\* handleConnectionLost
HandleConnectionLost ==
    /\ Dispatching("lost")
    /\ LET owned == {n \in Names : claims[n].owned} IN
       /\ claims' = [n \in Names |->
                        IF n \in owned
                        THEN [claims[n] EXCEPT !.owned = FALSE, !.queued = FALSE,
                                               !.requestSent = FALSE, !.notifyQueued = TRUE]
                        ELSE claims[n]]
       /\ PostNotes(owned)
    /\ armed' = FALSE
    /\ UNCHANGED <<nextToken, main, adaptorVars, relay, busVars>>

TakeWake_KeepsFlag ==
    /\ Dispatching("wake")
    /\ mainQ' = Tail(mainQ)
    /\ relay' = RelayDraining
    /\ UNCHANGED <<claimVars, main, adaptorVars, notes, drainPosted, busVars>>

\* OwnerChangeRelay::event starts: the flag resets before the first note is read.
TakeWake ==
    /\ Dispatching("wake")
    /\ mainQ' = Tail(mainQ)
    /\ drainPosted' = FALSE
    /\ relay' = RelayDraining
    /\ UNCHANGED <<claimVars, main, adaptorVars, notes, busVars>>

\* The relay tells only net transitions.
RelayTells_Always(c) == TRUE
RelayTells(c) == c.owned # c.lastNotifiedOwned

\* One note: drop it, or record the transition and copy the holders to tell.
RelayNote(n) ==
    LET c == claims[n] IN
    /\ main.op = "idle"
    /\ relay.on
    /\ relay.todo = {}
    /\ n \in notes
    /\ notes' = notes \ {n}
    /\ IF c.exists /\ c.notifyQueued
       THEN /\ claims' = [claims EXCEPT ![n].notifyQueued = FALSE,
                                        ![n].lastNotifiedOwned = c.owned]
            /\ relay' = [RelayDraining EXCEPT !.acquired = c.owned,
                                              !.todo = IF RelayTells(c) THEN c.holders ELSE {}]
       ELSE /\ relay' = RelayDraining
            /\ UNCHANGED claims
    /\ UNCHANGED <<nextToken, armed, main, adaptorVars, mainQ, drainPosted, busVars>>

\* One holder of the copied list is told; its handler may attach and detach adaptors.
RelayDeliver(a) ==
    /\ main.op = "idle"
    /\ a \in relay.todo
    /\ relay' = [relay EXCEPT !.todo = @ \ {a}, !.inHandler = TRUE]
    /\ heard' = [heard EXCEPT ![a] =
                    AfterHearing(@, IF relay.acquired THEN "acquired" ELSE "lost")]
    /\ UNCHANGED <<claimVars, main, life, mainQ, notes, drainPosted, busVars>>

RelayDone ==
    /\ main.op = "idle"
    /\ relay.on
    /\ relay.todo = {}
    /\ notes = {}
    /\ relay' = RelayOff
    /\ UNCHANGED <<claimVars, main, adaptorVars, mainQ, notes, drainPosted, busVars>>

-----------------------------------------------------------------------------
(* The daemon, the peer, the connection (external).                        *)

\* A blocking call is the last of up, for its sender waits; an older one timed out.
Awaited == Len(up) = 1

ServeRequest ==
    /\ link = "up" /\ up # <<>>
    /\ Head(up).t = "request"
    /\ LET r == Head(up)
           b == AfterRequest(broker[r.n], Us, r.f)
           code == ReplyCode(broker[r.n], Us, r.f)
           q == Broadcast(mainQ, r.n, broker[r.n], b)
       IN  /\ broker' = [broker EXCEPT ![r.n] = b]
           /\ IF main.op = "watch" /\ main.token = r.token
              THEN /\ main' = [main EXCEPT !.code = code]
                   /\ mainQ' = q
              ELSE /\ mainQ' = Append(q, Reply(r.n, code, r.token))
                   /\ UNCHANGED main
    /\ up' = Tail(up)
    /\ UNCHANGED <<claimVars, adaptorVars, relayVars, link>>

ServeRegister ==
    /\ link = "up" /\ up # <<>>
    /\ Head(up).t = "register"
    /\ LET r == Head(up)
           b == AfterRequest(broker[r.n], Us, r.f)
       IN  /\ broker' = [broker EXCEPT ![r.n] = b]
           /\ mainQ' = Broadcast(mainQ, r.n, broker[r.n], b)
           /\ main' = IF main.op = "register" /\ Awaited
                      THEN [main EXCEPT !.op = "registered",
                                        !.code = ReplyCode(broker[r.n], Us, r.f)]
                      ELSE main
    /\ up' = Tail(up)
    /\ UNCHANGED <<claimVars, adaptorVars, relayVars, link>>

ServeRelease ==
    /\ link = "up" /\ up # <<>>
    /\ Head(up).t = "release"
    /\ LET r == Head(up)
           b == AfterRelease(broker[r.n], Us)
       IN  /\ broker' = [broker EXCEPT ![r.n] = b]
           /\ mainQ' = Broadcast(mainQ, r.n, broker[r.n], b)
    /\ main' = IF main.op = "release" /\ Awaited THEN [main EXCEPT !.op = "released"] ELSE main
    /\ up' = Tail(up)
    /\ UNCHANGED <<claimVars, adaptorVars, relayVars, link>>

PeerStep(n, b) ==
    /\ link = "up"
    /\ Len(mainQ) < MaxQueue
    /\ broker' = [broker EXCEPT ![n] = b]
    /\ mainQ' = Broadcast(mainQ, n, broker[n], b)
    /\ UNCHANGED <<claimVars, main, adaptorVars, relayVars, up, link>>

PeerRequests(n, f) == PeerStep(n, AfterRequest(broker[n], Peer, f))
PeerReleases(n) == Peer \in {broker[n].owner, broker[n].waiter} /\ PeerStep(n, AfterRelease(broker[n], Peer))

LinkDrops ==
    /\ LinkMayDrop
    /\ link = "up"
    /\ link' = "down"
    /\ up' = <<>>
    /\ broker' = [n \in Names |-> AfterRelease(broker[n], Us)]
    /\ UNCHANGED <<claimVars, main, adaptorVars, mainQ, relayVars>>

\* The loss probe of the connection's DBusConnection object fails, behind
\* every event of the connection that was posted before.
LossObserved ==
    /\ link = "down"
    /\ link' = "reported"
    /\ mainQ' = Append(mainQ, ConnectionLost)
    /\ UNCHANGED <<claimVars, main, adaptorVars, relayVars, up, broker>>

-----------------------------------------------------------------------------
Attach == \E a \in Adaptors, n \in Names :
             \/ AttachJoin(a, n)
             \/ AttachPlain(a, n)
             \/ \E f \in FlagSets : AttachFlagged(a, n, f)

Detach == \E a \in Adaptors, n \in Names, after \in {"unregistered", "free"} :
             /\ a \in claims[n].holders
             /\ DetachOne(a, n, after) \/ DetachLast(a, n, after)

RelayStep == \/ \E n \in Names : RelayNote(n)
             \/ \E a \in Adaptors : RelayDeliver(a)
             \/ RelayDone

MainStep == \/ WatchReply \/ RegisterReturns \/ ReleaseReturns
            \/ HandleOwnerChange \/ HandleReply \/ HandleConnectionLost \/ TakeWake
            \/ RelayStep

DaemonStep == ServeRequest \/ ServeRegister \/ ServeRelease

PeerActs == \E n \in Names : (\E f \in FlagSets : PeerRequests(n, f)) \/ PeerReleases(n)

Next == \/ Attach \/ Detach \/ \E a \in Adaptors : DestroyUnregistered(a)
        \/ MainStep \/ DaemonStep \/ PeerActs
        \/ LinkDrops \/ LossObserved

Spec == Init /\ [][Next]_vars

\* The main thread's event loop goes on taking what is posted to it, and the
\* daemon answers: nothing is assumed of the application, the peer or the link.
FairSpec == Spec /\ WF_vars(MainStep) /\ WF_vars(DaemonStep)
-----------------------------------------------------------------------------
(* Properties.                                                             *)

\* Nothing is posted, running or on its way.
Settled == /\ main.op = "idle" /\ ~relay.on
           /\ mainQ = <<>> /\ up = <<>>

\* Invariant A5 of the source: a joiner is told directly only of an
\* acquisition that no note will deliver again.
OwnedIsAnnounced ==
    \A n \in Names : claims[n].owned => claims[n].lastNotifiedOwned \/ claims[n].notifyQueued

\* No lost wake-up: a claim that waits for the relay has its note in the
\* mailbox, and a mailbox that holds notes has a wake on its way or is being drained.
NoLostWake ==
    /\ \A n \in Names : claims[n].notifyQueued => n \in notes
    /\ notes # {} => relay.on \/ drainPosted
    /\ drainPosted => \E i \in 1 .. Len(mainQ) : mainQ[i] = Wake

\* refs counts the holders, and the holders are the adaptors attached.
RefsCountHolders ==
    /\ \A n \in Names : claims[n].refs = Cardinality(claims[n].holders)
    /\ \A a \in Adaptors : life[a] \in {"attaching", "attached"}
                              <=> \E n \in Names : a \in claims[n].holders

\* Once all is handled, the registry knows whether the connection owns the
\* name of every claim somebody holds.
OwnershipAgrees ==
    Settled /\ link = "up" =>
        \A n \in Names : claims[n].refs > 0 => (claims[n].owned <=> broker[n].owner = Us)

\* A1: no name stays owned or queued at the daemon that no adaptor holds.
NoGhostOwner ==
    Settled /\ link = "up" =>
        \A n \in Names : claims[n].refs = 0 => Us \notin {broker[n].owner, broker[n].waiter}

\* Once all is handled, every holder was told what the registry knows.
HoldersInformed ==
    Settled => \A n \in Names : \A a \in claims[n].holders :
                   claims[n].owned <=> heard[a] = "acquired"

\* Every holder hears acquisitions and losses in turn, an acquisition first.
ToldInTurn == \A a \in Adaptors : heard[a] \notin {"double", "orphan"}

\* A change of ownership that waits for the relay is told or found to be none:
\* no wake is lost, whatever handlers and blocking calls come in between.
NoticeSettles == \A n \in Names : claims[n].notifyQueued ~> ~claims[n].notifyQueued
=============================================================================
