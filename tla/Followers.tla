------------------------------ MODULE Followers ------------------------------
(***************************************************************************)
(* The elements that follow something on a bus, one of them at a time:     *)
(*                                                                         *)
(*   ServiceWatcher  DBusServiceWatcher: is the name registered?           *)
(*   Presence        DBusProxy::serviceAvailable, with watchServiceStatus  *)
(*   OwnerTracker    DBusProxy::m_currentOwner, the filter of its signals  *)
(*   ObjectManager   DBusObjectManager: which objects does a service have? *)
(*   SignalWatcher   DBusSignalWatcher: the signals of a filter            *)
(*                                                                         *)
(* Each subscribes to changes, asks for what holds now (the last one does  *)
(* not), and must get both right while it is pointed elsewhere, turned off *)
(* and on, refused an answer, or cut off.  The probes that notice a dead   *)
(* connection, and what a proxy does then, are modelled with the two       *)
(* followers of the proxy.                                                 *)
(*                                                                         *)
(* A peer is who answers and signals: the daemon of a connection, or, for  *)
(* an object manager and a signal watcher, the service.  Messages between  *)
(* the element and a peer stay in order; peers do not wait for each other. *)
(*                                                                         *)
(* An operator named X_Y is a faulty variant of X that a run's mutant puts *)
(* in the place of X; no definition uses it.                               *)
(***************************************************************************)
EXTENDS Naturals, Sequences, FiniteSets, SequencesExt, Entries

CONSTANTS Kinds,    \* the elements to check
          Peers,    \* connections (or services) to point the element at
          Session,  \* the default one: the proxy has no connection object for it
          Names,    \* what can be followed at a peer: a name, a path, a filter
          Nowhere,  \* no name
          Items,    \* owners of a name, objects of a manager, signal contents
          None,     \* no owner, no signal yet
          CrossAnswers,    \* may an object manager turn to another service
                           \* while an answer of the old one is awaited?
          MoveWhilePinged, \* may a proxy leave the default connection while
                           \* a ping of it is unanswered?
          Budgets  \* bounds on a run of each kind: moves of the application,
                   \* changes, refusals and deaths of connections, in one of these mixes

AllKinds == {"ServiceWatcher", "Presence", "OwnerTracker", "ObjectManager", "SignalWatcher"}

ASSUME KindsAssumption == Kinds \subseteq AllKinds
ASSUME PlacesAssumption == Session \in Peers /\ Nowhere \notin Names /\ None \notin Items
ASSUME ItemsAssumption == Items # {}
ASSUME SwitchAssumption == CrossAnswers \in BOOLEAN /\ MoveWhilePinged \in BOOLEAN
ASSUME BudgetsAssumption ==
    \A k \in Kinds :
        Budgets[k] \subseteq [moves : Nat, changes : Nat, refusals : Nat, deaths : Nat]

VARIABLES kind,   \* which of the elements this is
          el,     \* the element
          probe,  \* the loss probes, of the connection objects and of the proxy
          net,    \* messages on their way to and from each peer
          up,     \* is the connection alive?
          truth,  \* what each peer would answer about each name
          budget  \* what is left of the bounds

vars == <<kind, el, probe, net, up, truth, budget>>

-----------------------------------------------------------------------------
(* State.                                                                  *)

Proxy == kind \in {"Presence", "OwnerTracker"}
Answers == IF kind = "ObjectManager" THEN SUBSET Items ELSE Items \cup {None}
Shows == CASE kind \in {"ServiceWatcher", "Presence"} -> BOOLEAN
           [] OTHER -> Answers

\* What an element shows before it knows anything, and when it was cut off.
Nothing == CASE kind \in {"ServiceWatcher", "Presence"} -> FALSE
             [] kind = "ObjectManager" -> {}
             [] OTHER -> None

\* m_watcher, m_serviceWatcher, m_ownerWatcher or m_subscription is the number
\* sub, 0 for none, made for the place at; matched: the peer knows of it.
\* enabled: watchServiceStatus, signalsEnabled or enabled.
\* The last five are not in the code: the last answer to this receiver was an
\* error; the connection died under the element, and how often it was told;
\* signals said and heard since the receiver was made.
Element == [complete : BOOLEAN, enabled : BOOLEAN, peer : Peers, name : Names \cup {Nowhere},
            sub : Nat, serial : Nat, at : Peers \X (Names \cup {Nowhere}), matched : BOOLEAN,
            blocked : BOOLEAN, known : Shows, ready : BOOLEAN,
            failed : BOOLEAN, orphaned : BOOLEAN, told : Nat, said : Nat, heard : Nat]

\* m_connected, m_lossProbe and m_lossRearm of a connection object; and
\* m_sessionDisconnectWatched and the gate timers of the proxy.
Wrapper == [connected : BOOLEAN, probing : BOOLEAN, rearm : BOOLEAN]

TypeOK ==
    /\ kind \in Kinds
    /\ el \in Element
    /\ el.matched => el.sub # 0 /\ el.at = <<el.peer, el.name>>
    /\ el.blocked => kind = "ServiceWatcher" /\ el.sub # 0
    /\ el.sub # 0 => el.enabled /\ el.name # Nowhere /\ el.at = <<el.peer, el.name>>
    /\ probe.wrapper \in [Peers \ {Session} -> Wrapper]
    /\ probe.watched \in BOOLEAN /\ probe.gates \in Nat
    /\ up \in [Peers -> BOOLEAN]
    /\ truth \in [Peers -> [Names -> Answers]]

\* Messages to a peer: a match rule, a question and a ping.
Watch(e) == [kind |-> "Watch", id |-> e.sub, name |-> e.name]
Ask(e) == [kind |-> "Ask", id |-> e.sub, name |-> e.name]
Ping == [kind |-> "Ping", id |-> 0, name |-> Nowhere]

\* And back.
Change(id, from, to) == [kind |-> "Change", id |-> id, from |-> from, to |-> to]
Answer(m, ok, value) == [kind |-> "Answer", id |-> m.id, name |-> m.name, ok |-> ok, value |-> value]
Pong(ok) == [kind |-> "Pong", ok |-> ok]
AnsweredByError(m) == IF m.kind = "Ping" THEN Pong(FALSE) ELSE Answer(m, FALSE, Nothing)
Calls(ms) == EntriesAt(ms, {i \in DOMAIN ms : ms[i].kind # "Watch"})
Errors(ms) == [i \in DOMAIN Calls(ms) |-> AnsweredByError(Calls(ms)[i])]

\* A call over a dead connection is answered with an error at once.
Posted(p, ms) ==
    IF up[p] THEN [net EXCEPT !.out[p] = @ \o ms] ELSE [net EXCEPT !.in[p] = @ \o Errors(ms)]

Init ==
    /\ kind \in Kinds
    /\ \E n \in Names \cup {Nowhere}, b \in BOOLEAN :
          /\ b \/ kind \in {"Presence", "OwnerTracker", "SignalWatcher"}
          /\ kind = "Presence" => ~b \/ n = Nowhere
          /\ el = [complete |-> FALSE, enabled |-> b, peer |-> Session, name |-> n,
                   sub |-> 0, serial |-> 0, at |-> <<Session, Nowhere>>, matched |-> FALSE,
                   blocked |-> FALSE, known |-> Nothing, ready |-> FALSE,
                   failed |-> FALSE, orphaned |-> FALSE, told |-> 0, said |-> 0, heard |-> 0]
    /\ probe = [wrapper |-> [p \in Peers \ {Session} |->
                                [connected |-> TRUE, probing |-> Proxy, rearm |-> FALSE]],
                watched |-> FALSE, gates |-> 0]
    /\ net = [out |-> [p \in Peers |-> IF Proxy /\ p # Session THEN <<Ping>> ELSE <<>>],
              in |-> [p \in Peers |-> <<>>]]
    /\ up = [p \in Peers |-> TRUE]
    /\ truth = [p \in Peers |-> [n \in Names |->
                   IF kind = "ObjectManager" THEN {}
                   ELSE IF kind = "SignalWatcher" \/ p # Session THEN None
                   ELSE CHOOSE i \in Items : TRUE]]
    /\ budget \in Budgets[kind]

-----------------------------------------------------------------------------
(* Receivers.  A receiver belongs to one subscription: what was posted to  *)
(* an earlier one is not for the element any more.                         *)

Subscribed(e) ==
    [e EXCEPT !.serial = @ + 1, !.sub = e.serial + 1, !.at = <<e.peer, e.name>>,
              !.matched = FALSE, !.failed = FALSE, !.said = 0, !.heard = 0]

Unsubscribed(e) == [e EXCEPT !.sub = 0, !.matched = FALSE, !.failed = FALSE, !.said = 0, !.heard = 0]

\* DBusSubscription::create: all hooks or none, and none on a dead connection.
CreateSubscription(e) == IF up[e.peer] THEN Subscribed(e) ELSE Unsubscribed(e)

-----------------------------------------------------------------------------
(* What each element does with its service, its path or its filter as they *)
(* are now.                                                                *)

\* DBusServiceWatcher::setup: a new watcher, then a call that blocks.
ServiceWatcherSetup(e) ==
    IF ~e.complete THEN e
    ELSE IF e.name = Nowhere THEN Unsubscribed(e)
    ELSE [Subscribed(e) EXCEPT !.blocked = TRUE]

\* DBusProxy::ensureServiceWatcher: the watcher is kept when it is one of the
\* same name on the same connection; the question is asked either way.
EnsureServiceWatcher(e) ==
    LET retired == IF ~e.enabled \/ e.name = Nowhere \/ e.at # <<e.peer, e.name>>
                   THEN Unsubscribed(e) ELSE e
    IN
    IF ~e.enabled \/ e.name = Nowhere THEN retired
    ELSE IF retired.sub = 0 THEN Subscribed(retired) ELSE retired

\* DBusProxy::setupOwnerTracker: never two trackers.
TeardownOwnerTracker_KeepsWatcher(e) == [e EXCEPT !.known = None]
TeardownOwnerTracker(e) == [Unsubscribed(e) EXCEPT !.known = None]
SetupOwnerTracker(e) ==
    IF e.name = Nowhere THEN TeardownOwnerTracker(e) ELSE Subscribed(TeardownOwnerTracker(e))

\* DBusObjectManager::setup.
ObjectManagerSetup(e) ==
    IF ~e.complete \/ e.name = Nowhere \/ e.sub # 0 THEN e ELSE CreateSubscription(e)

\* DBusSignalWatcher::resubscribe.
Resubscribe(e) ==
    IF ~e.complete \/ ~e.enabled \/ e.name = Nowhere THEN e ELSE CreateSubscription(Unsubscribed(e))

\* The tracker is set up later, when introspection is done.
Configured(e) ==
    CASE kind = "ServiceWatcher" -> ServiceWatcherSetup(e)
      [] kind = "Presence" -> EnsureServiceWatcher(e)
      [] kind = "OwnerTracker" -> e
      [] kind = "ObjectManager" -> ObjectManagerSetup(e)
      [] kind = "SignalWatcher" -> Resubscribe(e)

\* Does it ask what holds now?
Asks(e) ==
    CASE kind = "ServiceWatcher" -> e.blocked
      [] kind = "Presence" -> e.enabled /\ e.name # Nowhere
      [] kind = "OwnerTracker" -> e.sub # 0
      [] kind = "ObjectManager" -> e.complete /\ e.name # Nowhere
      [] kind = "SignalWatcher" -> FALSE

\* What is dropped before a setter assigns.  A service watcher is replaced in
\* setup; that of a presence too, unless the connection changes.
Dropped(e, connectionChanges) ==
    CASE kind = "ServiceWatcher" -> e
      [] kind = "Presence" -> IF connectionChanges THEN Unsubscribed(e) ELSE e
      [] kind = "OwnerTracker" -> TeardownOwnerTracker(e)
      [] kind = "ObjectManager" -> Unsubscribed(e)
      [] kind = "SignalWatcher" -> Unsubscribed(e)

\* The element becomes e: a match rule is sent for a new receiver, then the
\* question, between the messages before and after.
Subscriptions(e) == IF e.sub \notin {0, el.sub} THEN <<Watch(e)>> ELSE <<>>
Questions(e) == IF Asks(e) THEN <<Ask(e)>> ELSE <<>>
Becomes_AsksFirst(e, before, after) ==
    /\ el' = e
    /\ net' = Posted(e.peer, before \o Questions(e) \o Subscriptions(e) \o after)
Becomes(e, before, after) ==
    /\ el' = e
    /\ net' = Posted(e.peer, before \o Subscriptions(e) \o Questions(e) \o after)

-----------------------------------------------------------------------------
(* Loss probes.  A ping of the daemon fails only when the connection is    *)
(* dead; the next is sent when a gate timer fires.                         *)

\* DBusProxy::ensureSessionDisconnectWatch.
SessionPing(p) == IF Proxy /\ p = Session /\ ~probe.watched THEN <<Ping>> ELSE <<>>
EnsureSessionDisconnectWatch(p) ==
    probe' = [probe EXCEPT !.watched = @ \/ SessionPing(p) # <<>>]

\* DBusProxy::onBusDisconnected.
OnBusDisconnected_KeepsAvailable(e) == [Unsubscribed(e) EXCEPT !.told = @ + 1]
OnBusDisconnected(e) == [Unsubscribed(e) EXCEPT !.known = Nothing, !.told = @ + 1]

Pings(p) == Cardinality({i \in DOMAIN net.out[p] : net.out[p][i].kind = "Ping"})
          + Cardinality({i \in DOMAIN net.in[p] : net.in[p][i].kind = "Pong"})

\* DBusConnection::onPendingCallFinished: disconnected() reaches the proxy
\* that has this connection.
WrapperPong(p, ok) ==
    /\ p # Session
    /\ probe' = [probe EXCEPT !.wrapper[p] =
                    [connected |-> ok, probing |-> FALSE, rearm |-> ok]]
    /\ el' = IF ~ok /\ el.peer = p THEN OnBusDisconnected(el) ELSE el

\* The same for the default connection, in the proxy itself.
SessionPong_Watched(ok) ==
    \/ /\ ~ok
       /\ el' = OnBusDisconnected(el)
       /\ UNCHANGED probe
    \/ /\ ok
       /\ probe' = IF el.peer # Session THEN probe ELSE [probe EXCEPT !.gates = @ + 1]
       /\ UNCHANGED el
SessionPong(ok) ==
    \/ /\ ~ok
       /\ el' = OnBusDisconnected(el)
       /\ UNCHANGED probe
    \/ /\ ok
       /\ probe' = IF el.peer # Session THEN probe
                   ELSE [probe EXCEPT !.watched = FALSE, !.gates = @ + 1]
       /\ UNCHANGED el

PongArrives(p) ==
    /\ net.in[p] # <<>>
    /\ Head(net.in[p]).kind = "Pong"
    /\ \/ WrapperPong(p, Head(net.in[p]).ok)
       \/ p = Session /\ SessionPong(Head(net.in[p]).ok)
    /\ net' = [net EXCEPT !.in[p] = Tail(@)]
    /\ UNCHANGED <<kind, up, truth, budget>>

\* The gate timer of the default connection fires: if the proxy has another
\* one by now, or a ping is out, that is all.
SessionGate ==
    LET ms == IF el.peer = Session THEN SessionPing(Session) ELSE <<>> IN
    /\ probe.gates > 0
    /\ probe' = [probe EXCEPT !.gates = @ - 1, !.watched = @ \/ ms # <<>>]
    /\ net' = Posted(Session, ms)
    /\ UNCHANGED <<kind, el, up, truth, budget>>

\* The gate timer of a connection object fires: armLossProbe.
ArmLossProbe(p) ==
    /\ probe.wrapper[p].rearm
    /\ probe' = [probe EXCEPT !.wrapper[p].rearm = FALSE, !.wrapper[p].probing = TRUE]
    /\ net' = Posted(p, <<Ping>>)
    /\ UNCHANGED <<kind, el, up, truth, budget>>

-----------------------------------------------------------------------------
(* The application.  The blocking call of a service watcher stops it.      *)

Moves == /\ ~el.blocked
         /\ budget.moves > 0
         /\ budget' = [budget EXCEPT !.moves = @ - 1]
         /\ UNCHANGED <<kind, up, truth>>

Awaited(p, kinds) == \E m \in ToSet(net.out[p]) \cup ToSet(net.in[p]) : m.kind \in kinds

\* setConnection; for an object manager setService too.
SetPeer(p) ==
    LET moved == [Dropped(el, TRUE) EXCEPT !.peer = p, !.orphaned = FALSE, !.told = 0] IN
    /\ Moves
    /\ p # el.peer
    /\ kind = "ObjectManager" => CrossAnswers \/ ~Awaited(el.peer, {"Ask", "Answer"})
    /\ Proxy /\ el.peer = Session => MoveWhilePinged \/ ~Awaited(Session, {"Ping", "Pong"})
    /\ Becomes(Configured(moved), SessionPing(p), <<>>)
    /\ EnsureSessionDisconnectWatch(p)

\* setService, setPath, setIface, setMember.
SetName(n) ==
    /\ Moves
    /\ n # el.name
    /\ Becomes(Configured([Dropped(el, FALSE) EXCEPT !.name = n]), <<>>, <<>>)
    /\ UNCHANGED probe

\* setWatchServiceStatus, setSignalsEnabled, setEnabled.
SetEnabled ==
    /\ Moves
    /\ kind \in {"Presence", "OwnerTracker", "SignalWatcher"}
    /\ Becomes(Configured([Dropped(el, FALSE) EXCEPT !.enabled = ~@]), <<>>, <<>>)
    /\ UNCHANGED probe

\* componentComplete.
ComponentComplete ==
    /\ ~el.complete
    /\ Becomes(Configured([el EXCEPT !.complete = TRUE]), <<>>, SessionPing(el.peer))
    /\ EnsureSessionDisconnectWatch(el.peer)
    /\ UNCHANGED <<kind, up, truth, budget>>

\* onIntrospectionReady sets the tracker up, again and again.
Introspected ==
    /\ Moves
    /\ kind = "OwnerTracker" /\ el.complete /\ el.enabled /\ el.name # Nowhere
    /\ Becomes(SetupOwnerTracker(el), <<>>, <<>>)
    /\ UNCHANGED probe

-----------------------------------------------------------------------------
(* What arrives at the element.                                            *)

Arrives(p, k) == ~el.blocked /\ net.in[p] # <<>> /\ Head(net.in[p]).kind = k
Consumed(p) == /\ net' = [net EXCEPT !.in[p] = Tail(@)]
               /\ UNCHANGED <<kind, probe, up, truth, budget>>

\* What the element shows after a change.
\* The handlers of serviceOwnerChanged, of serviceRegistered and
\* serviceUnregistered; of InterfacesAdded and InterfacesRemoved; onSignal.
OwnerChanged(m) == m.to # None
Registered(known, m) ==
    IF m.from = None THEN TRUE ELSE IF m.to = None THEN FALSE ELSE known
InterfacesChanged(known, m) == (known \cup (m.to \ m.from)) \ (m.from \ m.to)
Shown(known, m) ==
    CASE kind = "ServiceWatcher" -> OwnerChanged(m)
      [] kind = "Presence" -> Registered(known, m)
      [] kind = "ObjectManager" -> InterfacesChanged(known, m)
      [] OTHER -> m.to

\* DBusSubscription::deliver; a service watcher that is torn down is
\* disconnected or deleted.
ForThis_Anyone(m) == el.sub # 0
ForThis(m) == el.sub # 0 /\ m.id = el.sub

ChangeArrives(p) ==
    LET m == Head(net.in[p]) IN
    /\ Arrives(p, "Change")
    /\ el' = IF ForThis(m) THEN [el EXCEPT !.known = Shown(@, m), !.heard = @ + 1] ELSE el
    /\ Consumed(p)

\* The answer of a question.  An object manager takes any; the others only
\* that of the watcher they have, for the name they have.
TakesAnswer_AnyWatcher(m) == m.ok
TakesAnswer(m) ==
    /\ m.ok
    /\ \/ kind = "ObjectManager"
       \/ kind = "Presence" /\ ForThis(m) /\ el.enabled /\ m.name = el.name
       \* An unowned name has no owner to report: an error.
       \/ kind = "OwnerTracker" /\ ForThis(m) /\ m.name = el.name /\ m.value # None

AnswerArrives(p) ==
    LET m == Head(net.in[p])
        failed == IF m.id = el.sub THEN ~m.ok ELSE el.failed
    IN
    /\ Arrives(p, "Answer")
    /\ el' = IF ~TakesAnswer(m) THEN [el EXCEPT !.failed = failed]
             ELSE [el EXCEPT !.failed = failed,
                             !.ready = @ \/ kind = "ObjectManager",
                             !.known = IF kind = "Presence" THEN m.value # None ELSE m.value]
    /\ Consumed(p)

\* isServiceRegistered returns; changes that came before stay queued.
BlockingCallReturns ==
    /\ el.blocked
    /\ \E i \in DOMAIN net.in[el.peer] :
          LET m == net.in[el.peer][i] IN
          /\ m.kind = "Answer"
          /\ el' = [el EXCEPT !.blocked = FALSE, !.known = m.ok /\ m.value # None,
                              !.failed = ~m.ok]
          /\ net' = [net EXCEPT !.in[el.peer] = RemoveAt(@, i)]
    /\ UNCHANGED <<kind, probe, up, truth, budget>>

Deliver(p) == ChangeArrives(p) \/ AnswerArrives(p) \/ PongArrives(p)

-----------------------------------------------------------------------------
(* The peers (external).                                                   *)

\* A peer takes the next message; a question it may leave unanswered until
\* the caller gives up.
Serve(p) ==
    LET m == Head(net.out[p])
        reply(r) == net' = [out |-> [net.out EXCEPT ![p] = Tail(@)],
                            in |-> [net.in EXCEPT ![p] = @ \o r]]
    IN
    /\ net.out[p] # <<>>
    /\ \/ /\ m.kind = "Watch"
          /\ reply(<<>>)
          /\ el' = [el EXCEPT !.matched = @ \/ (el.sub # 0 /\ m.id = el.sub)]
          /\ UNCHANGED budget
       \/ /\ m.kind = "Ask"
          /\ reply(<<Answer(m, TRUE, truth[p][m.name])>>)
          /\ UNCHANGED <<el, budget>>
       \/ /\ m.kind = "Ask" /\ budget.refusals > 0
          /\ reply(<<Answer(m, FALSE, Nothing)>>)
          /\ budget' = [budget EXCEPT !.refusals = @ - 1]
          /\ UNCHANGED el
       \/ /\ m.kind = "Ping"
          /\ reply(<<Pong(TRUE)>>)
          /\ UNCHANGED <<el, budget>>
    /\ UNCHANGED <<kind, probe, up, truth>>

Near(old, new) == kind = "ObjectManager" => Cardinality(SymDiff(old, new)) = 1
Changes(p, n, v) ==
    LET watched == el.matched /\ el.at = <<p, n>> IN
    /\ budget.changes > 0
    /\ up[p] /\ v # truth[p][n] /\ Near(truth[p][n], v)
    /\ truth' = [truth EXCEPT ![p][n] = v]
    /\ net' = IF watched THEN [net EXCEPT !.in[p] = Append(@, Change(el.sub, truth[p][n], v))]
              ELSE net
    /\ el' = IF watched THEN [el EXCEPT !.said = @ + 1] ELSE el
    /\ budget' = [budget EXCEPT !.changes = @ - 1]
    /\ UNCHANGED <<kind, probe, up>>

\* The connection dies: calls on their way are answered with an error.
Dies(p) ==
    /\ budget.deaths > 0
    /\ up[p]
    /\ up' = [up EXCEPT ![p] = FALSE]
    /\ net' = [out |-> [net.out EXCEPT ![p] = <<>>],
               in |-> [net.in EXCEPT ![p] = @ \o Errors(net.out[p])]]
    /\ el' = [el EXCEPT !.orphaned = @ \/ el.peer = p]
    /\ budget' = [budget EXCEPT !.deaths = @ - 1]
    /\ UNCHANGED <<kind, probe, truth>>

-----------------------------------------------------------------------------
Application == \/ \E p \in Peers : SetPeer(p)
               \/ \E n \in Names \cup {Nowhere} : SetName(n)
               \/ SetEnabled \/ Introspected

Environment == \E p \in Peers : \/ \E n \in Names, v \in Answers : Changes(p, n, v)
                                \/ Dies(p)

Next == \/ Application \/ Environment \/ ComponentComplete
        \/ BlockingCallReturns \/ SessionGate
        \/ \E p \in Peers : Serve(p) \/ Deliver(p)
        \/ \E p \in Peers \ {Session} : ArmLossProbe(p)

\* QML completes the element, the peers answer, the event loop turns and
\* timers fire.
Fairness == /\ WF_vars(ComponentComplete) /\ WF_vars(BlockingCallReturns) /\ WF_vars(SessionGate)
            /\ \A p \in Peers : WF_vars(Serve(p)) /\ WF_vars(Deliver(p))
            /\ \A p \in Peers \ {Session} : WF_vars(ArmLossProbe(p))

Spec == Init /\ [][Next]_vars /\ Fairness

-----------------------------------------------------------------------------
(* Properties.                                                             *)

\* Every question is answered and every change is heard.
Quiet == ~el.blocked /\ \A p \in Peers : ~Awaited(p, {"Watch", "Ask", "Answer", "Change"})

\* The element is set up to follow its place: complete and enabled, and, for
\* a tracker, introspected.
Following == /\ el.complete /\ el.enabled /\ el.name # Nowhere
             /\ up[el.peer]
             /\ kind = "OwnerTracker" => el.sub # 0

\* At rest an element shows what holds where it points, unless it was refused
\* the answer: however it was moved and toggled, and whatever changed meanwhile.
RightAtRest ==
    Quiet /\ Following /\ ~el.failed /\ kind # "SignalWatcher" =>
        /\ el.known = LET t == truth[el.peer][el.name] IN
                      IF kind \in {"ServiceWatcher", "Presence"} THEN t # None ELSE t
        /\ kind = "ObjectManager" => el.ready

\* A receiver forwards each change its peer sends it, and no other.
ExactlyOnce ==
    /\ el.heard <= el.said
    /\ Quiet /\ Following => el.sub # 0 /\ el.heard = el.said

\* A probe never stops while its connection lives, and never multiplies: a ping
\* is out, or a timer will send it.
ProbeStands ==
    Proxy =>
        /\ \A p \in Peers \ {Session} : LET w == probe.wrapper[p] IN
              Pings(p) + Cardinality({x \in {"r"} : w.rearm}) = IF w.connected THEN 1 ELSE 0
        /\ Pings(Session) <= 1
        /\ el.complete /\ el.peer = Session /\ up[Session] =>
              Pings(Session) = 1 \/ probe.gates > 0

\* A proxy whose connection died under it is told, once, and from then on shows
\* nothing of the service.
LossIsNoticed == <>[](Proxy /\ el.complete /\ el.orphaned => el.told = 1 /\ el.known = Nothing)

=============================================================================
