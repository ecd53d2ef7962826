-------------------------- MODULE ProxyProperties ---------------------------
(***************************************************************************)
(* The property cache of one DBusProxy (src/dbus.cpp): introspection, the  *)
(* GetAll that fills the map, the change signals that follow it, re-fetch  *)
(* of invalidated names, and writes, which enter the map before the        *)
(* service has them and queue behind the one in flight.  The proxy may be  *)
(* pointed at another object while all of that is under way.               *)
(*                                                                         *)
(* A target is what service, path, iface and connection name together; the *)
(* object there is external.  Between the proxy and a service runs a FIFO  *)
(* each way, replies and signals in one stream, as on a bus connection.    *)
(*                                                                         *)
(* An operator named X_Y is a faulty variant of X that a run's mutant puts *)
(* in the place of X; no definition uses it.                               *)
(***************************************************************************)
EXTENDS Naturals, Sequences, FiniteSets, SequencesExt, Entries

CONSTANTS Targets,     \* objects the proxy can be pointed at
          Services,    \* what is behind a stream of messages: a connection
          ServiceOf,   \* the connection of each target
          PlaceOf,     \* the service, path and interface of each target
          Props,       \* property names, the same for every target
          Values,      \* property values
          Unsendable,  \* values of the application that cannot be marshalled
          Null,        \* the placeholder of a property that is not read yet
          Nowhere,     \* no target
          MaxInvalidated, \* how many names one signal may invalidate
          WriteKinds,  \* the writes the application makes: optimistic or not
          CrossWrites, \* may a property be written at the new target while a
                       \* write of it to the old one is unanswered?
          Budgets      \* bounds on a run: changes, writes, restarts, switches
                       \* and refusals, in one of these mixes

ASSUME ServicesAssumption == ServiceOf \in [Targets -> Services]
\* Every place can be looked for over every connection.
ASSUME PlacesAssumption ==
    \A t, u \in Targets : \E x \in Targets : PlaceOf[x] = PlaceOf[t] /\ ServiceOf[x] = ServiceOf[u]
ASSUME PropsAssumption == IsFiniteSet(Props)
ASSUME DataAssumption == Targets # {} /\ Values # {}
ASSUME NullAssumption == Null \notin Values /\ Nowhere \notin Targets
ASSUME UnsendableAssumption == Unsendable \cap (Values \cup {Null}) = {}
ASSUME WritesAssumption == WriteKinds \subseteq BOOLEAN /\ CrossWrites \in BOOLEAN
ASSUME BoundsAssumption ==
    /\ MaxInvalidated \in Nat
    /\ Budgets \subseteq [changes : Nat, writes : Nat, restarts : Nat, switches : Nat,
                          refusals : Nat]

VARIABLES target,      \* m_service, m_path, m_iface and m_bus
          signalsOn,   \* m_signalsEnabled
          propertiesOn, \* m_propertiesEnabled
          status,      \* m_status
          queued,      \* m_introspectQueued: a zero timer is set
          introspected, \* m_introspectCache: the targets whose XML is known
          subscribed,  \* m_propertySubscription: the target it listens to
          cache,       \* the property map
          epoch,       \* m_refetchEpoch
          sets,        \* m_pendingSets, by property
          failedSets,  \* m_failedSetRefetch
          requests,    \* calls on their way to each service
          inbox,       \* replies and signals on their way back from it
          server,      \* what each target holds
          budget       \* what is left of the bounds

switches == <<signalsOn, propertiesOn>>
proxy == <<target, switches, status, queued, introspected, subscribed, cache, epoch, sets, failedSets>>
vars == <<proxy, requests, inbox, server, budget>>

-----------------------------------------------------------------------------
(* State.                                                                  *)

\* to: the snapshot of where the record's Sets go; queued: value is newer
\* than what is on the wire.  for: where the proxy pointed when the
\* application wrote value, which the code does not keep.
PendingSet == [inFlight : BOOLEAN, to : Targets \cup {Nowhere}, for : Targets \cup {Nowhere},
               value : Values \cup {Null}, queued : BOOLEAN]
NoSet == [inFlight |-> FALSE, to |-> Nowhere, for |-> Nowhere, value |-> Null, queued |-> FALSE]

TypeOK ==
    /\ target \in Targets
    /\ signalsOn \in BOOLEAN /\ propertiesOn \in BOOLEAN
    /\ status \in {"Null", "Loading", "Ready", "Error"}
    /\ queued \in BOOLEAN
    /\ introspected \subseteq Targets
    /\ subscribed \in Targets \cup {Nowhere}
    /\ cache \in [Props -> Values \cup Unsendable \cup {Null}]
    /\ epoch \in Nat
    /\ sets \in [Props -> PendingSet]
    /\ \A p \in Props : sets[p].inFlight => sets[p].to \in Targets /\ sets[p].value \in Values
    /\ failedSets \subseteq Props
    /\ server \in [Targets -> [Props -> Values]]

Init ==
    /\ target = CHOOSE t \in Targets : TRUE
    /\ signalsOn = TRUE /\ propertiesOn = TRUE
    /\ status = "Null"
    /\ queued = TRUE
    /\ introspected = {}
    /\ subscribed = Nowhere
    /\ cache = [p \in Props |-> Null]
    /\ epoch = 0
    /\ sets = [p \in Props |-> NoSet]
    /\ failedSets = {}
    /\ requests = [s \in Services |-> <<>>]
    /\ inbox = [s \in Services |-> <<>>]
    /\ server = [t \in Targets |-> [p \in Props |-> CHOOSE v \in Values : TRUE]]
    /\ budget \in Budgets

\* A call of kind Introspect, GetAll, Get or Set.  awaited: the proxy still
\* wants the answer.
Request(kind, to, prop, value, ep) ==
    [kind |-> kind, to |-> to, prop |-> prop, value |-> value, epoch |-> ep,
     awaited |-> TRUE, ok |-> TRUE]
NoProp == "-"

Sent(rs, r) == [rs EXCEPT ![ServiceOf[r.to]] = Append(@, r)]

\* The proxy stops waiting for the calls of that kind and property: a call
\* still to be served is not awaited any more, its answer or a signal on the
\* way back is as good as gone.
IsOf(m, kind, prop) == m.kind = kind /\ (kind # "PropertiesChanged" => m.prop = prop)
Unawaited(rs, kind, prop) ==
    [s \in Services |-> [i \in DOMAIN rs[s] |->
        [rs[s][i] EXCEPT !.awaited = @ /\ ~IsOf(rs[s][i], kind, prop)]]]
Without(box, kind, prop) ==
    [s \in Services |-> EntriesAt(box[s], {i \in DOMAIN box[s] : ~IsOf(box[s][i], kind, prop)})]
WithoutSignals(box) == Without(box, "PropertiesChanged", NoProp)

-----------------------------------------------------------------------------
(* Pointing the proxy, and introspection.                                  *)

\* setService, setPath, setIface, setConnection: the subscription is revoked,
\* signals already delivered to it included, and a zero timer set;
\* setConnection also forgets what was introspected, the others put back the
\* placeholders of an interface that the catalog knows.  What else is in
\* flight stays in flight.
ForgetsXmlOrValues ==
    \/ introspected' = {} /\ UNCHANGED cache
    \/ cache' \in {cache, [p \in Props |-> Null]} /\ UNCHANGED introspected
Repoint_KeepsSubscription(t) ==
    /\ budget.restarts > 0
    /\ t # target
    /\ target' = t
    /\ queued' = TRUE
    /\ ForgetsXmlOrValues
    /\ budget' = [budget EXCEPT !.restarts = @ - 1]
    /\ UNCHANGED <<switches, status, subscribed, epoch, sets,
                   failedSets, requests, inbox, server>>
Repoint(t) ==
    /\ budget.restarts > 0
    /\ t # target
    /\ target' = t
    /\ subscribed' = Nowhere
    /\ inbox' = WithoutSignals(inbox)
    /\ queued' = TRUE
    /\ ForgetsXmlOrValues
    /\ budget' = [budget EXCEPT !.restarts = @ - 1]
    /\ UNCHANGED <<switches, status, epoch, sets, failedSets, requests, server>>

\* The service registers its name again: the proxy starts over.
ServiceRegistered ==
    /\ budget.restarts > 0
    /\ queued' = TRUE
    /\ budget' = [budget EXCEPT !.restarts = @ - 1]
    /\ UNCHANGED <<target, switches, status, introspected, subscribed, cache, epoch,
                   sets, failedSets, requests, inbox, server>>

\* onIntrospectionReady: subscribe to the target as it is now, then GetAll; a
\* proxy without properties is ready.
Subscribe(rs) ==
    /\ subscribed' = IF signalsOn THEN target ELSE Nowhere
    /\ \/ propertiesOn /\ UNCHANGED status
          /\ requests' = Sent(rs, Request("GetAll", target, NoProp, Null, 0))
       \/ ~propertiesOn /\ status' = "Ready" /\ requests' = rs

\* setSignalsEnabled: the subscription goes, and with TRUE comes again by way
\* of an introspection.
SetSignalsEnabled ==
    /\ budget.switches > 0
    /\ signalsOn' = ~signalsOn
    /\ subscribed' = Nowhere
    /\ inbox' = WithoutSignals(inbox)
    /\ queued' = (queued \/ signalsOn')
    /\ budget' = [budget EXCEPT !.switches = @ - 1]
    /\ UNCHANGED <<target, propertiesOn, status, introspected, cache, epoch, sets,
                   failedSets, requests, server>>

\* setPropertiesEnabled: TRUE fetches them.
SetPropertiesEnabled ==
    /\ budget.switches > 0
    /\ propertiesOn' = ~propertiesOn
    /\ requests' = IF propertiesOn THEN requests
                   ELSE Sent(requests, Request("GetAll", target, NoProp, Null, 0))
    /\ budget' = [budget EXCEPT !.switches = @ - 1]
    /\ UNCHANGED <<target, signalsOn, status, queued, introspected, subscribed, cache, epoch,
                   sets, failedSets, inbox, server>>

\* doIntrospect, from the zero timer: an earlier introspection is abandoned,
\* and the XML of a known object is used again.
AbandonIntrospection(rs) == Unawaited(rs, "Introspect", NoProp)
WithoutIntrospection(box) == Without(box, "Introspect", NoProp)

IntrospectFromCache ==
    /\ queued
    /\ target \in introspected
    /\ queued' = FALSE
    /\ Subscribe(AbandonIntrospection(requests))
    /\ inbox' = WithoutIntrospection(WithoutSignals(inbox))
    /\ UNCHANGED <<target, switches, introspected, cache, epoch, sets, failedSets, server, budget>>

Introspect ==
    /\ queued
    /\ target \notin introspected
    /\ queued' = FALSE
    /\ status' = "Loading"
    /\ requests' = Sent(AbandonIntrospection(requests),
                       Request("Introspect", target, NoProp, Null, 0))
    /\ inbox' = WithoutIntrospection(inbox)
    /\ UNCHANGED <<target, switches, introspected, subscribed, cache, epoch, sets, failedSets, server,
                   budget>>

DoIntrospect == IntrospectFromCache \/ Introspect

-----------------------------------------------------------------------------
(* Writes.                                                                 *)

\* An overlapping write is folded into the record; else it goes out.
SetSent_Again(rs, p, v) == Sent(rs, Request("Set", target, p, v, 0))
SetSent(rs, p, v) ==
    IF sets[p].inFlight THEN rs ELSE Sent(rs, Request("Set", target, p, v, 0))

SetRecord_NoSnapshot(p, v) ==
    [sets[p] EXCEPT !.inFlight = TRUE, !.value = v, !.for = target, !.queued = sets[p].inFlight]
SetRecord(p, v) ==
    IF sets[p].inFlight THEN [sets[p] EXCEPT !.value = v, !.for = target, !.queued = TRUE]
    ELSE [inFlight |-> TRUE, to |-> target, for |-> target, value |-> v, queued |-> FALSE]

\* updateValue (optimistic: the map has the value at once) or setProperty.
Write(p, v, optimistic) ==
    /\ budget.writes > 0
    /\ CrossWrites \/ ~sets[p].inFlight \/ sets[p].to = target
    /\ requests' = SetSent(requests, p, v)
    /\ sets' = [sets EXCEPT ![p] = SetRecord(p, v)]
    /\ cache' = IF optimistic THEN [cache EXCEPT ![p] = v] ELSE cache
    /\ budget' = [budget EXCEPT !.writes = @ - 1]
    /\ UNCHANGED <<target, switches, status, queued, introspected, subscribed, epoch,
                   failedSets, inbox, server>>

\* updateValue with a value that cannot be sent: the write is dropped, and the
\* map keeps the value.  (Dropped by setProperty, it changes nothing.)
WriteDropped(p, v) ==
    /\ budget.writes > 0
    /\ TRUE \in WriteKinds
    /\ cache' = [cache EXCEPT ![p] = v]
    /\ budget' = [budget EXCEPT !.writes = @ - 1]
    /\ UNCHANGED <<target, switches, status, queued, introspected, subscribed, epoch, sets,
                   failedSets, requests, inbox, server>>

\* refetchInvalidated: a Get for each name in turn, under an epoch of its own.
Refetches(names) ==
    [i \in DOMAIN names |-> Request("Get", target, names[i], Null, epoch + i)]
Refetch(rs, names) ==
    /\ requests' = [rs EXCEPT ![ServiceOf[target]] = @ \o Refetches(names)]
    /\ epoch' = epoch + Len(names)

\* A snapshot has the place, and not the connection, which is the live one.
OverLiveConnection(t) ==
    CHOOSE x \in Targets : PlaceOf[x] = PlaceOf[t] /\ ServiceOf[x] = ServiceOf[target]

\* The answer of the Set of p: finishPendingSet, which sends the write queued
\* behind it, and, when it failed and no write follows, the one re-fetch.
SetFinished_LiveTarget(p, failed, rs) ==
    LET s == sets[p]
        failures == IF failed THEN failedSets \cup {p} ELSE failedSets
    IN
    \/ /\ s.queued
       /\ sets' = [sets EXCEPT ![p].queued = FALSE]
       /\ requests' = Sent(rs, Request("Set", target, p, s.value, 0))
       /\ failedSets' = failures
       /\ UNCHANGED epoch
    \/ /\ ~s.queued /\ ~failed
       /\ sets' = [sets EXCEPT ![p] = NoSet]
       /\ requests' = rs
       /\ UNCHANGED <<epoch, failedSets>>
    \/ /\ ~s.queued /\ failed
       /\ sets' = [sets EXCEPT ![p] = NoSet]
       /\ failedSets' = failures \ {p}
       /\ Refetch(rs, <<p>>)
SetFinished_NoRefetch(p, failed, rs) ==
    LET s == sets[p]
        failures == IF failed THEN failedSets \cup {p} ELSE failedSets
    IN
    \/ /\ s.queued
       /\ sets' = [sets EXCEPT ![p].queued = FALSE]
       /\ requests' = Sent(rs, Request("Set", OverLiveConnection(s.to), p, s.value, 0))
       /\ failedSets' = failures
       /\ UNCHANGED epoch
    \/ /\ ~s.queued /\ ~failed
       /\ sets' = [sets EXCEPT ![p] = NoSet]
       /\ requests' = rs
       /\ UNCHANGED <<epoch, failedSets>>
    \/ /\ ~s.queued /\ failed
       /\ sets' = [sets EXCEPT ![p] = NoSet]
       /\ failedSets' = failures
       /\ requests' = rs
       /\ UNCHANGED epoch
SetFinished(p, failed, rs) ==
    LET s == sets[p]
        failures == IF failed THEN failedSets \cup {p} ELSE failedSets
    IN
    \/ /\ s.queued
       /\ sets' = [sets EXCEPT ![p].queued = FALSE]
       /\ requests' = Sent(rs, Request("Set", OverLiveConnection(s.to), p, s.value, 0))
       /\ failedSets' = failures
       /\ UNCHANGED epoch
    \/ /\ ~s.queued /\ ~failed
       /\ sets' = [sets EXCEPT ![p] = NoSet]
       /\ requests' = rs
       /\ UNCHANGED <<epoch, failedSets>>
    \/ /\ ~s.queued /\ failed
       /\ sets' = [sets EXCEPT ![p] = NoSet]
       /\ failedSets' = failures \ {p}
       /\ Refetch(rs, <<p>>)

\* A handler of propertyWriteFailed writes p again before the re-fetch is
\* considered: it is put off until that write fails too.  (One that is dropped
\* is SetFinished and WriteDropped: it leaves no record.)
WrittenAgain(p, v, optimistic, rs) ==
    /\ ~sets[p].queued
    /\ budget.writes > 0
    /\ sets' = [sets EXCEPT ![p] = [inFlight |-> TRUE, to |-> target, for |-> target,
                                   value |-> v, queued |-> FALSE]]
    /\ requests' = Sent(rs, Request("Set", target, p, v, 0))
    /\ failedSets' = failedSets \cup {p}
    /\ cache' = IF optimistic THEN [cache EXCEPT ![p] = v] ELSE cache
    /\ budget' = [budget EXCEPT !.writes = @ - 1]
    /\ UNCHANGED epoch

SetEnds(p, failed, rs) ==
    /\ \/ SetFinished(p, failed, rs) /\ UNCHANGED <<cache, budget>>
       \/ failed /\ \E v \in Values, optimistic \in WriteKinds :
                        WrittenAgain(p, v, optimistic, rs)
    /\ UNCHANGED <<target, switches, status, queued, introspected, subscribed, server>>

\* callTimeout passes before the answer: the late one is ignored.
SetTimesOut(p) ==
    /\ sets[p].inFlight
    /\ SetEnds(p, TRUE, Unawaited(requests, "Set", p))
    /\ inbox' = Without(inbox, "Set", p)

-----------------------------------------------------------------------------
(* The services (external).  A change is signalled to who listens, as a    *)
(* value or as a name to read again.                                       *)

Answer(r, ok, value) == [r EXCEPT !.ok = ok, !.value = value]
Signal(changed, invalidated) ==
    [kind |-> "PropertiesChanged", changed |-> changed, invalidated |-> invalidated]

\* What the change of t's properties from the values they have says.
Announced(t, changed, invalidated) ==
    IF subscribed = t /\ (changed # <<>> \/ invalidated # <<>>)
    THEN <<Signal(changed, invalidated)>> ELSE <<>>

\* Some properties of t change: one by value, or some by name.
ServerChanges(t, new) ==
    LET ps == {p \in Props : new[p] # server[t][p]} IN
    /\ budget.changes > 0
    /\ ps # {}
    /\ server' = [server EXCEPT ![t] = new]
    /\ \/ /\ Cardinality(ps) = 1
          /\ inbox' = [inbox EXCEPT ![ServiceOf[t]] =
                          @ \o Announced(t, [p \in ps |-> new[p]], <<>>)]
       \/ /\ Cardinality(ps) <= MaxInvalidated
          /\ \E names \in SetToSeqs(ps) :
                inbox' = [inbox EXCEPT ![ServiceOf[t]] = @ \o Announced(t, <<>>, names)]
    /\ budget' = [budget EXCEPT !.changes = @ - 1]
    /\ UNCHANGED <<proxy, requests>>

\* The service serves the next call, or refuses it; a Get it serves.
Serve(s) ==
    LET r == Head(requests[s])
        put(signal, ok, value) ==
            inbox' = [inbox EXCEPT ![s] = @ \o signal \o
                         (IF r.awaited THEN <<Answer(r, ok, value)>> ELSE <<>>)]
    IN
    /\ requests[s] # <<>>
    /\ requests' = [requests EXCEPT ![s] = Tail(@)]
    /\ \/ /\ r.kind = "Introspect"
          /\ put(<<>>, TRUE, Null)
          /\ UNCHANGED <<server, budget>>
       \/ /\ r.kind \in {"Introspect", "GetAll", "Set"}
          /\ budget.refusals > 0
          /\ put(<<>>, FALSE, r.value)
          /\ budget' = [budget EXCEPT !.refusals = @ - 1]
          /\ UNCHANGED server
       \/ /\ r.kind = "GetAll"
          /\ put(<<>>, TRUE, server[r.to])
          /\ UNCHANGED <<server, budget>>
       \/ /\ r.kind = "Get"
          /\ put(<<>>, TRUE, server[r.to][r.prop])
          /\ UNCHANGED <<server, budget>>
       \/ /\ r.kind = "Set"
          /\ server' = [server EXCEPT ![r.to][r.prop] = r.value]
          /\ put(IF server[r.to][r.prop] = r.value THEN <<>>
                 ELSE Announced(r.to, [p \in {r.prop} |-> r.value], <<>>), TRUE, r.value)
          /\ UNCHANGED budget
    /\ UNCHANGED proxy

-----------------------------------------------------------------------------
(* Replies and signals reach the proxy.                                    *)

Take(s, kind) ==
    /\ inbox[s] # <<>>
    /\ Head(inbox[s]).kind = kind

Consume(s) == inbox' = [inbox EXCEPT ![s] = Tail(@)]

\* The answer of the last introspection.  The target may have changed since.
\* Without XML the proxy goes on all the same, unless it is for methods only.
IntrospectReply(s) ==
    LET m == Head(inbox[s]) IN
    /\ Take(s, "Introspect")
    /\ \/ /\ m.ok \/ propertiesOn
          /\ introspected' = introspected \cup (IF m.ok THEN {m.to} ELSE {})
          /\ Subscribe(requests)
          /\ inbox' = WithoutSignals([inbox EXCEPT ![s] = Tail(@)])
       \/ /\ ~m.ok /\ ~propertiesOn
          /\ status' = "Error"
          /\ inbox' = [inbox EXCEPT ![s] = Tail(@)]
          /\ UNCHANGED <<introspected, subscribed, requests>>
    /\ UNCHANGED <<target, switches, queued, cache, epoch, sets, failedSets, server, budget>>

\* GetAll: whatever target it was sent to.
GetAllReply(s) ==
    /\ Take(s, "GetAll")
    /\ \/ Head(inbox[s]).ok /\ cache' = Head(inbox[s]).value /\ status' = "Ready"
       \/ ~Head(inbox[s]).ok /\ status' = "Error" /\ UNCHANGED cache
    /\ Consume(s)
    /\ UNCHANGED <<target, switches, queued, introspected, subscribed, epoch, sets,
                   failedSets, requests, server, budget>>

\* onPropertiesChanged.
OnPropertiesChanged(s) ==
    LET m == Head(inbox[s]) IN
    /\ Take(s, "PropertiesChanged")
    /\ cache' = [p \in Props |-> IF p \in DOMAIN m.changed THEN m.changed[p] ELSE cache[p]]
    /\ Refetch(requests, m.invalidated)
    /\ Consume(s)
    /\ UNCHANGED <<target, switches, status, queued, introspected, subscribed, sets,
                   failedSets, server, budget>>

\* The answer to a re-fetch: dropped when a newer re-fetch was sent or the
\* proxy points elsewhere.
GetReply(s) ==
    LET m == Head(inbox[s]) IN
    /\ Take(s, "Get")
    /\ cache' = IF m.epoch = epoch /\ m.to = target THEN [cache EXCEPT ![m.prop] = m.value]
                ELSE cache
    /\ Consume(s)
    /\ UNCHANGED <<target, switches, status, queued, introspected, subscribed, epoch,
                   sets, failedSets, requests, server, budget>>

SetReply(s) ==
    LET m == Head(inbox[s]) IN
    /\ Take(s, "Set")
    /\ SetEnds(m.prop, ~m.ok, requests)
    /\ Consume(s)

Deliver(s) == \/ IntrospectReply(s) \/ GetAllReply(s) \/ OnPropertiesChanged(s)
              \/ GetReply(s) \/ SetReply(s)

Application == \/ \E t \in Targets : Repoint(t)
               \/ SetSignalsEnabled \/ SetPropertiesEnabled
               \/ \E p \in Props, v \in Values, optimistic \in WriteKinds : Write(p, v, optimistic)
               \/ \E p \in Props, v \in Unsendable : WriteDropped(p, v)

Next == \/ Application
        \/ ServiceRegistered
        \/ DoIntrospect
        \/ \E p \in Props : SetTimesOut(p)
        \/ \E t \in Targets, new \in [Props -> Values] : ServerChanges(t, new)
        \/ \E s \in Services : Serve(s) \/ Deliver(s)

\* The services answer and the event loop turns.
Fairness == /\ WF_vars(DoIntrospect)
            /\ \A s \in Services : WF_vars(Serve(s)) /\ WF_vars(Deliver(s))

Spec == Init /\ [][Next]_vars /\ Fairness

-----------------------------------------------------------------------------
(* Properties.                                                             *)

\* Everything that was asked has been answered and everything said is heard.
Quiet == /\ ~queued
         /\ \A s \in Services : requests[s] = <<>> /\ inbox[s] = <<>>

\* Once all is quiet the proxy is loaded, whatever was abandoned on the way;
\* and, if it is to have the properties and to hear of them, and the target did
\* not refuse GetAll, the map shows what the target holds: no stale reply, no
\* lost change, and no optimistic value that the service does not have.  Only a
\* value that could not be sent stays (README, section 11).
Converges ==
    Quiet => /\ status \in {"Ready", "Error"}
             /\ status = "Ready" /\ signalsOn /\ propertiesOn =>
                    \A p \in Props : cache[p] = server[target][p] \/ cache[p] \in Unsendable

\* The Sets of p on the wire whose answer the proxy waits for.
Wire(s) == requests[s] \o inbox[s]
AwaitedSets(p) ==
    UNION {{<<s, i>> : i \in {k \in DOMAIN Wire(s) :
                LET m == Wire(s)[k] IN m.kind = "Set" /\ m.prop = p /\ m.awaited}} : s \in Services}

\* The record of a write is the write on the wire: there is at most one awaited
\* Set of a property, and exactly one while its record stands.
OneSetOnTheWire ==
    \A p \in Props : Cardinality(AwaitedSets(p)) = IF sets[p].inFlight THEN 1 ELSE 0

\* A write goes to the object the application wrote it to, queued or not,
\* however often the proxy was pointed elsewhere in the meantime.
WritesGoWhereAimed ==
    \A p \in Props : sets[p].inFlight =>
        /\ sets[p].for = sets[p].to
        /\ \A x \in AwaitedSets(p) : Wire(x[1])[x[2]].to = sets[p].for

\* The proxy listens to its target, or it is on the way to: it never waits for
\* an introspection that nobody will answer, nor hears an object it left, nor
\* any while its signals are off.  Only one for methods gives up, in error.
NeverDeaf ==
    \/ signalsOn /\ subscribed = target
    \/ /\ subscribed = Nowhere
       /\ \/ queued \/ ~signalsOn
          \/ status = "Error" /\ ~propertiesOn
          \/ \E s \in Services : \E i \in DOMAIN Wire(s) :
                LET m == Wire(s)[i] IN m.kind = "Introspect" /\ m.awaited

=============================================================================
