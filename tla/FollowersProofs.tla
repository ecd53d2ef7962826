--------------------------- MODULE FollowersProofs ---------------------------
(***************************************************************************)
(* Theorems about Followers, for every set of peers, names and items and   *)
(* every bound: type correctness; and, for a proxy that does not leave the *)
(* default connection while a ping of it is unanswered, that a receiver    *)
(* forwards each change once, that the probes of a connection stand, and   *)
(* that an element shows at rest what holds where it points.               *)
(*                                                                         *)
(* The first two count messages that are under way, so the argument is     *)
(* about counts of messages of a kind in the queues (EntriesProofs).  The  *)
(* third speaks of the moments at which nothing is under way, so its       *)
(* invariant says of each message what will hold when it is taken: a       *)
(* chronicle of the truth, kept in the queue of the present receiver,      *)
(* against which the element and every answer are compared.                *)
(***************************************************************************)
EXTENDS Followers, EntriesProofs

-----------------------------------------------------------------------------
(* What is under way.                                                      *)

OutMsg == [kind : {"Watch", "Ask"}, id : Nat, name : Names] \cup {Ping}
InMsg == [kind : {"Change"}, id : Nat, from : Answers, to : Answers]
         \cup [kind : {"Answer"}, id : Nat, name : Names, ok : {TRUE}, value : Answers]
         \cup [kind : {"Answer"}, id : Nat, name : Names, ok : {FALSE}, value : {Nothing}]
         \cup [kind : {"Pong"}, ok : BOOLEAN]
NetOK == net \in [out : [Peers -> Seq(OutMsg)], in : [Peers -> Seq(InMsg)]]

Pongs == [kind : {"Pong"}, ok : BOOLEAN]
Contents == Items \cup {None} \cup SUBSET Items
ChangesFor(k) == [kind : {"Change"}, id : {k}, from : Contents, to : Contents]

\* Pings of p or their answers, failures among them, and changes for receiver k.
PingsAt(p) == CountOf(net.out[p], {Ping}) + CountOf(net.in[p], Pongs)
LossesAt(p) == CountOf(net.in[p], {Pong(FALSE)})
ChangesAt(p, k) == CountOf(net.in[p], ChangesFor(k))

\* The part of TypeOK that is about the element alone, and what it needs.
Sound(e) ==
    /\ e.matched => e.sub # 0 /\ e.at = <<e.peer, e.name>>
    /\ e.blocked => kind = "ServiceWatcher" /\ e.sub # 0
    /\ e.sub # 0 => e.enabled /\ e.name # Nowhere /\ e.at = <<e.peer, e.name>>
    /\ kind \in {"ServiceWatcher", "ObjectManager"} => e.enabled
    /\ ~e.complete /\ kind # "Presence" => e.sub = 0

ProbeType == probe \in [wrapper : [Peers \ {Session} -> Wrapper], watched : BOOLEAN, gates : Nat]
WorldType == /\ up \in [Peers -> BOOLEAN]
             /\ truth \in [Peers -> [Names -> Answers]]
TypeInv == /\ kind \in Kinds
           /\ el \in Element /\ Sound(el)
           /\ ProbeType /\ WorldType /\ NetOK

\* Nothing that a type is made of changes.
LEMMA SameTypes ==
    ASSUME UNCHANGED kind
    PROVE  /\ (Answers' = Answers) /\ (Nothing' = Nothing) /\ (Shows' = Shows)
           /\ (InMsg' = InMsg) /\ (Element' = Element) /\ (Proxy' <=> Proxy)
<1>1. Answers' = Answers /\ Nothing' = Nothing
  BY DEF Answers, Nothing
<1>2. Shows' = Shows
  BY <1>1 DEF Shows
<1> QED BY <1>1, <1>2 DEF InMsg, Element, Proxy

LEMMA NothingIsShown == kind \in Kinds => Nothing \in Shows
BY KindsAssumption DEF AllKinds, Nothing, Shows, Answers

\* The messages of each kind, told by their kind.
LEMMA MessageKinds ==
    /\ \A m \in OutMsg : m.kind \in {"Watch", "Ask", "Ping"} /\ (m.kind = "Ping" <=> m = Ping)
    /\ \A m \in OutMsg : m # Ping => m.id \in Nat /\ m.name \in Names
    /\ \A m \in InMsg : m.kind \in {"Change", "Answer", "Pong"}
    /\ \A m \in InMsg : m.kind = "Pong" <=> m \in Pongs
    /\ \A m \in InMsg : m.kind = "Change" => m.id \in Nat /\ m.from \in Answers /\ m.to \in Answers
    /\ \A m \in InMsg : m.kind = "Answer" => /\ m.id \in Nat /\ m.name \in Names /\ m.ok \in BOOLEAN
                                             /\ m.ok => m.value \in Answers
    /\ \A m \in InMsg : \A k \in Nat : m \in ChangesFor(k) <=> m.kind = "Change" /\ m.id = k
    /\ \A m \in Pongs : m \in InMsg /\ m.ok \in BOOLEAN /\ (~m.ok <=> m = Pong(FALSE))
    /\ Ping \in OutMsg /\ \A b \in BOOLEAN : Pong(b) \in Pongs
<1>1. Ping.kind = "Ping"
  BY DEF Ping
<1>2. \A m \in OutMsg : m.kind \in {"Watch", "Ask", "Ping"} /\ (m.kind = "Ping" <=> m = Ping)
  BY <1>1 DEF OutMsg
<1>3. \A m \in OutMsg : m # Ping => m.id \in Nat /\ m.name \in Names
  BY DEF OutMsg
<1>4. \A m \in InMsg : m.kind \in {"Change", "Answer", "Pong"}
  BY DEF InMsg
<1>5. \A m \in InMsg : m.kind = "Pong" <=> m \in Pongs
  BY DEF InMsg, Pongs
<1>6. \A m \in InMsg : m.kind = "Change" => m.id \in Nat /\ m.from \in Answers /\ m.to \in Answers
  BY DEF InMsg
<1>7. \A m \in InMsg : m.kind = "Answer" => /\ m.id \in Nat /\ m.name \in Names /\ m.ok \in BOOLEAN
                                            /\ m.ok => m.value \in Answers
  BY DEF InMsg
<1>8. \A m \in InMsg : \A k \in Nat : m \in ChangesFor(k) <=> m.kind = "Change" /\ m.id = k
  <2>1. Answers \subseteq Contents
    BY DEF Answers, Contents
  <2> QED BY <2>1 DEF InMsg, ChangesFor
<1>9. ASSUME NEW m \in Pongs PROVE m \in InMsg /\ m.ok \in BOOLEAN /\ (~m.ok <=> m = Pong(FALSE))
  <2>1. m \in InMsg /\ m.ok \in BOOLEAN
    BY DEF Pongs, InMsg
  <2>2. m = [kind |-> "Pong", ok |-> m.ok]
    BY DEF Pongs
  <2>3. CASE m.ok
    BY <2>1, <2>3 DEF Pong
  <2>4. CASE ~m.ok
    <3>1. m.ok = FALSE
      BY <2>1, <2>4
    <3> QED BY <2>1, <2>2, <2>4, <3>1 DEF Pong
  <2> QED BY <2>3, <2>4
<1>10. Ping \in OutMsg /\ \A b \in BOOLEAN : Pong(b) \in Pongs
  BY DEF OutMsg, Pongs, Pong
<1> QED BY <1>2, <1>3, <1>4, <1>5, <1>6, <1>7, <1>8, <1>9, <1>10

-----------------------------------------------------------------------------
(* The counts after a step that changes what is under way with one peer.   *)

LEMMA OnePeer ==
    ASSUME NetOK, UNCHANGED kind, NEW p \in Peers,
           NEW o \in Seq(OutMsg), NEW i \in Seq(InMsg),
           net' = [out |-> [net.out EXCEPT ![p] = o], in |-> [net.in EXCEPT ![p] = i]]
    PROVE  /\ NetOK'
           /\ PingsAt(p)' = CountOf(o, {Ping}) + CountOf(i, Pongs)
           /\ LossesAt(p)' = CountOf(i, {Pong(FALSE)})
           /\ \A k \in Nat : ChangesAt(p, k)' = CountOf(i, ChangesFor(k))
           /\ \A q \in Peers \ {p} : /\ PingsAt(q)' = PingsAt(q) /\ LossesAt(q)' = LossesAt(q)
                                     /\ \A k \in Nat : ChangesAt(q, k)' = ChangesAt(q, k)
<1>1. InMsg' = InMsg
  BY SameTypes
<1>2. net.out \in [Peers -> Seq(OutMsg)] /\ net.in \in [Peers -> Seq(InMsg)]
  BY DEF NetOK
<1>3. net'.out[p] = o /\ net'.in[p] = i
  BY <1>2
<1>4. \A q \in Peers \ {p} : net'.out[q] = net.out[q] /\ net'.in[q] = net.in[q]
  BY <1>2
<1>5. net' \in [out : [Peers -> Seq(OutMsg)], in : [Peers -> Seq(InMsg)]]
  BY <1>2
<1>6. NetOK'
  BY <1>1, <1>5 DEF NetOK
<1>7. /\ PingsAt(p)' = CountOf(o, {Ping}) + CountOf(i, Pongs)
      /\ LossesAt(p)' = CountOf(i, {Pong(FALSE)})
      /\ \A k \in Nat : ChangesAt(p, k)' = CountOf(i, ChangesFor(k))
  BY <1>3 DEF PingsAt, LossesAt, ChangesAt
<1>8. \A q \in Peers \ {p} : /\ PingsAt(q)' = PingsAt(q) /\ LossesAt(q)' = LossesAt(q)
                             /\ \A k \in Nat : ChangesAt(q, k)' = ChangesAt(q, k)
  BY <1>4 DEF PingsAt, LossesAt, ChangesAt
<1> QED BY <1>6, <1>7, <1>8

LEMMA CountsAreNumbers ==
    ASSUME NetOK, NEW p \in Peers
    PROVE  /\ net.out[p] \in Seq(OutMsg) /\ net.in[p] \in Seq(InMsg)
           /\ PingsAt(p) \in Nat /\ LossesAt(p) \in Nat /\ \A k \in Nat : ChangesAt(p, k) \in Nat
           /\ CountOf(net.out[p], {Ping}) \in Nat /\ CountOf(net.in[p], Pongs) \in Nat
<1>1. net.out[p] \in Seq(OutMsg) /\ net.in[p] \in Seq(InMsg)
  BY DEF NetOK
<1>2. CountOf(net.out[p], {Ping}) \in Nat /\ CountOf(net.in[p], Pongs) \in Nat
  BY <1>1, CountType
<1>3. CountOf(net.in[p], {Pong(FALSE)}) \in Nat /\ \A k \in Nat : CountOf(net.in[p], ChangesFor(k)) \in Nat
  BY <1>1, CountType
<1>4. PingsAt(p) \in Nat
  BY <1>2 DEF PingsAt
<1>5. LossesAt(p) \in Nat /\ \A k \in Nat : ChangesAt(p, k) \in Nat
  BY <1>3 DEF LossesAt, ChangesAt
<1> QED BY <1>1, <1>2, <1>4, <1>5

LEMMA CountsNext ==
    ASSUME NetOK', NEW p \in Peers
    PROVE  PingsAt(p)' \in Nat /\ LossesAt(p)' \in Nat /\ \A k \in Nat : ChangesAt(p, k)' \in Nat
<1>1. net'.out[p] \in Seq(OutMsg') /\ net'.in[p] \in Seq(InMsg')
  BY DEF NetOK
<1>2. CountOf(net'.out[p], {Ping}) \in Nat /\ CountOf(net'.in[p], Pongs) \in Nat
  BY <1>1, CountType
<1>3. CountOf(net'.in[p], {Pong(FALSE)}) \in Nat /\ \A k \in Nat : CountOf(net'.in[p], ChangesFor(k)) \in Nat
  BY <1>1, CountType
<1>4. PingsAt(p)' \in Nat
  BY <1>2 DEF PingsAt
<1>5. LossesAt(p)' \in Nat /\ \A k \in Nat : ChangesAt(p, k)' \in Nat
  BY <1>3 DEF LossesAt, ChangesAt
<1> QED BY <1>4, <1>5

\* A dead connection answers each call, and each ping with a failure.
LEMMA ErrorsAnswer ==
    ASSUME NEW ms \in Seq(OutMsg)
    PROVE  /\ Errors(ms) \in Seq(InMsg)
           /\ CountOf(Errors(ms), Pongs) = CountOf(ms, {Ping})
           /\ \A k \in Nat : CountOf(Errors(ms), ChangesFor(k)) = 0
<1> DEFINE hits == {i \in DOMAIN ms : ms[i].kind # "Watch"}
           t == Calls(ms)
           u == Errors(ms)
<1>1. t \in Seq(OutMsg) /\ \E f : Traces(f, t, ms, hits)
  BY EntriesKept DEF Calls
<1>2. PICK f : Traces(f, t, ms, hits)
  BY <1>1
<1>3. DOMAIN u = DOMAIN t /\ \A j \in DOMAIN t : u[j] = AnsweredByError(t[j])
  BY DEF Errors
<1>4. DOMAIN t = 1 .. Len(t) /\ Len(t) \in Nat /\ \A j \in DOMAIN t : t[j] \in OutMsg
  BY <1>1, ElementOfSeq, LenProperties
<1>5. \A j \in DOMAIN t : t[j].kind \in {"Ask", "Ping"}
  BY <1>2, MessageKinds, ElementOfSeq DEF Traces
<1>6. ASSUME NEW j \in DOMAIN t
      PROVE  u[j] \in InMsg /\ (u[j] \in Pongs <=> t[j] \in {Ping}) /\ u[j].kind # "Change"
  <2>1. CASE t[j].kind = "Ping"
    <3>1. u[j] = Pong(FALSE) /\ t[j] = Ping
      BY <1>3, <1>4, <2>1, MessageKinds DEF AnsweredByError
    <3>2. u[j] \in Pongs
      BY <3>1, MessageKinds
    <3>3. u[j] \in InMsg /\ u[j].kind = "Pong"
      BY <3>1, <3>2, MessageKinds DEF Pong
    <3> QED BY <3>1, <3>2, <3>3
  <2>2. CASE t[j].kind = "Ask"
    <3>1. t[j] # Ping /\ t[j].id \in Nat /\ t[j].name \in Names
      BY <1>4, <2>2, MessageKinds
    <3>2. u[j] = [kind |-> "Answer", id |-> t[j].id, name |-> t[j].name, ok |-> FALSE, value |-> Nothing]
      BY <1>3, <2>2 DEF AnsweredByError, Answer
    <3>3. u[j] \in InMsg /\ u[j].kind = "Answer"
      BY <3>1, <3>2 DEF InMsg
    <3> QED BY <3>1, <3>3, MessageKinds
  <2> QED BY <1>5, <2>1, <2>2
<1> HIDE DEF t, u, hits
<1>7. u \in Seq(InMsg)
  <2>1. u = [j \in 1 .. Len(t) |-> AnsweredByError(t[j])]
    BY <1>4 DEF u, Errors, t
  <2>2. u \in [1 .. Len(t) -> InMsg]
    BY <1>4, <1>3, <1>6, <2>1
  <2> QED BY <1>4, <2>2
<1>8. CountOf(u, Pongs) = CountOf(ms, {Ping})
  <2>1. hits \in SUBSET DOMAIN ms
    BY DEF hits
  <2>2. \A i \in DOMAIN ms : ms[i] \in {Ping} => i \in hits
    BY DEF hits, Ping
  <2>3. \A j \in DOMAIN t : u[j] \in Pongs <=> t[j] \in {Ping}
    BY <1>6
  <2>4. DOMAIN t \in SUBSET Nat
    BY <1>4
  <2> QED BY <1>2, <1>3, <2>1, <2>2, <2>3, <2>4, CountTraced
<1>9. ASSUME NEW k \in Nat PROVE CountOf(u, ChangesFor(k)) = 0
  <2>1. \A j \in DOMAIN u : u[j] \notin ChangesFor(k)
    BY <1>3, <1>6, MessageKinds
  <2> QED BY <1>7, <2>1, CountType
<1> QED BY <1>7, <1>8, <1>9 DEF u

\* Posting changes no count but that of the pings, and a living connection
\* loses none.
LEMMA Posting ==
    ASSUME NetOK, WorldType, UNCHANGED kind, NEW p \in Peers, NEW ms \in Seq(OutMsg),
           net' = Posted(p, ms)
    PROVE  /\ NetOK'
           /\ PingsAt(p)' = PingsAt(p) + CountOf(ms, {Ping})
           /\ up[p] => LossesAt(p)' = LossesAt(p)
           /\ \A k \in Nat : ChangesAt(p, k)' = ChangesAt(p, k)
           /\ \A q \in Peers \ {p} : /\ PingsAt(q)' = PingsAt(q) /\ LossesAt(q)' = LossesAt(q)
                                     /\ \A k \in Nat : ChangesAt(q, k)' = ChangesAt(q, k)
<1> DEFINE o == net.out[p]
           i == net.in[p]
<1>1. /\ o \in Seq(OutMsg) /\ i \in Seq(InMsg)
      /\ CountOf(o, {Ping}) \in Nat /\ CountOf(i, Pongs) \in Nat
      /\ \A k \in Nat : ChangesAt(p, k) \in Nat
  BY CountsAreNumbers
<1>2. CountOf(ms, {Ping}) \in Nat
  BY CountType
<1>3. /\ net = [out |-> net.out, in |-> net.in]
      /\ net.out \in [Peers -> Seq(OutMsg)] /\ net.in \in [Peers -> Seq(InMsg)]
  BY DEF NetOK
<1>4. CASE up[p]
  <2>1. net' = [out |-> [net.out EXCEPT ![p] = o \o ms], in |-> net.in]
    BY <1>3, <1>4 DEF Posted
  <2>2. net.in = [net.in EXCEPT ![p] = i]
    BY <1>3
  <2>3. net' = [out |-> [net.out EXCEPT ![p] = o \o ms], in |-> [net.in EXCEPT ![p] = i]]
    BY <2>1, <2>2
  <2>4. o \o ms \in Seq(OutMsg) /\ CountOf(o \o ms, {Ping}) = CountOf(o, {Ping}) + CountOf(ms, {Ping})
    BY <1>1, CountConcat, ConcatProperties
  <2> HIDE DEF o, i
  <2>5. /\ NetOK' /\ PingsAt(p)' = CountOf(o \o ms, {Ping}) + CountOf(i, Pongs)
        /\ LossesAt(p)' = CountOf(i, {Pong(FALSE)})
        /\ \A k \in Nat : ChangesAt(p, k)' = CountOf(i, ChangesFor(k))
        /\ \A q \in Peers \ {p} : /\ PingsAt(q)' = PingsAt(q) /\ LossesAt(q)' = LossesAt(q)
                                  /\ \A k \in Nat : ChangesAt(q, k)' = ChangesAt(q, k)
    BY <1>1, <2>3, <2>4, OnePeer
  <2>6. /\ PingsAt(p) = CountOf(o, {Ping}) + CountOf(i, Pongs) /\ LossesAt(p) = CountOf(i, {Pong(FALSE)})
        /\ \A k \in Nat : ChangesAt(p, k) = CountOf(i, ChangesFor(k))
    BY DEF PingsAt, LossesAt, ChangesAt, o, i
  <2>7. PingsAt(p)' = PingsAt(p) + CountOf(ms, {Ping})
    BY <1>1, <1>2, <2>4, <2>5, <2>6
  <2> QED BY <2>5, <2>6, <2>7
<1>5. CASE ~up[p]
  <2>1. net' = [out |-> net.out, in |-> [net.in EXCEPT ![p] = i \o Errors(ms)]]
    BY <1>3, <1>5 DEF Posted
  <2>2. net.out = [net.out EXCEPT ![p] = o]
    BY <1>3
  <2>3. net' = [out |-> [net.out EXCEPT ![p] = o], in |-> [net.in EXCEPT ![p] = i \o Errors(ms)]]
    BY <2>1, <2>2
  <2>4. /\ Errors(ms) \in Seq(InMsg) /\ CountOf(Errors(ms), Pongs) = CountOf(ms, {Ping})
        /\ \A k \in Nat : CountOf(Errors(ms), ChangesFor(k)) = 0
    BY ErrorsAnswer
  <2> HIDE DEF o, i
  <2>5. /\ i \o Errors(ms) \in Seq(InMsg)
        /\ CountOf(i \o Errors(ms), Pongs) = CountOf(i, Pongs) + CountOf(ms, {Ping})
    BY <1>1, <2>4, CountConcat, ConcatProperties
  <2>6. ASSUME NEW k \in Nat PROVE CountOf(i \o Errors(ms), ChangesFor(k)) = CountOf(i, ChangesFor(k))
    <3>1. CountOf(i \o Errors(ms), ChangesFor(k)) = CountOf(i, ChangesFor(k)) + CountOf(Errors(ms), ChangesFor(k))
      BY <1>1, <2>4, CountConcat
    <3>2. CountOf(i, ChangesFor(k)) \in Nat
      BY <1>1, CountType
    <3> QED BY <2>4, <3>1, <3>2
  <2>7. /\ NetOK' /\ PingsAt(p)' = CountOf(o, {Ping}) + CountOf(i \o Errors(ms), Pongs)
        /\ \A k \in Nat : ChangesAt(p, k)' = CountOf(i \o Errors(ms), ChangesFor(k))
        /\ \A q \in Peers \ {p} : /\ PingsAt(q)' = PingsAt(q) /\ LossesAt(q)' = LossesAt(q)
                                  /\ \A k \in Nat : ChangesAt(q, k)' = ChangesAt(q, k)
    BY <1>1, <2>3, <2>5, OnePeer
  <2>8. /\ PingsAt(p) = CountOf(o, {Ping}) + CountOf(i, Pongs)
        /\ \A k \in Nat : ChangesAt(p, k) = CountOf(i, ChangesFor(k))
    BY DEF PingsAt, ChangesAt, o, i
  <2>9. PingsAt(p)' = PingsAt(p) + CountOf(ms, {Ping})
    BY <1>1, <1>2, <2>5, <2>7, <2>8
  <2> QED BY <1>5, <2>6, <2>7, <2>8, <2>9
<1> QED BY <1>4, <1>5

-----------------------------------------------------------------------------
(* What setting up does to an element: the receiver is given up, replaced  *)
(* by a new one, or kept with its place.                                   *)

Rest(e) == <<e.complete, e.enabled, e.peer, e.name, e.blocked, e.known, e.ready, e.orphaned, e.told>>

LEMMA Subscribing ==
    ASSUME NEW e \in Element
    PROVE  LET s == Subscribed(e) IN
           /\ s \in Element /\ Rest(s) = Rest(e)
           /\ s.sub = e.serial + 1 /\ s.serial = e.serial + 1 /\ s.at = <<e.peer, e.name>>
           /\ ~s.matched /\ s.said = 0 /\ s.heard = 0
<1> DEFINE s == Subscribed(e)
<1>1. e.serial + 1 \in Nat /\ <<e.peer, e.name>> \in Peers \X (Names \cup {Nowhere})
  BY DEF Element
<1>2. s \in Element
  BY <1>1 DEF Subscribed, Element
<1>3. Rest(s) = Rest(e)
  BY DEF Subscribed, Rest, Element
<1>4. /\ s.sub = e.serial + 1 /\ s.serial = e.serial + 1 /\ s.at = <<e.peer, e.name>>
      /\ ~s.matched /\ s.said = 0 /\ s.heard = 0
  BY DEF Subscribed, Element
<1> QED BY <1>2, <1>3, <1>4

LEMMA Unsubscribing ==
    ASSUME NEW e \in Element
    PROVE  LET u == Unsubscribed(e) IN
           /\ u \in Element /\ Rest(u) = Rest(e)
           /\ u.sub = 0 /\ u.serial = e.serial /\ u.at = e.at
           /\ ~u.matched /\ u.said = 0 /\ u.heard = 0
<1> DEFINE u == Unsubscribed(e)
<1>2. u \in Element
  BY DEF Unsubscribed, Element
<1>3. Rest(u) = Rest(e)
  BY DEF Unsubscribed, Rest, Element
<1>4. /\ u.sub = 0 /\ u.serial = e.serial /\ u.at = e.at
      /\ ~u.matched /\ u.said = 0 /\ u.heard = 0
  BY DEF Unsubscribed, Element
<1> QED BY <1>2, <1>3, <1>4

\* What a setter hands to the set-up.
Draft(d) ==
    /\ d \in Element /\ ~d.blocked /\ d.serial = el.serial
    /\ kind \in {"ServiceWatcher", "ObjectManager"} => d.enabled
    /\ kind \in {"OwnerTracker", "ObjectManager", "SignalWatcher"} => d.sub = 0
    /\ kind = "ServiceWatcher" /\ ~d.complete => d.sub = 0
    /\ d.sub = 0 => ~d.matched /\ d.said = 0 /\ d.heard = 0
    /\ kind = "Presence" /\ d.sub # 0 =>
          d.sub = el.sub /\ d.peer = el.peer /\ d.said = el.said /\ d.heard = el.heard

\* What comes out of it.
Settled(e) ==
    /\ e \in Element /\ Sound(e)
    /\ \/ e.sub = 0 /\ e.serial = el.serial /\ e.said = 0 /\ e.heard = 0
       \/ e.sub = el.serial + 1 /\ e.serial = el.serial + 1 /\ e.said = 0 /\ e.heard = 0
       \/ /\ e.sub = el.sub /\ e.serial = el.serial /\ e.peer = el.peer
          /\ e.said = el.said /\ e.heard = el.heard

\* An element that is set up has a receiver, but for a tracker, which waits
\* for the introspection.
HasReceiver(e) ==
    e.complete /\ e.enabled /\ e.name # Nowhere /\ up[e.peer] /\ kind # "OwnerTracker" => e.sub # 0

LEMMA SettingUp ==
    ASSUME kind \in Kinds, el \in Element, NEW d, Draft(d)
    PROVE  LET c == Configured(d) IN
           Settled(c) /\ HasReceiver(c) /\ c.peer = d.peer /\ c.complete = d.complete
<1> DEFINE s == Subscribed(d)
           u == Unsubscribed(d)
           c == Configured(d)
<1>1. d \in Element /\ d.serial = el.serial /\ ~d.blocked /\ el.serial + 1 # 0
  BY DEF Draft, Element
<1>2. /\ s \in Element /\ Rest(s) = Rest(d)
      /\ s.sub = el.serial + 1 /\ s.serial = el.serial + 1 /\ s.at = <<d.peer, d.name>>
      /\ ~s.matched /\ s.said = 0 /\ s.heard = 0
  BY <1>1, Subscribing
<1>3. /\ u \in Element /\ Rest(u) = Rest(d)
      /\ u.sub = 0 /\ u.serial = el.serial
      /\ ~u.matched /\ u.said = 0 /\ u.heard = 0
  BY <1>1, Unsubscribing
<1>4. /\ s.complete = d.complete /\ s.enabled = d.enabled /\ s.peer = d.peer /\ s.name = d.name
      /\ s.blocked = d.blocked
  BY <1>2 DEF Rest
<1>5. /\ u.complete = d.complete /\ u.enabled = d.enabled /\ u.peer = d.peer /\ u.name = d.name
      /\ u.blocked = d.blocked
  BY <1>3 DEF Rest
<1> DEFINE v == Subscribed(u)
<1>6. /\ v \in Element /\ Rest(v) = Rest(u)
      /\ v.sub = el.serial + 1 /\ v.serial = el.serial + 1 /\ v.at = <<u.peer, u.name>>
      /\ ~v.matched /\ v.said = 0 /\ v.heard = 0
  BY <1>3, Subscribing
<1>7. /\ v.complete = d.complete /\ v.enabled = d.enabled /\ v.peer = d.peer /\ v.name = d.name
      /\ v.blocked = d.blocked
  BY <1>5, <1>6 DEF Rest
<1> HIDE DEF s, v
<1>8. ASSUME d.sub = 0, d.enabled \/ kind \notin {"ServiceWatcher", "ObjectManager"}
      PROVE  Settled(d)
  BY <1>1, <1>8 DEF Settled, Sound, Draft
<1>9. ASSUME d.enabled, d.name # Nowhere, d.complete \/ kind = "Presence"
      PROVE  Settled(s) /\ HasReceiver(s)
  BY <1>1, <1>2, <1>4, <1>9 DEF Settled, Sound, HasReceiver
<1>10. ASSUME d.enabled, d.name # Nowhere, d.complete \/ kind = "Presence"
       PROVE  Settled(v) /\ HasReceiver(v)
  BY <1>1, <1>5, <1>6, <1>7, <1>10 DEF Settled, Sound, HasReceiver
<1>11. ASSUME d.enabled \/ kind \notin {"ServiceWatcher", "ObjectManager"}
       PROVE  Settled(u)
  BY <1>1, <1>3, <1>5, <1>11 DEF Settled, Sound
<1>12. CASE kind = "ServiceWatcher"
  <2>1. c = ServiceWatcherSetup(d) /\ d.enabled
    BY <1>12 DEF Configured, Draft
  <2>2. CASE ~d.complete
    BY <1>8, <1>12, <2>1, <2>2 DEF ServiceWatcherSetup, Draft, HasReceiver
  <2>3. CASE d.complete /\ d.name = Nowhere
    BY <1>5, <1>11, <2>1, <2>3 DEF ServiceWatcherSetup, HasReceiver
  <2>4. CASE d.complete /\ d.name # Nowhere
    <3> DEFINE b == [s EXCEPT !.blocked = TRUE]
    <3>1. c = b
      BY <2>1, <2>4 DEF ServiceWatcherSetup, s
    <3>2. b \in Element
      BY <1>2 DEF Element
    <3>3. /\ b.complete = s.complete /\ b.enabled = s.enabled /\ b.peer = s.peer /\ b.name = s.name
          /\ b.sub = s.sub /\ b.serial = s.serial /\ b.at = s.at /\ b.matched = s.matched
          /\ b.said = s.said /\ b.heard = s.heard /\ b.blocked
      BY <1>2 DEF Element
    <3> HIDE DEF b
    <3>4. Sound(b) /\ HasReceiver(b)
      BY <1>1, <1>2, <1>4, <1>12, <2>1, <2>4, <3>3 DEF Sound, HasReceiver
    <3>5. Settled(b)
      BY <1>2, <3>2, <3>3, <3>4 DEF Settled
    <3> QED BY <1>4, <3>1, <3>3, <3>4, <3>5
  <2> QED BY <2>2, <2>3, <2>4
<1>13. CASE kind = "Presence"
  <2>1. c = EnsureServiceWatcher(d)
    BY <1>13 DEF Configured
  <2>2. CASE ~d.enabled \/ d.name = Nowhere
    <3>1. c = u
      BY <2>1, <2>2 DEF EnsureServiceWatcher
    <3> QED BY <1>5, <1>11, <1>13, <2>2, <3>1 DEF HasReceiver
  <2>3. CASE d.enabled /\ d.name # Nowhere /\ d.at # <<d.peer, d.name>>
    <3>1. c = v
      BY <1>3, <2>1, <2>3 DEF EnsureServiceWatcher, v
    <3> QED BY <1>7, <1>10, <1>13, <2>3, <3>1
  <2>4. CASE d.enabled /\ d.name # Nowhere /\ d.at = <<d.peer, d.name>> /\ d.sub = 0
    <3>1. c = s
      BY <2>1, <2>4 DEF EnsureServiceWatcher, s
    <3> QED BY <1>4, <1>9, <1>13, <2>4, <3>1
  <2>5. CASE d.enabled /\ d.name # Nowhere /\ d.at = <<d.peer, d.name>> /\ d.sub # 0
    <3>1. c = d
      BY <2>1, <2>5 DEF EnsureServiceWatcher
    <3>2. Sound(d) /\ HasReceiver(d)
      BY <1>1, <1>13, <2>5 DEF Sound, HasReceiver
    <3>3. Settled(d)
      BY <1>1, <1>13, <2>5, <3>2 DEF Settled, Draft
    <3> QED BY <3>1, <3>2, <3>3
  <2> QED BY <2>2, <2>3, <2>4, <2>5
<1>14. CASE kind = "OwnerTracker"
  <2>1. c = d /\ d.sub = 0
    BY <1>14 DEF Configured, Draft
  <2> QED BY <1>8, <1>14, <2>1 DEF HasReceiver
<1>15. CASE kind = "ObjectManager"
  <2>1. c = ObjectManagerSetup(d) /\ d.sub = 0 /\ d.enabled
    BY <1>15 DEF Configured, Draft
  <2>2. CASE ~d.complete \/ d.name = Nowhere
    <3>1. c = d
      BY <2>1, <2>2 DEF ObjectManagerSetup
    <3> QED BY <1>8, <2>1, <2>2, <3>1 DEF HasReceiver
  <2>3. CASE d.complete /\ d.name # Nowhere /\ up[d.peer]
    <3>1. c = s
      BY <2>1, <2>3 DEF ObjectManagerSetup, CreateSubscription, s
    <3> QED BY <1>4, <1>9, <2>1, <2>3, <3>1
  <2>4. CASE d.complete /\ d.name # Nowhere /\ ~up[d.peer]
    <3>1. c = u
      BY <2>1, <2>4 DEF ObjectManagerSetup, CreateSubscription
    <3> QED BY <1>5, <1>11, <2>1, <2>4, <3>1 DEF HasReceiver
  <2> QED BY <2>2, <2>3, <2>4
<1>16. CASE kind = "SignalWatcher"
  <2>1. c = Resubscribe(d) /\ d.sub = 0
    BY <1>16 DEF Configured, Draft
  <2>2. CASE ~d.complete \/ ~d.enabled \/ d.name = Nowhere
    <3>1. c = d
      BY <2>1, <2>2 DEF Resubscribe
    <3> QED BY <1>8, <1>16, <2>1, <2>2, <3>1 DEF HasReceiver
  <2>3. CASE d.complete /\ d.enabled /\ d.name # Nowhere /\ up[d.peer]
    <3>1. c = v
      BY <1>5, <2>1, <2>3 DEF Resubscribe, CreateSubscription, v
    <3> QED BY <1>7, <1>10, <2>3, <3>1
  <2>4. CASE d.complete /\ d.enabled /\ d.name # Nowhere /\ ~up[d.peer]
    <3> DEFINE w == Unsubscribed(u)
    <3>1. c = w
      BY <1>5, <2>1, <2>4 DEF Resubscribe, CreateSubscription
    <3>2. /\ w \in Element /\ Rest(w) = Rest(u) /\ w.sub = 0 /\ w.serial = el.serial
          /\ ~w.matched /\ w.said = 0 /\ w.heard = 0
      BY <1>3, Unsubscribing
    <3>3. /\ w.complete = d.complete /\ w.enabled = d.enabled /\ w.peer = d.peer /\ w.name = d.name
          /\ w.blocked = d.blocked
      BY <1>5, <3>2 DEF Rest
    <3> HIDE DEF w
    <3>4. Settled(w) /\ HasReceiver(w)
      BY <1>1, <1>16, <2>4, <3>2, <3>3 DEF Settled, Sound, HasReceiver
    <3> QED BY <3>1, <3>3, <3>4
  <2> QED BY <2>2, <2>3, <2>4
<1> QED BY <1>12, <1>13, <1>14, <1>15, <1>16, KindsAssumption DEF AllKinds

-----------------------------------------------------------------------------
(* The inductive invariant.                                                *)

\* What a receiver was sent and has not forwarded is under way, from its peer;
\* no change is under way for a receiver that is yet to be made.
HeardInv ==
    /\ el.sub <= el.serial
    /\ el.heard <= el.said
    /\ el.sub = 0 => el.said = 0
    /\ \A p \in Peers, k \in Nat :
          /\ k > el.serial => ChangesAt(p, k) = 0
          /\ k = el.sub /\ k # 0 => ChangesAt(p, k) = IF p = el.peer THEN el.said - el.heard ELSE 0

Hooked == el.complete /\ el.enabled /\ el.name # Nowhere /\ up[el.peer] /\ kind # "OwnerTracker" => el.sub # 0

\* Only a proxy is probed.
QuietProbes ==
    ~Proxy => /\ \A p \in Peers : PingsAt(p) = 0
              /\ \A p \in Peers \ {Session} : ~probe.wrapper[p].rearm

\* A connection object has one ping out, or the timer of the next running.
Rearm(p) == IF probe.wrapper[p].rearm THEN 1 ELSE 0
WrapperProbes ==
    Proxy => \A p \in Peers \ {Session} :
                PingsAt(p) + Rearm(p) = IF probe.wrapper[p].connected THEN 1 ELSE 0

LossesInv == \A p \in Peers : up[p] => LossesAt(p) = 0

\* The same for the default connection, of which the proxy keeps its own book.
SessionProbes ==
    Proxy =>
        /\ PingsAt(Session) <= 1
        /\ PingsAt(Session) = 1 => probe.watched /\ el.peer = Session
        /\ probe.watched /\ up[Session] => PingsAt(Session) = 1
        /\ el.complete /\ el.peer = Session /\ up[Session] => probe.watched \/ probe.gates > 0

IInv ==
    /\ TypeInv /\ HeardInv /\ QuietProbes /\ WrapperProbes /\ LossesInv
    /\ ~MoveWhilePinged => SessionProbes /\ Hooked

\* What the element asks, it asks about a name.
LEMMA QuestionsAreNamed ==
    ASSUME kind \in Kinds, NEW e \in Element, Sound(e)
    PROVE  Subscriptions(e) \in Seq(OutMsg) /\ Questions(e) \in Seq(OutMsg)
           /\ CountOf(Subscriptions(e), {Ping}) = 0 /\ CountOf(Questions(e), {Ping}) = 0
<1>1. e.sub \in Nat /\ e.name \in Names \cup {Nowhere}
  BY DEF Element
<1>2. e.sub # 0 => e.name \in Names
  BY <1>1 DEF Sound
<1>3. Asks(e) => e.name \in Names
  BY <1>1, <1>2, KindsAssumption DEF Asks, Sound, AllKinds
<1>4. ASSUME e.name \in Names
      PROVE  /\ <<Watch(e)>> \in Seq(OutMsg) /\ <<Ask(e)>> \in Seq(OutMsg)
             /\ CountOf(<<Watch(e)>>, {Ping}) = 0 /\ CountOf(<<Ask(e)>>, {Ping}) = 0
  <2>1. Watch(e) \in OutMsg /\ Ask(e) \in OutMsg
    BY <1>1, <1>4 DEF Watch, Ask, OutMsg
  <2>2. Watch(e).kind # Ping.kind /\ Ask(e).kind # Ping.kind
    BY DEF Watch, Ask, Ping
  <2>3. Watch(e) \notin {Ping} /\ Ask(e) \notin {Ping}
    BY <2>2
  <2>4. CountOf(<<Watch(e)>>, {Ping}) = 0
    BY <2>3, CountOne
  <2>5. CountOf(<<Ask(e)>>, {Ping}) = 0
    BY <2>3, CountOne
  <2> QED BY <2>1, <2>4, <2>5
<1>5. <<>> \in Seq(OutMsg) /\ CountOf(<<>>, {Ping}) = 0
  BY CountNone
<1>6. Subscriptions(e) \in Seq(OutMsg) /\ CountOf(Subscriptions(e), {Ping}) = 0
  BY <1>2, <1>4, <1>5 DEF Subscriptions
<1>7. Questions(e) \in Seq(OutMsg) /\ CountOf(Questions(e), {Ping}) = 0
  BY <1>3, <1>4, <1>5 DEF Questions
<1> QED BY <1>6, <1>7

\* The messages of a move, of which only what stands before and after can be
\* a ping.
LEMMA MoveMessages ==
    ASSUME kind \in Kinds, NEW e \in Element, Sound(e),
           NEW b \in {<<>>, <<Ping>>}, NEW a \in {<<>>, <<Ping>>}
    PROVE  LET ms == b \o Subscriptions(e) \o Questions(e) \o a IN
           ms \in Seq(OutMsg) /\ CountOf(ms, {Ping}) = CountOf(b, {Ping}) + CountOf(a, {Ping})
<1> DEFINE s == Subscriptions(e)
           q == Questions(e)
<1>1. /\ s \in Seq(OutMsg) /\ q \in Seq(OutMsg)
      /\ CountOf(s, {Ping}) = 0 /\ CountOf(q, {Ping}) = 0
  BY QuestionsAreNamed
<1>2. b \in Seq(OutMsg) /\ a \in Seq(OutMsg)
  <2>1. <<>> \in Seq(OutMsg) /\ <<Ping>> \in Seq(OutMsg)
    BY MessageKinds
  <2> QED BY <2>1
<1> HIDE DEF s, q
<1> DEFINE bs == b \o s
           bsq == bs \o q
<1>3. bs \in Seq(OutMsg) /\ CountOf(bs, {Ping}) = CountOf(b, {Ping}) + CountOf(s, {Ping})
  BY <1>1, <1>2, CountConcat, ConcatProperties
<1> HIDE DEF bs
<1>4. bsq \in Seq(OutMsg) /\ CountOf(bsq, {Ping}) = CountOf(bs, {Ping}) + CountOf(q, {Ping})
  BY <1>1, <1>3, CountConcat, ConcatProperties
<1> HIDE DEF bsq
<1>5. bsq \o a \in Seq(OutMsg) /\ CountOf(bsq \o a, {Ping}) = CountOf(bsq, {Ping}) + CountOf(a, {Ping})
  BY <1>2, <1>4, CountConcat, ConcatProperties
<1>6. CountOf(b, {Ping}) \in Nat /\ CountOf(a, {Ping}) \in Nat
  BY <1>2, CountType
<1>7. CountOf(bsq \o a, {Ping}) = CountOf(b, {Ping}) + CountOf(a, {Ping})
  BY <1>1, <1>3, <1>4, <1>5, <1>6
<1> QED BY <1>5, <1>7 DEF s, q, bs, bsq

\* What the counts of HeardInv are of, when no change is lost or made.
LEMMA SettledHeard ==
    ASSUME TypeInv, HeardInv, NEW e, Settled(e), el' = e,
           \A p \in Peers : \A k \in Nat : ChangesAt(p, k)' = ChangesAt(p, k)
    PROVE  HeardInv'
<1>1. /\ e.sub \in Nat /\ e.serial \in Nat /\ e.said \in Nat /\ e.heard \in Nat /\ e.peer \in Peers
      /\ el.sub \in Nat /\ el.serial \in Nat /\ el.said \in Nat /\ el.heard \in Nat
  BY DEF Settled, TypeInv, Element
<1>2. e.sub <= e.serial /\ e.heard <= e.said /\ (e.sub = 0 => e.said = 0) /\ el.serial <= e.serial
  BY <1>1 DEF Settled, HeardInv
<1>3. ASSUME NEW p \in Peers, NEW k \in Nat
      PROVE  /\ k > e.serial => ChangesAt(p, k)' = 0
             /\ k = e.sub /\ k # 0 => ChangesAt(p, k)' = IF p = e.peer THEN e.said - e.heard ELSE 0
  <2>1. /\ k > el.serial => ChangesAt(p, k)' = 0
        /\ k = el.sub /\ k # 0 => ChangesAt(p, k)' = IF p = el.peer THEN el.said - el.heard ELSE 0
    BY DEF HeardInv
  <2>2. k > e.serial => ChangesAt(p, k)' = 0
    BY <1>1, <1>2, <2>1
  <2>3. ASSUME k = e.sub, k # 0
        PROVE  ChangesAt(p, k)' = IF p = e.peer THEN e.said - e.heard ELSE 0
    <3>1. CASE e.sub = el.serial + 1 /\ e.said = 0 /\ e.heard = 0
      BY <1>1, <2>1, <2>3, <3>1
    <3>2. CASE e.sub = el.sub /\ e.peer = el.peer /\ e.said = el.said /\ e.heard = el.heard
      BY <2>1, <2>3, <3>2
    <3> QED BY <2>3, <3>1, <3>2 DEF Settled
  <2> QED BY <2>2, <2>3
<1> QED BY <1>2, <1>3 DEF HeardInv

\* Every move of the application keeps the invariant: an element that keeps its
\* connection and pings nothing, or one that looks after the ping of the
\* default connection.
LEMMA MoveKeeps ==
    ASSUME IInv, UNCHANGED <<kind, up, truth>>,
           NEW e, Settled(e), HasReceiver(e),
           NEW b \in {<<>>, <<Ping>>}, NEW a \in {<<>>, <<Ping>>}, Becomes(e, b, a),
           \/ /\ b = <<>> /\ a = <<>> /\ UNCHANGED probe
              /\ e.peer = el.peer /\ e.complete = el.complete
           \/ /\ (b = <<>> /\ a = SessionPing(e.peer)) \/ (b = SessionPing(e.peer) /\ a = <<>>)
              /\ EnsureSessionDisconnectWatch(e.peer)
              /\ Proxy /\ ~MoveWhilePinged /\ el.peer = Session /\ e.peer # Session =>
                    PingsAt(Session) = 0
    PROVE  IInv'
<1> DEFINE ms == b \o Subscriptions(e) \o Questions(e) \o a
           c == CountOf(b, {Ping}) + CountOf(a, {Ping})
<1>1. /\ kind \in Kinds /\ el \in Element /\ ProbeType /\ WorldType /\ NetOK
      /\ e \in Element /\ Sound(e) /\ e.peer \in Peers /\ Session \in Peers
  BY PlacesAssumption DEF IInv, TypeInv, Settled, Element
<1>2. kind' = kind /\ up' = up /\ truth' = truth /\ el' = e /\ net' = Posted(e.peer, ms)
  BY DEF Becomes
<1>3. ms \in Seq(OutMsg) /\ CountOf(ms, {Ping}) = c
  BY <1>1, MoveMessages
<1> HIDE DEF ms
<1>4. /\ NetOK'
      /\ PingsAt(e.peer)' = PingsAt(e.peer) + c
      /\ up[e.peer] => LossesAt(e.peer)' = LossesAt(e.peer)
      /\ \A k \in Nat : ChangesAt(e.peer, k)' = ChangesAt(e.peer, k)
      /\ \A q \in Peers \ {e.peer} : /\ PingsAt(q)' = PingsAt(q) /\ LossesAt(q)' = LossesAt(q)
                                     /\ \A k \in Nat : ChangesAt(q, k)' = ChangesAt(q, k)
  BY <1>1, <1>2, <1>3, Posting
<1>5. /\ Element' = Element /\ Answers' = Answers /\ (Proxy' <=> Proxy)
  BY <1>2, SameTypes
<1>6. CountOf(<<>>, {Ping}) = 0 /\ CountOf(<<Ping>>, {Ping}) = 1 /\ <<Ping>> # <<>>
  <2>1. CountOf(<<Ping>>, {Ping}) = 1
    BY CountOne
  <2> QED BY <2>1, CountNone
<1>7. \A q \in Peers : PingsAt(q) \in Nat
  BY <1>1, CountsAreNumbers
<1>8. probe'.wrapper = probe.wrapper /\ ProbeType' /\ probe'.gates = probe.gates
  BY <1>1 DEF ProbeType, EnsureSessionDisconnectWatch
\* A ping goes out, for the default connection, or none does.
<1>9. \/ /\ Proxy /\ e.peer = Session /\ ~probe.watched /\ c = 1 /\ probe'.watched
      \/ /\ c = 0 /\ (probe'.watched <=> probe.watched)
         /\ Proxy /\ e.peer = Session => probe.watched \/ (e.peer = el.peer /\ e.complete = el.complete)
         /\ Proxy /\ ~MoveWhilePinged /\ el.peer = Session /\ e.peer # Session => PingsAt(Session) = 0
  <2>1. CASE b = <<>> /\ a = <<>> /\ UNCHANGED probe /\ e.peer = el.peer /\ e.complete = el.complete
    BY <1>6, <2>1
  <2>2. CASE /\ (b = <<>> /\ a = SessionPing(e.peer)) \/ (b = SessionPing(e.peer) /\ a = <<>>)
             /\ EnsureSessionDisconnectWatch(e.peer)
             /\ Proxy /\ ~MoveWhilePinged /\ el.peer = Session /\ e.peer # Session =>
                   PingsAt(Session) = 0
    <3>1. probe'.watched <=> probe.watched \/ SessionPing(e.peer) # <<>>
      BY <1>1, <2>2 DEF ProbeType, EnsureSessionDisconnectWatch
    <3>2. CASE Proxy /\ e.peer = Session /\ ~probe.watched
      <4>1. SessionPing(e.peer) = <<Ping>>
        BY <3>2 DEF SessionPing
      <4> QED BY <1>6, <2>2, <3>1, <3>2, <4>1
    <3>3. CASE ~(Proxy /\ e.peer = Session /\ ~probe.watched)
      <4>1. SessionPing(e.peer) = <<>>
        BY <3>3 DEF SessionPing
      <4>2. c = 0
        BY <1>6, <2>2, <4>1
      <4>3. probe'.watched <=> probe.watched
        BY <3>1, <4>1
      <4> QED BY <2>2, <3>3, <4>2, <4>3
    <3> QED BY <3>2, <3>3
  <2> QED BY <2>1, <2>2
<1> HIDE DEF c
<1>10. /\ \A q \in Peers \ {Session} : PingsAt(q)' = PingsAt(q)
       /\ PingsAt(Session)' = PingsAt(Session) + IF e.peer = Session THEN c ELSE 0
       /\ c \in Nat
  BY <1>1, <1>4, <1>7, <1>9
<1>11. QuietProbes'
  BY <1>1, <1>5, <1>7, <1>8, <1>9, <1>10 DEF IInv, QuietProbes
<1>12. WrapperProbes'
  BY <1>5, <1>8, <1>10 DEF IInv, WrapperProbes, Rearm
<1>13. LossesInv'
  BY <1>1, <1>2, <1>4 DEF IInv, LossesInv
<1>14. ASSUME ~MoveWhilePinged PROVE SessionProbes'
  <2>1. SUFFICES ASSUME Proxy
                 PROVE  /\ PingsAt(Session)' <= 1
                        /\ PingsAt(Session)' = 1 => probe'.watched /\ e.peer = Session
                        /\ probe'.watched /\ up[Session] => PingsAt(Session)' = 1
                        /\ e.complete /\ e.peer = Session /\ up[Session] => probe'.watched \/ probe'.gates > 0
    BY <1>2, <1>5 DEF SessionProbes
  <2>2. /\ PingsAt(Session) <= 1
        /\ PingsAt(Session) = 1 => probe.watched /\ el.peer = Session
        /\ probe.watched /\ up[Session] => PingsAt(Session) = 1
        /\ el.complete /\ el.peer = Session /\ up[Session] => probe.watched \/ probe.gates > 0
    BY <1>14, <2>1 DEF IInv, SessionProbes
  <2>3. PingsAt(Session) \in Nat
    BY <1>1, <1>7
  <2>4. CASE Proxy /\ e.peer = Session /\ ~probe.watched /\ c = 1 /\ probe'.watched
    <3>1. PingsAt(Session) = 0
      BY <2>2, <2>3, <2>4
    <3>2. PingsAt(Session)' = 1
      BY <1>10, <2>4, <3>1
    <3> QED BY <2>4, <3>2
  <2>5. CASE /\ c = 0 /\ (probe'.watched <=> probe.watched)
             /\ Proxy /\ e.peer = Session => probe.watched \/ (e.peer = el.peer /\ e.complete = el.complete)
             /\ Proxy /\ ~MoveWhilePinged /\ el.peer = Session /\ e.peer # Session => PingsAt(Session) = 0
    <3>1. PingsAt(Session)' = PingsAt(Session)
      BY <1>10, <2>3, <2>5
    <3>2. PingsAt(Session) = 1 => e.peer = Session
      BY <1>14, <2>1, <2>2, <2>5
    <3>3. e.complete /\ e.peer = Session /\ up[Session] => probe'.watched \/ probe'.gates > 0
      BY <1>8, <2>1, <2>2, <2>5
    <3> QED BY <2>2, <2>5, <3>1, <3>2, <3>3
  <2> QED BY <1>9, <2>4, <2>5
<1>15. HeardInv'
  <2>1. \A p \in Peers : \A k \in Nat : ChangesAt(p, k)' = ChangesAt(p, k)
    BY <1>4
  <2>2. TypeInv /\ HeardInv /\ Settled(e) /\ el' = e
    BY <1>2 DEF IInv
  <2> QED BY <2>1, <2>2, SettledHeard
<1>16. Hooked'
  BY <1>2 DEF HasReceiver, Hooked
<1>17. TypeInv'
  <2>1. Sound(el)' /\ WorldType'
    BY <1>1, <1>2, <1>5 DEF Sound, WorldType
  <2> QED BY <1>1, <1>2, <1>4, <1>5, <1>8, <2>1 DEF TypeInv
<1> QED BY <1>11, <1>12, <1>13, <1>14, <1>15, <1>16, <1>17 DEF IInv

-----------------------------------------------------------------------------
(* The steps of the application.                                           *)

\* What a setter starts from, whatever it drops first.
LEMMA Dropping ==
    ASSUME IInv, ~el.blocked, NEW cc \in BOOLEAN
    PROVE  LET d == Dropped(el, cc) IN
           /\ d \in Element /\ ~d.blocked /\ d.serial = el.serial
           /\ d.complete = el.complete /\ d.enabled = el.enabled /\ d.peer = el.peer /\ d.name = el.name
           /\ kind \in {"OwnerTracker", "ObjectManager", "SignalWatcher"} => d.sub = 0
           /\ kind = "ServiceWatcher" => d.sub = el.sub
           /\ kind = "Presence" => IF cc THEN d.sub = 0 ELSE d = el
           /\ d.sub = 0 => ~d.matched /\ d.said = 0 /\ d.heard = 0
<1> DEFINE u == Unsubscribed(el)
           k == [u EXCEPT !.known = None]
           d == Dropped(el, cc)
<1>1. kind \in AllKinds /\ el \in Element /\ Sound(el)
  BY KindsAssumption DEF IInv, TypeInv
<1>2. el.sub = 0 => ~el.matched /\ el.said = 0 /\ el.heard = 0
  <2>1. el.said \in Nat /\ el.heard \in Nat
    BY <1>1 DEF Element
  <2> QED BY <1>1, <2>1 DEF Sound, IInv, HeardInv
<1>3. /\ u \in Element /\ u.sub = 0 /\ u.serial = el.serial
      /\ ~u.matched /\ u.said = 0 /\ u.heard = 0
      /\ u.complete = el.complete /\ u.enabled = el.enabled /\ u.peer = el.peer /\ u.name = el.name
      /\ u.blocked = el.blocked
  BY <1>1, Unsubscribing DEF Rest
<1> HIDE DEF u
<1>4. CASE kind = "ServiceWatcher"
  BY <1>1, <1>2, <1>4 DEF Dropped
<1>5. CASE kind = "Presence"
  <2>1. d = IF cc THEN u ELSE el
    BY <1>5 DEF Dropped, u
  <2> HIDE DEF d
  <2> QED BY <1>1, <1>2, <1>3, <1>5, <2>1 DEF d
<1>6. CASE kind = "OwnerTracker"
  <2>1. d = k
    BY <1>6 DEF Dropped, TeardownOwnerTracker, u
  <2>2. None \in Shows
    BY <1>6 DEF Shows, Answers
  <2>3. k \in Element
    BY <1>3, <2>2 DEF Element
  <2>4. /\ k.sub = u.sub /\ k.serial = u.serial /\ k.matched = u.matched /\ k.said = u.said
        /\ k.heard = u.heard /\ k.complete = u.complete /\ k.enabled = u.enabled /\ k.peer = u.peer
        /\ k.name = u.name /\ k.blocked = u.blocked
    BY <1>3 DEF Element
  <2> HIDE DEF k
  <2> QED BY <1>3, <1>6, <2>1, <2>3, <2>4
<1>7. CASE kind \in {"ObjectManager", "SignalWatcher"}
  <2>1. d = u
    BY <1>7 DEF Dropped, u
  <2> QED BY <1>3, <1>7, <2>1
<1> QED BY <1>1, <1>4, <1>5, <1>6, <1>7 DEF AllKinds

\* The pings of a connection that is awaited nothing from.
LEMMA NothingAwaited ==
    ASSUME NetOK, NEW p \in Peers, ~Awaited(p, {"Ping", "Pong"})
    PROVE  PingsAt(p) = 0
<1>1. net.out[p] \in Seq(OutMsg) /\ net.in[p] \in Seq(InMsg)
  BY CountsAreNumbers
<1>2. \A i \in DOMAIN net.out[p] : net.out[p][i] \notin {Ping}
  BY <1>1 DEF Awaited, ToSet, Ping
<1>3. \A i \in DOMAIN net.in[p] : net.in[p][i] \notin Pongs
  BY <1>1 DEF Awaited, ToSet, Pongs
<1>4. CountOf(net.out[p], {Ping}) = 0
  BY <1>1, <1>2, CountType
<1>5. CountOf(net.in[p], Pongs) = 0
  BY <1>1, <1>3, CountType
<1> QED BY <1>4, <1>5 DEF PingsAt

LEMMA SetPeerStep ==
    ASSUME IInv, NEW p \in Peers, SetPeer(p)
    PROVE  IInv'
<1> DEFINE o == Dropped(el, TRUE)
           d0 == [o EXCEPT !.peer = p, !.orphaned = FALSE, !.told = 0]
<1>1. ~el.blocked /\ UNCHANGED <<kind, up, truth>> /\ p # el.peer
  BY DEF SetPeer, Moves
<1>2. kind \in Kinds /\ el \in Element /\ Sound(el) /\ NetOK
  BY DEF IInv, TypeInv
<1>3. /\ o \in Element /\ ~o.blocked /\ o.serial = el.serial
      /\ o.complete = el.complete /\ o.enabled = el.enabled /\ o.peer = el.peer /\ o.name = el.name
      /\ kind \in {"OwnerTracker", "ObjectManager", "SignalWatcher"} => o.sub = 0
      /\ kind = "ServiceWatcher" => o.sub = el.sub
      /\ kind = "Presence" => o.sub = 0
      /\ o.sub = 0 => ~o.matched /\ o.said = 0 /\ o.heard = 0
  BY <1>1, Dropping
<1> HIDE DEF o
<1>4. PICK d : d = d0
  OBVIOUS
<1>5. /\ d \in Element /\ d.peer = p /\ d.complete = o.complete /\ d.enabled = o.enabled
      /\ d.blocked = o.blocked /\ d.serial = o.serial /\ d.sub = o.sub /\ d.matched = o.matched
      /\ d.said = o.said /\ d.heard = o.heard
  BY <1>3, <1>4 DEF Element
<1>6. Draft(d)
  BY <1>2, <1>3, <1>5 DEF Draft, Sound
<1>7. PICK e : e = Configured(d)
  OBVIOUS
<1>8. Settled(e) /\ HasReceiver(e) /\ e.peer = p
  BY <1>2, <1>5, <1>6, <1>7, SettingUp
<1>9. Becomes(e, SessionPing(p), <<>>) /\ EnsureSessionDisconnectWatch(p)
  BY <1>4, <1>7 DEF SetPeer, o
<1>10. Proxy /\ ~MoveWhilePinged /\ el.peer = Session /\ p # Session => PingsAt(Session) = 0
  <2>1. Session \in Peers
    BY PlacesAssumption
  <2> QED BY <1>2, <2>1, NothingAwaited DEF SetPeer
<1>11. PICK b : b = SessionPing(p)
  OBVIOUS
<1>12. b \in {<<>>, <<Ping>>}
  BY <1>11 DEF SessionPing
<1> HIDE DEF d0
<1> QED BY <1>1, <1>8, <1>9, <1>10, <1>11, <1>12, MoveKeeps

LEMMA SetNameStep ==
    ASSUME IInv, NEW n \in Names \cup {Nowhere}, SetName(n)
    PROVE  IInv'
<1> DEFINE o == Dropped(el, FALSE)
           d0 == [o EXCEPT !.name = n]
<1>1. ~el.blocked /\ UNCHANGED <<kind, up, truth, probe>>
  BY DEF SetName, Moves
<1>2. kind \in Kinds /\ el \in Element /\ Sound(el) /\ NetOK
  BY DEF IInv, TypeInv
<1>3. /\ o \in Element /\ ~o.blocked /\ o.serial = el.serial
      /\ o.complete = el.complete /\ o.enabled = el.enabled /\ o.peer = el.peer /\ o.name = el.name
      /\ kind \in {"OwnerTracker", "ObjectManager", "SignalWatcher"} => o.sub = 0
      /\ kind = "ServiceWatcher" => o.sub = el.sub
      /\ kind = "Presence" => o = el
      /\ o.sub = 0 => ~o.matched /\ o.said = 0 /\ o.heard = 0
  BY <1>1, Dropping
<1> HIDE DEF o
<1>4. PICK d : d = d0
  OBVIOUS
<1>5. /\ d \in Element /\ d.peer = o.peer /\ d.complete = o.complete /\ d.enabled = o.enabled
      /\ d.blocked = o.blocked /\ d.serial = o.serial /\ d.sub = o.sub /\ d.matched = o.matched
      /\ d.said = o.said /\ d.heard = o.heard
  BY <1>3, <1>4 DEF Element
<1>6. Draft(d)
  BY <1>2, <1>3, <1>5 DEF Draft, Sound
<1>7. PICK e : e = Configured(d)
  OBVIOUS
<1>8. Settled(e) /\ HasReceiver(e) /\ e.peer = el.peer /\ e.complete = el.complete
  BY <1>2, <1>3, <1>5, <1>6, <1>7, SettingUp
<1>9. Becomes(e, <<>>, <<>>)
  BY <1>4, <1>7 DEF SetName, o
<1> HIDE DEF d0
<1> QED BY <1>1, <1>8, <1>9, MoveKeeps

LEMMA SetEnabledStep ==
    ASSUME IInv, SetEnabled
    PROVE  IInv'
<1> DEFINE o == Dropped(el, FALSE)
           d0 == [o EXCEPT !.enabled = ~@]
<1>1. /\ ~el.blocked /\ UNCHANGED <<kind, up, truth, probe>>
      /\ kind \in {"Presence", "OwnerTracker", "SignalWatcher"}
  BY DEF SetEnabled, Moves
<1>2. kind \in Kinds /\ el \in Element /\ Sound(el) /\ NetOK
  BY DEF IInv, TypeInv
<1>3. /\ o \in Element /\ ~o.blocked /\ o.serial = el.serial
      /\ o.complete = el.complete /\ o.peer = el.peer
      /\ kind \in {"OwnerTracker", "ObjectManager", "SignalWatcher"} => o.sub = 0
      /\ kind = "Presence" => o = el
      /\ o.sub = 0 => ~o.matched /\ o.said = 0 /\ o.heard = 0
  BY <1>1, Dropping
<1> HIDE DEF o
<1>4. PICK d : d = d0
  OBVIOUS
<1>5. /\ d \in Element /\ d.peer = o.peer /\ d.complete = o.complete
      /\ d.blocked = o.blocked /\ d.serial = o.serial /\ d.sub = o.sub /\ d.matched = o.matched
      /\ d.said = o.said /\ d.heard = o.heard
  BY <1>3, <1>4 DEF Element
<1>6. Draft(d)
  BY <1>1, <1>2, <1>3, <1>5 DEF Draft, Sound
<1>7. PICK e : e = Configured(d)
  OBVIOUS
<1>8. Settled(e) /\ HasReceiver(e) /\ e.peer = el.peer /\ e.complete = el.complete
  BY <1>2, <1>3, <1>5, <1>6, <1>7, SettingUp
<1>9. Becomes(e, <<>>, <<>>)
  BY <1>4, <1>7 DEF SetEnabled, o
<1> HIDE DEF d0
<1> QED BY <1>1, <1>8, <1>9, MoveKeeps

LEMMA ComponentCompleteStep ==
    ASSUME IInv, ComponentComplete
    PROVE  IInv'
<1> DEFINE d0 == [el EXCEPT !.complete = TRUE]
<1>1. ~el.complete /\ UNCHANGED <<kind, up, truth>>
  BY DEF ComponentComplete
<1>2. kind \in Kinds /\ el \in Element /\ Sound(el) /\ NetOK
  BY DEF IInv, TypeInv
<1>3. /\ ~el.blocked /\ (kind # "Presence" => el.sub = 0)
      /\ el.sub = 0 => ~el.matched /\ el.said = 0 /\ el.heard = 0
  <2>1. el.said \in Nat /\ el.heard \in Nat
    BY <1>2 DEF Element
  <2> QED BY <1>1, <1>2, <2>1 DEF Sound, IInv, HeardInv
<1>4. PICK d : d = d0
  OBVIOUS
<1>5. /\ d \in Element /\ d.peer = el.peer /\ d.enabled = el.enabled
      /\ d.blocked = el.blocked /\ d.serial = el.serial /\ d.sub = el.sub /\ d.matched = el.matched
      /\ d.said = el.said /\ d.heard = el.heard
  BY <1>2, <1>4 DEF Element
<1>6. Draft(d)
  BY <1>2, <1>3, <1>5 DEF Draft, Sound
<1>7. PICK e : e = Configured(d)
  OBVIOUS
<1>8. Settled(e) /\ HasReceiver(e) /\ e.peer = el.peer
  BY <1>2, <1>5, <1>6, <1>7, SettingUp
<1>9. PICK a : a = SessionPing(el.peer)
  OBVIOUS
<1>10. a \in {<<>>, <<Ping>>}
  BY <1>9 DEF SessionPing
<1>11. Becomes(e, <<>>, a) /\ EnsureSessionDisconnectWatch(el.peer)
  BY <1>4, <1>7, <1>9 DEF ComponentComplete
<1> HIDE DEF d0
<1> QED BY <1>1, <1>8, <1>9, <1>10, <1>11, MoveKeeps

LEMMA IntrospectedStep ==
    ASSUME IInv, Introspected
    PROVE  IInv'
<1> DEFINE u == Unsubscribed(el)
           k == [u EXCEPT !.known = None]
           s == Subscribed(k)
<1>1. /\ ~el.blocked /\ UNCHANGED <<kind, up, truth, probe>>
      /\ kind = "OwnerTracker" /\ el.complete /\ el.enabled /\ el.name # Nowhere
  BY DEF Introspected, Moves
<1>2. kind \in Kinds /\ el \in Element /\ Sound(el) /\ NetOK
  BY DEF IInv, TypeInv
<1>3. /\ u \in Element /\ u.serial = el.serial
      /\ u.complete = el.complete /\ u.enabled = el.enabled /\ u.peer = el.peer /\ u.name = el.name
      /\ u.blocked = el.blocked
  BY <1>2, Unsubscribing DEF Rest
<1> HIDE DEF u
<1>4. None \in Shows
  BY <1>1 DEF Shows, Answers
<1>5. /\ k \in Element /\ k.serial = el.serial
      /\ k.complete = el.complete /\ k.enabled = el.enabled /\ k.peer = el.peer /\ k.name = el.name
      /\ k.blocked = el.blocked
  BY <1>3, <1>4 DEF Element
<1> HIDE DEF k
<1>6. /\ s \in Element
      /\ s.complete = el.complete /\ s.enabled = el.enabled /\ s.peer = el.peer /\ s.name = el.name
      /\ s.blocked = el.blocked
      /\ s.sub = el.serial + 1 /\ s.serial = el.serial + 1 /\ s.at = <<el.peer, el.name>>
      /\ ~s.matched /\ s.said = 0 /\ s.heard = 0
  BY <1>5, Subscribing DEF Rest
<1>7. SetupOwnerTracker(el) = s
  BY <1>1 DEF SetupOwnerTracker, TeardownOwnerTracker, s, k, u
<1>8. PICK e : e = s
  OBVIOUS
<1>9. Becomes(e, <<>>, <<>>)
  BY <1>7, <1>8 DEF Introspected
<1> HIDE DEF s
<1>10. Settled(e) /\ HasReceiver(e) /\ e.peer = el.peer /\ e.complete = el.complete
  BY <1>1, <1>6, <1>8 DEF Settled, Sound, HasReceiver
<1> QED BY <1>1, <1>9, <1>10, MoveKeeps

-----------------------------------------------------------------------------
(* The steps of the peers and of what arrives.                             *)

\* The next message from p is taken.
LEMMA Taking ==
    ASSUME NetOK, UNCHANGED kind, NEW p \in Peers, net.in[p] # <<>>,
           net' = [net EXCEPT !.in[p] = Tail(@)]
    PROVE  /\ NetOK' /\ Head(net.in[p]) \in InMsg
           /\ PingsAt(p) = PingsAt(p)' + IF Head(net.in[p]) \in Pongs THEN 1 ELSE 0
           /\ LossesAt(p) = LossesAt(p)' + IF Head(net.in[p]) \in {Pong(FALSE)} THEN 1 ELSE 0
           /\ \A k \in Nat : ChangesAt(p, k) = ChangesAt(p, k)' + IF Head(net.in[p]) \in ChangesFor(k) THEN 1 ELSE 0
           /\ \A q \in Peers \ {p} : /\ PingsAt(q)' = PingsAt(q) /\ LossesAt(q)' = LossesAt(q)
                                     /\ \A k \in Nat : ChangesAt(q, k)' = ChangesAt(q, k)
<1> DEFINE o == net.out[p]
           i == net.in[p]
<1>1. /\ o \in Seq(OutMsg) /\ i \in Seq(InMsg)
      /\ CountOf(o, {Ping}) \in Nat /\ CountOf(i, Pongs) \in Nat
  BY CountsAreNumbers
<1>2. /\ net = [out |-> net.out, in |-> net.in]
      /\ net.out \in [Peers -> Seq(OutMsg)] /\ net.in \in [Peers -> Seq(InMsg)]
  BY DEF NetOK
<1>3. net' = [out |-> [net.out EXCEPT ![p] = o], in |-> [net.in EXCEPT ![p] = Tail(i)]]
  <2>1. net' = [out |-> net.out, in |-> [net.in EXCEPT ![p] = Tail(i)]]
    BY <1>2
  <2>2. net.out = [net.out EXCEPT ![p] = o]
    BY <1>2
  <2> QED BY <2>1, <2>2
<1> HIDE DEF o, i
<1>4. i # <<>>
  BY DEF i
<1>5. Head(i) \in InMsg /\ Tail(i) \in Seq(InMsg)
  BY <1>1, <1>4, HeadTailProperties
<1>6. /\ NetOK' /\ PingsAt(p)' = CountOf(o, {Ping}) + CountOf(Tail(i), Pongs)
      /\ LossesAt(p)' = CountOf(Tail(i), {Pong(FALSE)})
      /\ \A k \in Nat : ChangesAt(p, k)' = CountOf(Tail(i), ChangesFor(k))
      /\ \A q \in Peers \ {p} : /\ PingsAt(q)' = PingsAt(q) /\ LossesAt(q)' = LossesAt(q)
                                /\ \A k \in Nat : ChangesAt(q, k)' = ChangesAt(q, k)
  BY <1>1, <1>3, <1>5, OnePeer
<1>7. /\ PingsAt(p) = CountOf(o, {Ping}) + CountOf(i, Pongs) /\ LossesAt(p) = CountOf(i, {Pong(FALSE)})
      /\ \A k \in Nat : ChangesAt(p, k) = CountOf(i, ChangesFor(k))
  BY DEF PingsAt, LossesAt, ChangesAt, o, i
<1>8. CountOf(i, Pongs) = CountOf(Tail(i), Pongs) + IF Head(i) \in Pongs THEN 1 ELSE 0
  BY <1>1, <1>4, CountTail
<1>9. CountOf(i, {Pong(FALSE)}) = CountOf(Tail(i), {Pong(FALSE)}) + IF Head(i) \in {Pong(FALSE)} THEN 1 ELSE 0
  BY <1>1, <1>4, CountTail
<1>10. \A k \in Nat : CountOf(i, ChangesFor(k))
                        = CountOf(Tail(i), ChangesFor(k)) + IF Head(i) \in ChangesFor(k) THEN 1 ELSE 0
  BY <1>1, <1>4, CountTail
<1>11. CountOf(Tail(i), Pongs) \in Nat
  BY <1>5, CountType
<1>12. PingsAt(p) = PingsAt(p)' + IF Head(i) \in Pongs THEN 1 ELSE 0
  <2>1. CASE Head(i) \in Pongs
    BY <1>1, <1>6, <1>7, <1>8, <1>11, <2>1
  <2>2. CASE Head(i) \notin Pongs
    BY <1>1, <1>6, <1>7, <1>8, <1>11, <2>2
  <2> QED BY <2>1, <2>2
<1>13. LossesAt(p) = LossesAt(p)' + IF Head(i) \in {Pong(FALSE)} THEN 1 ELSE 0
  BY <1>6, <1>7, <1>9
<1>14. \A k \in Nat : ChangesAt(p, k) = ChangesAt(p, k)' + IF Head(i) \in ChangesFor(k) THEN 1 ELSE 0
  BY <1>6, <1>7, <1>10
<1> QED BY <1>5, <1>6, <1>12, <1>13, <1>14 DEF i

LEMMA ProbesSame ==
    ASSUME IInv, UNCHANGED <<kind, probe>>, el'.peer = el.peer, el'.complete = el.complete,
           \A p \in Peers : up'[p] => up[p],
           \A p \in Peers : PingsAt(p)' = PingsAt(p) /\ (up'[p] => LossesAt(p)' = LossesAt(p))
    PROVE  QuietProbes' /\ WrapperProbes' /\ LossesInv' /\ (~MoveWhilePinged => SessionProbes')
<1>1. Proxy' <=> Proxy
  BY SameTypes
<1>2. QuietProbes'
  BY <1>1 DEF IInv, QuietProbes
<1>3. WrapperProbes'
  BY <1>1 DEF IInv, WrapperProbes, Rearm
<1>4. LossesInv'
  BY DEF IInv, LossesInv
<1>5. ASSUME ~MoveWhilePinged PROVE SessionProbes'
  <2>1. Session \in Peers
    BY PlacesAssumption
  <2> QED BY <1>1, <1>5, <2>1 DEF IInv, SessionProbes
<1> QED BY <1>2, <1>3, <1>4, <1>5

\* What the element learns leaves it where it is.
SamePlace(e) ==
    /\ e.complete = el.complete /\ e.enabled = el.enabled /\ e.peer = el.peer /\ e.name = el.name
    /\ e.sub = el.sub /\ e.serial = el.serial /\ e.at = el.at

LEMMA LearningKeeps ==
    ASSUME IInv, UNCHANGED <<kind, probe>>, WorldType', NetOK',
           \A p \in Peers : up'[p] => up[p],
           NEW e \in Element, el' = e, SamePlace(e), e.said = el.said, e.heard = el.heard,
           Sound(e),
           \A p \in Peers : PingsAt(p)' = PingsAt(p) /\ (up'[p] => LossesAt(p)' = LossesAt(p)),
           \A p \in Peers : \A k \in Nat : ChangesAt(p, k)' = ChangesAt(p, k)
    PROVE  IInv'
<1>1. QuietProbes' /\ WrapperProbes' /\ LossesInv' /\ (~MoveWhilePinged => SessionProbes')
  BY ProbesSame DEF SamePlace
<1>2. Settled(e)
  BY DEF Settled, SamePlace
<1>3. HeardInv'
  BY <1>2, SettledHeard DEF IInv
<1>4. ~MoveWhilePinged => Hooked'
  <2>1. e.peer \in Peers
    BY DEF Element
  <2> QED BY <2>1 DEF IInv, Hooked, SamePlace
<1>5. TypeInv'
  <2>1. Element' = Element /\ Answers' = Answers
    BY SameTypes
  <2>2. Sound(el)' /\ ProbeType'
    BY <2>1 DEF Sound, ProbeType, IInv, TypeInv
  <2> QED BY <2>1, <2>2 DEF TypeInv, IInv
<1> QED BY <1>1, <1>3, <1>4, <1>5 DEF IInv

\* While nothing dies and no peer changes its mind.
LEMMA WorldSame ==
    ASSUME IInv, UNCHANGED <<kind, up, truth>>
    PROVE  WorldType' /\ \A p \in Peers : up'[p] => up[p]
<1>1. Answers' = Answers
  BY SameTypes
<1> QED BY <1>1 DEF WorldType, IInv, TypeInv

LEMMA AnswerArrivesStep ==
    ASSUME IInv, NEW p \in Peers, AnswerArrives(p)
    PROVE  IInv'
<1> DEFINE m == Head(net.in[p])
           failed == IF m.id = el.sub THEN ~m.ok ELSE el.failed
           e0 == IF ~TakesAnswer(m) THEN [el EXCEPT !.failed = failed]
                 ELSE [el EXCEPT !.failed = failed,
                                 !.ready = @ \/ kind = "ObjectManager",
                                 !.known = IF kind = "Presence" THEN m.value # None ELSE m.value]
<1>1. /\ ~el.blocked /\ net.in[p] # <<>> /\ m.kind = "Answer"
      /\ net' = [net EXCEPT !.in[p] = Tail(@)]
      /\ UNCHANGED <<kind, probe, up, truth, budget>>
      /\ el' = e0
  BY DEF AnswerArrives, Arrives, Consumed
<1>2. kind \in AllKinds /\ el \in Element /\ Sound(el) /\ NetOK
  BY KindsAssumption DEF IInv, TypeInv
<1> HIDE DEF m
<1>3. /\ NetOK' /\ m \in InMsg
      /\ PingsAt(p) = PingsAt(p)' + IF m \in Pongs THEN 1 ELSE 0
      /\ LossesAt(p) = LossesAt(p)' + IF m \in {Pong(FALSE)} THEN 1 ELSE 0
      /\ \A k \in Nat : ChangesAt(p, k) = ChangesAt(p, k)' + IF m \in ChangesFor(k) THEN 1 ELSE 0
      /\ \A q \in Peers \ {p} : /\ PingsAt(q)' = PingsAt(q) /\ LossesAt(q)' = LossesAt(q)
                                /\ \A k \in Nat : ChangesAt(q, k)' = ChangesAt(q, k)
  BY <1>1, <1>2, Taking DEF m
<1>4. /\ m \notin Pongs /\ m \notin {Pong(FALSE)} /\ \A k \in Nat : m \notin ChangesFor(k)
      /\ m.ok \in BOOLEAN /\ (m.ok => m.value \in Answers)
  <2>1. m \notin Pongs /\ \A k \in Nat : m \notin ChangesFor(k)
    BY <1>1, <1>3, MessageKinds
  <2>2. m \notin {Pong(FALSE)}
    BY <2>1, MessageKinds
  <2> QED BY <1>1, <1>3, <2>1, <2>2, MessageKinds
<1>5. /\ PingsAt(p)' \in Nat /\ LossesAt(p)' \in Nat
      /\ \A k \in Nat : ChangesAt(p, k)' \in Nat
  BY <1>3, CountsNext
<1>6. \A q \in Peers : /\ PingsAt(q)' = PingsAt(q) /\ LossesAt(q)' = LossesAt(q)
                       /\ \A k \in Nat : ChangesAt(q, k)' = ChangesAt(q, k)
  BY <1>3, <1>4, <1>5
<1>7. PICK e : e = e0
  OBVIOUS
<1>8. failed \in BOOLEAN
  BY <1>2, <1>4 DEF Element
<1> HIDE DEF failed
<1>9. TakesAnswer(m) => /\ kind \in {"Presence", "OwnerTracker", "ObjectManager"}
                        /\ (IF kind = "Presence" THEN m.value # None ELSE m.value) \in Shows
  BY <1>4 DEF TakesAnswer, Shows
<1>10. e \in Element
  <2>1. CASE ~TakesAnswer(m)
    BY <1>2, <1>7, <1>8, <2>1 DEF Element
  <2>2. CASE TakesAnswer(m)
    <3>1. PICK v : v = IF kind = "Presence" THEN m.value # None ELSE m.value
      OBVIOUS
    <3>2. PICK r : r = (el.ready \/ kind = "ObjectManager")
      OBVIOUS
    <3>3. v \in Shows /\ r \in BOOLEAN
      BY <1>9, <2>2, <3>1, <3>2
    <3>4. e = [el EXCEPT !.failed = failed, !.ready = r, !.known = v]
      BY <1>7, <2>2, <3>1, <3>2
    <3> QED BY <1>2, <1>8, <3>3, <3>4 DEF Element
  <2> QED BY <2>1, <2>2
<1>11. /\ SamePlace(e) /\ e.said = el.said /\ e.heard = el.heard
       /\ e.matched = el.matched /\ e.blocked = el.blocked
  BY <1>2, <1>7 DEF SamePlace, Element
<1> HIDE DEF e0
<1>12. Sound(e)
  BY <1>2, <1>11 DEF Sound, SamePlace
<1> QED BY <1>1, <1>3, <1>6, <1>7, <1>10, <1>11, <1>12, LearningKeeps, WorldSame

LEMMA ChangeArrivesStep ==
    ASSUME IInv, NEW p \in Peers, ChangeArrives(p)
    PROVE  IInv'
<1> DEFINE m == Head(net.in[p])
           e0 == [el EXCEPT !.known = Shown(@, m), !.heard = @ + 1]
<1>1. /\ net.in[p] # <<>> /\ m.kind = "Change"
      /\ net' = [net EXCEPT !.in[p] = Tail(@)]
      /\ UNCHANGED <<kind, probe, up, truth, budget>>
      /\ el' = IF ForThis(m) THEN e0 ELSE el
  BY DEF ChangeArrives, Arrives, Consumed
<1>2. kind \in AllKinds /\ el \in Element /\ Sound(el) /\ NetOK
  BY KindsAssumption DEF IInv, TypeInv
<1> HIDE DEF m
<1>3. /\ NetOK' /\ m \in InMsg
      /\ PingsAt(p) = PingsAt(p)' + IF m \in Pongs THEN 1 ELSE 0
      /\ LossesAt(p) = LossesAt(p)' + IF m \in {Pong(FALSE)} THEN 1 ELSE 0
      /\ \A k \in Nat : ChangesAt(p, k) = ChangesAt(p, k)' + IF m \in ChangesFor(k) THEN 1 ELSE 0
      /\ \A q \in Peers \ {p} : /\ PingsAt(q)' = PingsAt(q) /\ LossesAt(q)' = LossesAt(q)
                                /\ \A k \in Nat : ChangesAt(q, k)' = ChangesAt(q, k)
  BY <1>1, <1>2, Taking DEF m
<1>4. /\ m \notin Pongs /\ m \notin {Pong(FALSE)} /\ m.id \in Nat
      /\ \A k \in Nat : m \in ChangesFor(k) <=> m.id = k
      /\ m.from \in Answers /\ m.to \in Answers
  <2>1. m \notin Pongs /\ \A k \in Nat : m \in ChangesFor(k) <=> m.id = k
    BY <1>1, <1>3, MessageKinds
  <2>2. m \notin {Pong(FALSE)}
    BY <2>1, MessageKinds
  <2> QED BY <1>1, <1>3, <2>1, <2>2, MessageKinds
<1>5. /\ PingsAt(p)' \in Nat /\ LossesAt(p)' \in Nat
      /\ \A k \in Nat : ChangesAt(p, k)' \in Nat
  BY <1>3, CountsNext
<1>6. \A q \in Peers : PingsAt(q)' = PingsAt(q) /\ LossesAt(q)' = LossesAt(q)
  BY <1>3, <1>4, <1>5
<1>7. \A q \in Peers, k \in Nat : q # p \/ k # m.id => ChangesAt(q, k)' = ChangesAt(q, k)
  <2>1. ASSUME NEW k \in Nat, k # m.id PROVE ChangesAt(p, k)' = ChangesAt(p, k)
    <3>1. m \notin ChangesFor(k)
      BY <1>4, <2>1
    <3>2. ChangesAt(p, k) = ChangesAt(p, k)' + IF m \in ChangesFor(k) THEN 1 ELSE 0
      BY <1>3
    <3> QED BY <1>5, <3>1, <3>2
  <2> QED BY <1>3, <2>1
<1>8. \A k \in Nat : k = m.id => ChangesAt(p, k) = ChangesAt(p, k)' + 1
  BY <1>3, <1>4
<1>9. /\ el.sub \in Nat /\ el.serial \in Nat /\ el.said \in Nat /\ el.heard \in Nat /\ el.peer \in Peers
  BY <1>2 DEF Element
<1>10. CASE ~ForThis(m)
  <2>1. m.id # el.sub \/ el.sub = 0
    BY <1>10 DEF ForThis
  \* A change for a receiver that was given up.
  <2>2. m.id <= el.serial
    <3>1. m.id > el.serial => ChangesAt(p, m.id) = 0
      BY <1>4 DEF IInv, HeardInv
    <3>2. ChangesAt(p, m.id) # 0
      BY <1>4, <1>5, <1>8
    <3> QED BY <1>4, <1>9, <3>1, <3>2
  <2>3. HeardInv'
    <3>1. el' = el
      BY <1>1, <1>10
    <3>2. ASSUME NEW q \in Peers, NEW k \in Nat
          PROVE  /\ k > el.serial => ChangesAt(q, k)' = 0
                 /\ k = el.sub /\ k # 0 => ChangesAt(q, k)' = IF q = el.peer THEN el.said - el.heard ELSE 0
      <4>1. /\ k > el.serial => ChangesAt(q, k) = 0
            /\ k = el.sub /\ k # 0 => ChangesAt(q, k) = IF q = el.peer THEN el.said - el.heard ELSE 0
        BY DEF IInv, HeardInv
      <4>2. k > el.serial \/ (k = el.sub /\ k # 0) => k # m.id
        BY <1>4, <1>9, <2>1, <2>2
      <4> QED BY <1>7, <4>1, <4>2
    <3> QED BY <3>1, <3>2 DEF IInv, HeardInv
  <2>4. QuietProbes' /\ WrapperProbes' /\ LossesInv' /\ (~MoveWhilePinged => SessionProbes')
    <3>1. el' = el
      BY <1>1, <1>10
    <3> QED BY <1>1, <1>6, <3>1, ProbesSame
  <2>5. TypeInv' /\ (~MoveWhilePinged => Hooked')
    <3>1. el' = el /\ Element' = Element /\ Answers' = Answers
      BY <1>1, <1>10, SameTypes
    <3> QED BY <1>1, <1>3, <3>1 DEF IInv, TypeInv, Sound, WorldType, ProbeType, Hooked
  <2> QED BY <2>3, <2>4, <2>5 DEF IInv
<1>11. CASE ForThis(m)
  <2>1. m.id = el.sub /\ el.sub # 0
    BY <1>11 DEF ForThis
  <2>2. PICK e : e = e0
    OBVIOUS
  <2>3. el' = e
    BY <1>1, <1>11, <2>2
  <2>4. Shown(el.known, m) \in Shows
    <3>1. el.known \in Shows
      BY <1>2 DEF Element
    <3> QED BY <1>2, <1>4, <3>1 DEF Shown, OwnerChanged, Registered, InterfacesChanged, Shows, Answers, AllKinds
  <2>5. e \in Element
    <3>1. PICK v : v = Shown(el.known, m)
      OBVIOUS
    <3>2. v \in Shows /\ el.heard + 1 \in Nat
      BY <1>9, <2>4, <3>1
    <3>3. e = [el EXCEPT !.known = v, !.heard = el.heard + 1]
      BY <1>2, <2>2, <3>1 DEF Element
    <3> QED BY <1>2, <3>2, <3>3 DEF Element
  <2>6. /\ SamePlace(e) /\ e.said = el.said /\ e.heard = el.heard + 1
        /\ e.matched = el.matched /\ e.blocked = el.blocked
    BY <1>2, <2>2 DEF SamePlace, Element
  <2> HIDE DEF e0
  \* It is from its peer, which said it.
  <2>7. ChangesAt(p, el.sub) = (IF p = el.peer THEN el.said - el.heard ELSE 0) /\ ChangesAt(p, el.sub) # 0
    <3>1. ChangesAt(p, el.sub) = IF p = el.peer THEN el.said - el.heard ELSE 0
      BY <1>9, <2>1 DEF IInv, HeardInv
    <3>2. ChangesAt(p, m.id) # 0
      BY <1>4, <1>5, <1>8
    <3> QED BY <2>1, <3>1, <3>2
  <2>8. p = el.peer /\ e.heard <= e.said
    <3>1. p = el.peer
      BY <2>7
    <3>2. el.said - el.heard # 0 /\ el.heard <= el.said
      BY <2>7, <3>1 DEF IInv, HeardInv
    <3> QED BY <1>9, <2>6, <3>1, <3>2
  <2>9. HeardInv'
    <3>1. ASSUME NEW q \in Peers, NEW k \in Nat
          PROVE  /\ k > e.serial => ChangesAt(q, k)' = 0
                 /\ k = e.sub /\ k # 0 => ChangesAt(q, k)' = IF q = e.peer THEN e.said - e.heard ELSE 0
      <4>1. /\ k > el.serial => ChangesAt(q, k) = 0
            /\ k = el.sub /\ k # 0 => ChangesAt(q, k) = IF q = el.peer THEN el.said - el.heard ELSE 0
            /\ el.sub <= el.serial
        BY DEF IInv, HeardInv
      <4>2. k > e.serial => ChangesAt(q, k)' = 0
        BY <1>4, <1>7, <1>9, <2>1, <2>6, <4>1 DEF SamePlace
      <4>3. ASSUME k = e.sub, k # 0
            PROVE  ChangesAt(q, k)' = IF q = e.peer THEN e.said - e.heard ELSE 0
        <5>1. k = m.id /\ k = el.sub /\ e.peer = el.peer
          BY <2>1, <2>6, <4>3 DEF SamePlace
        <5>2. CASE q = p
          <6>1. ChangesAt(p, k) = ChangesAt(p, k)' + 1 /\ ChangesAt(p, k)' \in Nat
            BY <1>5, <1>8, <5>1
          <6>2. ChangesAt(p, k) = el.said - el.heard
            BY <2>8, <4>1, <4>3, <5>1, <5>2
          <6>3. ChangesAt(p, k)' = e.said - e.heard
            BY <1>9, <2>6, <6>1, <6>2
          <6> QED BY <2>8, <5>1, <5>2, <6>3
        <5>3. CASE q # p
          <6>1. ChangesAt(q, k)' = ChangesAt(q, k)
            BY <1>7, <5>3
          <6> QED BY <2>8, <4>1, <4>3, <5>1, <5>3, <6>1
        <5> QED BY <5>2, <5>3
      <4> QED BY <4>2, <4>3
    <3>2. e.sub <= e.serial /\ (e.sub = 0 => e.said = 0)
      BY <2>6 DEF IInv, HeardInv, SamePlace
    <3> QED BY <2>3, <2>8, <3>1, <3>2 DEF HeardInv
  <2>10. QuietProbes' /\ WrapperProbes' /\ LossesInv' /\ (~MoveWhilePinged => SessionProbes')
    BY <1>1, <1>6, <2>3, <2>6, ProbesSame DEF SamePlace
  <2>11. Sound(e)
    BY <1>2, <2>6 DEF Sound, SamePlace
  <2>12. TypeInv' /\ (~MoveWhilePinged => Hooked')
    <3>1. Element' = Element /\ Answers' = Answers
      BY <1>1, SameTypes
    <3>2. Sound(el)' /\ WorldType' /\ ProbeType'
      BY <1>1, <2>3, <2>11, <3>1 DEF Sound, WorldType, ProbeType, IInv, TypeInv
    <3>3. ~MoveWhilePinged => Hooked'
      BY <1>1, <2>3, <2>6 DEF Hooked, SamePlace, IInv
    <3> QED BY <1>1, <1>3, <2>3, <2>5, <3>1, <3>2, <3>3 DEF TypeInv, IInv
  <2> QED BY <2>9, <2>10, <2>12 DEF IInv
<1> QED BY <1>10, <1>11

LEMMA BlockingCallReturnsStep ==
    ASSUME IInv, BlockingCallReturns
    PROVE  IInv'
<1>1. kind \in AllKinds /\ el \in Element /\ Sound(el) /\ NetOK /\ el.peer \in Peers
  BY KindsAssumption DEF IInv, TypeInv, Element
<1>2. PICK p \in Peers : p = el.peer
  BY <1>1
<1>3. PICK i \in DOMAIN net.in[p] :
         LET m == net.in[p][i] IN
         /\ m.kind = "Answer"
         /\ el' = [el EXCEPT !.blocked = FALSE, !.known = m.ok /\ m.value # None, !.failed = ~m.ok]
         /\ net' = [net EXCEPT !.in[el.peer] = RemoveAt(@, i)]
  BY <1>2 DEF BlockingCallReturns
<1> DEFINE m == net.in[p][i]
           o == net.out[p]
           q == net.in[p]
           r == SubSeq(q, 1, i - 1) \o SubSeq(q, i + 1, Len(q))
<1>4. UNCHANGED <<kind, probe, up, truth>> /\ el.blocked /\ kind = "ServiceWatcher"
  BY <1>1 DEF BlockingCallReturns, Sound
<1>5. o \in Seq(OutMsg) /\ q \in Seq(InMsg) /\ m \in InMsg
  <2>1. o \in Seq(OutMsg) /\ q \in Seq(InMsg)
    BY <1>1, CountsAreNumbers
  <2>2. DOMAIN q = 1 .. Len(q)
    BY <2>1, LenProperties
  <2> QED BY <1>3, <2>1, <2>2, ElementOfSeq
<1>6. /\ net = [out |-> net.out, in |-> net.in]
      /\ net.out \in [Peers -> Seq(OutMsg)] /\ net.in \in [Peers -> Seq(InMsg)]
  BY <1>1 DEF NetOK
<1>7. net' = [out |-> [net.out EXCEPT ![p] = o], in |-> [net.in EXCEPT ![p] = r]]
  <2>1. net' = [out |-> net.out, in |-> [net.in EXCEPT ![p] = r]]
    BY <1>2, <1>3, <1>6 DEF RemoveAt
  <2>2. net.out = [net.out EXCEPT ![p] = o]
    BY <1>6
  <2> QED BY <2>1, <2>2
<1>8. m.kind = "Answer" /\ m.ok \in BOOLEAN
  BY <1>3, <1>5, MessageKinds
<1>9. m \notin Pongs /\ m \notin {Pong(FALSE)} /\ \A k \in Nat : m \notin ChangesFor(k)
  <2>1. m \notin Pongs /\ \A k \in Nat : m \notin ChangesFor(k)
    BY <1>5, <1>8, MessageKinds
  <2>2. m \notin {Pong(FALSE)}
    BY <2>1, MessageKinds
  <2> QED BY <2>1, <2>2
<1>10. PICK b \in BOOLEAN : b = (m.ok /\ m.value # None)
  BY <1>8
<1>11. PICK f \in BOOLEAN : f = ~m.ok
  BY <1>8
<1>12. PICK e : e = [el EXCEPT !.blocked = FALSE, !.known = b, !.failed = f]
  OBVIOUS
<1>13. el' = e
  BY <1>3, <1>10, <1>11, <1>12
<1>14. e \in Element /\ SamePlace(e) /\ e.said = el.said /\ e.heard = el.heard
       /\ e.matched = el.matched /\ ~e.blocked
  <2>1. b \in Shows
    BY <1>4 DEF Shows
  <2>2. e \in Element
    BY <1>1, <1>12, <2>1 DEF Element
  <2> QED BY <1>1, <1>12, <2>2 DEF SamePlace, Element
<1>15. Sound(e)
  BY <1>1, <1>14 DEF Sound, SamePlace
<1>16. i \in DOMAIN q /\ r \in Seq(InMsg)
  BY <1>3, <1>5, CountWithout
<1>17. ASSUME NEW S, m \notin S PROVE CountOf(r, S) = CountOf(q, S)
  <2>1. CountOf(q, S) = CountOf(r, S) + IF q[i] \in S THEN 1 ELSE 0
    BY <1>5, <1>16, CountWithout
  <2>2. CountOf(r, S) \in Nat /\ q[i] \notin S
    BY <1>16, <1>17, CountType
  <2> QED BY <2>1, <2>2
<1> HIDE DEF r, q, o, m
<1>18. /\ NetOK' /\ PingsAt(p)' = CountOf(o, {Ping}) + CountOf(r, Pongs)
       /\ LossesAt(p)' = CountOf(r, {Pong(FALSE)})
       /\ \A k \in Nat : ChangesAt(p, k)' = CountOf(r, ChangesFor(k))
       /\ \A s \in Peers \ {p} : /\ PingsAt(s)' = PingsAt(s) /\ LossesAt(s)' = LossesAt(s)
                                 /\ \A k \in Nat : ChangesAt(s, k)' = ChangesAt(s, k)
  BY <1>1, <1>4, <1>5, <1>7, <1>16, OnePeer
<1>19. /\ PingsAt(p) = CountOf(o, {Ping}) + CountOf(q, Pongs) /\ LossesAt(p) = CountOf(q, {Pong(FALSE)})
       /\ \A k \in Nat : ChangesAt(p, k) = CountOf(q, ChangesFor(k))
  BY DEF PingsAt, LossesAt, ChangesAt, o, q
<1>20. CountOf(r, Pongs) = CountOf(q, Pongs) /\ CountOf(r, {Pong(FALSE)}) = CountOf(q, {Pong(FALSE)})
  BY <1>9, <1>17
<1>21. \A k \in Nat : CountOf(r, ChangesFor(k)) = CountOf(q, ChangesFor(k))
  BY <1>9, <1>17
<1>22. \A s \in Peers : /\ PingsAt(s)' = PingsAt(s) /\ LossesAt(s)' = LossesAt(s)
                        /\ \A k \in Nat : ChangesAt(s, k)' = ChangesAt(s, k)
  BY <1>18, <1>19, <1>20, <1>21
<1> QED BY <1>4, <1>13, <1>14, <1>15, <1>18, <1>22, LearningKeeps, WorldSame

LEMMA ServeStep ==
    ASSUME IInv, NEW p \in Peers, Serve(p)
    PROVE  IInv'
<1> DEFINE m == Head(net.out[p])
           o == net.out[p]
           i == net.in[p]
<1>1. /\ kind \in AllKinds /\ el \in Element /\ Sound(el) /\ NetOK /\ WorldType
  BY KindsAssumption DEF IInv, TypeInv
<1>2. /\ o \in Seq(OutMsg) /\ i \in Seq(InMsg) /\ o # <<>>
      /\ UNCHANGED <<kind, probe, up, truth>>
  BY <1>1, CountsAreNumbers DEF Serve
<1>3. m \in OutMsg /\ Tail(o) \in Seq(OutMsg)
  BY <1>2, HeadTailProperties
<1> DEFINE Served(r, b) ==
             /\ r \in Seq(InMsg) /\ b \in BOOLEAN /\ (b => el.matched \/ el.sub # 0)
             /\ net' = [out |-> [net.out EXCEPT ![p] = Tail(o)], in |-> [net.in EXCEPT ![p] = i \o r]]
             /\ el' = [el EXCEPT !.matched = b]
             /\ CountOf(r, Pongs) = (IF m \in {Ping} THEN 1 ELSE 0) /\ CountOf(r, {Pong(FALSE)}) = 0
             /\ \A k \in Nat : CountOf(r, ChangesFor(k)) = 0
\* The answer, if there is one, and what the element becomes.
<1>4. \E r, b : Served(r, b)
  <2>1. /\ net.out \in [Peers -> Seq(OutMsg)] /\ net.in \in [Peers -> Seq(InMsg)]
        /\ el = [el EXCEPT !.matched = el.matched] /\ el.matched \in BOOLEAN
    BY <1>1 DEF NetOK, Element
  <2>2. ASSUME m.kind = "Watch",
               net' = [out |-> [net.out EXCEPT ![p] = Tail(o)], in |-> [net.in EXCEPT ![p] = i \o <<>>]],
               el' = [el EXCEPT !.matched = @ \/ (el.sub # 0 /\ m.id = el.sub)]
        PROVE  \E r, b : Served(r, b)
    <3>1. /\ <<>> \in Seq(InMsg) /\ CountOf(<<>>, Pongs) = 0 /\ CountOf(<<>>, {Pong(FALSE)}) = 0
          /\ \A k \in Nat : CountOf(<<>>, ChangesFor(k)) = 0
      BY CountNone
    <3>2. m \notin {Ping}
      BY <2>2 DEF Ping
    <3>3. PICK b \in BOOLEAN : b = (el.matched \/ (el.sub # 0 /\ m.id = el.sub))
      BY <2>1
    <3>4. el' = [el EXCEPT !.matched = b] /\ (b => el.matched \/ el.sub # 0)
      BY <2>2, <3>3
    <3> HIDE DEF m, o, i
    <3>5. Served(<<>>, b)
      BY <2>2, <3>1, <3>2, <3>3, <3>4
    <3> HIDE DEF Served
    <3> QED BY <3>5
  <2>3. ASSUME NEW v, NEW ok \in BOOLEAN, ok => v \in Answers, ~ok => v = Nothing,
               m.kind = "Ask", el' = el,
               net' = [out |-> [net.out EXCEPT ![p] = Tail(o)],
                       in |-> [net.in EXCEPT ![p] = i \o <<Answer(m, ok, v)>>]]
        PROVE  \E r, b : Served(r, b)
    <3>1. m.id \in Nat /\ m.name \in Names /\ m \notin {Ping}
      BY <1>3, <2>3, MessageKinds DEF Ping
    <3>2. PICK a : a = Answer(m, ok, v)
      OBVIOUS
    <3>3. a \in InMsg /\ a.kind = "Answer"
      BY <2>3, <3>1, <3>2 DEF Answer, InMsg
    <3>4. a \notin Pongs /\ \A k \in Nat : a \notin ChangesFor(k)
      BY <3>3, MessageKinds
    <3>5. a \notin {Pong(FALSE)}
      BY <3>4, MessageKinds
    <3>6. CountOf(<<a>>, Pongs) = 0 /\ CountOf(<<a>>, {Pong(FALSE)}) = 0
      BY <3>4, <3>5, CountOne
    <3>7. \A k \in Nat : CountOf(<<a>>, ChangesFor(k)) = 0
      BY <3>4, CountOne
    <3>8. <<a>> \in Seq(InMsg)
      BY <3>3
    <3> HIDE DEF m, o, i
    <3>9. Served(<<a>>, el.matched)
      BY <2>1, <2>3, <3>1, <3>2, <3>6, <3>7, <3>8
    <3> HIDE DEF Served
    <3> QED BY <3>9
  <2>4. ASSUME m.kind = "Ping", el' = el,
               net' = [out |-> [net.out EXCEPT ![p] = Tail(o)],
                       in |-> [net.in EXCEPT ![p] = i \o <<Pong(TRUE)>>]]
        PROVE  \E r, b : Served(r, b)
    <3>1. PICK a : a = Pong(TRUE)
      OBVIOUS
    <3>2. m \in {Ping} /\ a \in Pongs
      BY <1>3, <2>4, <3>1, MessageKinds
    <3>3. a \in InMsg /\ a.kind = "Pong" /\ a.ok
      BY <3>1, <3>2, MessageKinds DEF Pong
    <3>4. a \notin {Pong(FALSE)} /\ \A k \in Nat : a \notin ChangesFor(k)
      BY <3>2, <3>3, MessageKinds
    <3>5. CountOf(<<a>>, Pongs) = 1 /\ CountOf(<<a>>, {Pong(FALSE)}) = 0
      BY <3>2, <3>4, CountOne
    <3>6. \A k \in Nat : CountOf(<<a>>, ChangesFor(k)) = 0
      BY <3>4, CountOne
    <3>7. <<a>> \in Seq(InMsg)
      BY <3>3
    <3> HIDE DEF m, o, i
    <3>8. Served(<<a>>, el.matched)
      BY <2>1, <2>4, <3>1, <3>2, <3>5, <3>6, <3>7
    <3> HIDE DEF Served
    <3> QED BY <3>8
  <2>5. m.kind = "Ask" => truth[p][m.name] \in Answers
    <3>1. m.kind = "Ask" => m.name \in Names
      BY <1>3, MessageKinds DEF Ping
    <3> QED BY <1>1, <3>1 DEF WorldType
  <2>6. CASE m.kind = "Watch"
    BY <2>2, <2>6 DEF Serve
  <2>7. CASE m.kind = "Ask"
    <3>1. el' = el /\ \E ok \in BOOLEAN : \E v :
             /\ (ok => v = truth[p][m.name]) /\ (~ok => v = Nothing)
             /\ net' = [out |-> [net.out EXCEPT ![p] = Tail(o)],
                        in |-> [net.in EXCEPT ![p] = i \o <<Answer(m, ok, v)>>]]
      BY <2>7 DEF Serve
    <3> HIDE DEF Served, m, o, i
    <3> QED BY <2>3, <2>5, <2>7, <3>1
  <2>8. CASE m.kind = "Ping"
    BY <2>4, <2>8 DEF Serve
  <2> QED BY <1>3, <2>6, <2>7, <2>8, MessageKinds
<1>5. PICK r, b : Served(r, b)
  BY <1>4
<1>6. i \o r \in Seq(InMsg) /\ CountOf(i, Pongs) \in Nat /\ CountOf(Tail(o), {Ping}) \in Nat
  BY <1>2, <1>3, <1>5, CountType, ConcatProperties
<1>7. CountOf(o, {Ping}) = CountOf(Tail(o), {Ping}) + IF m \in {Ping} THEN 1 ELSE 0
  BY <1>2, CountTail
<1>8. CountOf(i \o r, Pongs) = CountOf(i, Pongs) + IF m \in {Ping} THEN 1 ELSE 0
  BY <1>2, <1>5, CountConcat
<1>9. CountOf(i \o r, {Pong(FALSE)}) = CountOf(i, {Pong(FALSE)})
  <2>1. CountOf(i \o r, {Pong(FALSE)}) = CountOf(i, {Pong(FALSE)}) + CountOf(r, {Pong(FALSE)})
    BY <1>2, <1>5, CountConcat
  <2>2. CountOf(i, {Pong(FALSE)}) \in Nat
    BY <1>2, CountType
  <2> QED BY <1>5, <2>1, <2>2
<1>10. ASSUME NEW k \in Nat PROVE CountOf(i \o r, ChangesFor(k)) = CountOf(i, ChangesFor(k))
  <2>1. CountOf(i \o r, ChangesFor(k)) = CountOf(i, ChangesFor(k)) + CountOf(r, ChangesFor(k))
    BY <1>2, <1>5, CountConcat
  <2>2. CountOf(i, ChangesFor(k)) \in Nat
    BY <1>2, CountType
  <2> QED BY <1>5, <2>1, <2>2
<1>11. PICK e : e = [el EXCEPT !.matched = b]
  OBVIOUS
<1>12. /\ e \in Element /\ SamePlace(e) /\ e.said = el.said /\ e.heard = el.heard
       /\ e.matched = b /\ e.blocked = el.blocked
  BY <1>1, <1>5, <1>11 DEF Element, SamePlace
<1>13. Sound(e)
  BY <1>1, <1>5, <1>12 DEF Sound, SamePlace
<1>14. /\ el' = e /\ net' = [out |-> [net.out EXCEPT ![p] = Tail(o)], in |-> [net.in EXCEPT ![p] = i \o r]]
  BY <1>5, <1>11
<1>15. /\ PingsAt(p) = CountOf(o, {Ping}) + CountOf(i, Pongs) /\ LossesAt(p) = CountOf(i, {Pong(FALSE)})
       /\ \A k \in Nat : ChangesAt(p, k) = CountOf(i, ChangesFor(k))
  BY DEF PingsAt, LossesAt, ChangesAt
<1> HIDE DEF Served, m, o, i
<1>16. /\ NetOK' /\ PingsAt(p)' = CountOf(Tail(o), {Ping}) + CountOf(i \o r, Pongs)
       /\ LossesAt(p)' = CountOf(i \o r, {Pong(FALSE)})
       /\ \A k \in Nat : ChangesAt(p, k)' = CountOf(i \o r, ChangesFor(k))
       /\ \A s \in Peers \ {p} : /\ PingsAt(s)' = PingsAt(s) /\ LossesAt(s)' = LossesAt(s)
                                 /\ \A k \in Nat : ChangesAt(s, k)' = ChangesAt(s, k)
  BY <1>1, <1>2, <1>3, <1>6, <1>14, OnePeer
<1>17. PingsAt(p)' = PingsAt(p)
  <2>1. CASE m \in {Ping}
    BY <1>6, <1>7, <1>8, <1>15, <1>16, <2>1
  <2>2. CASE m \notin {Ping}
    BY <1>6, <1>7, <1>8, <1>15, <1>16, <2>2
  <2> QED BY <2>1, <2>2
<1>18. \A s \in Peers : /\ PingsAt(s)' = PingsAt(s) /\ LossesAt(s)' = LossesAt(s)
                        /\ \A k \in Nat : ChangesAt(s, k)' = ChangesAt(s, k)
  BY <1>9, <1>10, <1>15, <1>16, <1>17
<1> QED BY <1>2, <1>12, <1>13, <1>14, <1>16, <1>18, LearningKeeps, WorldSame

LEMMA ChangesStep ==
    ASSUME IInv, NEW p \in Peers, NEW n \in Names, NEW v \in Answers, Changes(p, n, v)
    PROVE  IInv'
<1> DEFINE watched == el.matched /\ el.at = <<p, n>>
           o == net.out[p]
           i == net.in[p]
           m0 == Change(el.sub, truth[p][n], v)
<1>1. /\ kind \in AllKinds /\ el \in Element /\ Sound(el) /\ NetOK /\ WorldType
  BY KindsAssumption DEF IInv, TypeInv
<1>2. /\ UNCHANGED <<kind, probe, up>> /\ truth' = [truth EXCEPT ![p][n] = v]
      /\ watched => /\ net' = [net EXCEPT !.in[p] = Append(i, m0)]
                    /\ el' = [el EXCEPT !.said = @ + 1]
      /\ ~watched => net' = net /\ el' = el
  BY DEF Changes
<1>3. Answers' = Answers /\ InMsg' = InMsg
  BY <1>2, SameTypes
<1>4. WorldType' /\ \A q \in Peers : up'[q] => up[q]
  BY <1>1, <1>2, <1>3 DEF WorldType
<1>5. CASE ~watched
  <2>1. PICK e : e = el
    OBVIOUS
  <2>2. el' = e /\ net' = net
    BY <1>2, <1>5, <2>1
  <2>3. NetOK'
    BY <1>1, <1>3, <2>2 DEF NetOK
  <2>4. \A q \in Peers : /\ PingsAt(q)' = PingsAt(q) /\ LossesAt(q)' = LossesAt(q)
                         /\ \A k \in Nat : ChangesAt(q, k)' = ChangesAt(q, k)
    BY <2>2 DEF PingsAt, LossesAt, ChangesAt
  <2>5. e \in Element /\ SamePlace(e) /\ e.said = el.said /\ e.heard = el.heard /\ Sound(e)
    BY <1>1, <2>1 DEF SamePlace
  <2> QED BY <1>2, <1>4, <2>2, <2>3, <2>4, <2>5, LearningKeeps
<1>6. CASE watched
  <2>1. PICK m : m = m0
    OBVIOUS
  <2>2. /\ el.sub \in Nat /\ el.sub # 0 /\ el.peer \in Peers /\ p = el.peer
        /\ el.said \in Nat /\ el.heard \in Nat /\ el.serial \in Nat
    BY <1>1, <1>6 DEF Element, Sound
  <2>3. m \in InMsg /\ m.kind = "Change" /\ m.id = el.sub
    <3>1. truth[p][n] \in Answers
      BY <1>1 DEF WorldType
    <3> QED BY <2>1, <2>2, <3>1 DEF Change, InMsg
  <2>4. /\ m \notin Pongs /\ m \notin {Pong(FALSE)}
        /\ \A k \in Nat : m \in ChangesFor(k) <=> k = el.sub
    <3>1. m \notin Pongs /\ \A k \in Nat : m \in ChangesFor(k) <=> k = el.sub
      BY <2>3, MessageKinds
    <3>2. m \notin {Pong(FALSE)}
      BY <3>1, MessageKinds
    <3> QED BY <3>1, <3>2
  <2>5. /\ o \in Seq(OutMsg) /\ i \in Seq(InMsg) /\ Append(i, m) \in Seq(InMsg)
    <3>1. o \in Seq(OutMsg) /\ i \in Seq(InMsg)
      BY <1>1, CountsAreNumbers
    <3> HIDE DEF i, o
    <3> QED BY <2>3, <3>1
  <2>6. net' = [out |-> [net.out EXCEPT ![p] = o], in |-> [net.in EXCEPT ![p] = Append(i, m)]]
    <3>1. /\ net = [out |-> net.out, in |-> net.in]
          /\ net.out \in [Peers -> Seq(OutMsg)] /\ net.in \in [Peers -> Seq(InMsg)]
      BY <1>1 DEF NetOK
    <3>2. net' = [out |-> net.out, in |-> [net.in EXCEPT ![p] = Append(i, m)]]
      BY <1>2, <1>6, <2>1, <3>1
    <3>3. net.out = [net.out EXCEPT ![p] = o]
      BY <3>1
    <3> QED BY <3>2, <3>3
  <2>7. PICK e : e = [el EXCEPT !.said = @ + 1]
    OBVIOUS
  <2>8. /\ e \in Element /\ SamePlace(e) /\ e.said = el.said + 1 /\ e.heard = el.heard
        /\ e.matched = el.matched /\ e.blocked = el.blocked /\ el' = e
    <3>1. el.said + 1 \in Nat /\ e = [el EXCEPT !.said = el.said + 1]
      BY <2>2, <2>7
    <3>2. e \in Element
      BY <1>1, <3>1 DEF Element
    <3>3. /\ SamePlace(e) /\ e.said = el.said + 1 /\ e.heard = el.heard
          /\ e.matched = el.matched /\ e.blocked = el.blocked
      BY <1>1, <3>1 DEF Element, SamePlace
    <3>4. el' = e
      BY <1>2, <1>6, <2>7
    <3> QED BY <3>2, <3>3, <3>4
  <2>9. /\ PingsAt(p) = CountOf(o, {Ping}) + CountOf(i, Pongs) /\ LossesAt(p) = CountOf(i, {Pong(FALSE)})
        /\ \A k \in Nat : ChangesAt(p, k) = CountOf(i, ChangesFor(k))
    BY DEF PingsAt, LossesAt, ChangesAt
  <2> HIDE DEF o, i, m0
  <2>10. /\ NetOK' /\ PingsAt(p)' = CountOf(o, {Ping}) + CountOf(Append(i, m), Pongs)
         /\ LossesAt(p)' = CountOf(Append(i, m), {Pong(FALSE)})
         /\ \A k \in Nat : ChangesAt(p, k)' = CountOf(Append(i, m), ChangesFor(k))
         /\ \A q \in Peers \ {p} : /\ PingsAt(q)' = PingsAt(q) /\ LossesAt(q)' = LossesAt(q)
                                   /\ \A k \in Nat : ChangesAt(q, k)' = ChangesAt(q, k)
    BY <1>1, <1>2, <2>5, <2>6, OnePeer
  <2>11. ASSUME NEW S
         PROVE  /\ m \notin S => CountOf(Append(i, m), S) = CountOf(i, S)
                /\ m \in S => CountOf(Append(i, m), S) = CountOf(i, S) + 1
    <3>1. CountOf(Append(i, m), S) = CountOf(i, S) + IF m \in S THEN 1 ELSE 0
      BY <2>3, <2>5, CountAppend
    <3>2. CountOf(i, S) \in Nat
      BY <2>5, CountType
    <3> QED BY <3>1, <3>2
  <2>12. CountOf(Append(i, m), Pongs) = CountOf(i, Pongs) /\ CountOf(Append(i, m), {Pong(FALSE)}) = CountOf(i, {Pong(FALSE)})
    BY <2>4, <2>11
  <2>13. \A k \in Nat : /\ k # el.sub => ChangesAt(p, k)' = ChangesAt(p, k)
                        /\ k = el.sub => ChangesAt(p, k)' = ChangesAt(p, k) + 1
    BY <2>4, <2>9, <2>10, <2>11
  <2>14. \A q \in Peers : PingsAt(q)' = PingsAt(q) /\ LossesAt(q)' = LossesAt(q)
    BY <2>9, <2>10, <2>12
  <2>15. HeardInv'
    <3>1. ASSUME NEW q \in Peers, NEW k \in Nat
          PROVE  /\ k > e.serial => ChangesAt(q, k)' = 0
                 /\ k = e.sub /\ k # 0 => ChangesAt(q, k)' = IF q = e.peer THEN e.said - e.heard ELSE 0
      <4>1. /\ k > el.serial => ChangesAt(q, k) = 0
            /\ k = el.sub /\ k # 0 => ChangesAt(q, k) = IF q = el.peer THEN el.said - el.heard ELSE 0
            /\ el.sub <= el.serial
        BY DEF IInv, HeardInv
      <4>2. k > e.serial => ChangesAt(q, k)' = 0
        <5>1. k > e.serial => k # el.sub /\ k > el.serial
          BY <2>2, <2>8, <4>1 DEF SamePlace
        <5> QED BY <2>10, <2>13, <4>1, <5>1
      <4>3. ASSUME k = e.sub, k # 0
            PROVE  ChangesAt(q, k)' = IF q = e.peer THEN e.said - e.heard ELSE 0
        <5>1. k = el.sub /\ e.peer = el.peer
          BY <2>8, <4>3 DEF SamePlace
        <5>2. CASE q = p
          <6>1. ChangesAt(p, k) = el.said - el.heard /\ ChangesAt(p, k)' = ChangesAt(p, k) + 1
            BY <2>2, <2>13, <4>1, <4>3, <5>1, <5>2
          <6>2. ChangesAt(p, k)' = e.said - e.heard
            BY <2>2, <2>8, <6>1
          <6> QED BY <2>2, <5>1, <5>2, <6>2
        <5>3. CASE q # p
          BY <2>2, <2>10, <4>1, <4>3, <5>1, <5>3
        <5> QED BY <5>2, <5>3
      <4> QED BY <4>2, <4>3
    <3>2. e.sub <= e.serial /\ e.heard <= e.said /\ (e.sub = 0 => e.said = 0)
      BY <2>2, <2>8 DEF IInv, HeardInv, SamePlace
    <3> QED BY <2>8, <3>1, <3>2 DEF HeardInv
  <2>16. QuietProbes' /\ WrapperProbes' /\ LossesInv' /\ (~MoveWhilePinged => SessionProbes')
    BY <1>2, <1>4, <2>8, <2>14, ProbesSame DEF SamePlace
  <2>17. Sound(e)
    BY <1>1, <2>8 DEF Sound, SamePlace
  <2>18. TypeInv' /\ (~MoveWhilePinged => Hooked')
    <3>1. Element' = Element
      BY <1>2, SameTypes
    <3>2. Sound(el)' /\ ProbeType'
      BY <1>2, <2>8, <2>17 DEF Sound, ProbeType, IInv, TypeInv
    <3>3. ~MoveWhilePinged => Hooked'
      BY <1>2, <2>8 DEF Hooked, SamePlace, IInv
    <3> QED BY <1>2, <1>4, <2>8, <2>10, <3>1, <3>2, <3>3 DEF TypeInv, IInv
  <2> QED BY <2>15, <2>16, <2>18 DEF IInv
<1> QED BY <1>5, <1>6

LEMMA DiesStep ==
    ASSUME IInv, NEW p \in Peers, Dies(p)
    PROVE  IInv'
<1> DEFINE o == net.out[p]
           i == net.in[p]
           x == Errors(o)
<1>1. /\ kind \in AllKinds /\ el \in Element /\ Sound(el) /\ NetOK /\ WorldType
  BY KindsAssumption DEF IInv, TypeInv
<1>2. /\ UNCHANGED <<kind, probe, truth>> /\ up' = [up EXCEPT ![p] = FALSE]
      /\ net' = [out |-> [net.out EXCEPT ![p] = <<>>], in |-> [net.in EXCEPT ![p] = i \o x]]
  BY DEF Dies
<1>3. PICK b \in BOOLEAN : el' = [el EXCEPT !.orphaned = b]
  <2>1. (el.orphaned \/ el.peer = p) \in BOOLEAN
    OBVIOUS
  <2> QED BY <2>1 DEF Dies
<1>4. Answers' = Answers
  BY <1>2, SameTypes
<1>5. WorldType' /\ ~up'[p] /\ \A q \in Peers : up'[q] => up[q]
  BY <1>1, <1>2, <1>4 DEF WorldType
<1>6. PICK e : e = [el EXCEPT !.orphaned = b]
  OBVIOUS
<1>7. /\ e \in Element /\ SamePlace(e) /\ e.said = el.said /\ e.heard = el.heard
      /\ e.matched = el.matched /\ e.blocked = el.blocked /\ el' = e
  BY <1>1, <1>3, <1>6 DEF Element, SamePlace
<1>8. Sound(e)
  BY <1>1, <1>7 DEF Sound, SamePlace
<1>9. o \in Seq(OutMsg) /\ i \in Seq(InMsg)
  BY <1>1, CountsAreNumbers
<1>10. /\ PingsAt(p) = CountOf(o, {Ping}) + CountOf(i, Pongs)
       /\ \A k \in Nat : ChangesAt(p, k) = CountOf(i, ChangesFor(k))
  BY DEF PingsAt, ChangesAt
<1> HIDE DEF o, i
<1>11. /\ x \in Seq(InMsg) /\ CountOf(x, Pongs) = CountOf(o, {Ping})
       /\ \A k \in Nat : CountOf(x, ChangesFor(k)) = 0
  BY <1>9, ErrorsAnswer
<1> HIDE DEF x
<1>12. i \o x \in Seq(InMsg) /\ <<>> \in Seq(OutMsg) /\ CountOf(<<>>, {Ping}) = 0
  BY <1>9, <1>11, CountNone, ConcatProperties
<1>13. CountOf(i \o x, Pongs) = CountOf(i, Pongs) + CountOf(o, {Ping})
  BY <1>9, <1>11, CountConcat
<1>14. ASSUME NEW k \in Nat PROVE CountOf(i \o x, ChangesFor(k)) = CountOf(i, ChangesFor(k))
  <2>1. CountOf(i \o x, ChangesFor(k)) = CountOf(i, ChangesFor(k)) + CountOf(x, ChangesFor(k))
    BY <1>9, <1>11, CountConcat
  <2>2. CountOf(i, ChangesFor(k)) \in Nat
    BY <1>9, CountType
  <2> QED BY <1>11, <2>1, <2>2
<1>15. /\ NetOK' /\ PingsAt(p)' = CountOf(<<>>, {Ping}) + CountOf(i \o x, Pongs)
       /\ \A k \in Nat : ChangesAt(p, k)' = CountOf(i \o x, ChangesFor(k))
       /\ \A q \in Peers \ {p} : /\ PingsAt(q)' = PingsAt(q) /\ LossesAt(q)' = LossesAt(q)
                                 /\ \A k \in Nat : ChangesAt(q, k)' = ChangesAt(q, k)
  BY <1>1, <1>2, <1>12, OnePeer
<1>16. PingsAt(p)' = PingsAt(p)
  <2>1. CountOf(i, Pongs) \in Nat /\ CountOf(o, {Ping}) \in Nat
    BY <1>9, CountType
  <2> QED BY <1>10, <1>12, <1>13, <1>15, <2>1
<1>17. \A q \in Peers : /\ PingsAt(q)' = PingsAt(q) /\ (up'[q] => LossesAt(q)' = LossesAt(q))
                        /\ \A k \in Nat : ChangesAt(q, k)' = ChangesAt(q, k)
  BY <1>5, <1>10, <1>14, <1>15, <1>16
<1> QED BY <1>2, <1>5, <1>7, <1>8, <1>15, <1>17, LearningKeeps

-----------------------------------------------------------------------------
(* The steps of the probes.                                                *)

LEMMA ArmLossProbeStep ==
    ASSUME IInv, NEW p \in Peers \ {Session}, ArmLossProbe(p)
    PROVE  IInv'
<1>1. /\ kind \in AllKinds /\ el \in Element /\ Sound(el) /\ NetOK /\ WorldType /\ ProbeType
      /\ Session \in Peers
  BY KindsAssumption, PlacesAssumption DEF IInv, TypeInv
<1>2. /\ UNCHANGED <<kind, el, up, truth>> /\ probe.wrapper[p].rearm
      /\ probe' = [probe EXCEPT !.wrapper[p].rearm = FALSE, !.wrapper[p].probing = TRUE]
      /\ net' = Posted(p, <<Ping>>)
  BY DEF ArmLossProbe
<1>3. /\ Element' = Element /\ Answers' = Answers /\ (Proxy' <=> Proxy)
  BY <1>2, SameTypes
<1>4. Proxy
  BY <1>2 DEF IInv, QuietProbes
<1>5. <<Ping>> \in Seq(OutMsg) /\ CountOf(<<Ping>>, {Ping}) = 1
  <2>1. CountOf(<<Ping>>, {Ping}) = 1
    BY CountOne
  <2> QED BY <2>1, MessageKinds
<1>6. /\ NetOK'
      /\ PingsAt(p)' = PingsAt(p) + 1
      /\ up[p] => LossesAt(p)' = LossesAt(p)
      /\ \A k \in Nat : ChangesAt(p, k)' = ChangesAt(p, k)
      /\ \A q \in Peers \ {p} : /\ PingsAt(q)' = PingsAt(q) /\ LossesAt(q)' = LossesAt(q)
                                /\ \A k \in Nat : ChangesAt(q, k)' = ChangesAt(q, k)
  BY <1>1, <1>2, <1>5, Posting
<1>7. /\ ProbeType' /\ probe'.watched = probe.watched /\ probe'.gates = probe.gates
      /\ ~probe'.wrapper[p].rearm /\ probe'.wrapper[p].connected = probe.wrapper[p].connected
      /\ \A q \in Peers \ {Session, p} : probe'.wrapper[q] = probe.wrapper[q]
  BY <1>1, <1>2 DEF ProbeType, Wrapper
<1>8. QuietProbes' /\ LossesInv'
  BY <1>2, <1>3, <1>4, <1>6 DEF IInv, QuietProbes, LossesInv
<1>9. WrapperProbes'
  <2>1. \A q \in Peers : PingsAt(q) \in Nat
    BY <1>1, CountsAreNumbers
  <2>2. /\ PingsAt(p) + 1 = (IF probe.wrapper[p].connected THEN 1 ELSE 0)
        /\ \A q \in Peers \ {Session, p} : PingsAt(q) + Rearm(q) = IF probe.wrapper[q].connected THEN 1 ELSE 0
    BY <1>2, <1>4 DEF IInv, WrapperProbes, Rearm
  <2>3. PingsAt(p)' + Rearm(p)' = IF probe'.wrapper[p].connected THEN 1 ELSE 0
    BY <1>6, <1>7, <2>1, <2>2 DEF Rearm
  <2>4. \A q \in Peers \ {Session, p} : PingsAt(q)' + Rearm(q)' = IF probe'.wrapper[q].connected THEN 1 ELSE 0
    BY <1>6, <1>7, <2>2 DEF Rearm
  <2> QED BY <2>3, <2>4 DEF WrapperProbes
<1>10. ~MoveWhilePinged => SessionProbes'
  BY <1>1, <1>2, <1>3, <1>6, <1>7 DEF IInv, SessionProbes
<1>11. HeardInv' /\ (~MoveWhilePinged => Hooked')
  BY <1>2, <1>6 DEF IInv, HeardInv, Hooked
<1>12. TypeInv'
  <2>1. Sound(el)' /\ WorldType'
    BY <1>1, <1>2, <1>3 DEF Sound, WorldType
  <2> QED BY <1>1, <1>2, <1>3, <1>6, <1>7, <2>1 DEF TypeInv, IInv
<1> QED BY <1>8, <1>9, <1>10, <1>11, <1>12 DEF IInv

LEMMA SessionGateStep ==
    ASSUME IInv, SessionGate
    PROVE  IInv'
<1> DEFINE ms == IF el.peer = Session THEN SessionPing(Session) ELSE <<>>
           c == CountOf(ms, {Ping})
<1>1. /\ kind \in AllKinds /\ el \in Element /\ Sound(el) /\ NetOK /\ WorldType /\ ProbeType
      /\ Session \in Peers
  BY KindsAssumption, PlacesAssumption DEF IInv, TypeInv
<1>2. /\ UNCHANGED <<kind, el, up, truth>> /\ probe.gates > 0
      /\ probe' = [probe EXCEPT !.gates = @ - 1, !.watched = @ \/ ms # <<>>]
      /\ net' = Posted(Session, ms)
  BY DEF SessionGate
<1>3. /\ Element' = Element /\ Answers' = Answers /\ (Proxy' <=> Proxy)
  BY <1>2, SameTypes
\* A ping goes out, for the default connection, or none does.
<1>4. \/ /\ Proxy /\ el.peer = Session /\ ~probe.watched /\ ms = <<Ping>> /\ c = 1
      \/ /\ ms = <<>> /\ c = 0 /\ (Proxy /\ el.peer = Session => probe.watched)
  <2>1. CountOf(<<Ping>>, {Ping}) = 1 /\ CountOf(<<>>, {Ping}) = 0
    BY CountOne, CountNone
  <2>2. \/ ms = <<Ping>> /\ Proxy /\ el.peer = Session /\ ~probe.watched
        \/ ms = <<>> /\ (Proxy /\ el.peer = Session => probe.watched)
    BY DEF SessionPing
  <2> HIDE DEF ms
  <2> QED BY <2>1, <2>2
<1> HIDE DEF ms
<1>5. ms \in Seq(OutMsg) /\ (ms # <<>> <=> c = 1)
  <2>1. <<>> \in Seq(OutMsg) /\ <<Ping>> \in Seq(OutMsg) /\ <<Ping>> # <<>>
    BY MessageKinds
  <2> HIDE DEF c
  <2>2. CASE ms = <<Ping>> /\ c = 1
    BY <2>1, <2>2
  <2>3. CASE ms = <<>> /\ c = 0
    BY <2>1, <2>3
  <2> QED BY <1>4, <2>2, <2>3
<1> HIDE DEF c
<1>6. /\ NetOK'
      /\ PingsAt(Session)' = PingsAt(Session) + c
      /\ up[Session] => LossesAt(Session)' = LossesAt(Session)
      /\ \A k \in Nat : ChangesAt(Session, k)' = ChangesAt(Session, k)
      /\ \A q \in Peers \ {Session} : /\ PingsAt(q)' = PingsAt(q) /\ LossesAt(q)' = LossesAt(q)
                                      /\ \A k \in Nat : ChangesAt(q, k)' = ChangesAt(q, k)
  BY <1>1, <1>2, <1>5, Posting DEF c
<1>7. /\ ProbeType' /\ probe'.wrapper = probe.wrapper
      /\ probe'.watched <=> probe.watched \/ c = 1
  <2>1. probe.gates - 1 \in Nat
    BY <1>1, <1>2 DEF ProbeType
  <2>2. PICK b \in BOOLEAN : b = (probe.watched \/ ms # <<>>)
    OBVIOUS
  <2>3. probe' = [probe EXCEPT !.gates = probe.gates - 1, !.watched = b]
    BY <1>1, <1>2, <2>2 DEF ProbeType
  <2>4. ProbeType' /\ probe'.wrapper = probe.wrapper /\ probe'.watched = b
    BY <1>1, <2>1, <2>3 DEF ProbeType
  <2> QED BY <1>5, <2>2, <2>4
<1>8. PingsAt(Session) \in Nat
  BY <1>1, CountsAreNumbers
<1>9. QuietProbes'
  <2>1. ~Proxy => c = 0
    BY <1>4
  <2> QED BY <1>3, <1>6, <1>7, <1>8, <2>1 DEF IInv, QuietProbes
<1>10. WrapperProbes' /\ LossesInv'
  BY <1>1, <1>2, <1>3, <1>6, <1>7 DEF IInv, WrapperProbes, Rearm, LossesInv
<1>11. ASSUME ~MoveWhilePinged PROVE SessionProbes'
  <2>1. SUFFICES ASSUME Proxy
                 PROVE  /\ PingsAt(Session)' <= 1
                        /\ PingsAt(Session)' = 1 => probe'.watched /\ el.peer = Session
                        /\ probe'.watched /\ up[Session] => PingsAt(Session)' = 1
                        /\ el.complete /\ el.peer = Session /\ up[Session] => probe'.watched \/ probe'.gates > 0
    BY <1>2, <1>3 DEF SessionProbes
  <2>2. /\ PingsAt(Session) <= 1
        /\ PingsAt(Session) = 1 => probe.watched /\ el.peer = Session
        /\ probe.watched /\ up[Session] => PingsAt(Session) = 1
    BY <1>11, <2>1 DEF IInv, SessionProbes
  <2>3. CASE el.peer = Session /\ ~probe.watched /\ c = 1
    <3>1. PingsAt(Session) = 0
      BY <1>8, <2>2, <2>3
    <3> QED BY <1>6, <1>7, <2>3, <3>1
  <2>4. CASE c = 0 /\ (el.peer = Session => probe.watched)
    <3>1. PingsAt(Session)' = PingsAt(Session) /\ (probe'.watched <=> probe.watched)
      BY <1>6, <1>7, <1>8, <2>4
    <3> QED BY <2>2, <2>4, <3>1
  <2> QED BY <1>4, <2>1, <2>3, <2>4
<1>12. HeardInv' /\ (~MoveWhilePinged => Hooked')
  BY <1>2, <1>6 DEF IInv, HeardInv, Hooked
<1>13. TypeInv'
  <2>1. Sound(el)' /\ WorldType'
    BY <1>1, <1>2, <1>3 DEF Sound, WorldType
  <2> QED BY <1>1, <1>2, <1>3, <1>6, <1>7, <2>1 DEF TypeInv, IInv
<1> QED BY <1>9, <1>10, <1>11, <1>12, <1>13 DEF IInv

LEMMA PongArrivesStep ==
    ASSUME IInv, NEW p \in Peers, PongArrives(p)
    PROVE  IInv'
<1> DEFINE m == Head(net.in[p])
<1>1. /\ kind \in AllKinds /\ el \in Element /\ Sound(el) /\ NetOK /\ WorldType /\ ProbeType
      /\ Session \in Peers
  BY KindsAssumption, PlacesAssumption DEF IInv, TypeInv
<1>2. /\ UNCHANGED <<kind, up, truth>> /\ net.in[p] # <<>> /\ m.kind = "Pong"
      /\ net' = [net EXCEPT !.in[p] = Tail(@)]
      /\ WrapperPong(p, m.ok) \/ (p = Session /\ SessionPong(m.ok))
  BY DEF PongArrives
<1>3. /\ Element' = Element /\ Answers' = Answers /\ (Proxy' <=> Proxy)
  BY <1>2, SameTypes
<1> HIDE DEF m
<1>4. /\ NetOK' /\ m \in InMsg
      /\ PingsAt(p) = PingsAt(p)' + IF m \in Pongs THEN 1 ELSE 0
      /\ LossesAt(p) = LossesAt(p)' + IF m \in {Pong(FALSE)} THEN 1 ELSE 0
      /\ \A k \in Nat : ChangesAt(p, k) = ChangesAt(p, k)' + IF m \in ChangesFor(k) THEN 1 ELSE 0
      /\ \A q \in Peers \ {p} : /\ PingsAt(q)' = PingsAt(q) /\ LossesAt(q)' = LossesAt(q)
                                /\ \A k \in Nat : ChangesAt(q, k)' = ChangesAt(q, k)
  BY <1>1, <1>2, Taking DEF m
<1>5. PingsAt(p)' \in Nat /\ LossesAt(p)' \in Nat /\ \A k \in Nat : ChangesAt(p, k)' \in Nat
  BY <1>4, CountsNext
<1>6. m \in Pongs /\ m.ok \in BOOLEAN /\ (~m.ok <=> m = Pong(FALSE)) /\ \A k \in Nat : m \notin ChangesFor(k)
  <2>1. m \in Pongs
    BY <1>2, <1>4, MessageKinds
  <2>2. \A k \in Nat : m \notin ChangesFor(k)
    BY <1>2, <1>4, MessageKinds
  <2> QED BY <2>1, <2>2, MessageKinds
<1>7. PingsAt(p) = PingsAt(p)' + 1
  BY <1>4, <1>6
<1>8. \A q \in Peers : \A k \in Nat : ChangesAt(q, k)' = ChangesAt(q, k)
  BY <1>4, <1>5, <1>6
<1>9. Proxy
  BY <1>5, <1>7 DEF IInv, QuietProbes
\* A failure tells of a dead connection.
<1>10. ~m.ok => ~up[p]
  <2>1. ASSUME ~m.ok PROVE LossesAt(p) # 0
    <3>1. m \in {Pong(FALSE)}
      BY <1>6, <2>1
    <3> QED BY <1>4, <1>5, <3>1
  <2> QED BY <2>1 DEF IInv, LossesInv
<1>11. LossesInv'
  <2>1. up[p] => LossesAt(p)' = 0
    <3>1. up[p] => LossesAt(p) = 0
      BY DEF IInv, LossesInv
    <3>2. CASE m \in {Pong(FALSE)}
      BY <1>4, <1>5, <3>1, <3>2
    <3>3. CASE m \notin {Pong(FALSE)}
      BY <1>4, <1>5, <3>1, <3>3
    <3> QED BY <3>2, <3>3
  <2> QED BY <1>2, <1>4, <2>1 DEF IInv, LossesInv
<1>12. QuietProbes'
  BY <1>3, <1>9 DEF QuietProbes
\* The proxy drops its watchers when it is told.
<1>13. PICK d : d = OnBusDisconnected(el)
  OBVIOUS
<1>14. Settled(d) /\ d.peer = el.peer /\ d.complete = el.complete
  <2> DEFINE u == Unsubscribed(el)
  <2>1. /\ u \in Element /\ u.sub = 0 /\ u.serial = el.serial
        /\ ~u.matched /\ u.said = 0 /\ u.heard = 0
        /\ u.complete = el.complete /\ u.enabled = el.enabled /\ u.peer = el.peer /\ u.name = el.name
        /\ u.blocked = el.blocked
    BY <1>1, Unsubscribing DEF Rest
  <2>2. d = [u EXCEPT !.known = Nothing, !.told = @ + 1]
    BY <1>13 DEF OnBusDisconnected
  <2> HIDE DEF u
  <2>3. Nothing \in Shows /\ u.told + 1 \in Nat
    BY <1>1, <2>1, NothingIsShown DEF IInv, TypeInv, Element
  <2>4. d = [u EXCEPT !.known = Nothing, !.told = u.told + 1]
    BY <2>1, <2>2 DEF Element
  <2>5. d \in Element
    BY <2>1, <2>3, <2>4 DEF Element
  <2>6. /\ d.sub = u.sub /\ d.serial = u.serial /\ d.matched = u.matched /\ d.said = u.said
        /\ d.heard = u.heard /\ d.complete = u.complete /\ d.enabled = u.enabled /\ d.peer = u.peer
        /\ d.name = u.name /\ d.blocked = u.blocked
    BY <2>1, <2>4 DEF Element
  <2>7. ~el.blocked /\ kind \notin {"ServiceWatcher", "ObjectManager"}
    BY <1>1, <1>9 DEF Sound, Proxy
  <2>8. Sound(d)
    BY <2>1, <2>6, <2>7 DEF Sound
  <2> QED BY <2>1, <2>5, <2>6, <2>8 DEF Settled
\* The element is told that its connection is dead, or is as it was.
<1>15. ASSUME \/ el' = el
              \/ el' = d /\ (~MoveWhilePinged => ~up[el.peer])
       PROVE  HeardInv' /\ (~MoveWhilePinged => Hooked') /\ Sound(el)' /\ (el \in Element)'
              /\ el'.peer = el.peer /\ el'.complete = el.complete
  <2>1. CASE el' = el
    <3>1. HeardInv' /\ (~MoveWhilePinged => Hooked')
      BY <1>2, <1>8, <2>1 DEF IInv, HeardInv, Hooked
    <3>2. Sound(el)' /\ (el \in Element)'
      BY <1>1, <1>2, <1>3, <2>1 DEF Sound
    <3> QED BY <2>1, <3>1, <3>2
  <2>2. CASE el' = d /\ (~MoveWhilePinged => ~up[el.peer])
    <3>1. HeardInv'
      BY <1>8, <1>14, <2>2, SettledHeard DEF IInv
    <3>2. ~MoveWhilePinged => Hooked'
      BY <1>2, <1>14, <2>2 DEF Hooked
    <3>3. Sound(el)' /\ (el \in Element)'
      BY <1>2, <1>3, <1>14, <2>2 DEF Sound, Settled
    <3> QED BY <1>14, <2>2, <3>1, <3>2, <3>3
  <2> QED BY <1>15, <2>1, <2>2
<1>16. ASSUME HeardInv', ~MoveWhilePinged => Hooked', Sound(el)', (el \in Element)',
              ProbeType', WrapperProbes', ~MoveWhilePinged => SessionProbes'
       PROVE  IInv'
  <2>1. WorldType'
    BY <1>1, <1>2, <1>3 DEF WorldType
  <2> QED BY <1>1, <1>2, <1>4, <1>11, <1>12, <1>16, <2>1 DEF IInv, TypeInv
<1>17. CASE WrapperPong(p, m.ok)
  <2>1. /\ p # Session /\ el' = IF ~m.ok /\ el.peer = p THEN d ELSE el
        /\ probe' = [probe EXCEPT !.wrapper[p] = [connected |-> m.ok, probing |-> FALSE, rearm |-> m.ok]]
    BY <1>13, <1>17 DEF WrapperPong
  <2>2. /\ ProbeType' /\ probe'.watched = probe.watched /\ probe'.gates = probe.gates
        /\ probe'.wrapper[p].rearm = m.ok /\ probe'.wrapper[p].connected = m.ok
        /\ \A q \in Peers \ {Session, p} : probe'.wrapper[q] = probe.wrapper[q]
    <3>1. PICK w : w = [connected |-> m.ok, probing |-> FALSE, rearm |-> m.ok]
      OBVIOUS
    <3>2. w \in Wrapper /\ w.rearm = m.ok /\ w.connected = m.ok
      BY <1>6, <3>1 DEF Wrapper
    <3>3. probe' = [probe EXCEPT !.wrapper[p] = w]
      BY <2>1, <3>1
    <3>4. /\ probe'.wrapper = [probe.wrapper EXCEPT ![p] = w]
          /\ ProbeType' /\ probe'.watched = probe.watched /\ probe'.gates = probe.gates
      <4>1. [probe.wrapper EXCEPT ![p] = w] \in [Peers \ {Session} -> Wrapper]
        BY <1>1, <2>1, <3>2 DEF ProbeType
      <4>2. /\ probe'.wrapper = [probe.wrapper EXCEPT ![p] = w]
            /\ probe'.watched = probe.watched /\ probe'.gates = probe.gates
            /\ probe' = [wrapper |-> probe'.wrapper, watched |-> probe'.watched, gates |-> probe'.gates]
        BY <1>1, <3>3 DEF ProbeType
      <4> QED BY <1>1, <4>1, <4>2 DEF ProbeType
    <3>5. p \in Peers \ {Session} /\ probe.wrapper \in [Peers \ {Session} -> Wrapper]
      BY <1>1, <2>1 DEF ProbeType
    <3>6. probe'.wrapper[p] = w /\ \A q \in Peers \ {Session, p} : probe'.wrapper[q] = probe.wrapper[q]
      BY <3>4, <3>5
    <3> QED BY <3>2, <3>4, <3>6
  <2>3. /\ HeardInv' /\ (~MoveWhilePinged => Hooked') /\ Sound(el)' /\ (el \in Element)'
        /\ el'.peer = el.peer /\ el'.complete = el.complete
    BY <1>10, <1>15, <2>1
  <2>4. WrapperProbes'
    <3>1. \A q \in Peers \ {Session} : PingsAt(q) + Rearm(q) = IF probe.wrapper[q].connected THEN 1 ELSE 0
      BY <1>9 DEF IInv, WrapperProbes
    <3>2. PingsAt(p)' = 0
      BY <1>5, <1>7, <2>1, <3>1 DEF Rearm
    <3>3. Rearm(p)' = IF m.ok THEN 1 ELSE 0
      BY <2>2 DEF Rearm
    <3>4. PingsAt(p)' + Rearm(p)' = IF probe'.wrapper[p].connected THEN 1 ELSE 0
      BY <1>6, <2>2, <3>2, <3>3
    <3>5. \A q \in Peers \ {Session, p} : PingsAt(q)' + Rearm(q)' = IF probe'.wrapper[q].connected THEN 1 ELSE 0
      BY <1>4, <2>2, <3>1 DEF Rearm
    <3> QED BY <3>4, <3>5 DEF WrapperProbes
  <2>5. ~MoveWhilePinged => SessionProbes'
    <3>1. PingsAt(Session)' = PingsAt(Session)
      BY <1>1, <1>4, <2>1
    <3> QED BY <1>2, <1>3, <2>2, <2>3, <3>1 DEF IInv, SessionProbes
  <2> QED BY <1>16, <2>2, <2>3, <2>4, <2>5
<1>18. CASE p = Session /\ SessionPong(m.ok)
  <2>1. WrapperProbes' <=> (Proxy' => \A q \in Peers \ {Session} :
                              PingsAt(q) + Rearm(q)' = IF probe'.wrapper[q].connected THEN 1 ELSE 0)
    BY <1>4, <1>18 DEF WrapperProbes
  \* A proxy that stays while it is pinged is at the default connection.
  <2>2. ~MoveWhilePinged => PingsAt(Session)' = 0 /\ probe.watched /\ el.peer = Session
    <3>1. ~MoveWhilePinged => /\ PingsAt(Session) <= 1
                              /\ PingsAt(Session) = 1 => probe.watched /\ el.peer = Session
      BY <1>9 DEF IInv, SessionProbes
    <3> QED BY <1>5, <1>7, <1>18, <3>1
  <2>3. CASE ~m.ok
    <3>1. el' = d /\ probe' = probe
      BY <1>13, <1>18, <2>3 DEF SessionPong
    <3>2. /\ HeardInv' /\ (~MoveWhilePinged => Hooked') /\ Sound(el)' /\ (el \in Element)'
          /\ el'.peer = el.peer /\ el'.complete = el.complete
      BY <1>10, <1>15, <1>18, <2>2, <2>3, <3>1
    <3>3. ProbeType' /\ WrapperProbes'
      <4>1. Proxy => \A q \in Peers \ {Session} :
               PingsAt(q) + Rearm(q) = IF probe.wrapper[q].connected THEN 1 ELSE 0
        BY DEF IInv, WrapperProbes
      <4> QED BY <1>1, <1>3, <2>1, <3>1, <4>1 DEF ProbeType, Rearm
    <3>4. ~MoveWhilePinged => SessionProbes'
      BY <1>2, <1>3, <1>10, <1>18, <2>2, <2>3, <3>1, <3>2 DEF SessionProbes
    <3> QED BY <1>16, <3>2, <3>3, <3>4
  <2>4. CASE m.ok
    <3>1. /\ el' = el
          /\ probe' = IF el.peer # Session THEN probe
                      ELSE [probe EXCEPT !.watched = FALSE, !.gates = @ + 1]
      BY <1>18, <2>4 DEF SessionPong
    <3>2. /\ HeardInv' /\ (~MoveWhilePinged => Hooked') /\ Sound(el)' /\ (el \in Element)'
          /\ el'.peer = el.peer /\ el'.complete = el.complete
      BY <1>15, <3>1
    <3>3. /\ ProbeType' /\ probe'.wrapper = probe.wrapper
          /\ el.peer = Session => ~probe'.watched /\ probe'.gates > 0
      <4>1. CASE el.peer = Session
        <5>1. probe' = [probe EXCEPT !.watched = FALSE, !.gates = @ + 1]
          BY <3>1, <4>1
        <5>2. probe.gates \in Nat /\ probe.gates + 1 \in Nat /\ probe.gates + 1 > 0
          BY <1>1 DEF ProbeType
        <5>3. PICK g \in Nat : g = probe.gates + 1
          BY <5>2
        <5>4. probe' = [probe EXCEPT !.watched = FALSE, !.gates = g]
          BY <1>1, <5>1, <5>3 DEF ProbeType
        <5>5. ProbeType' /\ probe'.wrapper = probe.wrapper /\ ~probe'.watched /\ probe'.gates = g
          BY <1>1, <5>4 DEF ProbeType
        <5> QED BY <5>2, <5>3, <5>5
      <4>2. CASE el.peer # Session
        BY <1>1, <3>1, <4>2 DEF ProbeType
      <4> QED BY <4>1, <4>2
    <3>4. WrapperProbes'
      <4>1. Proxy => \A q \in Peers \ {Session} :
               PingsAt(q) + Rearm(q) = IF probe.wrapper[q].connected THEN 1 ELSE 0
        BY DEF IInv, WrapperProbes
      <4> QED BY <1>3, <2>1, <3>3, <4>1 DEF Rearm
    <3>5. ~MoveWhilePinged => SessionProbes'
      BY <1>2, <1>3, <2>2, <3>1, <3>2, <3>3 DEF SessionProbes
    <3> QED BY <1>16, <3>2, <3>3, <3>4, <3>5
  <2> QED BY <1>6, <2>3, <2>4
<1> QED BY <1>2, <1>17, <1>18

-----------------------------------------------------------------------------
(* The invariant.                                                          *)

LEMMA InitLemma == Init => IInv
<1> SUFFICES ASSUME Init PROVE IInv
  OBVIOUS
<1>1. kind \in AllKinds /\ kind \in Kinds /\ Session \in Peers /\ Nothing \in Shows
  BY KindsAssumption, PlacesAssumption, NothingIsShown DEF Init
<1>2. PICK n \in Names \cup {Nowhere}, b \in BOOLEAN :
         /\ b \/ kind \in {"Presence", "OwnerTracker", "SignalWatcher"}
         /\ kind = "Presence" => ~b \/ n = Nowhere
         /\ el = [complete |-> FALSE, enabled |-> b, peer |-> Session, name |-> n,
                  sub |-> 0, serial |-> 0, at |-> <<Session, Nowhere>>, matched |-> FALSE,
                  blocked |-> FALSE, known |-> Nothing, ready |-> FALSE,
                  failed |-> FALSE, orphaned |-> FALSE, told |-> 0, said |-> 0, heard |-> 0]
  BY DEF Init
<1>3. el \in Element
  BY <1>1, <1>2 DEF Element
<1>4. /\ ~el.complete /\ el.peer = Session /\ el.sub = 0 /\ el.serial = 0 /\ ~el.matched /\ ~el.blocked
      /\ el.said = 0 /\ el.heard = 0 /\ (kind \in {"ServiceWatcher", "ObjectManager"} => el.enabled)
  BY <1>2
<1>5. Sound(el)
  BY <1>4 DEF Sound
<1>6. /\ ProbeType /\ ~probe.watched
      /\ \A p \in Peers \ {Session} : probe.wrapper[p].connected /\ ~probe.wrapper[p].rearm
  BY DEF Init, ProbeType, Wrapper, Proxy
<1>7. WorldType
  <2>1. up \in [Peers -> BOOLEAN]
    BY DEF Init
  <2>2. PICK i : i = CHOOSE j \in Items : TRUE
    OBVIOUS
  <2>3. i \in Items
    BY <2>2, ItemsAssumption
  <2> DEFINE v(p) == IF kind = "ObjectManager" THEN {}
                     ELSE IF kind = "SignalWatcher" \/ p # Session THEN None
                     ELSE i
  <2>4. \A p \in Peers : v(p) \in Answers
    BY <2>3 DEF Answers
  <2>5. truth \in [Peers -> [Names -> Answers]]
    <3>1. truth = [p \in Peers |-> [m \in Names |-> v(p)]]
      BY <2>2 DEF Init
    <3> HIDE DEF v
    <3> QED BY <2>4, <3>1
  <2> QED BY <2>1, <2>5 DEF WorldType
<1>8. /\ net = [out |-> [p \in Peers |-> IF Proxy /\ p # Session THEN <<Ping>> ELSE <<>>],
                in |-> [p \in Peers |-> <<>>]]
  BY DEF Init
<1>9. /\ \A p \in Peers : net.in[p] = <<>>
      /\ \A p \in Peers : net.out[p] = IF Proxy /\ p # Session THEN <<Ping>> ELSE <<>>
      /\ NetOK
  <2>1. <<>> \in Seq(InMsg) /\ <<>> \in Seq(OutMsg) /\ <<Ping>> \in Seq(OutMsg)
    BY MessageKinds
  <2> QED BY <1>8, <2>1 DEF NetOK
<1>10. CountOf(<<Ping>>, {Ping}) = 1
  BY CountOne
<1>11. \A p \in Peers : /\ LossesAt(p) = 0 /\ \A k \in Nat : ChangesAt(p, k) = 0
                        /\ CountOf(net.in[p], Pongs) = 0
  BY <1>9, CountNone DEF LossesAt, ChangesAt
<1>12. \A p \in Peers : PingsAt(p) = IF Proxy /\ p # Session THEN 1 ELSE 0
  <2>1. ASSUME NEW p \in Peers PROVE CountOf(net.out[p], {Ping}) = IF Proxy /\ p # Session THEN 1 ELSE 0
    BY <1>9, <1>10, CountNone
  <2> QED BY <1>11, <2>1 DEF PingsAt
<1>13. HeardInv
  BY <1>4, <1>11 DEF HeardInv
<1>14. QuietProbes /\ WrapperProbes /\ LossesInv
  BY <1>6, <1>11, <1>12 DEF QuietProbes, WrapperProbes, LossesInv, Rearm
<1>15. SessionProbes /\ Hooked
  BY <1>1, <1>4, <1>6, <1>12 DEF SessionProbes, Hooked
<1> QED BY <1>1, <1>3, <1>5, <1>6, <1>7, <1>9, <1>13, <1>14, <1>15 DEF IInv, TypeInv

LEMMA NextLemma == IInv /\ [Next]_vars => IInv'
<1> SUFFICES ASSUME IInv, [Next]_vars PROVE IInv'
  OBVIOUS
<1>1. CASE Application
  BY <1>1, SetPeerStep, SetNameStep, SetEnabledStep, IntrospectedStep DEF Application
<1>2. CASE Environment
  BY <1>2, ChangesStep, DiesStep DEF Environment
<1>3. CASE ComponentComplete
  BY <1>3, ComponentCompleteStep
<1>4. CASE BlockingCallReturns
  BY <1>4, BlockingCallReturnsStep
<1>5. CASE SessionGate
  BY <1>5, SessionGateStep
<1>6. ASSUME NEW p \in Peers, Serve(p) \/ Deliver(p) PROVE IInv'
  BY <1>6, ServeStep, ChangeArrivesStep, AnswerArrivesStep, PongArrivesStep DEF Deliver
<1>7. ASSUME NEW p \in Peers \ {Session}, ArmLossProbe(p) PROVE IInv'
  BY <1>7, ArmLossProbeStep
<1>8. CASE UNCHANGED vars
  <2>1. UNCHANGED <<kind, el, probe, net, up, truth>>
    BY <1>8 DEF vars
  <2>2. Element' = Element /\ Answers' = Answers /\ InMsg' = InMsg /\ (Proxy' <=> Proxy)
    BY <2>1, SameTypes
  <2>3. \A p \in Peers : /\ PingsAt(p)' = PingsAt(p) /\ LossesAt(p)' = LossesAt(p)
                         /\ \A k \in Nat : ChangesAt(p, k)' = ChangesAt(p, k)
    BY <2>1 DEF PingsAt, LossesAt, ChangesAt
  <2>4. NetOK' /\ WorldType' /\ \A p \in Peers : up'[p] => up[p]
    BY <2>1, <2>2, WorldSame DEF NetOK, IInv, TypeInv
  <2>5. PICK e : e = el
    OBVIOUS
  <2>6. e \in Element /\ Sound(e) /\ SamePlace(e) /\ e.said = el.said /\ e.heard = el.heard /\ el' = e
    BY <2>1, <2>5 DEF IInv, TypeInv, SamePlace
  <2> QED BY <2>1, <2>3, <2>4, <2>6, LearningKeeps
<1> QED BY <1>1, <1>2, <1>3, <1>4, <1>5, <1>6, <1>7, <1>8 DEF Next

-----------------------------------------------------------------------------
(* The theorems on types and counts.                                       *)

\* What the element, the probes and the world are made of, and that a receiver
\* the peer knows of is one for the place the element is at.
THEOREM TypeCorrect == Spec => []TypeOK
<1>1. IInv => TypeOK
  <2>1. IInv => /\ kind \in Kinds /\ el \in Element
                /\ el.matched => el.sub # 0 /\ el.at = <<el.peer, el.name>>
                /\ el.blocked => kind = "ServiceWatcher" /\ el.sub # 0
                /\ el.sub # 0 => el.enabled /\ el.name # Nowhere /\ el.at = <<el.peer, el.name>>
    BY DEF IInv, TypeInv, Sound
  <2>2. IInv => /\ probe.wrapper \in [Peers \ {Session} -> Wrapper]
                /\ probe.watched \in BOOLEAN /\ probe.gates \in Nat
    BY DEF IInv, TypeInv, ProbeType
  <2>3. IInv => /\ up \in [Peers -> BOOLEAN]
                /\ truth \in [Peers -> [Names -> Answers]]
    BY DEF IInv, TypeInv, WorldType
  <2> QED BY <2>1, <2>2, <2>3 DEF TypeOK
<1> QED BY <1>1, InitLemma, NextLemma, PTL DEF Spec

\* A receiver forwards each change its peer sends it, and no other: what was
\* said and not heard is under way, so that at rest all was heard.
THEOREM ForwardsOnce ==
    ASSUME ~MoveWhilePinged
    PROVE  Spec => []ExactlyOnce
<1>1. IInv => ExactlyOnce
  <2>1. SUFFICES ASSUME IInv PROVE ExactlyOnce
    OBVIOUS
  <2>2. el \in Element /\ NetOK /\ el.peer \in Peers /\ el.sub \in Nat /\ el.said \in Nat /\ el.heard \in Nat
    BY <2>1 DEF IInv, TypeInv, Element
  <2>3. ASSUME Quiet, Following PROVE el.sub # 0 /\ el.heard = el.said
    <3>1. el.sub # 0
      BY <2>1, <2>3 DEF IInv, Hooked, Following
    <3>2. net.in[el.peer] \in Seq(InMsg)
      BY <2>2, CountsAreNumbers
    <3>3. \A i \in DOMAIN net.in[el.peer] : net.in[el.peer][i] \notin ChangesFor(el.sub)
      BY <2>2, <2>3, <3>2 DEF Quiet, Awaited, ToSet, ChangesFor
    <3>4. CountOf(net.in[el.peer], ChangesFor(el.sub)) = 0
      BY <3>2, <3>3, CountType
    <3>5. ChangesAt(el.peer, el.sub) = el.said - el.heard
      BY <2>1, <2>2, <3>1 DEF IInv, HeardInv
    <3> QED BY <2>2, <3>1, <3>4, <3>5 DEF ChangesAt
  <2> QED BY <2>1, <2>3 DEF ExactlyOnce, IInv, HeardInv
<1> QED BY <1>1, InitLemma, NextLemma, PTL DEF Spec

\* A probe of a connection never stops while the connection lives, and never
\* multiplies, of the connection objects and of the default connection alike.
THEOREM ProbesStand ==
    ASSUME ~MoveWhilePinged
    PROVE  Spec => []ProbeStands
<1>1. IInv => ProbeStands
  <2>1. SUFFICES ASSUME IInv PROVE ProbeStands
    OBVIOUS
  <2>2. NetOK /\ Session \in Peers
    BY <2>1, PlacesAssumption DEF IInv, TypeInv
  <2>3. ASSUME NEW p \in Peers PROVE Pings(p) = PingsAt(p) /\ PingsAt(p) \in Nat
    <3>1. net.out[p] \in Seq(OutMsg) /\ net.in[p] \in Seq(InMsg)
      BY <2>2, CountsAreNumbers
    <3>2. {i \in DOMAIN net.out[p] : net.out[p][i].kind = "Ping"} = Hits(net.out[p], {Ping})
      <4>1. \A i \in DOMAIN net.out[p] : net.out[p][i] \in OutMsg
        BY <3>1
      <4> QED BY <4>1, MessageKinds DEF Hits
    <3>3. {i \in DOMAIN net.in[p] : net.in[p][i].kind = "Pong"} = Hits(net.in[p], Pongs)
      <4>1. \A i \in DOMAIN net.in[p] : net.in[p][i] \in InMsg
        BY <3>1
      <4> QED BY <4>1, MessageKinds DEF Hits
    <3>4. PingsAt(p) \in Nat
      BY <2>2, CountsAreNumbers
    <3> QED BY <3>2, <3>3, <3>4 DEF Pings, PingsAt, CountOf
  <2>4. ASSUME Proxy, NEW p \in Peers \ {Session}
        PROVE  LET w == probe.wrapper[p] IN
               Pings(p) + Cardinality({x \in {"r"} : w.rearm}) = IF w.connected THEN 1 ELSE 0
    <3>1. PingsAt(p) + Rearm(p) = IF probe.wrapper[p].connected THEN 1 ELSE 0
      BY <2>1, <2>4 DEF IInv, WrapperProbes
    <3>2. Cardinality({x \in {"r"} : probe.wrapper[p].rearm}) = Rearm(p)
      <4>1. {x \in {"r"} : probe.wrapper[p].rearm} = IF probe.wrapper[p].rearm THEN {"r"} ELSE {}
        OBVIOUS
      <4> QED BY <4>1, FS_EmptySet, FS_Singleton DEF Rearm
    <3> QED BY <2>3, <3>1, <3>2
  <2>5. ASSUME Proxy
        PROVE  /\ Pings(Session) <= 1
               /\ el.complete /\ el.peer = Session /\ up[Session] =>
                     Pings(Session) = 1 \/ probe.gates > 0
    BY <2>1, <2>2, <2>3, <2>5 DEF IInv, SessionProbes
  <2> QED BY <2>4, <2>5 DEF ProbeStands
<1> QED BY <1>1, InitLemma, NextLemma, PTL DEF Spec

-----------------------------------------------------------------------------
(* What the messages under way say about the truth.  An answer is compared *)
(* with it mark by mark: is the name owned, is it owned by x, is x among   *)
(* the objects?  A change turns some marks, and a message that does not    *)
(* agree with the truth about a mark is followed by a change that turns    *)
(* it.  Nothing below is about the present state of a variable, so that it *)
(* can be said of the next state too: k is the kind of the element, id the *)
(* receiver, t the truth, q and o are what is under way to and from it.    *)

Marks == Items \cup {None}
Binary(k) == k \in {"ServiceWatcher", "Presence"}
Has(k, v, x) == IF Binary(k) THEN v # None ELSE IF k = "ObjectManager" THEN x \in v ELSE v = x
Sees(k, w, x) == IF Binary(k) THEN w ELSE IF k = "ObjectManager" THEN x \in w ELSE w = x

Of(m, a, id) == m.kind = a /\ m.id = id
Turns(k, id, m, x) == Of(m, "Change", id) /\ ~(Has(k, m.from, x) <=> Has(k, m.to, x))
Later(k, id, q, i, x) == \E j \in DOMAIN q : j > i /\ Turns(k, id, q[j], x)
Agrees(k, id, t, q, i, b, x) == (b <=> Has(k, t, x)) \/ Later(k, id, q, i, x)

ChangesTrue(k, id, t, q) ==
    \A i \in DOMAIN q : Of(q[i], "Change", id) =>
        q[i].from # q[i].to /\ \A x \in Marks : Agrees(k, id, t, q, i, Has(k, q[i].to, x), x)
AnswersTrue(k, id, t, q) ==
    \A i \in DOMAIN q : Of(q[i], "Answer", id) /\ q[i].ok =>
        \A x \in Marks : Agrees(k, id, t, q, i, Has(k, q[i].value, x), x)

\* What e shows agrees with the truth, up to changes under way.
Right(k, e, t, q) == \A x \in Marks : Agrees(k, e.sub, t, q, 0, Sees(k, e.known, x), x)

\* Questions and answers, of a receiver or of any.
Asked(id, q, o) == \/ \E i \in DOMAIN o : Of(o[i], "Ask", id)
                   \/ \E i \in DOMAIN q : Of(q[i], "Answer", id)
NothingAsked(q, o) == /\ \A i \in DOMAIN o : o[i].kind # "Ask"
                      /\ \A i \in DOMAIN q : q[i].kind # "Answer"

\* Before the peer knows of a receiver it sends it nothing, and answers no
\* question of it: the match rule is ahead of them.
Unhooked(k, e, q, o) ==
    ~e.matched =>
        /\ \E w, a \in DOMAIN o : /\ w < a /\ Of(o[w], "Watch", e.sub) /\ Of(o[a], "Ask", e.sub)
                                  /\ \A i \in DOMAIN o : Of(o[i], "Ask", e.sub) => w < i
        /\ \A i \in DOMAIN q : ~Of(q[i], "Change", e.sub) /\ ~Of(q[i], "Answer", e.sub)
        /\ k = "OwnerTracker" => e.known = None

\* A question of the receiver is open, its last answer was an error, or the
\* element is right; and then no other answer will come between.
Knowing(k, e, t, q, o) ==
    \/ Asked(e.sub, q, o)
    \/ e.failed
    \/ Right(k, e, t, q) /\ (k = "ObjectManager" => e.ready /\ NothingAsked(q, o))

\* An owner tracker ignores the answer that there is no owner.
Tracking(k, e, t, q) == k = "OwnerTracker" => e.known = None \/ Right(k, e, t, q)

\* An object manager takes any answer: that of its receiver comes last.
LastWord(k, id, q, o) ==
    k = "ObjectManager" =>
        /\ \A i, j \in DOMAIN o : i < j /\ Of(o[i], "Ask", id) /\ o[j].kind = "Ask" => o[j].id = id
        /\ \A i, j \in DOMAIN q : i < j /\ Of(q[i], "Answer", id) /\ q[j].kind = "Answer" => q[j].id = id
        /\ \A i \in DOMAIN q, j \in DOMAIN o : Of(q[i], "Answer", id) /\ o[j].kind = "Ask" => o[j].id = id

Chronicle(k, e, t, q, o) ==
    /\ ChangesTrue(k, e.sub, t, q) /\ AnswersTrue(k, e.sub, t, q)
    /\ Unhooked(k, e, q, o) /\ Knowing(k, e, t, q, o) /\ Tracking(k, e, t, q) /\ LastWord(k, e.sub, q, o)

FourKinds == {"ServiceWatcher", "Presence", "OwnerTracker", "ObjectManager"}
ChronicleInv ==
    kind \in FourKinds /\ el.sub # 0 /\ up[el.peer] =>
        Chronicle(kind, el, truth[el.peer][el.name], net.in[el.peer], net.out[el.peer])

\* Whose question or answer is under way, and where: of a receiver that was
\* made; that of the present one is from its place; those of an object manager
\* are from the service that it is at; those of a service watcher only while
\* its call blocks.
Routed(k, e, p, m) ==
    m.kind \in {"Watch", "Ask", "Answer"} =>
        /\ m.id <= e.serial
        /\ m.id = e.sub /\ m.id # 0 => p = e.peer /\ m.name = e.name
        /\ k = "ObjectManager" /\ ~CrossAnswers /\ m.kind # "Watch" => p = e.peer
        /\ k = "ServiceWatcher" /\ m.kind # "Watch" => e.blocked /\ p = e.peer /\ m.id = e.sub
RoutedNet(k, e, n) ==
    \A p \in Peers : /\ \A i \in DOMAIN n.out[p] : Routed(k, e, p, n.out[p][i])
                     /\ \A i \in DOMAIN n.in[p] : Routed(k, e, p, n.in[p][i])

\* A service watcher has one call at a time.
Sole(q, o) ==
    /\ \A i, j \in DOMAIN o : o[i].kind = "Ask" /\ o[j].kind = "Ask" => i = j
    /\ \A i, j \in DOMAIN q : q[i].kind = "Answer" /\ q[j].kind = "Answer" => i = j
    /\ \A i \in DOMAIN o, j \in DOMAIN q : ~(o[i].kind = "Ask" /\ q[j].kind = "Answer")
SoleNet(k, n) == k = "ServiceWatcher" => \A p \in Peers : Sole(n.in[p], n.out[p])

RestInv == RoutedNet(kind, el, net) /\ SoleNet(kind, net) /\ ChronicleInv

-----------------------------------------------------------------------------
(* Marks and queues.                                                       *)

\* Two answers are the same if they have the same marks, but for the owners of
\* a name that is only asked whether it has one.
LEMMA SameMarks ==
    ASSUME NEW k \in {"OwnerTracker", "ObjectManager"}, NEW v, NEW w,
           k = "ObjectManager" => v \in SUBSET Items /\ w \in SUBSET Items,
           k = "OwnerTracker" => v \in Marks,
           \A x \in Marks : Has(k, v, x) <=> Has(k, w, x)
    PROVE  v = w
<1>1. CASE k = "ObjectManager"
  BY <1>1 DEF Has, Marks, Binary
<1>2. CASE k = "OwnerTracker"
  BY <1>2 DEF Has, Marks, Binary
<1> QED BY <1>1, <1>2

\* After a change an element shows its new mark where it turns one, and elsewhere
\* the new mark or what it showed.
LEMMA ShowingMarks ==
    ASSUME kind \in FourKinds, NEW w \in Shows, NEW m, m.from \in Answers, m.to \in Answers,
           m.from # m.to, NEW x \in Marks
    PROVE  \/ Sees(kind, Shown(w, m), x) <=> Has(kind, m.to, x)
           \/ /\ Has(kind, m.from, x) <=> Has(kind, m.to, x)
              /\ Sees(kind, Shown(w, m), x) <=> Sees(kind, w, x)
<1>1. CASE kind = "ServiceWatcher"
  BY <1>1 DEF Sees, Has, Binary, Shown, OwnerChanged
<1>2. CASE kind = "Presence"
  BY <1>2 DEF Sees, Has, Binary, Shown, Registered
<1>3. CASE kind = "OwnerTracker"
  BY <1>3 DEF Sees, Has, Binary, Shown
<1>4. CASE kind = "ObjectManager"
  <2>1. Shown(w, m) = (w \cup (m.to \ m.from)) \ (m.from \ m.to)
    BY <1>4 DEF Shown, InterfacesChanged
  <2> QED BY <1>4, <2>1 DEF Sees, Has, Binary
<1> QED BY <1>1, <1>2, <1>3, <1>4 DEF FourKinds

LEMMA LaterTail ==
    ASSUME NEW S, NEW q \in Seq(S), q # <<>>, NEW i \in Nat, NEW k, NEW id, NEW x
    PROVE  Later(k, id, q, i + 1, x) <=> Later(k, id, Tail(q), i, x)
<1>1. /\ Len(q) \in Nat \ {0} /\ DOMAIN q = 1 .. Len(q) /\ DOMAIN Tail(q) = 1 .. (Len(q) - 1)
      /\ \A j \in 1 .. (Len(q) - 1) : Tail(q)[j] = q[j + 1]
  BY HeadTailProperties, LenProperties, EmptySeq
<1>2. ASSUME NEW j \in DOMAIN q, j > i + 1, Turns(k, id, q[j], x) PROVE Later(k, id, Tail(q), i, x)
  <2>1. j - 1 \in DOMAIN Tail(q) /\ j - 1 > i /\ Tail(q)[j - 1] = q[j]
    BY <1>1, <1>2
  <2> QED BY <1>2, <2>1 DEF Later
<1>3. ASSUME NEW j \in DOMAIN Tail(q), j > i, Turns(k, id, Tail(q)[j], x) PROVE Later(k, id, q, i + 1, x)
  <2>1. j + 1 \in DOMAIN q /\ j + 1 > i + 1 /\ Tail(q)[j] = q[j + 1]
    BY <1>1, <1>3
  <2> QED BY <1>3, <2>1 DEF Later
<1> QED BY <1>2, <1>3 DEF Later

LEMMA LaterAppend ==
    ASSUME NEW S, NEW q \in Seq(S), NEW m \in S, NEW i \in 0 .. Len(q), NEW k, NEW id, NEW x
    PROVE  Later(k, id, Append(q, m), i, x) <=> Later(k, id, q, i, x) \/ Turns(k, id, m, x)
<1>1. /\ Len(q) \in Nat /\ DOMAIN q = 1 .. Len(q) /\ DOMAIN Append(q, m) = 1 .. (Len(q) + 1)
      /\ \A j \in 1 .. Len(q) : Append(q, m)[j] = q[j]
      /\ Append(q, m)[Len(q) + 1] = m
  BY AppendProperties, LenProperties
<1>2. ASSUME NEW j \in DOMAIN q, j > i, Turns(k, id, q[j], x) PROVE Later(k, id, Append(q, m), i, x)
  BY <1>1, <1>2 DEF Later
<1>3. ASSUME Turns(k, id, m, x) PROVE Later(k, id, Append(q, m), i, x)
  <2>1. Len(q) + 1 \in DOMAIN Append(q, m) /\ Len(q) + 1 > i
    BY <1>1
  <2> QED BY <1>1, <1>3, <2>1 DEF Later
<1>4. ASSUME NEW j \in DOMAIN Append(q, m), j > i, Turns(k, id, Append(q, m)[j], x)
      PROVE  Later(k, id, q, i, x) \/ Turns(k, id, m, x)
  <2>1. j \in DOMAIN q \/ j = Len(q) + 1
    BY <1>1
  <2> QED BY <1>1, <1>4, <2>1 DEF Later
<1> QED BY <1>2, <1>3, <1>4 DEF Later

\* The head of a queue is taken: what is left stays true, and what the head
\* said is true up to what is left.
LEMMA TakingHead ==
    ASSUME NEW S, NEW q \in Seq(S), q # <<>>, NEW k, NEW id, NEW t,
           ChangesTrue(k, id, t, q), AnswersTrue(k, id, t, q)
    PROVE  /\ ChangesTrue(k, id, t, Tail(q)) /\ AnswersTrue(k, id, t, Tail(q))
           /\ \A x \in Marks : \A b : ~Turns(k, id, Head(q), x) /\ Agrees(k, id, t, q, 0, b, x)
                                         => Agrees(k, id, t, Tail(q), 0, b, x)
           /\ Of(Head(q), "Change", id) =>
                 /\ Head(q).from # Head(q).to
                 /\ \A x \in Marks : Agrees(k, id, t, Tail(q), 0, Has(k, Head(q).to, x), x)
           /\ Of(Head(q), "Answer", id) /\ Head(q).ok =>
                 \A x \in Marks : Agrees(k, id, t, Tail(q), 0, Has(k, Head(q).value, x), x)
<1>1. /\ Len(q) \in Nat \ {0} /\ DOMAIN q = 1 .. Len(q) /\ DOMAIN Tail(q) = 1 .. (Len(q) - 1)
      /\ \A j \in 1 .. (Len(q) - 1) : Tail(q)[j] = q[j + 1]
      /\ Head(q) = q[1]
  BY HeadTailProperties, LenProperties, EmptySeq
<1>2. ASSUME NEW i \in Nat, NEW b, NEW x, Agrees(k, id, t, q, i + 1, b, x)
      PROVE  Agrees(k, id, t, Tail(q), i, b, x)
  BY <1>2, LaterTail DEF Agrees
<1>3. ASSUME NEW i \in DOMAIN Tail(q)
      PROVE  i \in Nat /\ i + 1 \in DOMAIN q /\ Tail(q)[i] = q[i + 1]
  BY <1>1
<1>4. ChangesTrue(k, id, t, Tail(q))
  <2> SUFFICES ASSUME NEW i \in DOMAIN Tail(q), Of(Tail(q)[i], "Change", id)
               PROVE  /\ Tail(q)[i].from # Tail(q)[i].to
                      /\ \A x \in Marks : Agrees(k, id, t, Tail(q), i, Has(k, Tail(q)[i].to, x), x)
    BY DEF ChangesTrue
  <2>1. /\ q[i + 1].from # q[i + 1].to
        /\ \A x \in Marks : Agrees(k, id, t, q, i + 1, Has(k, q[i + 1].to, x), x)
    BY <1>3 DEF ChangesTrue
  <2> QED BY <1>2, <1>3, <2>1
<1>5. AnswersTrue(k, id, t, Tail(q))
  <2> SUFFICES ASSUME NEW i \in DOMAIN Tail(q), Of(Tail(q)[i], "Answer", id), Tail(q)[i].ok
               PROVE  \A x \in Marks : Agrees(k, id, t, Tail(q), i, Has(k, Tail(q)[i].value, x), x)
    BY DEF AnswersTrue
  <2>1. \A x \in Marks : Agrees(k, id, t, q, i + 1, Has(k, q[i + 1].value, x), x)
    BY <1>3 DEF AnswersTrue
  <2> QED BY <1>2, <1>3, <2>1
<1>6. ASSUME NEW x \in Marks, NEW b, ~Turns(k, id, Head(q), x), Agrees(k, id, t, q, 0, b, x)
      PROVE  Agrees(k, id, t, Tail(q), 0, b, x)
  <2>1. CASE b <=> Has(k, t, x)
    BY <2>1 DEF Agrees
  <2>2. CASE Later(k, id, q, 0, x)
    <3>1. PICK j \in DOMAIN q : j > 0 /\ Turns(k, id, q[j], x)
      BY <2>2 DEF Later
    <3>2. j # 1 /\ j \in Nat
      BY <1>1, <1>6, <3>1
    <3>3. Later(k, id, q, 0 + 1, x)
      BY <3>1, <3>2 DEF Later
    <3> QED BY <3>3, LaterTail, 0 \in Nat DEF Agrees
  <2> QED BY <1>6, <2>1, <2>2 DEF Agrees
<1>7. 1 \in DOMAIN q /\ 0 + 1 = 1 /\ 0 \in Nat
  BY <1>1
<1>8. ASSUME Of(Head(q), "Change", id)
      PROVE  /\ Head(q).from # Head(q).to
             /\ \A x \in Marks : Agrees(k, id, t, Tail(q), 0, Has(k, Head(q).to, x), x)
  <2>1. /\ q[1].from # q[1].to
        /\ \A x \in Marks : Agrees(k, id, t, q, 0 + 1, Has(k, q[1].to, x), x)
    BY <1>1, <1>7, <1>8 DEF ChangesTrue
  <2> QED BY <1>1, <1>2, <1>7, <2>1
<1>9. ASSUME Of(Head(q), "Answer", id), Head(q).ok
      PROVE  \A x \in Marks : Agrees(k, id, t, Tail(q), 0, Has(k, Head(q).value, x), x)
  <2>1. \A x \in Marks : Agrees(k, id, t, q, 0 + 1, Has(k, q[1].value, x), x)
    BY <1>1, <1>7, <1>9 DEF AnswersTrue
  <2> QED BY <1>1, <1>2, <1>7, <2>1
<1> QED BY <1>4, <1>5, <1>6, <1>8, <1>9

\* A message is added, and the truth changes from t to u if it is a change.
LEMMA AddingOne ==
    ASSUME NEW S, NEW q \in Seq(S), NEW m \in S, NEW k, NEW id, NEW t, NEW u,
           ChangesTrue(k, id, t, q), AnswersTrue(k, id, t, q),
           Of(m, "Change", id) => m.from = t /\ m.to = u /\ t # u,
           ~Of(m, "Change", id) => u = t,
           Of(m, "Answer", id) /\ m.ok => m.value = u
    PROVE  /\ ChangesTrue(k, id, u, Append(q, m)) /\ AnswersTrue(k, id, u, Append(q, m))
           /\ \A x \in Marks : \A b : Agrees(k, id, t, q, 0, b, x)
                                         => Agrees(k, id, u, Append(q, m), 0, b, x)
<1> DEFINE r == Append(q, m)
<1>1. /\ Len(q) \in Nat /\ DOMAIN q = 1 .. Len(q) /\ DOMAIN r = 1 .. (Len(q) + 1)
      /\ \A j \in 1 .. Len(q) : r[j] = q[j]
      /\ r[Len(q) + 1] = m
  BY AppendProperties, LenProperties
<1>2. ASSUME NEW i \in 0 .. Len(q), NEW b, NEW x, Agrees(k, id, t, q, i, b, x)
      PROVE  Agrees(k, id, u, r, i, b, x)
  <2>1. Later(k, id, r, i, x) <=> Later(k, id, q, i, x) \/ Turns(k, id, m, x)
    BY LaterAppend
  <2>2. Of(m, "Change", id) => Turns(k, id, m, x) \/ (Has(k, t, x) <=> Has(k, u, x))
    BY DEF Turns
  <2> HIDE DEF r
  <2> QED BY <1>2, <2>1, <2>2 DEF Agrees
<1> HIDE DEF r
<1>3. ASSUME NEW i \in DOMAIN r, Of(r[i], "Change", id)
      PROVE  /\ r[i].from # r[i].to
             /\ \A x \in Marks : Agrees(k, id, u, r, i, Has(k, r[i].to, x), x)
  <2>1. CASE i = Len(q) + 1
    <3>1. r[i].from = t /\ r[i].to = u /\ t # u
      BY <1>1, <1>3, <2>1
    <3> QED BY <3>1 DEF Agrees
  <2>2. CASE i # Len(q) + 1
    <3>1. i \in DOMAIN q /\ i \in 0 .. Len(q) /\ r[i] = q[i]
      BY <1>1, <2>2
    <3>2. q[i].from # q[i].to /\ \A x \in Marks : Agrees(k, id, t, q, i, Has(k, q[i].to, x), x)
      BY <1>3, <3>1 DEF ChangesTrue
    <3> QED BY <1>2, <3>1, <3>2
  <2> QED BY <2>1, <2>2
<1>4. ASSUME NEW i \in DOMAIN r, Of(r[i], "Answer", id), r[i].ok
      PROVE  \A x \in Marks : Agrees(k, id, u, r, i, Has(k, r[i].value, x), x)
  <2>1. CASE i = Len(q) + 1
    <3>1. r[i].value = u
      BY <1>1, <1>4, <2>1
    <3> QED BY <3>1 DEF Agrees
  <2>2. CASE i # Len(q) + 1
    <3>1. i \in DOMAIN q /\ i \in 0 .. Len(q) /\ r[i] = q[i]
      BY <1>1, <2>2
    <3>2. \A x \in Marks : Agrees(k, id, t, q, i, Has(k, q[i].value, x), x)
      BY <1>4, <3>1 DEF AnswersTrue
    <3> QED BY <1>2, <3>1, <3>2
  <2> QED BY <2>1, <2>2
<1>5. ChangesTrue(k, id, u, r)
  BY <1>3 DEF ChangesTrue
<1>6. AnswersTrue(k, id, u, r)
  BY <1>4 DEF AnswersTrue
<1>7. 0 \in 0 .. Len(q)
  BY <1>1
<1> QED BY <1>2, <1>5, <1>6, <1>7 DEF r

\* What is left of a queue without the entry at h.
LEMMA Without ==
    ASSUME NEW S, NEW q \in Seq(S), NEW h \in DOMAIN q
    PROVE  LET r == SubSeq(q, 1, h - 1) \o SubSeq(q, h + 1, Len(q)) IN
           /\ Len(q) \in Nat /\ DOMAIN q = 1 .. Len(q) /\ h \in 1 .. Len(q)
           /\ DOMAIN r = 1 .. (Len(q) - 1)
           /\ \A i \in 1 .. (Len(q) - 1) : r[i] = q[IF i < h THEN i ELSE i + 1]
<1> DEFINE r == SubSeq(q, 1, h - 1) \o SubSeq(q, h + 1, Len(q))
           back(i) == IF i < h THEN i ELSE i + 1
<1>1. /\ Len(q) \in Nat /\ DOMAIN q = 1 .. Len(q) /\ h \in 1 .. Len(q)
      /\ DOMAIN r = 1 .. (Len(q) - 1)
      /\ \A i \in 1 .. (Len(q) - 1) : r[i] = q[back(i)]
  <2>1. /\ Len(q) \in Nat /\ DOMAIN q = 1 .. Len(q) /\ h \in 1 .. Len(q)
    BY LenProperties
  <2> DEFINE a == SubSeq(q, 1, h - 1)
             b == SubSeq(q, h + 1, Len(q))
  <2>2. /\ a \in Seq(S) /\ Len(a) = h - 1 /\ \A i \in 1 .. (h - 1) : a[i] = q[i]
        /\ b \in Seq(S) /\ Len(b) = Len(q) - h /\ \A i \in 1 .. (Len(q) - h) : b[i] = q[h + i]
    <3>1. a \in Seq(S) /\ Len(a) = h - 1 /\ \A i \in 1 .. (h - 1) : a[i] = q[i]
      BY <2>1
    <3>2. b \in Seq(S) /\ Len(b) = Len(q) - h /\ \A i \in 1 .. (Len(q) - h) : b[i] = q[h + i]
      BY <2>1
    <3> QED BY <3>1, <3>2
  <2>3. r = a \o b
    OBVIOUS
  <2> HIDE DEF a, b, r
  <2>4. /\ r \in Seq(S) /\ Len(r) = Len(q) - 1 /\ DOMAIN r = 1 .. (Len(q) - 1)
        /\ \A i \in 1 .. Len(r) : r[i] = IF i <= Len(a) THEN a[i] ELSE b[i - Len(a)]
    <3>1. /\ r \in Seq(S) /\ Len(r) = Len(a) + Len(b)
          /\ \A i \in 1 .. Len(r) : r[i] = IF i <= Len(a) THEN a[i] ELSE b[i - Len(a)]
      <4>1. a \in Seq(S) /\ b \in Seq(S)
        BY <2>2
      <4>2. /\ a \o b \in Seq(S) /\ Len(a \o b) = Len(a) + Len(b)
            /\ \A i \in 1 .. Len(a) + Len(b) : (a \o b)[i] = IF i <= Len(a) THEN a[i] ELSE b[i - Len(a)]
        BY <4>1, ConcatProperties
      <4> QED BY <2>3, <4>2
    <3>2. Len(r) = Len(q) - 1
      BY <2>1, <2>2, <3>1
    <3> QED BY <3>1, <3>2, LenProperties
  <2>5. ASSUME NEW i \in 1 .. (Len(q) - 1) PROVE r[i] = q[back(i)]
    <3>1. CASE i < h
      BY <2>1, <2>2, <2>4, <3>1
    <3>2. CASE i >= h
      <4>1. r[i] = b[i - (h - 1)]
        BY <2>1, <2>2, <2>4, <3>2
      <4>2. b[i - (h - 1)] = q[h + (i - (h - 1))] /\ h + (i - (h - 1)) = i + 1
        BY <2>1, <2>2, <3>2
      <4> QED BY <2>1, <3>2, <4>1, <4>2
    <3> QED BY <2>1, <3>1, <3>2
  <2> QED BY <2>1, <2>4, <2>5
<1> QED BY <1>1

\* An answer is taken out of the middle: what it said is true up to what is left.
LEMMA TakingOut ==
    ASSUME NEW S, NEW q \in Seq(S), NEW h \in DOMAIN q, NEW k, NEW id, NEW t,
           ChangesTrue(k, id, t, q), AnswersTrue(k, id, t, q), q[h].kind = "Answer"
    PROVE  LET r == SubSeq(q, 1, h - 1) \o SubSeq(q, h + 1, Len(q)) IN
           /\ ChangesTrue(k, id, t, r) /\ AnswersTrue(k, id, t, r)
           /\ Of(q[h], "Answer", id) /\ q[h].ok =>
                 \A x \in Marks : Agrees(k, id, t, r, 0, Has(k, q[h].value, x), x)
<1> DEFINE r == SubSeq(q, 1, h - 1) \o SubSeq(q, h + 1, Len(q))
           back(i) == IF i < h THEN i ELSE i + 1
<1>1. /\ Len(q) \in Nat /\ DOMAIN q = 1 .. Len(q) /\ h \in 1 .. Len(q)
      /\ DOMAIN r = 1 .. (Len(q) - 1)
      /\ \A i \in 1 .. (Len(q) - 1) : r[i] = q[back(i)]
  BY Without
<1> HIDE DEF r
<1>2. ASSUME NEW i \in 0 .. (Len(q) - 1), NEW j \in 0 .. Len(q), (i < h /\ j = i) \/ (i >= h - 1 /\ j = i + 1),
             NEW b, NEW x, Agrees(k, id, t, q, j, b, x)
      PROVE  Agrees(k, id, t, r, i, b, x)
  <2>1. CASE b <=> Has(k, t, x)
    BY <2>1 DEF Agrees
  <2>2. CASE Later(k, id, q, j, x)
    <3>1. PICK l \in DOMAIN q : l > j /\ Turns(k, id, q[l], x)
      BY <2>2 DEF Later
    <3>2. l # h
      BY <3>1 DEF Turns, Of
    <3> DEFINE l0 == IF l < h THEN l ELSE l - 1
    <3>3. l0 \in DOMAIN r /\ l0 > i /\ r[l0] = q[l]
      BY <1>1, <1>2, <3>1, <3>2
    <3> QED BY <3>1, <3>3 DEF Later, Agrees
  <2> QED BY <1>2, <2>1, <2>2 DEF Agrees
<1>3. ASSUME NEW i \in DOMAIN r
      PROVE  /\ i \in 0 .. (Len(q) - 1) /\ back(i) \in DOMAIN q /\ back(i) \in 0 .. Len(q) /\ r[i] = q[back(i)]
             /\ (i < h /\ back(i) = i) \/ (i >= h - 1 /\ back(i) = i + 1)
  BY <1>1
<1>4. ASSUME NEW i \in DOMAIN r, Of(r[i], "Change", id)
      PROVE  /\ r[i].from # r[i].to
             /\ \A x \in Marks : Agrees(k, id, t, r, i, Has(k, r[i].to, x), x)
  <2>1. /\ q[back(i)].from # q[back(i)].to
        /\ \A x \in Marks : Agrees(k, id, t, q, back(i), Has(k, q[back(i)].to, x), x)
    BY <1>3, <1>4 DEF ChangesTrue
  <2> HIDE DEF back
  <2> QED BY <1>2, <1>3, <2>1
<1>5. ASSUME NEW i \in DOMAIN r, Of(r[i], "Answer", id), r[i].ok
      PROVE  \A x \in Marks : Agrees(k, id, t, r, i, Has(k, r[i].value, x), x)
  <2>1. \A x \in Marks : Agrees(k, id, t, q, back(i), Has(k, q[back(i)].value, x), x)
    BY <1>3, <1>5 DEF AnswersTrue
  <2> HIDE DEF back
  <2> QED BY <1>2, <1>3, <2>1
<1>6. ASSUME Of(q[h], "Answer", id), q[h].ok, NEW x \in Marks
      PROVE  Agrees(k, id, t, r, 0, Has(k, q[h].value, x), x)
  <2>1. Agrees(k, id, t, q, h, Has(k, q[h].value, x), x)
    BY <1>6 DEF AnswersTrue
  <2>2. CASE Has(k, q[h].value, x) <=> Has(k, t, x)
    BY <2>2 DEF Agrees
  <2>3. CASE Later(k, id, q, h, x)
    <3>1. PICK l \in DOMAIN q : l > h /\ Turns(k, id, q[l], x)
      BY <2>3 DEF Later
    <3>2. l - 1 \in DOMAIN r /\ l - 1 > 0 /\ r[l - 1] = q[l]
      BY <1>1, <3>1
    <3> QED BY <3>1, <3>2 DEF Later, Agrees
  <2> QED BY <2>1, <2>2, <2>3 DEF Agrees
<1> QED BY <1>4, <1>5, <1>6 DEF ChangesTrue, AnswersTrue, r

-----------------------------------------------------------------------------
(* What a step does to the chronicle of a receiver.                        *)

LEMMA TailOf ==
    ASSUME NEW S, NEW q \in Seq(S), q # <<>>
    PROVE  /\ Len(q) \in Nat \ {0} /\ DOMAIN q = 1 .. Len(q) /\ DOMAIN Tail(q) = 1 .. (Len(q) - 1)
           /\ 1 \in DOMAIN q /\ Head(q) = q[1] /\ Tail(q) \in Seq(S)
           /\ \A i \in DOMAIN Tail(q) : i \in Nat /\ i + 1 \in DOMAIN q /\ Tail(q)[i] = q[i + 1]
           /\ \A i \in DOMAIN q : i # 1 => i \in Nat /\ i - 1 \in DOMAIN Tail(q) /\ Tail(q)[i - 1] = q[i]
BY HeadTailProperties, LenProperties, EmptySeq

\* Taking the head keeps the order of answers.
LEMMA LastWordTail ==
    ASSUME NEW S, NEW R, NEW q \in Seq(S), NEW o \in Seq(R), q # <<>>, NEW k, NEW id, LastWord(k, id, q, o)
    PROVE  LastWord(k, id, Tail(q), o)
<1> SUFFICES ASSUME k = "ObjectManager" PROVE LastWord(k, id, Tail(q), o)
  BY DEF LastWord
<1>1. /\ \A i \in DOMAIN Tail(q) : i \in Nat /\ i + 1 \in DOMAIN q /\ Tail(q)[i] = q[i + 1]
      /\ \A i, j \in DOMAIN q : i < j /\ Of(q[i], "Answer", id) /\ q[j].kind = "Answer" => q[j].id = id
      /\ \A i \in DOMAIN q, j \in DOMAIN o : Of(q[i], "Answer", id) /\ o[j].kind = "Ask" => o[j].id = id
  BY TailOf DEF LastWord
<1>2. ASSUME NEW i \in DOMAIN Tail(q), NEW j \in DOMAIN Tail(q), i < j,
             Of(Tail(q)[i], "Answer", id), Tail(q)[j].kind = "Answer"
      PROVE  Tail(q)[j].id = id
  <2>1. i + 1 < j + 1
    BY <1>1, <1>2
  <2> QED BY <1>1, <1>2, <2>1
<1> QED BY <1>1, <1>2 DEF LastWord

\* A message that is for another receiver, or of the probes.
LEMMA ForeignTaken ==
    ASSUME NEW S, NEW R, NEW q \in Seq(S), NEW o \in Seq(R), q # <<>>, NEW k, NEW e, NEW f, NEW t,
           Chronicle(k, e, t, q, o),
           ~Of(Head(q), "Change", e.sub), ~Of(Head(q), "Answer", e.sub),
           f.sub = e.sub, f.matched = e.matched, f.failed = e.failed,
           \/ f.known = e.known /\ f.ready = e.ready
           \/ k = "ObjectManager" /\ Head(q).kind = "Answer"
    PROVE  Chronicle(k, f, t, Tail(q), o)
<1>1. ChangesTrue(k, e.sub, t, q) /\ AnswersTrue(k, e.sub, t, q)
  BY DEF Chronicle
<1>2. /\ ChangesTrue(k, e.sub, t, Tail(q)) /\ AnswersTrue(k, e.sub, t, Tail(q))
      /\ \A x \in Marks : \A b : ~Turns(k, e.sub, Head(q), x) /\ Agrees(k, e.sub, t, q, 0, b, x)
                                    => Agrees(k, e.sub, t, Tail(q), 0, b, x)
  BY <1>1, TakingHead
<1>3. ASSUME f.known = e.known, Right(k, e, t, q) PROVE Right(k, f, t, Tail(q))
  BY <1>2, <1>3 DEF Right, Turns
<1>4. LastWord(k, f.sub, Tail(q), o)
  BY LastWordTail DEF Chronicle
<1>5. Unhooked(k, f, Tail(q), o)
  <2>1. k = "OwnerTracker" => f.known = e.known
    OBVIOUS
  <2> QED BY <2>1, TailOf DEF Chronicle, Unhooked
<1>6. Tracking(k, f, t, Tail(q))
  BY <1>3 DEF Chronicle, Tracking
<1>7. Knowing(k, f, t, Tail(q), o)
  <2>1. CASE Asked(e.sub, q, o)
    <3>1. Asked(f.sub, Tail(q), o)
      <4>1. ASSUME NEW i \in DOMAIN q, Of(q[i], "Answer", e.sub)
            PROVE  \E j \in DOMAIN Tail(q) : Of(Tail(q)[j], "Answer", e.sub)
        <5>1. i # 1 /\ i - 1 \in DOMAIN Tail(q) /\ Tail(q)[i - 1] = q[i]
          BY <4>1, TailOf
        <5> QED BY <4>1, <5>1
      <4> QED BY <2>1, <4>1 DEF Asked
    <3> QED BY <3>1 DEF Knowing
  <2>2. CASE e.failed
    BY <2>2 DEF Knowing
  <2>3. CASE Right(k, e, t, q) /\ (k = "ObjectManager" => e.ready /\ NothingAsked(q, o))
    <3>1. f.known = e.known /\ f.ready = e.ready
      BY <2>3, TailOf DEF NothingAsked
    <3>2. k = "ObjectManager" => NothingAsked(Tail(q), o)
      BY <2>3, TailOf DEF NothingAsked
    <3> QED BY <1>3, <2>3, <3>1, <3>2 DEF Knowing
  <2> QED BY <2>1, <2>2, <2>3 DEF Chronicle, Knowing
<1> QED BY <1>2, <1>4, <1>5, <1>6, <1>7 DEF Chronicle

\* A change for this receiver.
LEMMA ChangeTaken ==
    ASSUME NEW S, NEW R, NEW q \in Seq(S), NEW o \in Seq(R), q # <<>>, NEW k, NEW e, NEW f, NEW t,
           Chronicle(k, e, t, q, o), Of(Head(q), "Change", e.sub),
           f.sub = e.sub, f.matched = e.matched, f.failed = e.failed, f.ready = e.ready,
           \A x \in Marks : \/ Sees(k, f.known, x) <=> Has(k, Head(q).to, x)
                            \/ /\ Has(k, Head(q).from, x) <=> Has(k, Head(q).to, x)
                               /\ Sees(k, f.known, x) <=> Sees(k, e.known, x),
           k = "OwnerTracker" => f.known = Head(q).to
    PROVE  Chronicle(k, f, t, Tail(q), o)
<1>1. ChangesTrue(k, e.sub, t, q) /\ AnswersTrue(k, e.sub, t, q)
  BY DEF Chronicle
<1>2. /\ ChangesTrue(k, e.sub, t, Tail(q)) /\ AnswersTrue(k, e.sub, t, Tail(q))
      /\ \A x \in Marks : \A b : ~Turns(k, e.sub, Head(q), x) /\ Agrees(k, e.sub, t, q, 0, b, x)
                                    => Agrees(k, e.sub, t, Tail(q), 0, b, x)
      /\ \A x \in Marks : Agrees(k, e.sub, t, Tail(q), 0, Has(k, Head(q).to, x), x)
  BY <1>1, TakingHead
<1>3. e.matched
  BY TailOf DEF Chronicle, Unhooked
<1>4. ASSUME Right(k, e, t, q) PROVE Right(k, f, t, Tail(q))
  <2> SUFFICES ASSUME NEW x \in Marks PROVE Agrees(k, e.sub, t, Tail(q), 0, Sees(k, f.known, x), x)
    BY DEF Right
  <2>1. CASE Sees(k, f.known, x) <=> Has(k, Head(q).to, x)
    <3>1. Agrees(k, e.sub, t, Tail(q), 0, Has(k, Head(q).to, x), x)
      BY <1>2
    <3> QED BY <2>1, <3>1 DEF Agrees
  <2>2. CASE /\ Has(k, Head(q).from, x) <=> Has(k, Head(q).to, x)
             /\ Sees(k, f.known, x) <=> Sees(k, e.known, x)
    <3>1. Agrees(k, e.sub, t, q, 0, Sees(k, e.known, x), x)
      BY <1>4 DEF Right
    <3>2. Agrees(k, e.sub, t, Tail(q), 0, Sees(k, e.known, x), x)
      BY <1>2, <2>2, <3>1 DEF Turns
    <3> QED BY <2>2, <3>2 DEF Agrees
  <2> QED BY <2>1, <2>2
<1>5. ASSUME k = "OwnerTracker" PROVE Right(k, f, t, Tail(q))
  <2>1. \A x \in Marks : Sees(k, f.known, x) <=> Has(k, Head(q).to, x)
    BY <1>5 DEF Sees, Has, Binary
  <2> QED BY <1>2, <2>1 DEF Right, Agrees
<1>6. LastWord(k, f.sub, Tail(q), o)
  BY LastWordTail DEF Chronicle
<1>7. Knowing(k, f, t, Tail(q), o)
  <2>1. CASE Asked(e.sub, q, o)
    <3>1. Asked(f.sub, Tail(q), o)
      <4>1. ASSUME NEW i \in DOMAIN q, Of(q[i], "Answer", e.sub)
            PROVE  \E j \in DOMAIN Tail(q) : Of(Tail(q)[j], "Answer", e.sub)
        <5>1. i # 1
          BY <4>1, TailOf DEF Of
        <5>2. i - 1 \in DOMAIN Tail(q) /\ Tail(q)[i - 1] = q[i]
          BY <5>1, TailOf
        <5> QED BY <4>1, <5>2
      <4> QED BY <2>1, <4>1 DEF Asked
    <3> QED BY <3>1 DEF Knowing
  <2>2. CASE e.failed
    BY <2>2 DEF Knowing
  <2>3. CASE Right(k, e, t, q) /\ (k = "ObjectManager" => e.ready /\ NothingAsked(q, o))
    <3>1. k = "ObjectManager" => NothingAsked(Tail(q), o)
      BY <2>3, TailOf DEF NothingAsked
    <3> QED BY <1>4, <2>3, <3>1 DEF Knowing
  <2> QED BY <2>1, <2>2, <2>3 DEF Chronicle, Knowing
<1> QED BY <1>2, <1>3, <1>5, <1>6, <1>7 DEF Chronicle, Unhooked, Tracking

\* The answer of this receiver.
LEMMA AnswerTaken ==
    ASSUME NEW S, NEW R, NEW q \in Seq(S), NEW o \in Seq(R), q # <<>>, NEW k, NEW e, NEW f, NEW t,
           Chronicle(k, e, t, q, o), Of(Head(q), "Answer", e.sub),
           f.sub = e.sub, f.matched = e.matched, f.failed = ~Head(q).ok,
           \/ ~Head(q).ok /\ f.known = e.known
           \/ k = "OwnerTracker" /\ Head(q).value = None /\ f.known = e.known
           \/ /\ Head(q).ok /\ (k = "ObjectManager" => f.ready)
              /\ \A x \in Marks : Sees(k, f.known, x) <=> Has(k, Head(q).value, x)
    PROVE  Chronicle(k, f, t, Tail(q), o)
<1>1. ChangesTrue(k, e.sub, t, q) /\ AnswersTrue(k, e.sub, t, q)
  BY DEF Chronicle
<1>2. /\ ChangesTrue(k, e.sub, t, Tail(q)) /\ AnswersTrue(k, e.sub, t, Tail(q))
      /\ \A x \in Marks : \A b : ~Turns(k, e.sub, Head(q), x) /\ Agrees(k, e.sub, t, q, 0, b, x)
                                    => Agrees(k, e.sub, t, Tail(q), 0, b, x)
      /\ Head(q).ok => \A x \in Marks : Agrees(k, e.sub, t, Tail(q), 0, Has(k, Head(q).value, x), x)
  BY <1>1, TakingHead
<1>3. e.matched
  BY TailOf DEF Chronicle, Unhooked
<1>4. ASSUME f.known = e.known, Right(k, e, t, q) PROVE Right(k, f, t, Tail(q))
  BY <1>2, <1>4 DEF Right, Turns, Of
<1>5. ASSUME Head(q).ok, \A x \in Marks : Sees(k, f.known, x) <=> Has(k, Head(q).value, x)
      PROVE  Right(k, f, t, Tail(q))
  <2> SUFFICES ASSUME NEW x \in Marks PROVE Agrees(k, e.sub, t, Tail(q), 0, Sees(k, f.known, x), x)
    BY DEF Right
  <2>1. Agrees(k, e.sub, t, Tail(q), 0, Has(k, Head(q).value, x), x)
    BY <1>2, <1>5
  <2> QED BY <1>5, <2>1 DEF Agrees
<1>6. ASSUME Head(q).ok, k = "OwnerTracker", Head(q).value = None, f.known = e.known
      PROVE  Right(k, f, t, Tail(q))
  <2>1. CASE Right(k, e, t, q)
    BY <1>4, <1>6, <2>1
  <2>2. CASE e.known = None
    <3>1. \A x \in Marks : Sees(k, f.known, x) <=> Has(k, Head(q).value, x)
      BY <1>6, <2>2 DEF Sees, Has, Binary
    <3> QED BY <1>5, <1>6, <3>1
  <2> QED BY <1>6, <2>1, <2>2 DEF Chronicle, Tracking
<1>7. LastWord(k, f.sub, Tail(q), o)
  BY LastWordTail DEF Chronicle
<1>8. Tracking(k, f, t, Tail(q))
  <2>1. CASE f.known = e.known
    BY <1>4, <2>1 DEF Chronicle, Tracking
  <2>2. CASE /\ \A x \in Marks : Sees(k, f.known, x) <=> Has(k, Head(q).value, x)
             /\ Head(q).ok
    BY <1>5, <2>2 DEF Tracking
  <2> QED BY <2>1, <2>2
<1>9. Knowing(k, f, t, Tail(q), o)
  <2>1. CASE ~Head(q).ok
    BY <2>1 DEF Knowing
  <2>2. CASE Head(q).ok
    <3>1. Right(k, f, t, Tail(q))
      BY <1>5, <1>6, <2>2
    <3>2. CASE k = "ObjectManager"
      <4>1. NothingAsked(Tail(q), o) \/ Asked(f.sub, Tail(q), o)
        <5>1. ASSUME NEW j \in DOMAIN o, o[j].kind = "Ask" PROVE o[j].id = e.sub
          BY <3>2, <5>1, TailOf DEF Chronicle, LastWord
        <5>2. ASSUME NEW j \in DOMAIN Tail(q), Tail(q)[j].kind = "Answer" PROVE Tail(q)[j].id = e.sub
          <6>1. j \in Nat /\ j + 1 \in DOMAIN q /\ Tail(q)[j] = q[j + 1] /\ 1 \in DOMAIN q /\ q[1] = Head(q)
                /\ j \in 1 .. (Len(q) - 1) /\ Len(q) \in Nat
            BY <5>2, TailOf
          <6>2. 1 < j + 1
            BY <6>1
          <6> QED BY <3>2, <5>2, <6>1, <6>2 DEF Chronicle, LastWord
        <5> QED BY <5>1, <5>2 DEF NothingAsked, Asked, Of
      <4>2. f.ready
        BY <2>2, <3>2
      <4> QED BY <3>1, <4>1, <4>2 DEF Knowing
    <3> QED BY <3>1, <3>2 DEF Knowing
  <2> QED BY <2>1, <2>2
<1> QED BY <1>2, <1>3, <1>7, <1>8, <1>9 DEF Chronicle, Unhooked

\* The answer of the call that blocks, whatever came before it.
LEMMA AnswerTakenOut ==
    ASSUME NEW S, NEW R, NEW q \in Seq(S), NEW o \in Seq(R), NEW h \in DOMAIN q, NEW k, NEW e, NEW f, NEW t,
           Chronicle(k, e, t, q, o), Of(q[h], "Answer", e.sub), k = "ServiceWatcher",
           f.sub = e.sub, f.matched = e.matched, f.failed = ~q[h].ok,
           q[h].ok => (f.known <=> q[h].value # None)
    PROVE  Chronicle(k, f, t, SubSeq(q, 1, h - 1) \o SubSeq(q, h + 1, Len(q)), o)
<1> DEFINE r == SubSeq(q, 1, h - 1) \o SubSeq(q, h + 1, Len(q))
<1>1. ChangesTrue(k, e.sub, t, q) /\ AnswersTrue(k, e.sub, t, q) /\ q[h].kind = "Answer"
  BY DEF Chronicle, Of
<1>2. /\ ChangesTrue(k, e.sub, t, r) /\ AnswersTrue(k, e.sub, t, r)
      /\ Of(q[h], "Answer", e.sub) /\ q[h].ok =>
            \A x \in Marks : Agrees(k, e.sub, t, r, 0, Has(k, q[h].value, x), x)
  BY <1>1, TakingOut
<1> HIDE DEF r
<1>3. e.matched
  BY DEF Chronicle, Unhooked
<1>4. q[h].ok => \A x \in Marks : Sees(k, f.known, x) <=> Has(k, q[h].value, x)
  BY DEF Sees, Has, Binary
<1>5. q[h].ok => Right(k, f, t, r)
  BY <1>2, <1>4 DEF Right, Agrees
<1>6. Knowing(k, f, t, r, o)
  BY <1>5 DEF Knowing
<1>7. Chronicle(k, f, t, r, o)
  BY <1>2, <1>3, <1>6 DEF Chronicle, Unhooked, Tracking, LastWord
<1> QED BY <1>7 DEF r

\* The peer serves a question or a ping.
LEMMA QuestionServed ==
    ASSUME NEW S, NEW R, NEW q \in Seq(S), NEW o \in Seq(R), o # <<>>, NEW m \in S, NEW k, NEW e, NEW t,
           Chronicle(k, e, t, q, o), Head(o).kind # "Watch", m.kind # "Change",
           Head(o).kind = "Ask" <=> m.kind = "Answer",
           m.kind = "Answer" => m.id = Head(o).id /\ (m.id = e.sub /\ m.ok => m.value = t)
    PROVE  Chronicle(k, e, t, Append(q, m), Tail(o))
<1> DEFINE r == Append(q, m)
           s == Tail(o)
<1>1. /\ ChangesTrue(k, e.sub, t, q) /\ AnswersTrue(k, e.sub, t, q)
      /\ ~Of(m, "Change", e.sub) /\ (Of(m, "Answer", e.sub) /\ m.ok => m.value = t)
  BY DEF Chronicle, Of
<1>2. /\ ChangesTrue(k, e.sub, t, r) /\ AnswersTrue(k, e.sub, t, r)
      /\ \A x \in Marks : \A b : Agrees(k, e.sub, t, q, 0, b, x) => Agrees(k, e.sub, t, r, 0, b, x)
  BY <1>1, AddingOne
<1>3. /\ DOMAIN q = 1 .. Len(q) /\ Len(q) \in Nat /\ DOMAIN r = 1 .. (Len(q) + 1)
      /\ \A j \in DOMAIN q : j \in DOMAIN r /\ r[j] = q[j]
      /\ \A j \in DOMAIN r : j \in DOMAIN q \/ j = Len(q) + 1
      /\ Len(q) + 1 \in DOMAIN r /\ r[Len(q) + 1] = m
  BY AppendProperties, LenProperties
<1>4. /\ 1 \in DOMAIN o /\ o[1] = Head(o) /\ \A i \in DOMAIN o : i = 1 \/ i > 1
      /\ \A i \in DOMAIN s : i \in Nat /\ i + 1 \in DOMAIN o /\ s[i] = o[i + 1]
      /\ \A i \in DOMAIN o : i # 1 => i \in Nat /\ i - 1 \in DOMAIN s /\ s[i - 1] = o[i]
  BY TailOf
<1> HIDE DEF r, s
<1>5. ASSUME Right(k, e, t, q) PROVE Right(k, e, t, r)
  BY <1>2, <1>5 DEF Right
<1>6. Unhooked(k, e, r, s)
  <2> SUFFICES ASSUME ~e.matched
               PROVE  /\ \E w, a \in DOMAIN s : /\ w < a /\ Of(s[w], "Watch", e.sub) /\ Of(s[a], "Ask", e.sub)
                                                /\ \A i \in DOMAIN s : Of(s[i], "Ask", e.sub) => w < i
                      /\ \A i \in DOMAIN r : ~Of(r[i], "Change", e.sub) /\ ~Of(r[i], "Answer", e.sub)
                      /\ k = "OwnerTracker" => e.known = None
    BY DEF Unhooked
  <2>1. /\ \E w, a \in DOMAIN o : /\ w < a /\ Of(o[w], "Watch", e.sub) /\ Of(o[a], "Ask", e.sub)
                                  /\ \A i \in DOMAIN o : Of(o[i], "Ask", e.sub) => w < i
        /\ \A i \in DOMAIN q : ~Of(q[i], "Change", e.sub) /\ ~Of(q[i], "Answer", e.sub)
        /\ k = "OwnerTracker" => e.known = None
    BY DEF Chronicle, Unhooked
  <2>2. PICK w \in DOMAIN o, a \in DOMAIN o :
           /\ w < a /\ Of(o[w], "Watch", e.sub) /\ Of(o[a], "Ask", e.sub)
           /\ \A i \in DOMAIN o : Of(o[i], "Ask", e.sub) => w < i
    BY <2>1
  <2>3. w # 1 /\ a # 1 /\ w > 1
    BY <1>4, <2>2 DEF Of
  <2>4. w - 1 \in DOMAIN s /\ a - 1 \in DOMAIN s /\ w - 1 < a - 1 /\ s[w - 1] = o[w] /\ s[a - 1] = o[a]
    BY <1>4, <2>2, <2>3
  <2>5. ASSUME NEW i \in DOMAIN s, Of(s[i], "Ask", e.sub) PROVE w - 1 < i
    <3>1. w < i + 1
      BY <1>4, <2>2, <2>5
    <3>2. w \in Nat /\ i \in Nat
      BY <1>4, <2>3
    <3> QED BY <3>1, <3>2
  <2>6. ~Of(m, "Answer", e.sub)
    <3>1. ~Of(o[1], "Ask", e.sub)
      BY <1>4, <2>2, <2>3
    <3> QED BY <1>4, <3>1 DEF Of
  <2>7. \A i \in DOMAIN r : ~Of(r[i], "Change", e.sub) /\ ~Of(r[i], "Answer", e.sub)
    BY <1>1, <1>3, <2>1, <2>6
  <2>8. \E w1, a1 \in DOMAIN s : /\ w1 < a1 /\ Of(s[w1], "Watch", e.sub) /\ Of(s[a1], "Ask", e.sub)
                                 /\ \A i \in DOMAIN s : Of(s[i], "Ask", e.sub) => w1 < i
    BY <2>2, <2>4, <2>5
  <2> QED BY <2>1, <2>7, <2>8
<1>7. Knowing(k, e, t, r, s)
  <2>1. CASE \E i \in DOMAIN o : Of(o[i], "Ask", e.sub)
    <3>1. PICK i \in DOMAIN o : Of(o[i], "Ask", e.sub)
      BY <2>1
    <3>2. CASE i = 1
      BY <1>3, <1>4, <3>1, <3>2 DEF Of, Knowing, Asked
    <3>3. CASE i # 1
      BY <1>4, <3>1, <3>3 DEF Knowing, Asked
    <3> QED BY <3>2, <3>3
  <2>2. CASE \E i \in DOMAIN q : Of(q[i], "Answer", e.sub)
    BY <1>3, <2>2 DEF Knowing, Asked
  <2>3. CASE e.failed
    BY <2>3 DEF Knowing
  <2>4. CASE Right(k, e, t, q) /\ (k = "ObjectManager" => e.ready /\ NothingAsked(q, o))
    <3>1. k = "ObjectManager" => NothingAsked(r, s)
      <4>1. k = "ObjectManager" => m.kind # "Answer"
        BY <1>4, <2>4 DEF NothingAsked
      <4> QED BY <1>3, <1>4, <2>4, <4>1 DEF NothingAsked
    <3> QED BY <1>5, <2>4, <3>1 DEF Knowing
  <2> QED BY <2>1, <2>2, <2>3, <2>4 DEF Chronicle, Knowing, Asked
<1>8. Tracking(k, e, t, r)
  BY <1>5 DEF Chronicle, Tracking
<1>9. ASSUME k = "ObjectManager" PROVE LastWord(k, e.sub, r, s)
  <2>1. /\ \A i, j \in DOMAIN o : i < j /\ Of(o[i], "Ask", e.sub) /\ o[j].kind = "Ask" => o[j].id = e.sub
        /\ \A i, j \in DOMAIN q : i < j /\ Of(q[i], "Answer", e.sub) /\ q[j].kind = "Answer" => q[j].id = e.sub
        /\ \A i \in DOMAIN q, j \in DOMAIN o : Of(q[i], "Answer", e.sub) /\ o[j].kind = "Ask" => o[j].id = e.sub
    BY <1>9 DEF Chronicle, LastWord
  <2>2. ASSUME NEW i \in DOMAIN s, NEW j \in DOMAIN s, i < j, Of(s[i], "Ask", e.sub), s[j].kind = "Ask"
        PROVE  s[j].id = e.sub
    <3>1. i + 1 < j + 1
      BY <1>4, <2>2
    <3> QED BY <1>4, <2>1, <2>2, <3>1
  <2>3. ASSUME NEW i \in DOMAIN r, NEW j \in DOMAIN r, i < j, Of(r[i], "Answer", e.sub), r[j].kind = "Answer"
        PROVE  r[j].id = e.sub
    <3>1. i \in DOMAIN q
      BY <1>3, <2>3
    <3>2. CASE j \in DOMAIN q
      BY <1>3, <2>1, <2>3, <3>1, <3>2
    <3>3. CASE j = Len(q) + 1
      BY <1>3, <1>4, <2>1, <2>3, <3>1, <3>3
    <3> QED BY <1>3, <3>2, <3>3
  <2>4. ASSUME NEW i \in DOMAIN r, NEW j \in DOMAIN s, Of(r[i], "Answer", e.sub), s[j].kind = "Ask"
        PROVE  s[j].id = e.sub
    <3>1. CASE i \in DOMAIN q
      BY <1>3, <1>4, <2>1, <2>4, <3>1
    <3>2. CASE i = Len(q) + 1
      <4>1. Of(o[1], "Ask", e.sub) /\ 1 < j + 1
        <5>1. j \in Nat /\ j + 1 # 1
          BY <1>4, TailOf DEF s
        <5>2. Of(o[1], "Ask", e.sub)
          BY <1>3, <1>4, <2>4, <3>2 DEF Of
        <5> QED BY <5>1, <5>2
      <4> QED BY <1>4, <2>1, <2>4, <4>1
    <3> QED BY <1>3, <3>1, <3>2
  <2> QED BY <2>2, <2>3, <2>4 DEF LastWord
<1>10. Chronicle(k, e, t, r, s)
  BY <1>2, <1>6, <1>7, <1>8, <1>9 DEF Chronicle, LastWord
<1> QED BY <1>10 DEF r, s

\* The peer learns of the match rule of a receiver.
LEMMA WatchServed ==
    ASSUME NEW S, NEW R, NEW q \in Seq(S), NEW o \in Seq(R), o # <<>>, NEW k, NEW e, NEW f, NEW t,
           Chronicle(k, e, t, q, o), Head(o).kind = "Watch",
           f.sub = e.sub, f.failed = e.failed, f.known = e.known, f.ready = e.ready,
           e.matched \/ Head(o).id = e.sub => f.matched
    PROVE  Chronicle(k, f, t, q, Tail(o))
<1> DEFINE s == Tail(o)
<1>1. /\ 1 \in DOMAIN o /\ o[1] = Head(o) /\ \A i \in DOMAIN o : i = 1 \/ i > 1
      /\ \A i \in DOMAIN s : i \in Nat /\ i + 1 \in DOMAIN o /\ s[i] = o[i + 1]
      /\ \A i \in DOMAIN o : i # 1 => i \in Nat /\ i - 1 \in DOMAIN s /\ s[i - 1] = o[i]
  BY TailOf
<1> HIDE DEF s
<1>2. Unhooked(k, f, q, s)
  <2> SUFFICES ASSUME ~f.matched
               PROVE  /\ \E w, a \in DOMAIN s : /\ w < a /\ Of(s[w], "Watch", f.sub) /\ Of(s[a], "Ask", f.sub)
                                                /\ \A i \in DOMAIN s : Of(s[i], "Ask", f.sub) => w < i
                      /\ \A i \in DOMAIN q : ~Of(q[i], "Change", f.sub) /\ ~Of(q[i], "Answer", f.sub)
                      /\ k = "OwnerTracker" => f.known = None
    BY DEF Unhooked
  <2>1. /\ \E w, a \in DOMAIN o : /\ w < a /\ Of(o[w], "Watch", f.sub) /\ Of(o[a], "Ask", f.sub)
                                  /\ \A i \in DOMAIN o : Of(o[i], "Ask", f.sub) => w < i
        /\ \A i \in DOMAIN q : ~Of(q[i], "Change", f.sub) /\ ~Of(q[i], "Answer", f.sub)
        /\ k = "OwnerTracker" => f.known = None
    BY DEF Chronicle, Unhooked
  <2>2. PICK w \in DOMAIN o, a \in DOMAIN o :
           /\ w < a /\ Of(o[w], "Watch", f.sub) /\ Of(o[a], "Ask", f.sub)
           /\ \A i \in DOMAIN o : Of(o[i], "Ask", f.sub) => w < i
    BY <2>1
  <2>3. w # 1 /\ a # 1 /\ w > 1
    BY <1>1, <2>2 DEF Of
  <2>4. w - 1 \in DOMAIN s /\ a - 1 \in DOMAIN s /\ w - 1 < a - 1 /\ s[w - 1] = o[w] /\ s[a - 1] = o[a]
    BY <1>1, <2>2, <2>3
  <2>5. ASSUME NEW i \in DOMAIN s, Of(s[i], "Ask", f.sub) PROVE w - 1 < i
    <3>1. w < i + 1
      BY <1>1, <2>2, <2>5
    <3>2. w \in Nat /\ i \in Nat
      BY <1>1, <2>3
    <3> QED BY <3>1, <3>2
  <2>6. \E w1, a1 \in DOMAIN s : /\ w1 < a1 /\ Of(s[w1], "Watch", f.sub) /\ Of(s[a1], "Ask", f.sub)
                                 /\ \A i \in DOMAIN s : Of(s[i], "Ask", f.sub) => w1 < i
    BY <2>2, <2>4, <2>5
  <2> QED BY <2>1, <2>6
<1>3. Knowing(k, f, t, q, s)
  <2>1. CASE \E i \in DOMAIN o : Of(o[i], "Ask", e.sub)
    <3>1. PICK i \in DOMAIN o : Of(o[i], "Ask", e.sub)
      BY <2>1
    <3>2. i # 1
      BY <1>1, <3>1 DEF Of
    <3> QED BY <1>1, <3>1, <3>2 DEF Knowing, Asked
  <2>2. CASE \E i \in DOMAIN q : Of(q[i], "Answer", e.sub)
    BY <2>2 DEF Knowing, Asked
  <2>3. CASE e.failed
    BY <2>3 DEF Knowing
  <2>4. CASE Right(k, e, t, q) /\ (k = "ObjectManager" => e.ready /\ NothingAsked(q, o))
    <3>1. k = "ObjectManager" => NothingAsked(q, s)
      BY <1>1, <2>4 DEF NothingAsked
    <3> QED BY <2>4, <3>1 DEF Knowing, Right
  <2> QED BY <2>1, <2>2, <2>3, <2>4 DEF Chronicle, Knowing, Asked
<1>4. ASSUME k = "ObjectManager" PROVE LastWord(k, e.sub, q, s)
  <2>1. /\ \A i, j \in DOMAIN o : i < j /\ Of(o[i], "Ask", e.sub) /\ o[j].kind = "Ask" => o[j].id = e.sub
        /\ \A i, j \in DOMAIN q : i < j /\ Of(q[i], "Answer", e.sub) /\ q[j].kind = "Answer" => q[j].id = e.sub
        /\ \A i \in DOMAIN q, j \in DOMAIN o : Of(q[i], "Answer", e.sub) /\ o[j].kind = "Ask" => o[j].id = e.sub
    BY <1>4 DEF Chronicle, LastWord
  <2>2. ASSUME NEW i \in DOMAIN s, NEW j \in DOMAIN s, i < j, Of(s[i], "Ask", e.sub), s[j].kind = "Ask"
        PROVE  s[j].id = e.sub
    <3>1. i + 1 < j + 1
      BY <1>1, <2>2
    <3> QED BY <1>1, <2>1, <2>2, <3>1
  <2>3. ASSUME NEW i \in DOMAIN q, NEW j \in DOMAIN s, Of(q[i], "Answer", e.sub), s[j].kind = "Ask"
        PROVE  s[j].id = e.sub
    BY <1>1, <2>1, <2>3
  <2> QED BY <2>1, <2>2, <2>3 DEF LastWord
<1>5. ChangesTrue(k, f.sub, t, q) /\ AnswersTrue(k, f.sub, t, q) /\ Tracking(k, f, t, q)
  BY DEF Chronicle, Tracking, Right
<1>6. LastWord(k, f.sub, q, s)
  BY <1>4 DEF LastWord
<1>7. Chronicle(k, f, t, q, s)
  BY <1>2, <1>3, <1>5, <1>6 DEF Chronicle
<1> QED BY <1>7 DEF s

\* The peer changes its mind, and says so to a receiver it knows of.
LEMMA ChangeMade ==
    ASSUME NEW S, NEW R, NEW q \in Seq(S), NEW o \in Seq(R), NEW m \in S, NEW k, NEW e, NEW f, NEW t, NEW u,
           Chronicle(k, e, t, q, o), e.matched, Of(m, "Change", e.sub), m.from = t, m.to = u, t # u,
           f.sub = e.sub, f.matched = e.matched, f.failed = e.failed, f.known = e.known, f.ready = e.ready
    PROVE  Chronicle(k, f, u, Append(q, m), o)
<1> DEFINE r == Append(q, m)
<1>1. ChangesTrue(k, e.sub, t, q) /\ AnswersTrue(k, e.sub, t, q) /\ ~Of(m, "Answer", e.sub)
  BY DEF Chronicle, Of
<1>2. /\ ChangesTrue(k, e.sub, u, r) /\ AnswersTrue(k, e.sub, u, r)
      /\ \A x \in Marks : \A b : Agrees(k, e.sub, t, q, 0, b, x) => Agrees(k, e.sub, u, r, 0, b, x)
  BY <1>1, AddingOne
<1>3. /\ DOMAIN q = 1 .. Len(q) /\ Len(q) \in Nat
      /\ \A j \in DOMAIN q : j \in DOMAIN r /\ r[j] = q[j]
      /\ \A j \in DOMAIN r : j \in DOMAIN q \/ j = Len(q) + 1
      /\ r[Len(q) + 1] = m
  BY AppendProperties, LenProperties
<1> HIDE DEF r
<1>4. ASSUME Right(k, e, t, q) PROVE Right(k, f, u, r)
  BY <1>2, <1>4 DEF Right
<1>5. m.kind = "Change" /\ m.kind # "Answer"
  BY DEF Of
<1>6. ASSUME NEW j \in DOMAIN r, r[j].kind = "Answer" PROVE j \in DOMAIN q /\ r[j] = q[j]
  BY <1>3, <1>5, <1>6
<1>7. Knowing(k, f, u, r, o)
  <2>1. Asked(e.sub, q, o) => Asked(f.sub, r, o)
    BY <1>3 DEF Asked
  <2>2. NothingAsked(q, o) => NothingAsked(r, o)
    BY <1>6 DEF NothingAsked
  <2> QED BY <1>4, <2>1, <2>2 DEF Chronicle, Knowing
<1>8. Tracking(k, f, u, r)
  BY <1>4 DEF Chronicle, Tracking
<1>9. LastWord(k, f.sub, r, o)
  BY <1>6 DEF Chronicle, LastWord, Of
<1>10. Chronicle(k, f, u, r, o)
  BY <1>2, <1>7, <1>8, <1>9 DEF Chronicle, Unhooked
<1> QED BY <1>10 DEF r

\* It says nothing to one that it does not know of: that one has asked nothing yet.
LEMMA TruthMoves ==
    ASSUME NEW q, NEW o, NEW k, NEW e, NEW t, NEW u, Chronicle(k, e, t, q, o), ~e.matched
    PROVE  Chronicle(k, e, u, q, o)
<1>1. /\ \E a \in DOMAIN o : Of(o[a], "Ask", e.sub)
      /\ \A i \in DOMAIN q : ~Of(q[i], "Change", e.sub) /\ ~Of(q[i], "Answer", e.sub)
      /\ k = "OwnerTracker" => e.known = None
  BY DEF Chronicle, Unhooked
<1>2. ChangesTrue(k, e.sub, u, q) /\ AnswersTrue(k, e.sub, u, q)
  BY <1>1 DEF ChangesTrue, AnswersTrue
<1>3. Knowing(k, e, u, q, o) /\ Tracking(k, e, u, q)
  BY <1>1 DEF Knowing, Asked, Tracking
<1> QED BY <1>2, <1>3 DEF Chronicle

\* What is in two queues together.
Joins(s, a, b) ==
    /\ Len(a) \in Nat
    /\ \A i \in DOMAIN a : i \in DOMAIN s /\ s[i] = a[i] /\ i \in Nat /\ i <= Len(a)
    /\ \A i \in DOMAIN b : i \in Nat /\ i > 0 /\ Len(a) + i \in DOMAIN s /\ s[Len(a) + i] = b[i]
    /\ \A i \in DOMAIN s : \/ i \in DOMAIN a /\ s[i] = a[i]
                           \/ \E j \in DOMAIN b : i = Len(a) + j /\ s[i] = b[j]

LEMMA Joined ==
    ASSUME NEW S, NEW a \in Seq(S), NEW b \in Seq(S)
    PROVE  a \o b \in Seq(S) /\ Joins(a \o b, a, b)
<1>1. /\ a \o b \in Seq(S) /\ Len(a \o b) = Len(a) + Len(b)
      /\ \A i \in 1 .. Len(a) + Len(b) : (a \o b)[i] = IF i <= Len(a) THEN a[i] ELSE b[i - Len(a)]
  BY ConcatProperties
<1> DEFINE c == a \o b
<1>2. /\ Len(a) \in Nat /\ Len(b) \in Nat /\ DOMAIN a = 1 .. Len(a) /\ DOMAIN b = 1 .. Len(b)
      /\ DOMAIN c = 1 .. Len(c)
  BY <1>1, LenProperties
<1> HIDE DEF c
<1>3. /\ c \in Seq(S) /\ DOMAIN c = 1 .. Len(a) + Len(b)
      /\ \A i \in 1 .. Len(a) + Len(b) : c[i] = IF i <= Len(a) THEN a[i] ELSE b[i - Len(a)]
  BY <1>1, <1>2 DEF c
<1>4. ASSUME NEW i \in DOMAIN a PROVE i \in DOMAIN c /\ c[i] = a[i] /\ i \in Nat /\ i <= Len(a)
  <2>1. i \in Nat /\ i <= Len(a) /\ i \in 1 .. Len(a) + Len(b)
    BY ONLY <1>2, <1>4
  <2> QED BY <1>3, <2>1
<1>5. ASSUME NEW i \in DOMAIN b
      PROVE  i \in Nat /\ i > 0 /\ Len(a) + i \in DOMAIN c /\ c[Len(a) + i] = b[i]
  <2>1. i \in Nat /\ i > 0 /\ Len(a) + i \in 1 .. Len(a) + Len(b) /\ ~(Len(a) + i <= Len(a)) /\ (Len(a) + i) - Len(a) = i
    BY <1>2
  <2> QED BY <1>3, <2>1
<1>6. ASSUME NEW i \in DOMAIN c
      PROVE  \/ i \in DOMAIN a /\ c[i] = a[i]
             \/ \E j \in DOMAIN b : i = Len(a) + j /\ c[i] = b[j]
  <2>1. CASE i <= Len(a)
    BY <1>2, <1>3, <2>1
  <2>2. CASE ~(i <= Len(a))
    <3>1. i \in 1 .. Len(a) + Len(b) /\ c[i] = b[i - Len(a)]
      BY <1>3, <2>2
    <3>2. i - Len(a) \in DOMAIN b /\ i = Len(a) + (i - Len(a))
      BY <1>2, <2>2, <3>1
    <3> QED BY <3>1, <3>2
  <2> QED BY <2>1, <2>2
<1> QED BY <1>2, <1>3, <1>4, <1>5, <1>6 DEF c, Joins

\* More is posted to the peer of a receiver.
LEMMA MorePosted ==
    ASSUME NEW R, NEW q, NEW o \in Seq(R), NEW ms \in Seq(R), NEW k, NEW e, NEW f, NEW t,
           Chronicle(k, e, t, q, o),
           k = "ObjectManager" => \A i \in DOMAIN ms : ms[i].kind # "Ask",
           f.sub = e.sub, f.matched = e.matched, f.failed = e.failed, f.known = e.known, f.ready = e.ready
    PROVE  Chronicle(k, f, t, q, o \o ms)
<1> DEFINE s == o \o ms
<1>1. /\ Len(o) \in Nat
      /\ \A i \in DOMAIN o : i \in DOMAIN s /\ s[i] = o[i] /\ i \in Nat /\ i <= Len(o)
      /\ \A i \in DOMAIN ms : i \in Nat /\ i > 0
      /\ \A i \in DOMAIN s : \/ i \in DOMAIN o /\ s[i] = o[i]
                             \/ \E j \in DOMAIN ms : i = Len(o) + j /\ s[i] = ms[j]
  <2>1. Joins(s, o, ms)
    BY Joined
  <2> QED BY ONLY <2>1 DEF Joins
<1> HIDE DEF s
<1>2. Unhooked(k, f, q, s)
  <2> SUFFICES ASSUME ~e.matched
               PROVE  \E w, a \in DOMAIN s : /\ w < a /\ Of(s[w], "Watch", e.sub) /\ Of(s[a], "Ask", e.sub)
                                             /\ \A i \in DOMAIN s : Of(s[i], "Ask", e.sub) => w < i
    BY DEF Unhooked, Chronicle
  <2>1. PICK w \in DOMAIN o, a \in DOMAIN o :
           /\ w < a /\ Of(o[w], "Watch", e.sub) /\ Of(o[a], "Ask", e.sub)
           /\ \A i \in DOMAIN o : Of(o[i], "Ask", e.sub) => w < i
    BY DEF Chronicle, Unhooked
  <2>2. ASSUME NEW i \in DOMAIN s, Of(s[i], "Ask", e.sub) PROVE w < i
    <3>1. CASE i \in DOMAIN o /\ s[i] = o[i]
      BY <2>1, <2>2, <3>1
    <3>2. CASE \E j \in DOMAIN ms : i = Len(o) + j
      BY <1>1, <3>2
    <3> QED BY <1>1, <3>1, <3>2
  <2> QED BY <1>1, <2>1, <2>2
<1>3. k = "ObjectManager" => \A i \in DOMAIN s : s[i].kind = "Ask" => i \in DOMAIN o /\ s[i] = o[i]
  BY <1>1
<1>4. Knowing(k, f, t, q, s)
  <2>1. Asked(e.sub, q, o) => Asked(f.sub, q, s)
    BY <1>1 DEF Asked
  <2>2. k = "ObjectManager" /\ NothingAsked(q, o) => NothingAsked(q, s)
    BY <1>3 DEF NothingAsked
  <2> QED BY <2>1, <2>2 DEF Chronicle, Knowing, Right
<1>5. LastWord(k, f.sub, q, s)
  BY <1>3 DEF Chronicle, LastWord, Of
<1>6. Chronicle(k, f, t, q, s)
  BY <1>2, <1>4, <1>5 DEF Chronicle, Tracking, Right
<1> QED BY <1>6 DEF s

\* A receiver is new: its match rule is posted before its question, and before
\* them there is nothing of it.
LEMMA NewReceiver ==
    ASSUME NEW R, NEW q, NEW o \in Seq(R), NEW ms \in Seq(R), NEW k, NEW e, NEW t,
           ~e.matched, k = "OwnerTracker" => e.known = None,
           \A i \in DOMAIN q : ~Of(q[i], "Change", e.sub) /\ ~Of(q[i], "Answer", e.sub),
           \A i \in DOMAIN o : ~Of(o[i], "Ask", e.sub),
           \E w, a \in DOMAIN ms : /\ w < a /\ Of(ms[w], "Watch", e.sub) /\ Of(ms[a], "Ask", e.sub)
                                   /\ \A i \in DOMAIN ms : ms[i].kind = "Ask" => w < i /\ ms[i].id = e.sub
    PROVE  Chronicle(k, e, t, q, o \o ms)
<1> DEFINE s == o \o ms
           n == Len(o)
<1>1. /\ n \in Nat
      /\ \A i \in DOMAIN o : i \in DOMAIN s /\ s[i] = o[i] /\ i \in Nat /\ i <= n
      /\ \A i \in DOMAIN ms : i \in Nat /\ i > 0 /\ n + i \in DOMAIN s /\ s[n + i] = ms[i]
      /\ \A i \in DOMAIN s : \/ i \in DOMAIN o /\ s[i] = o[i]
                             \/ \E j \in DOMAIN ms : i = n + j /\ s[i] = ms[j]
  <2>1. Joins(s, o, ms)
    BY Joined
  <2> QED BY ONLY <2>1 DEF Joins, n
<1> HIDE DEF s, n
<1>2. PICK w \in DOMAIN ms, a \in DOMAIN ms :
         /\ w < a /\ Of(ms[w], "Watch", e.sub) /\ Of(ms[a], "Ask", e.sub)
         /\ \A i \in DOMAIN ms : ms[i].kind = "Ask" => w < i /\ ms[i].id = e.sub
  OBVIOUS
<1>3. /\ n + w \in DOMAIN s /\ n + a \in DOMAIN s /\ n + w < n + a
      /\ Of(s[n + w], "Watch", e.sub) /\ Of(s[n + a], "Ask", e.sub)
  BY <1>1, <1>2
<1>4. ASSUME NEW i \in DOMAIN s, Of(s[i], "Ask", e.sub) PROVE n + w < i
  <2>1. PICK j \in DOMAIN ms : i = n + j /\ s[i] = ms[j]
    BY <1>1, <1>4
  <2>2. w < j
    BY <1>2, <1>4, <2>1 DEF Of
  <2> QED BY <1>1, <2>1, <2>2
<1>5. Unhooked(k, e, q, s)
  BY <1>3, <1>4 DEF Unhooked
<1>6. Knowing(k, e, t, q, s) /\ Tracking(k, e, t, q)
  BY <1>3 DEF Knowing, Asked, Tracking
<1>7. ChangesTrue(k, e.sub, t, q) /\ AnswersTrue(k, e.sub, t, q)
  BY DEF ChangesTrue, AnswersTrue
<1>8. ASSUME NEW i \in DOMAIN s, NEW j \in DOMAIN s, i < j, Of(s[i], "Ask", e.sub), s[j].kind = "Ask"
      PROVE  s[j].id = e.sub
  <2>1. ~(j \in DOMAIN o)
    <3>1. PICK l \in DOMAIN ms : i = n + l
      BY <1>1, <1>8
    <3>2. i > n /\ i \in Nat
      <4>1. l \in Nat /\ l > 0 /\ n \in Nat
        BY <1>1
      <4> QED BY ONLY <3>1, <4>1
    <3>3. j \in DOMAIN o => j \in Nat /\ j <= n /\ n \in Nat
      BY <1>1
    <3> QED BY ONLY <1>8, <3>2, <3>3
  <2>2. PICK l \in DOMAIN ms : s[j] = ms[l]
    BY <1>1, <2>1
  <2> QED BY <1>2, <1>8, <2>2
<1>9. LastWord(k, e.sub, q, s)
  BY <1>8 DEF LastWord
<1>10. Chronicle(k, e, t, q, s)
  BY <1>5, <1>6, <1>7, <1>9 DEF Chronicle
<1> QED BY <1>10 DEF s

-----------------------------------------------------------------------------
(* What a step does to where questions are, and how many.                  *)

\* The errors of a dead connection are answers to the questions among ms, one each.
Erring(f, u, ms) ==
    /\ \A j \in DOMAIN u : /\ f[j] \in DOMAIN ms /\ u[j].kind \in {"Answer", "Pong"}
                           /\ u[j].kind = "Answer" => /\ ms[f[j]].kind = "Ask"
                                                      /\ u[j].id = ms[f[j]].id /\ u[j].name = ms[f[j]].name
    /\ \A i, j \in DOMAIN u : f[i] = f[j] => i = j

LEMMA ErrorsAreAnswers ==
    ASSUME NEW ms \in Seq(OutMsg)
    PROVE  \E f : Erring(f, Errors(ms), ms)
<1> DEFINE hits == {i \in DOMAIN ms : ms[i].kind # "Watch"}
           t == Calls(ms)
           u == Errors(ms)
<1>1. t \in Seq(OutMsg) /\ \E f : Traces(f, t, ms, hits)
  BY EntriesKept DEF Calls
<1>2. PICK f : Traces(f, t, ms, hits)
  BY <1>1
<1>3. DOMAIN u = DOMAIN t /\ \A j \in DOMAIN t : u[j] = AnsweredByError(t[j])
  BY DEF Errors
<1>4. DOMAIN t = 1 .. Len(t) /\ Len(t) \in Nat /\ \A j \in DOMAIN t : t[j] \in OutMsg
  BY <1>1, ElementOfSeq, LenProperties
<1>5. \A j \in DOMAIN t : f[j] \in DOMAIN ms /\ t[j] = ms[f[j]] /\ t[j].kind \in {"Ask", "Ping"}
  BY <1>2, MessageKinds, ElementOfSeq DEF Traces
<1> HIDE DEF t, u, hits
<1>6. ASSUME NEW j \in DOMAIN u
      PROVE  /\ f[j] \in DOMAIN ms /\ u[j].kind \in {"Answer", "Pong"}
             /\ u[j].kind = "Answer" => /\ ms[f[j]].kind = "Ask"
                                        /\ u[j].id = ms[f[j]].id /\ u[j].name = ms[f[j]].name
  <2>1. f[j] \in DOMAIN ms /\ t[j] = ms[f[j]] /\ t[j].kind \in {"Ask", "Ping"} /\ u[j] = AnsweredByError(t[j])
    BY <1>3, <1>5
  <2>2. CASE t[j].kind = "Ping"
    <3>1. u[j].kind = "Pong"
      BY <2>1, <2>2 DEF AnsweredByError, Pong
    <3> QED BY <2>1, <3>1
  <2>3. CASE t[j].kind = "Ask"
    <3>1. u[j].kind = "Answer" /\ u[j].id = t[j].id /\ u[j].name = t[j].name
      BY <2>1, <2>3 DEF AnsweredByError, Answer
    <3> QED BY <2>1, <2>3, <3>1
  <2> QED BY <2>1, <2>2, <2>3
<1>7. ASSUME NEW i \in DOMAIN u, NEW j \in DOMAIN u, f[i] = f[j] PROVE i = j
  <2>1. i \in Nat /\ j \in Nat /\ i \in DOMAIN t /\ j \in DOMAIN t
    BY <1>3, <1>4
  <2>2. i < j => f[i] < f[j]
    BY <1>2, <2>1 DEF Traces
  <2>3. j < i => f[j] < f[i]
    BY <1>2, <2>1 DEF Traces
  <2>4. f[i] \in Nat /\ f[j] \in Nat
    <3>1. DOMAIN ms \in SUBSET Nat
      BY LenProperties
    <3> QED BY <1>5, <2>1, <3>1
  <2> QED BY <1>7, <2>1, <2>2, <2>3, <2>4
<1>8. Erring(f, u, ms)
  BY <1>6, <1>7 DEF Erring
<1> QED BY <1>8 DEF u

\* The queues of one peer change.
LEMMA RoutedStep ==
    ASSUME NetOK, NEW p \in Peers, NEW o, NEW q, NEW k, NEW e,
           net' = [out |-> [net.out EXCEPT ![p] = o], in |-> [net.in EXCEPT ![p] = q]],
           RoutedNet(k, e, net),
           \A i \in DOMAIN o : Routed(k, e, p, o[i]), \A i \in DOMAIN q : Routed(k, e, p, q[i])
    PROVE  RoutedNet(k, e, net')
<1>1. /\ net'.out[p] = o /\ net'.in[p] = q
      /\ \A r \in Peers \ {p} : net'.out[r] = net.out[r] /\ net'.in[r] = net.in[r]
  BY DEF NetOK
<1> QED BY <1>1 DEF RoutedNet

LEMMA SoleStep ==
    ASSUME NetOK, NEW p \in Peers, NEW o, NEW q, NEW k,
           net' = [out |-> [net.out EXCEPT ![p] = o], in |-> [net.in EXCEPT ![p] = q]],
           SoleNet(k, net), k = "ServiceWatcher" => Sole(q, o)
    PROVE  SoleNet(k, net')
<1>1. /\ net'.out[p] = o /\ net'.in[p] = q
      /\ \A r \in Peers \ {p} : net'.out[r] = net.out[r] /\ net'.in[r] = net.in[r]
  BY DEF NetOK
<1> QED BY <1>1 DEF SoleNet

\* Messages are posted to p.
LEMMA PostedAt ==
    ASSUME NetOK, NEW p \in Peers, NEW ms \in Seq(OutMsg), net' = Posted(p, ms)
    PROVE  /\ up[p] => net' = [out |-> [net.out EXCEPT ![p] = net.out[p] \o ms],
                               in |-> [net.in EXCEPT ![p] = net.in[p]]]
           /\ ~up[p] => net' = [out |-> [net.out EXCEPT ![p] = net.out[p]],
                                in |-> [net.in EXCEPT ![p] = net.in[p] \o Errors(ms)]]
           /\ net.out[p] \in Seq(OutMsg) /\ net.in[p] \in Seq(InMsg) /\ Errors(ms) \in Seq(InMsg)
<1>1. /\ net = [out |-> net.out, in |-> net.in]
      /\ net.out \in [Peers -> Seq(OutMsg)] /\ net.in \in [Peers -> Seq(InMsg)]
  BY DEF NetOK
<1>2. net.out = [net.out EXCEPT ![p] = net.out[p]] /\ net.in = [net.in EXCEPT ![p] = net.in[p]]
  BY <1>1
<1>3. CASE up[p]
  <2>1. net' = [out |-> [net.out EXCEPT ![p] = net.out[p] \o ms], in |-> net.in]
    BY <1>1, <1>3 DEF Posted
  <2> QED BY <1>1, <1>2, <1>3, <2>1, ErrorsAnswer
<1>4. CASE ~up[p]
  <2>1. net' = [out |-> net.out, in |-> [net.in EXCEPT ![p] = net.in[p] \o Errors(ms)]]
    BY <1>1, <1>4 DEF Posted
  <2> QED BY <1>1, <1>2, <1>4, <2>1, ErrorsAnswer
<1> QED BY <1>3, <1>4

LEMMA RoutedPosting ==
    ASSUME NetOK, NEW p \in Peers, NEW ms \in Seq(OutMsg), net' = Posted(p, ms), NEW k, NEW e,
           RoutedNet(k, e, net), \A i \in DOMAIN ms : Routed(k, e, p, ms[i])
    PROVE  RoutedNet(k, e, net')
<1> DEFINE o == net.out[p]
           q == net.in[p]
           u == Errors(ms)
<1>1. /\ up[p] => net' = [out |-> [net.out EXCEPT ![p] = o \o ms], in |-> [net.in EXCEPT ![p] = q]]
      /\ ~up[p] => net' = [out |-> [net.out EXCEPT ![p] = o], in |-> [net.in EXCEPT ![p] = q \o u]]
      /\ o \in Seq(OutMsg) /\ q \in Seq(InMsg) /\ u \in Seq(InMsg)
  BY PostedAt
<1>2. /\ \A i \in DOMAIN o : Routed(k, e, p, o[i])
      /\ \A i \in DOMAIN q : Routed(k, e, p, q[i])
  BY DEF RoutedNet
<1>3. \E f : Erring(f, u, ms)
  BY ErrorsAreAnswers
<1> HIDE DEF o, q, u
<1>4. \A i \in DOMAIN (o \o ms) : Routed(k, e, p, (o \o ms)[i])
  <2>1. PICK s : s = o \o ms
    OBVIOUS
  <2>2. Joins(s, o, ms)
    BY <1>1, <2>1, Joined
  <2>3. \A i \in DOMAIN s : Routed(k, e, p, s[i])
    BY ONLY <1>2, <2>2, \A i \in DOMAIN ms : Routed(k, e, p, ms[i]) DEF Joins
  <2> QED BY <2>1, <2>3
<1>5. ASSUME NEW j \in DOMAIN u PROVE Routed(k, e, p, u[j])
  <2>1. PICK f : Erring(f, u, ms)
    BY <1>3
  <2>2. /\ f[j] \in DOMAIN ms /\ u[j].kind \in {"Answer", "Pong"}
        /\ u[j].kind = "Answer" => ms[f[j]].kind = "Ask" /\ u[j].id = ms[f[j]].id /\ u[j].name = ms[f[j]].name
    BY <2>1 DEF Erring
  <2>3. Routed(k, e, p, ms[f[j]])
    BY <2>2
  <2> QED BY <2>2, <2>3 DEF Routed
<1>6. \A i \in DOMAIN (q \o u) : Routed(k, e, p, (q \o u)[i])
  <2>1. PICK s : s = q \o u
    OBVIOUS
  <2>2. Joins(s, q, u)
    BY <1>1, <2>1, Joined
  <2>3. \A i \in DOMAIN s : Routed(k, e, p, s[i])
    BY ONLY <1>2, <2>2, <1>5 DEF Joins
  <2> QED BY <2>1, <2>3
<1>7. CASE up[p]
  <2>1. PICK s : s = o \o ms
    OBVIOUS
  <2>2. /\ net' = [out |-> [net.out EXCEPT ![p] = s], in |-> [net.in EXCEPT ![p] = q]]
        /\ \A i \in DOMAIN s : Routed(k, e, p, s[i])
    BY <1>1, <1>4, <1>7, <2>1
  <2> QED BY <1>2, <2>2, RoutedStep
<1>8. CASE ~up[p]
  <2>1. PICK s : s = q \o u
    OBVIOUS
  <2>2. /\ net' = [out |-> [net.out EXCEPT ![p] = o], in |-> [net.in EXCEPT ![p] = s]]
        /\ \A i \in DOMAIN s : Routed(k, e, p, s[i])
    BY <1>1, <1>6, <1>8, <2>1
  <2> QED BY <1>2, <2>2, RoutedStep
<1> QED BY <1>7, <1>8

\* One question more is the only one, if there was none.
LEMMA SolePosting ==
    ASSUME NetOK, NEW p \in Peers, NEW ms \in Seq(OutMsg), net' = Posted(p, ms), NEW k,
           SoleNet(k, net),
           k = "ServiceWatcher" =>
              \/ \A i \in DOMAIN ms : ms[i].kind # "Ask"
              \/ /\ NothingAsked(net.in[p], net.out[p])
                 /\ \A i, j \in DOMAIN ms : ms[i].kind = "Ask" /\ ms[j].kind = "Ask" => i = j
    PROVE  SoleNet(k, net')
<1> DEFINE o == net.out[p]
           q == net.in[p]
           u == Errors(ms)
<1>1. /\ up[p] => net' = [out |-> [net.out EXCEPT ![p] = o \o ms], in |-> [net.in EXCEPT ![p] = q]]
      /\ ~up[p] => net' = [out |-> [net.out EXCEPT ![p] = o], in |-> [net.in EXCEPT ![p] = q \o u]]
      /\ o \in Seq(OutMsg) /\ q \in Seq(InMsg) /\ u \in Seq(InMsg)
  BY PostedAt
<1>2. k = "ServiceWatcher" =>
        /\ Sole(q, o)
        /\ \/ \A i \in DOMAIN ms : ms[i].kind # "Ask"
           \/ /\ NothingAsked(q, o)
              /\ \A i, j \in DOMAIN ms : ms[i].kind = "Ask" /\ ms[j].kind = "Ask" => i = j
  BY DEF SoleNet
<1>3. \E f : Erring(f, u, ms)
  BY ErrorsAreAnswers
<1> HIDE DEF o, q, u
<1>4. CASE up[p]
  <2>1. PICK s : s = o \o ms
    OBVIOUS
  <2>2. Joins(s, o, ms)
    BY <1>1, <2>1, Joined
  <2>3. ASSUME k = "ServiceWatcher" PROVE Sole(q, s)
    <3>1. CASE \A i \in DOMAIN ms : ms[i].kind # "Ask"
      <4>1. \A i \in DOMAIN s : s[i].kind = "Ask" => i \in DOMAIN o /\ s[i] = o[i]
        BY ONLY <2>2, <3>1 DEF Joins
      <4> QED BY <1>2, <2>3, <4>1 DEF Sole
    <3>2. CASE /\ NothingAsked(q, o)
               /\ \A i, j \in DOMAIN ms : ms[i].kind = "Ask" /\ ms[j].kind = "Ask" => i = j
      <4>1. \A i \in DOMAIN s : s[i].kind = "Ask" => \E j \in DOMAIN ms : i = Len(o) + j /\ s[i] = ms[j]
        BY ONLY <2>2, <3>2 DEF Joins, NothingAsked
      <4>2. \A i, j \in DOMAIN s : s[i].kind = "Ask" /\ s[j].kind = "Ask" => i = j
        BY <3>2, <4>1
      <4> QED BY <3>2, <4>2 DEF Sole, NothingAsked
    <3> QED BY <1>2, <2>3, <3>1, <3>2
  <2>4. net' = [out |-> [net.out EXCEPT ![p] = s], in |-> [net.in EXCEPT ![p] = q]]
    BY <1>1, <1>4, <2>1
  <2> QED BY <2>3, <2>4, SoleStep
<1>5. CASE ~up[p]
  <2>1. PICK s : s = q \o u
    OBVIOUS
  <2>2. Joins(s, q, u)
    BY <1>1, <2>1, Joined
  <2>3. PICK f : Erring(f, u, ms)
    BY <1>3
  <2>4. ASSUME k = "ServiceWatcher" PROVE Sole(s, o)
    <3>1. CASE \A i \in DOMAIN ms : ms[i].kind # "Ask"
      <4>1. \A j \in DOMAIN u : u[j].kind # "Answer"
        BY ONLY <2>3, <3>1 DEF Erring
      <4>2. \A i \in DOMAIN s : s[i].kind = "Answer" => i \in DOMAIN q /\ s[i] = q[i]
        BY ONLY <2>2, <4>1 DEF Joins
      <4> QED BY <1>2, <2>4, <4>2 DEF Sole
    <3>2. CASE /\ NothingAsked(q, o)
               /\ \A i, j \in DOMAIN ms : ms[i].kind = "Ask" /\ ms[j].kind = "Ask" => i = j
      <4>1. \A i \in DOMAIN s : s[i].kind = "Answer" => \E j \in DOMAIN u : i = Len(q) + j /\ s[i] = u[j]
        BY ONLY <2>2, <3>2 DEF Joins, NothingAsked
      <4>2. \A i, j \in DOMAIN u : u[i].kind = "Answer" /\ u[j].kind = "Answer" => i = j
        BY <2>3, <3>2 DEF Erring
      <4>3. \A i, j \in DOMAIN s : s[i].kind = "Answer" /\ s[j].kind = "Answer" => i = j
        BY <4>1, <4>2
      <4> QED BY <3>2, <4>3 DEF Sole, NothingAsked
    <3> QED BY <1>2, <2>4, <3>1, <3>2
  <2>5. net' = [out |-> [net.out EXCEPT ![p] = o], in |-> [net.in EXCEPT ![p] = s]]
    BY <1>1, <1>5, <2>1
  <2> QED BY <2>4, <2>5, SoleStep
<1> QED BY <1>4, <1>5

-----------------------------------------------------------------------------
(* The moves of the application.                                           *)

\* What a move posts, in its order.
Ordered(ms, e) ==
    /\ ms \in Seq(OutMsg)
    /\ \A i \in DOMAIN ms : /\ ms[i] \in {Ping, Watch(e), Ask(e)}
                            /\ ms[i].kind = "Ask" => Asks(e)
    /\ \A i, j \in DOMAIN ms : ms[i].kind = "Ask" /\ ms[j].kind = "Ask" => i = j
    /\ e.sub \notin {0, el.sub} /\ Asks(e) =>
          \E w, a \in DOMAIN ms : /\ w < a /\ Of(ms[w], "Watch", e.sub) /\ Of(ms[a], "Ask", e.sub)
                                  /\ \A i \in DOMAIN ms : ms[i].kind = "Ask" => w < i /\ ms[i].id = e.sub

LEMMA MoveOrder ==
    ASSUME kind \in Kinds, NEW e \in Element, Sound(e),
           NEW b \in {<<>>, <<Ping>>}, NEW a \in {<<>>, <<Ping>>}
    PROVE  Ordered(b \o Subscriptions(e) \o Questions(e) \o a, e)
<1> DEFINE s == Subscriptions(e)
           q == Questions(e)
           x == b \o s
           y == x \o q
           ms == y \o a
<1>1. /\ <<>> \in Seq(OutMsg) /\ <<Ping>> \in Seq(OutMsg) /\ Ping.kind = "Ping"
  BY MessageKinds DEF Ping
<1>2. a \in Seq(OutMsg) /\ b \in Seq(OutMsg) /\ s \in Seq(OutMsg) /\ q \in Seq(OutMsg)
  BY <1>1, QuestionsAreNamed
<1>3. /\ \A i \in DOMAIN a : a[i] = Ping
      /\ \A i \in DOMAIN b : b[i] = Ping
  OBVIOUS
<1>4. /\ \A i \in DOMAIN s : s[i] = Watch(e)
      /\ e.sub \notin {0, el.sub} => 1 \in DOMAIN s /\ s[1] = Watch(e)
  BY DEF Subscriptions
<1>5. /\ \A i \in DOMAIN q : i = 1 /\ q[i] = Ask(e) /\ Asks(e)
      /\ Asks(e) => 1 \in DOMAIN q /\ q[1] = Ask(e)
  BY DEF Questions
<1>6. Watch(e).kind = "Watch" /\ Watch(e).id = e.sub /\ Ask(e).kind = "Ask" /\ Ask(e).id = e.sub
  BY DEF Watch, Ask
<1> HIDE DEF s, q, x, y, ms
<1>7. x \in Seq(OutMsg) /\ Joins(x, b, s)
  BY <1>2, Joined DEF x
<1>8. y \in Seq(OutMsg) /\ Joins(y, x, q)
  BY <1>2, <1>7, Joined DEF y
<1>9. ms \in Seq(OutMsg) /\ Joins(ms, y, a)
  BY <1>2, <1>8, Joined DEF ms
<1>10. \A i \in DOMAIN x : x[i] \in {Ping, Watch(e)}
  BY ONLY <1>3, <1>4, <1>7 DEF Joins
<1>11. \A i \in DOMAIN y : \/ i \in DOMAIN x /\ y[i] = x[i]
                           \/ i = Len(x) + 1 /\ y[i] = Ask(e) /\ Asks(e)
  BY ONLY <1>5, <1>8 DEF Joins
<1>12. \A i \in DOMAIN ms : ms[i] = Ping \/ (i \in DOMAIN y /\ ms[i] = y[i])
  BY ONLY <1>3, <1>9 DEF Joins
<1>13. \A i \in DOMAIN ms : /\ ms[i] \in {Ping, Watch(e), Ask(e)}
                            /\ ms[i].kind = "Ask" => Asks(e) /\ i = Len(x) + 1 /\ ms[i].id = e.sub
  <2> SUFFICES ASSUME NEW i \in DOMAIN ms
               PROVE  /\ ms[i] \in {Ping, Watch(e), Ask(e)}
                      /\ ms[i].kind = "Ask" => Asks(e) /\ i = Len(x) + 1 /\ ms[i].id = e.sub
    OBVIOUS
  <2>1. CASE ms[i] = Ping
    BY <1>1, <2>1
  <2>2. CASE i \in DOMAIN y /\ ms[i] = y[i]
    BY <1>1, <1>6, <1>10, <1>11, <2>2
  <2> QED BY <1>12, <2>1, <2>2
<1>14. ASSUME e.sub \notin {0, el.sub}, Asks(e)
       PROVE  \E w, c \in DOMAIN ms : /\ w < c /\ Of(ms[w], "Watch", e.sub) /\ Of(ms[c], "Ask", e.sub)
                                      /\ \A i \in DOMAIN ms : ms[i].kind = "Ask" => w < i /\ ms[i].id = e.sub
  <2>1. 1 \in DOMAIN s /\ s[1] = Watch(e) /\ 1 \in DOMAIN q /\ q[1] = Ask(e)
    BY <1>4, <1>5, <1>14
  <2>2. PICK w : w = Len(b) + 1
    OBVIOUS
  <2>3. w \in DOMAIN x /\ x[w] = Watch(e)
    BY <1>7, <2>1, <2>2 DEF Joins
  <2>4. w \in DOMAIN y /\ y[w] = Watch(e) /\ w \in Nat /\ w <= Len(x) /\ Len(x) \in Nat
    BY <1>8, <2>3 DEF Joins
  <2>5. PICK c : c = Len(x) + 1
    OBVIOUS
  <2>6. c \in DOMAIN y /\ y[c] = Ask(e)
    BY <1>8, <2>1, <2>5 DEF Joins
  <2>7. w \in DOMAIN ms /\ ms[w] = Watch(e) /\ c \in DOMAIN ms /\ ms[c] = Ask(e)
    BY <1>9, <2>4, <2>6 DEF Joins
  <2>8. w < c
    BY <2>4, <2>5
  <2>9. \A i \in DOMAIN ms : ms[i].kind = "Ask" => w < i /\ ms[i].id = e.sub
    BY <1>13, <2>5, <2>8
  <2> QED BY <1>6, <2>7, <2>8, <2>9 DEF Of
<1>15. Ordered(ms, e)
  BY <1>9, <1>13, <1>14 DEF Ordered
<1> QED BY <1>15 DEF ms, y, x, s, q

\* A receiver that is not made yet has nothing under way.
LEMMA NothingOfTheNext ==
    ASSUME IInv, RoutedNet(kind, el, net), NEW p \in Peers, NEW k \in Nat, k > el.serial
    PROVE  /\ \A i \in DOMAIN net.in[p] : ~Of(net.in[p][i], "Change", k) /\ ~Of(net.in[p][i], "Answer", k)
           /\ \A i \in DOMAIN net.out[p] : ~Of(net.out[p][i], "Ask", k) /\ ~Of(net.out[p][i], "Watch", k)
<1>1. el.serial \in Nat /\ NetOK
  BY DEF IInv, TypeInv, Element
<1>2. net.in[p] \in Seq(InMsg) /\ ChangesAt(p, k) = 0
  BY <1>1, CountsAreNumbers DEF IInv, HeardInv
<1>3. \A i \in DOMAIN net.in[p] : net.in[p][i] \notin ChangesFor(k) /\ net.in[p][i] \in InMsg
  BY <1>2, CountType, ElementOfSeq, LenProperties DEF ChangesAt
<1>4. ~(k <= el.serial)
  BY <1>1
<1> QED BY <1>3, <1>4, MessageKinds DEF RoutedNet, Routed, Of

\* A move that keeps no receiver.
LEMMA MoveRests ==
    ASSUME IInv, RestInv, UNCHANGED <<kind, up, truth>>, ~el.blocked,
           NEW e, Settled(e), e.sub # 0 => e.sub = el.serial + 1 /\ ~e.matched,
           NEW b \in {<<>>, <<Ping>>}, NEW a \in {<<>>, <<Ping>>}, Becomes(e, b, a),
           kind = "ServiceWatcher" /\ e.sub # 0 => e.blocked,
           kind = "OwnerTracker" /\ e.sub # 0 => e.known = None,
           kind = "ObjectManager" /\ ~CrossAnswers /\ e.peer # el.peer => ~Awaited(el.peer, {"Ask", "Answer"})
    PROVE  RestInv'
<1>1. /\ kind \in Kinds /\ el \in Element /\ NetOK /\ e \in Element /\ Sound(e)
      /\ e.peer \in Peers /\ el.serial \in Nat /\ e.serial \in Nat /\ e.sub \in Nat /\ el.sub \in Nat
      /\ el.sub <= el.serial /\ el.peer \in Peers
  BY DEF IInv, TypeInv, Settled, Element, HeardInv
<1>2. PICK ms : ms = b \o Subscriptions(e) \o Questions(e) \o a
  OBVIOUS
<1>3. Ordered(ms, e)
  BY <1>1, <1>2, MoveOrder
<1>4. el' = e /\ net' = Posted(e.peer, ms) /\ ms \in Seq(OutMsg)
  BY <1>2, <1>3 DEF Becomes, Ordered
<1>5. e.serial >= el.serial /\ (e.sub # 0 => e.serial = el.serial + 1 /\ e.sub > el.serial)
  BY <1>1 DEF Settled
<1>6. ASSUME NEW p \in Peers, NEW m, Routed(kind, el, p, m),
             m.kind \in {"Ask", "Answer"} => Awaited(p, {"Ask", "Answer"}),
             m.kind \in {"Watch", "Ask", "Answer"} => m.id \in Nat
      PROVE  Routed(kind, e, p, m)
  <2> SUFFICES ASSUME m.kind \in {"Watch", "Ask", "Answer"}
               PROVE  /\ m.id <= e.serial
                      /\ m.id = e.sub /\ m.id # 0 => p = e.peer /\ m.name = e.name
                      /\ kind = "ObjectManager" /\ ~CrossAnswers /\ m.kind # "Watch" => p = e.peer
                      /\ kind = "ServiceWatcher" /\ m.kind # "Watch" => e.blocked /\ p = e.peer /\ m.id = e.sub
    BY DEF Routed
  <2>1. m.id \in Nat /\ m.id <= el.serial
    BY <1>6 DEF Routed
  <2>2. m.id <= e.serial /\ (m.id = e.sub => m.id = 0)
    BY <1>1, <1>5, <2>1
  <2>3. kind = "ObjectManager" /\ ~CrossAnswers /\ m.kind # "Watch" => p = e.peer
    BY <1>6 DEF Routed
  <2>4. ~(kind = "ServiceWatcher" /\ m.kind # "Watch")
    BY <1>6 DEF Routed
  <2> QED BY <2>2, <2>3, <2>4
<1>7. RoutedNet(kind, e, net)
  <2>1. ASSUME NEW p \in Peers, NEW i \in DOMAIN net.out[p] PROVE Routed(kind, e, p, net.out[p][i])
    <3>1. net.out[p] \in Seq(OutMsg)
      BY <1>1, CountsAreNumbers
    <3>2. net.out[p][i] \in OutMsg
      BY <3>1, ElementOfSeq, LenProperties
    <3>3. net.out[p][i].kind \in {"Ask", "Answer"} => Awaited(p, {"Ask", "Answer"})
      BY <3>1 DEF Awaited, ToSet
    <3>4. Routed(kind, el, p, net.out[p][i])
      BY DEF RestInv, RoutedNet
    <3>5. net.out[p][i].kind \in {"Watch", "Ask", "Answer"} => net.out[p][i].id \in Nat
      BY <3>2, MessageKinds
    <3> QED BY <1>6, <3>3, <3>4, <3>5
  <2>2. ASSUME NEW p \in Peers, NEW i \in DOMAIN net.in[p] PROVE Routed(kind, e, p, net.in[p][i])
    <3>1. net.in[p] \in Seq(InMsg)
      BY <1>1, CountsAreNumbers
    <3>2. net.in[p][i] \in InMsg
      BY <3>1, ElementOfSeq, LenProperties
    <3>3. net.in[p][i].kind \in {"Ask", "Answer"} => Awaited(p, {"Ask", "Answer"})
      BY <3>1 DEF Awaited, ToSet
    <3>4. Routed(kind, el, p, net.in[p][i])
      BY DEF RestInv, RoutedNet
    <3>5. net.in[p][i].kind \in {"Watch", "Ask", "Answer"} => net.in[p][i].id \in Nat
      BY <3>2, MessageKinds
    <3> QED BY <1>6, <3>3, <3>4, <3>5
  <2> QED BY <2>1, <2>2 DEF RoutedNet
<1>8. ASSUME NEW i \in DOMAIN ms PROVE Routed(kind, e, e.peer, ms[i])
  <2>1. ms[i] \in {Ping, Watch(e), Ask(e)} /\ (ms[i].kind = "Ask" => Asks(e))
    BY <1>3 DEF Ordered
  <2>2. e.sub <= e.serial
    BY <1>1, <1>5
  <2>3. kind = "ServiceWatcher" /\ Asks(e) => e.blocked
    BY DEF Asks
  <2>4. CASE ms[i] = Ping
    BY <2>4 DEF Routed, Ping
  <2>5. CASE ms[i] = Watch(e)
    BY <2>2, <2>5 DEF Routed, Watch
  <2>6. CASE ms[i] = Ask(e)
    <3>1. Asks(e) /\ ms[i].kind = "Ask" /\ ms[i].id = e.sub /\ ms[i].name = e.name
      BY <2>1, <2>6 DEF Ask
    <3> QED BY <2>2, <2>3, <3>1 DEF Routed
  <2> QED BY <2>1, <2>4, <2>5, <2>6
<1>9. RoutedNet(kind, e, net')
  BY <1>1, <1>4, <1>7, <1>8, RoutedPosting
<1>10. SoleNet(kind, net')
  <2>1. kind = "ServiceWatcher" => NothingAsked(net.in[e.peer], net.out[e.peer])
    BY <1>1 DEF RestInv, RoutedNet, Routed, NothingAsked
  <2>2. \A i, j \in DOMAIN ms : ms[i].kind = "Ask" /\ ms[j].kind = "Ask" => i = j
    BY <1>3 DEF Ordered
  <2>3. SoleNet(kind, net)
    BY DEF RestInv
  <2> QED BY <1>1, <1>4, <2>1, <2>2, <2>3, SolePosting
<1>11. ASSUME kind \in FourKinds, e.sub # 0, up[e.peer]
       PROVE  Chronicle(kind, e, truth[e.peer][e.name], net'.in[e.peer], net'.out[e.peer])
  <2> DEFINE o == net.out[e.peer]
             q == net.in[e.peer]
  <2>1. /\ net' = [out |-> [net.out EXCEPT ![e.peer] = o \o ms], in |-> [net.in EXCEPT ![e.peer] = q]]
        /\ o \in Seq(OutMsg) /\ q \in Seq(InMsg)
    BY <1>1, <1>4, <1>11, PostedAt
  <2>2. net'.in[e.peer] = q /\ net'.out[e.peer] = o \o ms
    BY <1>1, <2>1 DEF NetOK
  <2>3. Asks(e) /\ e.sub \notin {0, el.sub} /\ ~e.matched
    <3>1. e.sub \notin {0, el.sub}
      BY <1>1, <1>5, <1>11
    <3>2. ~e.matched
      BY <1>11
    <3>3. Asks(e)
      BY <1>1, <1>11 DEF Asks, FourKinds, Sound
    <3> QED BY <3>1, <3>2, <3>3
  <2>4. \E w, c \in DOMAIN ms : /\ w < c /\ Of(ms[w], "Watch", e.sub) /\ Of(ms[c], "Ask", e.sub)
                                /\ \A i \in DOMAIN ms : ms[i].kind = "Ask" => w < i /\ ms[i].id = e.sub
    BY <1>3, <2>3 DEF Ordered
  <2>5. /\ \A i \in DOMAIN q : ~Of(q[i], "Change", e.sub) /\ ~Of(q[i], "Answer", e.sub)
        /\ \A i \in DOMAIN o : ~Of(o[i], "Ask", e.sub)
    BY <1>1, <1>5, <1>11, NothingOfTheNext DEF RestInv
  <2>6. kind = "OwnerTracker" => e.known = None
    BY <1>11
  <2>7. \A t : Chronicle(kind, e, t, q, o \o ms)
    <3> HIDE DEF o, q
    <3> QED BY <1>4, <2>1, <2>3, <2>4, <2>5, <2>6, NewReceiver
  <2> QED BY <2>2, <2>7
<1>12. ChronicleInv'
  BY <1>4, <1>11 DEF ChronicleInv
<1> QED BY <1>4, <1>9, <1>10, <1>12 DEF RestInv

\* Only a presence keeps a receiver, where it is.
LEMMA Configuring ==
    ASSUME kind \in Kinds, el \in Element, NEW d, Draft(d)
    PROVE  LET c == Configured(d) IN
           /\ kind # "Presence" /\ c.sub # 0 => c.sub = el.serial + 1 /\ ~c.matched
           /\ kind = "ServiceWatcher" /\ c.sub # 0 => c.blocked
           /\ kind = "OwnerTracker" => c.sub = 0
           /\ kind = "Presence" /\ c.sub # 0 =>
                 \/ c.sub = el.serial + 1 /\ ~c.matched
                 \/ c = d /\ d.enabled /\ d.at = <<d.peer, d.name>>
<1>1. kind \in AllKinds
  BY KindsAssumption
<1>2. d \in Element /\ d.serial = el.serial
  BY DEF Draft
<1>3. PICK u : u = Unsubscribed(d)
  OBVIOUS
<1>4. u \in Element /\ u.sub = 0 /\ u.serial = el.serial
  BY <1>2, <1>3, Unsubscribing
<1>5. PICK s : s = Subscribed(d)
  OBVIOUS
<1>6. s \in Element /\ s.sub = el.serial + 1 /\ ~s.matched
  BY <1>2, <1>5, Subscribing
<1>7. PICK r : r = Subscribed(u)
  OBVIOUS
<1>8. r \in Element /\ r.sub = el.serial + 1 /\ ~r.matched
  BY <1>4, <1>7, Subscribing
<1>9. CASE kind = "ServiceWatcher"
  <2>1. Configured(d) = IF ~d.complete THEN d ELSE IF d.name = Nowhere THEN u ELSE [s EXCEPT !.blocked = TRUE]
    BY <1>3, <1>5, <1>9 DEF Configured, ServiceWatcherSetup
  <2>2. ~d.complete => d.sub = 0
    BY <1>9 DEF Draft
  <2>3. PICK g : g = [s EXCEPT !.blocked = TRUE]
    OBVIOUS
  <2>4. g.sub = el.serial + 1 /\ ~g.matched /\ g.blocked
    BY <1>6, <2>3 DEF Element
  <2> QED BY <1>4, <1>9, <2>1, <2>2, <2>3, <2>4
<1>10. CASE kind = "Presence"
  <2>1. CASE ~d.enabled \/ d.name = Nowhere
    <3>1. Configured(d) = u
      BY <1>3, <1>10, <2>1 DEF Configured, EnsureServiceWatcher
    <3> QED BY <1>4, <1>10, <3>1
  <2>2. CASE d.enabled /\ d.name # Nowhere /\ d.at # <<d.peer, d.name>>
    <3>1. Configured(d) = r
      BY <1>3, <1>4, <1>7, <1>10, <2>2 DEF Configured, EnsureServiceWatcher
    <3> QED BY <1>8, <1>10, <3>1
  <2>3. CASE d.enabled /\ d.name # Nowhere /\ d.at = <<d.peer, d.name>>
    <3>1. Configured(d) = IF d.sub = 0 THEN s ELSE d
      BY <1>5, <1>10, <2>3 DEF Configured, EnsureServiceWatcher
    <3> QED BY <1>6, <1>10, <2>3, <3>1
  <2> QED BY <2>1, <2>2, <2>3
<1>11. CASE kind = "OwnerTracker"
  BY <1>11 DEF Configured, Draft
<1>12. CASE kind = "ObjectManager"
  <2>1. Configured(d) \in {d, s, u} /\ d.sub = 0
    BY <1>3, <1>5, <1>12 DEF Configured, ObjectManagerSetup, CreateSubscription, Draft
  <2> QED BY <1>4, <1>6, <1>12, <2>1
<1>13. CASE kind = "SignalWatcher"
  <2>1. PICK w : w = Unsubscribed(u)
    OBVIOUS
  <2>2. w.sub = 0
    BY <1>4, <2>1, Unsubscribing
  <2>3. Configured(d) \in {d, r, w} /\ d.sub = 0
    BY <1>3, <1>7, <1>13, <2>1 DEF Configured, Resubscribe, CreateSubscription, Draft
  <2> QED BY <1>8, <1>13, <2>2, <2>3
<1> QED BY <1>1, <1>9, <1>10, <1>11, <1>12, <1>13 DEF AllKinds

LEMMA SetPeerRests ==
    ASSUME IInv, RestInv, NEW p \in Peers, SetPeer(p)
    PROVE  RestInv'
<1> DEFINE o == Dropped(el, TRUE)
           d0 == [o EXCEPT !.peer = p, !.orphaned = FALSE, !.told = 0]
<1>1. ~el.blocked /\ UNCHANGED <<kind, up, truth>> /\ p # el.peer
  BY DEF SetPeer, Moves
<1>2. kind \in Kinds /\ el \in Element /\ Sound(el)
  BY DEF IInv, TypeInv
<1>3. /\ o \in Element /\ ~o.blocked /\ o.serial = el.serial
      /\ o.complete = el.complete /\ o.enabled = el.enabled /\ o.peer = el.peer /\ o.name = el.name
      /\ kind \in {"OwnerTracker", "ObjectManager", "SignalWatcher"} => o.sub = 0
      /\ kind = "ServiceWatcher" => o.sub = el.sub
      /\ kind = "Presence" => o.sub = 0
      /\ o.sub = 0 => ~o.matched /\ o.said = 0 /\ o.heard = 0
  BY <1>1, Dropping
<1> HIDE DEF o
<1>4. PICK d : d = d0
  OBVIOUS
<1>5. /\ d \in Element /\ d.peer = p /\ d.complete = o.complete /\ d.enabled = o.enabled
      /\ d.blocked = o.blocked /\ d.serial = o.serial /\ d.sub = o.sub /\ d.matched = o.matched
      /\ d.said = o.said /\ d.heard = o.heard
  BY <1>3, <1>4 DEF Element
<1>6. Draft(d)
  BY <1>2, <1>3, <1>5 DEF Draft, Sound
<1>7. PICK e : e = Configured(d)
  OBVIOUS
<1>8. Settled(e) /\ e.peer = p
  BY <1>2, <1>5, <1>6, <1>7, SettingUp
<1>9. /\ kind # "Presence" /\ e.sub # 0 => e.sub = el.serial + 1 /\ ~e.matched
      /\ kind = "ServiceWatcher" /\ e.sub # 0 => e.blocked
      /\ kind = "OwnerTracker" => e.sub = 0
      /\ kind = "Presence" /\ e.sub # 0 => (e.sub = el.serial + 1 /\ ~e.matched) \/ e = d
  BY <1>2, <1>6, <1>7, Configuring
<1>10. e.sub # 0 => e.sub = el.serial + 1 /\ ~e.matched
  BY <1>3, <1>5, <1>9
<1>11. PICK b : b = SessionPing(p)
  OBVIOUS
<1>12. b \in {<<>>, <<Ping>>} /\ Becomes(e, b, <<>>)
  BY <1>4, <1>7, <1>11 DEF SetPeer, o, SessionPing
<1>13. kind = "ObjectManager" /\ ~CrossAnswers => ~Awaited(el.peer, {"Ask", "Answer"})
  BY DEF SetPeer
<1> HIDE DEF d0
<1> QED BY <1>1, <1>8, <1>9, <1>10, <1>12, <1>13, MoveRests

LEMMA SetNameRests ==
    ASSUME IInv, RestInv, NEW n \in Names \cup {Nowhere}, SetName(n)
    PROVE  RestInv'
<1> DEFINE o == Dropped(el, FALSE)
           d0 == [o EXCEPT !.name = n]
<1>1. ~el.blocked /\ UNCHANGED <<kind, up, truth>> /\ n # el.name
  BY DEF SetName, Moves
<1>2. kind \in Kinds /\ el \in Element /\ Sound(el)
  BY DEF IInv, TypeInv
<1>3. /\ o \in Element /\ ~o.blocked /\ o.serial = el.serial
      /\ o.complete = el.complete /\ o.enabled = el.enabled /\ o.peer = el.peer /\ o.name = el.name
      /\ kind \in {"OwnerTracker", "ObjectManager", "SignalWatcher"} => o.sub = 0
      /\ kind = "ServiceWatcher" => o.sub = el.sub
      /\ kind = "Presence" => o = el
      /\ o.sub = 0 => ~o.matched /\ o.said = 0 /\ o.heard = 0
  BY <1>1, Dropping
<1> HIDE DEF o
<1>4. PICK d : d = d0
  OBVIOUS
<1>5. /\ d \in Element /\ d.peer = o.peer /\ d.complete = o.complete /\ d.enabled = o.enabled
      /\ d.blocked = o.blocked /\ d.serial = o.serial /\ d.sub = o.sub /\ d.matched = o.matched
      /\ d.said = o.said /\ d.heard = o.heard /\ d.at = o.at /\ d.name = n
  BY <1>3, <1>4 DEF Element
<1>6. Draft(d)
  BY <1>2, <1>3, <1>5 DEF Draft, Sound
<1>7. PICK e : e = Configured(d)
  OBVIOUS
<1>8. Settled(e) /\ e.peer = el.peer
  BY <1>2, <1>3, <1>5, <1>6, <1>7, SettingUp
<1>9. /\ kind # "Presence" /\ e.sub # 0 => e.sub = el.serial + 1 /\ ~e.matched
      /\ kind = "ServiceWatcher" /\ e.sub # 0 => e.blocked
      /\ kind = "OwnerTracker" => e.sub = 0
      /\ kind = "Presence" /\ e.sub # 0 =>
            (e.sub = el.serial + 1 /\ ~e.matched) \/ (e = d /\ d.at = <<d.peer, d.name>>)
  BY <1>2, <1>6, <1>7, Configuring
<1>10. kind = "Presence" /\ e = d /\ e.sub # 0 => d.at # <<d.peer, d.name>>
  BY <1>1, <1>2, <1>3, <1>5 DEF Sound
<1>11. e.sub # 0 => e.sub = el.serial + 1 /\ ~e.matched
  BY <1>9, <1>10
<1>12. Becomes(e, <<>>, <<>>)
  BY <1>4, <1>7 DEF SetName, o
<1> HIDE DEF d0
<1> QED BY <1>1, <1>8, <1>9, <1>11, <1>12, MoveRests

LEMMA SetEnabledRests ==
    ASSUME IInv, RestInv, SetEnabled
    PROVE  RestInv'
<1> DEFINE o == Dropped(el, FALSE)
           d0 == [o EXCEPT !.enabled = ~@]
<1>1. /\ ~el.blocked /\ UNCHANGED <<kind, up, truth>>
      /\ kind \in {"Presence", "OwnerTracker", "SignalWatcher"}
  BY DEF SetEnabled, Moves
<1>2. kind \in Kinds /\ el \in Element /\ Sound(el)
  BY DEF IInv, TypeInv
<1>3. /\ o \in Element /\ ~o.blocked /\ o.serial = el.serial
      /\ o.complete = el.complete /\ o.peer = el.peer
      /\ kind \in {"OwnerTracker", "ObjectManager", "SignalWatcher"} => o.sub = 0
      /\ kind = "Presence" => o = el
      /\ o.sub = 0 => ~o.matched /\ o.said = 0 /\ o.heard = 0
  BY <1>1, Dropping
<1> HIDE DEF o
<1>4. PICK d : d = d0
  OBVIOUS
<1>5. /\ d \in Element /\ d.peer = o.peer /\ d.complete = o.complete
      /\ d.blocked = o.blocked /\ d.serial = o.serial /\ d.sub = o.sub /\ d.matched = o.matched
      /\ d.said = o.said /\ d.heard = o.heard /\ (d.enabled <=> ~o.enabled)
  BY <1>3, <1>4 DEF Element
<1>6. Draft(d)
  BY <1>1, <1>2, <1>3, <1>5 DEF Draft, Sound
<1>7. PICK e : e = Configured(d)
  OBVIOUS
<1>8. Settled(e) /\ e.peer = el.peer
  BY <1>2, <1>3, <1>5, <1>6, <1>7, SettingUp
<1>9. /\ kind # "Presence" /\ e.sub # 0 => e.sub = el.serial + 1 /\ ~e.matched
      /\ kind = "ServiceWatcher" /\ e.sub # 0 => e.blocked
      /\ kind = "OwnerTracker" => e.sub = 0
      /\ kind = "Presence" /\ e.sub # 0 => (e.sub = el.serial + 1 /\ ~e.matched) \/ (e = d /\ d.enabled)
  BY <1>2, <1>6, <1>7, Configuring
<1>10. kind = "Presence" /\ e = d /\ e.sub # 0 => ~d.enabled
  BY <1>1, <1>2, <1>3, <1>5 DEF Sound
<1>11. e.sub # 0 => e.sub = el.serial + 1 /\ ~e.matched
  BY <1>9, <1>10
<1>12. Becomes(e, <<>>, <<>>)
  BY <1>4, <1>7 DEF SetEnabled, o
<1> HIDE DEF d0
<1> QED BY <1>1, <1>8, <1>9, <1>11, <1>12, MoveRests

LEMMA IntrospectedRests ==
    ASSUME IInv, RestInv, Introspected
    PROVE  RestInv'
<1> DEFINE u == Unsubscribed(el)
           k == [u EXCEPT !.known = None]
           s == Subscribed(k)
<1>1. /\ ~el.blocked /\ UNCHANGED <<kind, up, truth>>
      /\ kind = "OwnerTracker" /\ el.complete /\ el.enabled /\ el.name # Nowhere
  BY DEF Introspected, Moves
<1>2. kind \in Kinds /\ el \in Element /\ Sound(el)
  BY DEF IInv, TypeInv
<1>3. /\ u \in Element /\ u.serial = el.serial
      /\ u.complete = el.complete /\ u.enabled = el.enabled /\ u.peer = el.peer /\ u.name = el.name
      /\ u.blocked = el.blocked
  BY <1>2, Unsubscribing DEF Rest
<1> HIDE DEF u
<1>4. None \in Shows
  BY <1>1 DEF Shows, Answers
<1>5. /\ k \in Element /\ k.serial = el.serial /\ k.known = None
      /\ k.complete = el.complete /\ k.enabled = el.enabled /\ k.peer = el.peer /\ k.name = el.name
      /\ k.blocked = el.blocked
  BY <1>3, <1>4 DEF Element
<1> HIDE DEF k
<1>6. /\ s \in Element
      /\ s.complete = el.complete /\ s.enabled = el.enabled /\ s.peer = el.peer /\ s.name = el.name
      /\ s.blocked = el.blocked /\ s.known = None
      /\ s.sub = el.serial + 1 /\ s.serial = el.serial + 1 /\ s.at = <<el.peer, el.name>>
      /\ ~s.matched /\ s.said = 0 /\ s.heard = 0
  BY <1>5, Subscribing DEF Rest
<1>7. SetupOwnerTracker(el) = s
  BY <1>1 DEF SetupOwnerTracker, TeardownOwnerTracker, s, k, u
<1>8. PICK e : e = s
  OBVIOUS
<1>9. Becomes(e, <<>>, <<>>)
  BY <1>7, <1>8 DEF Introspected
<1> HIDE DEF s
<1>10. /\ Settled(e) /\ ~e.matched /\ e.sub = el.serial + 1 /\ e.known = None
  BY <1>1, <1>6, <1>8 DEF Settled, Sound
<1> QED BY <1>1, <1>9, <1>10, MoveRests

\* What routing and the chronicle depend on.
SameRoute(e) == /\ e.serial = el.serial /\ e.sub = el.sub /\ e.peer = el.peer
                /\ e.name = el.name /\ e.blocked = el.blocked
SameView(e) == /\ e.sub = el.sub /\ e.matched = el.matched /\ e.failed = el.failed
               /\ e.known = el.known /\ e.ready = el.ready

LEMMA SameChronicle ==
    ASSUME NEW k, NEW e, SameView(e), NEW t, NEW q, NEW o, Chronicle(k, el, t, q, o)
    PROVE  Chronicle(k, e, t, q, o)
BY DEF SameView, Chronicle, Unhooked, Knowing, Tracking, Right

LEMMA SameRouting ==
    ASSUME NEW k, NEW e, SameRoute(e), NEW n, RoutedNet(k, el, n)
    PROVE  RoutedNet(k, e, n)
BY DEF SameRoute, RoutedNet, Routed

\* The receiver at its place.
ThisChronicle(e) ==
    Chronicle(kind, e, truth[el.peer][el.name], net.in[el.peer], net.out[el.peer])
Chronicled == kind \in FourKinds /\ el.sub # 0 /\ up[el.peer]

\* More is posted, and the receiver stays.
LEMMA PostingRests ==
    ASSUME IInv, RestInv, UNCHANGED <<kind, up, truth>>, NEW e, el' = e, SameRoute(e), SameView(e),
           NEW p \in Peers, NEW ms \in Seq(OutMsg), net' = Posted(p, ms),
           \A i \in DOMAIN ms : Routed(kind, e, p, ms[i]),
           kind \in {"ServiceWatcher", "ObjectManager"} => \A i \in DOMAIN ms : ms[i].kind # "Ask"
    PROVE  RestInv'
<1>1. NetOK /\ el \in Element /\ el.peer \in Peers
  BY DEF IInv, TypeInv, Element
<1>2. RoutedNet(kind, e, net')
  <2>1. RoutedNet(kind, e, net)
    BY SameRouting DEF RestInv
  <2> QED BY <1>1, <2>1, RoutedPosting
<1>3. SoleNet(kind, net')
  <2>1. SoleNet(kind, net)
    BY DEF RestInv
  <2> QED BY <1>1, <2>1, SolePosting
<1>4. ASSUME Chronicled
      PROVE  Chronicle(kind, e, truth[el.peer][el.name], net'.in[el.peer], net'.out[el.peer])
  <2>1. ThisChronicle(el)
    BY <1>4 DEF RestInv, ChronicleInv, Chronicled, ThisChronicle
  <2>2. ThisChronicle(e)
    BY <2>1, SameChronicle DEF ThisChronicle
  <2> DEFINE o == net.out[p]
             q == net.in[p]
  <2>3. /\ up[p] => net' = [out |-> [net.out EXCEPT ![p] = o \o ms], in |-> [net.in EXCEPT ![p] = q]]
        /\ ~up[p] => net' = [out |-> [net.out EXCEPT ![p] = o], in |-> [net.in EXCEPT ![p] = q \o Errors(ms)]]
        /\ o \in Seq(OutMsg) /\ q \in Seq(InMsg)
    BY <1>1, PostedAt
  <2>4. CASE p = el.peer
    <3>1. net'.in[p] = q /\ net'.out[p] = o \o ms
      <4>1. PICK s : s = o \o ms
        OBVIOUS
      <4>2. net' = [out |-> [net.out EXCEPT ![p] = s], in |-> [net.in EXCEPT ![p] = q]]
        BY <1>4, <2>3, <2>4, <4>1 DEF Chronicled
      <4> QED BY <1>1, <4>1, <4>2 DEF NetOK
    <3>2. PICK t : t = truth[el.peer][el.name]
      OBVIOUS
    <3>3. Chronicle(kind, e, t, q, o)
      BY <2>2, <2>4, <3>2 DEF ThisChronicle
    <3> HIDE DEF q, o
    <3>4. Chronicle(kind, e, t, q, o \o ms)
      BY <2>3, <3>3, MorePosted
    <3> QED BY <2>4, <3>1, <3>2, <3>4
  <2>5. CASE p # el.peer
    <3>1. net'.in[el.peer] = net.in[el.peer] /\ net'.out[el.peer] = net.out[el.peer]
      BY <1>1, <2>3, <2>5 DEF NetOK
    <3> QED BY <2>2, <3>1 DEF ThisChronicle
  <2> QED BY <2>4, <2>5
<1>5. ChronicleInv'
  BY <1>4 DEF ChronicleInv, Chronicled, SameRoute
<1> QED BY <1>2, <1>3, <1>5 DEF RestInv

LEMMA ComponentCompleteRests ==
    ASSUME IInv, RestInv, ComponentComplete
    PROVE  RestInv'
<1> DEFINE d0 == [el EXCEPT !.complete = TRUE]
<1>1. ~el.complete /\ UNCHANGED <<kind, up, truth>>
  BY DEF ComponentComplete
<1>2. kind \in Kinds /\ el \in Element /\ Sound(el)
  BY DEF IInv, TypeInv
<1>3. /\ ~el.blocked /\ (kind # "Presence" => el.sub = 0)
      /\ el.sub = 0 => ~el.matched /\ el.said = 0 /\ el.heard = 0
  <2>1. el.said \in Nat /\ el.heard \in Nat
    BY <1>2 DEF Element
  <2> QED BY <1>1, <1>2, <2>1 DEF Sound, IInv, HeardInv
<1>4. PICK d : d = d0
  OBVIOUS
<1>5. /\ d \in Element /\ SameRoute(d) /\ SameView(d)
      /\ d.enabled = el.enabled /\ d.said = el.said /\ d.heard = el.heard
  BY <1>2, <1>4 DEF Element, SameRoute, SameView
<1>6. Draft(d)
  BY <1>2, <1>3, <1>5 DEF Draft, Sound, SameRoute, SameView
<1>7. PICK e : e = Configured(d)
  OBVIOUS
<1>8. Settled(e) /\ e.peer = el.peer
  BY <1>2, <1>5, <1>6, <1>7, SettingUp DEF SameRoute
<1>9. /\ kind # "Presence" /\ e.sub # 0 => e.sub = el.serial + 1 /\ ~e.matched
      /\ kind = "ServiceWatcher" /\ e.sub # 0 => e.blocked
      /\ kind = "OwnerTracker" => e.sub = 0
      /\ kind = "Presence" /\ e.sub # 0 => (e.sub = el.serial + 1 /\ ~e.matched) \/ e = d
  BY <1>2, <1>6, <1>7, Configuring
<1>10. PICK a : a = SessionPing(el.peer)
  OBVIOUS
<1>11. a \in {<<>>, <<Ping>>} /\ Becomes(e, <<>>, a)
  BY <1>4, <1>7, <1>10 DEF ComponentComplete, SessionPing
<1> HIDE DEF d0
<1>12. CASE e.sub # 0 => e.sub = el.serial + 1 /\ ~e.matched
  BY <1>1, <1>3, <1>8, <1>9, <1>11, <1>12, MoveRests
<1>13. CASE kind = "Presence" /\ e.sub # 0 /\ e = d
  <2>1. PICK ms : ms = <<>> \o Subscriptions(e) \o Questions(e) \o a
    OBVIOUS
  <2>2. Sound(e) /\ e \in Element
    BY <1>8 DEF Settled
  <2>3. Ordered(ms, e)
    <3>1. <<>> \in {<<>>, <<Ping>>}
      OBVIOUS
    <3> QED BY <1>2, <1>11, <2>1, <2>2, <3>1, MoveOrder
  <2>4. el' = e /\ net' = Posted(e.peer, ms)
    BY <1>11, <2>1 DEF Becomes
  <2>5. ASSUME NEW i \in DOMAIN ms PROVE Routed(kind, e, e.peer, ms[i])
    <3>1. ms[i] \in {Ping, Watch(e), Ask(e)}
      BY <2>3 DEF Ordered
    <3>2. e.sub <= e.serial
      BY <1>5, <1>13 DEF SameRoute, IInv, HeardInv
    <3> QED BY <1>13, <3>1, <3>2 DEF Routed, Ping, Watch, Ask
  <2>6. e.peer \in Peers /\ ms \in Seq(OutMsg) /\ SameRoute(e) /\ SameView(e)
    BY <1>5, <1>13, <2>2, <2>3 DEF Element, Ordered
  <2> QED BY <1>1, <1>13, <2>4, <2>5, <2>6, PostingRests
<1> QED BY <1>9, <1>12, <1>13

-----------------------------------------------------------------------------
(* The probes, and what arrives.                                           *)

LEMMA PingIsRouted ==
    ASSUME NEW k, NEW e, NEW p, NEW ms \in {<<>>, <<Ping>>}
    PROVE  ms \in Seq(OutMsg) /\ \A i \in DOMAIN ms : Routed(k, e, p, ms[i]) /\ ms[i].kind # "Ask"
<1>1. \A i \in DOMAIN ms : ms[i] = Ping
  OBVIOUS
<1>2. Ping.kind = "Ping" /\ Ping \in OutMsg
  BY MessageKinds DEF Ping
<1>3. <<>> \in Seq(OutMsg) /\ <<Ping>> \in Seq(OutMsg)
  BY <1>2
<1> QED BY <1>1, <1>2, <1>3 DEF Routed

LEMMA ArmLossProbeRests ==
    ASSUME IInv, RestInv, NEW p \in Peers \ {Session}, ArmLossProbe(p)
    PROVE  RestInv'
<1>1. UNCHANGED <<kind, el, up, truth>> /\ net' = Posted(p, <<Ping>>)
  BY DEF ArmLossProbe
<1>2. PICK e : e = el
  OBVIOUS
<1>3. el' = e /\ SameRoute(e) /\ SameView(e)
  BY <1>1, <1>2 DEF SameRoute, SameView
<1>4. PICK ms : ms = <<Ping>>
  OBVIOUS
<1>5. ms \in Seq(OutMsg) /\ \A i \in DOMAIN ms : Routed(kind, e, p, ms[i]) /\ ms[i].kind # "Ask"
  BY <1>4, PingIsRouted
<1> QED BY <1>1, <1>3, <1>4, <1>5, PostingRests

LEMMA SessionGateRests ==
    ASSUME IInv, RestInv, SessionGate
    PROVE  RestInv'
<1>1. PICK ms : ms = IF el.peer = Session THEN SessionPing(Session) ELSE <<>>
  OBVIOUS
<1>2. UNCHANGED <<kind, el, up, truth>> /\ net' = Posted(Session, ms)
  BY <1>1 DEF SessionGate
<1>3. PICK e : e = el
  OBVIOUS
<1>4. el' = e /\ SameRoute(e) /\ SameView(e)
  BY <1>2, <1>3 DEF SameRoute, SameView
<1>5. ms \in {<<>>, <<Ping>>} /\ Session \in Peers
  BY <1>1, PlacesAssumption DEF SessionPing
<1>6. ms \in Seq(OutMsg) /\ \A i \in DOMAIN ms : Routed(kind, e, Session, ms[i]) /\ ms[i].kind # "Ask"
  BY <1>5, PingIsRouted
<1> QED BY <1>2, <1>4, <1>5, <1>6, PostingRests

\* The next message from p is taken, and the element becomes e.
LEMMA TakingRests ==
    ASSUME IInv, RestInv, UNCHANGED <<kind, up, truth>>, NEW p \in Peers, net.in[p] # <<>>,
           net' = [net EXCEPT !.in[p] = Tail(@)], NEW e, el' = e, RoutedNet(kind, e, net),
           e.peer = el.peer, e.name = el.name, e.sub \in {0, el.sub},
           Chronicled /\ e.sub # 0 =>
              IF p = el.peer
              THEN Chronicle(kind, e, truth[el.peer][el.name], Tail(net.in[p]), net.out[p])
              ELSE ThisChronicle(e)
    PROVE  RestInv'
<1> DEFINE q == net.in[p]
           o == net.out[p]
<1>1. NetOK /\ q \in Seq(InMsg) /\ o \in Seq(OutMsg)
  BY CountsAreNumbers DEF IInv, TypeInv
<1>2. net' = [out |-> [net.out EXCEPT ![p] = o], in |-> [net.in EXCEPT ![p] = Tail(q)]]
  <2>1. /\ net = [out |-> net.out, in |-> net.in]
        /\ net.out \in [Peers -> Seq(OutMsg)] /\ net.in \in [Peers -> Seq(InMsg)]
    BY <1>1 DEF NetOK
  <2>2. net.out = [net.out EXCEPT ![p] = o]
    BY <2>1
  <2>3. net' = [out |-> net.out, in |-> [net.in EXCEPT ![p] = Tail(q)]]
    BY <2>1
  <2> QED BY <2>2, <2>3
<1>3. /\ net'.out[p] = o /\ net'.in[p] = Tail(q)
      /\ \A r \in Peers \ {p} : net'.out[r] = net.out[r] /\ net'.in[r] = net.in[r]
  BY <1>1, <1>2 DEF NetOK
<1>4. /\ \A i \in DOMAIN o : Routed(kind, e, p, o[i])
      /\ \A i \in DOMAIN q : Routed(kind, e, p, q[i])
  BY DEF RoutedNet
<1>5. kind = "ServiceWatcher" => Sole(q, o)
  BY DEF RestInv, SoleNet
<1>6. q # <<>>
  OBVIOUS
<1>7. ThisChronicle(e) => Chronicle(kind, e, truth[el.peer][el.name], net.in[el.peer], net.out[el.peer])
  BY DEF ThisChronicle
<1> HIDE DEF q, o
<1>8. /\ DOMAIN Tail(q) \in SUBSET Nat
      /\ \A i \in DOMAIN Tail(q) : i \in Nat /\ i + 1 \in DOMAIN q /\ Tail(q)[i] = q[i + 1]
  BY <1>1, <1>6, TailOf
<1>9. \A i \in DOMAIN Tail(q) : Routed(kind, e, p, Tail(q)[i])
  BY <1>4, <1>8
<1>10. kind = "ServiceWatcher" => Sole(Tail(q), o)
  <2> SUFFICES ASSUME kind = "ServiceWatcher" PROVE Sole(Tail(q), o)
    OBVIOUS
  <2>1. ASSUME NEW i \in DOMAIN Tail(q), NEW j \in DOMAIN Tail(q),
               Tail(q)[i].kind = "Answer", Tail(q)[j].kind = "Answer"
        PROVE  i = j
    <3>1. i + 1 = j + 1
      BY <1>5, <1>8, <2>1 DEF Sole
    <3> QED BY <1>8, <3>1
  <2> QED BY <1>5, <1>8, <2>1 DEF Sole
<1>11. RoutedNet(kind, e, net')
  BY <1>1, <1>2, <1>4, <1>9, RoutedStep
<1>12. SoleNet(kind, net')
  <2>1. SoleNet(kind, net)
    BY DEF RestInv
  <2> QED BY <1>1, <1>2, <1>10, <2>1, SoleStep
<1>13. ASSUME Chronicled, e.sub # 0
       PROVE  Chronicle(kind, e, truth[el.peer][el.name], net'.in[el.peer], net'.out[el.peer])
  <2>1. el.peer \in Peers
    BY DEF IInv, TypeInv, Element
  <2>2. CASE p = el.peer
    BY <1>3, <1>13, <2>2 DEF q, o
  <2>3. CASE p # el.peer
    BY <1>3, <1>7, <1>13, <2>1, <2>3
  <2> QED BY <2>2, <2>3
<1>14. ChronicleInv'
  BY <1>13 DEF ChronicleInv, Chronicled
<1> QED BY <1>11, <1>12, <1>14 DEF RestInv

LEMMA AnswerArrivesRests ==
    ASSUME ~CrossAnswers, IInv, RestInv, NEW p \in Peers, AnswerArrives(p)
    PROVE  RestInv'
<1> DEFINE m == Head(net.in[p])
           failed == IF m.id = el.sub THEN ~m.ok ELSE el.failed
           e0 == IF ~TakesAnswer(m) THEN [el EXCEPT !.failed = failed]
                 ELSE [el EXCEPT !.failed = failed,
                                 !.ready = @ \/ kind = "ObjectManager",
                                 !.known = IF kind = "Presence" THEN m.value # None ELSE m.value]
<1>1. /\ ~el.blocked /\ net.in[p] # <<>> /\ m.kind = "Answer"
      /\ net' = [net EXCEPT !.in[p] = Tail(@)]
      /\ UNCHANGED <<kind, probe, up, truth, budget>>
      /\ el' = e0
  BY DEF AnswerArrives, Arrives, Consumed
<1>2. kind \in AllKinds /\ el \in Element /\ Sound(el) /\ NetOK /\ el.peer \in Peers
  BY KindsAssumption DEF IInv, TypeInv, Element
<1>3. /\ net.in[p] \in Seq(InMsg) /\ net.out[p] \in Seq(OutMsg) /\ m \in InMsg
      /\ 1 \in DOMAIN net.in[p] /\ net.in[p][1] = m
  <2>1. net.in[p] \in Seq(InMsg) /\ net.out[p] \in Seq(OutMsg)
    BY <1>2, CountsAreNumbers
  <2>2. 1 \in DOMAIN net.in[p] /\ net.in[p][1] = m
    BY <1>1, <2>1, TailOf
  <2> QED BY <2>1, <2>2, ElementOfSeq, LenProperties
<1>4. Routed(kind, el, p, m)
  BY <1>3 DEF RestInv, RoutedNet
<1> HIDE DEF m
<1>5. /\ m.id = el.sub /\ m.id # 0 => p = el.peer /\ m.name = el.name
      /\ kind = "ObjectManager" => p = el.peer
      /\ kind # "ServiceWatcher"
  BY <1>1, <1>4 DEF Routed
<1>6. PICK e : e = e0
  OBVIOUS
<1>7. PICK f : f = failed
  OBVIOUS
<1>8. PICK v : v = IF kind = "Presence" THEN m.value # None ELSE m.value
  OBVIOUS
<1>9. PICK r : r = (el.ready \/ kind = "ObjectManager")
  OBVIOUS
<1>10. e = IF ~TakesAnswer(m) THEN [el EXCEPT !.failed = f]
           ELSE [el EXCEPT !.failed = f, !.ready = r, !.known = v]
  BY <1>6, <1>7, <1>8, <1>9
<1>11. /\ SameRoute(e) /\ e.matched = el.matched /\ e.failed = f
       /\ ~TakesAnswer(m) => e.known = el.known /\ e.ready = el.ready
       /\ TakesAnswer(m) => e.known = v /\ e.ready = r
  BY <1>2, <1>10 DEF SameRoute, Element
<1>12. el' = e
  BY <1>1, <1>6
<1>13. ASSUME Chronicled
       PROVE  IF p = el.peer
              THEN Chronicle(kind, e, truth[el.peer][el.name], Tail(net.in[p]), net.out[p])
              ELSE ThisChronicle(e)
  <2>1. ThisChronicle(el) /\ el.sub # 0 /\ kind \in FourKinds
    BY <1>13 DEF RestInv, ChronicleInv, Chronicled, ThisChronicle
  <2>2. PICK t : t = truth[el.peer][el.name]
    OBVIOUS
  <2>3. CASE p # el.peer
    <3>1. m.id # el.sub /\ kind # "ObjectManager" /\ ~TakesAnswer(m)
      BY <1>5, <2>1, <2>3 DEF TakesAnswer, ForThis
    <3>2. f = el.failed
      BY <1>7, <3>1
    <3>3. SameView(e)
      BY <1>11, <3>1, <3>2 DEF SameView, SameRoute
    <3> QED BY <2>1, <2>3, <3>3, SameChronicle DEF ThisChronicle
  <2>4. CASE p = el.peer
    <3> DEFINE q == net.in[p]
               o == net.out[p]
    <3>1. /\ q \in Seq(InMsg) /\ o \in Seq(OutMsg) /\ q # <<>> /\ Head(q) = m
          /\ Chronicle(kind, el, t, q, o)
      BY <1>1, <1>3, <2>1, <2>2, <2>4 DEF m, ThisChronicle
    <3> HIDE DEF q, o
    <3>2. e.sub = el.sub /\ e.matched = el.matched
      BY <1>11 DEF SameRoute
    <3>3. CASE m.id # el.sub
      <4>1. e.failed = el.failed
        BY <1>7, <1>11, <3>3
      <4>2. /\ ~Of(Head(q), "Change", el.sub) /\ ~Of(Head(q), "Answer", el.sub)
            /\ Head(q).kind = "Answer"
        BY <1>1, <3>1, <3>3 DEF Of
      <4>3. (e.known = el.known /\ e.ready = el.ready) \/ kind = "ObjectManager"
        BY <1>11, <3>3 DEF TakesAnswer, ForThis
      <4>4. Chronicle(kind, e, t, Tail(q), o)
        BY <3>1, <3>2, <4>1, <4>2, <4>3, ForeignTaken
      <4> QED BY <2>2, <2>4, <4>4 DEF q, o
    <3>4. CASE m.id = el.sub
      <4>1. e.failed = ~m.ok /\ Of(m, "Answer", el.sub) /\ m.name = el.name
        BY <1>1, <1>5, <1>7, <1>11, <2>1, <3>4 DEF Of
      <4>2. \/ ~m.ok /\ e.known = el.known
            \/ kind = "OwnerTracker" /\ m.value = None /\ e.known = el.known
            \/ /\ m.ok /\ (kind = "ObjectManager" => e.ready)
               /\ \A x \in Marks : Sees(kind, e.known, x) <=> Has(kind, m.value, x)
        <5>1. CASE ~m.ok
          BY <1>11, <5>1 DEF TakesAnswer
        <5>2. CASE m.ok /\ kind = "Presence"
          <6>1. TakesAnswer(m)
            BY <1>2, <2>1, <3>4, <4>1, <5>2 DEF TakesAnswer, ForThis, Sound
          <6>2. e.known = (m.value # None)
            BY <1>8, <1>11, <5>2, <6>1
          <6> QED BY <5>2, <6>2 DEF Sees, Has, Binary
        <5>3. CASE m.ok /\ kind = "OwnerTracker"
          <6>1. CASE m.value = None
            BY <1>11, <5>3, <6>1 DEF TakesAnswer
          <6>2. CASE m.value # None
            <7>1. TakesAnswer(m)
              BY <2>1, <3>4, <4>1, <5>3, <6>2 DEF TakesAnswer, ForThis
            <7>2. e.known = m.value
              BY <1>8, <1>11, <5>3, <7>1
            <7> QED BY <5>3, <7>2 DEF Sees, Has, Binary
          <6> QED BY <6>1, <6>2
        <5>4. CASE m.ok /\ kind = "ObjectManager"
          <6>1. TakesAnswer(m)
            BY <5>4 DEF TakesAnswer
          <6>2. e.known = m.value /\ e.ready
            BY <1>8, <1>9, <1>11, <5>4, <6>1
          <6> QED BY <5>4, <6>2 DEF Sees, Has, Binary
        <5> QED BY <1>5, <2>1, <5>1, <5>2, <5>3, <5>4 DEF FourKinds
      <4>3. Chronicle(kind, e, t, Tail(q), o)
        BY <3>1, <3>2, <4>1, <4>2, AnswerTaken
      <4> QED BY <2>2, <2>4, <4>3 DEF q, o
    <3> QED BY <3>3, <3>4
  <2> QED BY <2>3, <2>4
<1>14. RoutedNet(kind, e, net)
  BY <1>11, SameRouting DEF RestInv
<1>15. e.peer = el.peer /\ e.name = el.name /\ e.sub \in {0, el.sub}
  BY <1>11 DEF SameRoute
<1> HIDE DEF e0, failed
<1> QED BY <1>1, <1>12, <1>13, <1>14, <1>15, TakingRests

LEMMA ChangeArrivesRests ==
    ASSUME IInv, RestInv, NEW p \in Peers, ChangeArrives(p)
    PROVE  RestInv'
<1> DEFINE m == Head(net.in[p])
           e0 == [el EXCEPT !.known = Shown(@, m), !.heard = @ + 1]
<1>1. /\ net.in[p] # <<>> /\ m.kind = "Change"
      /\ net' = [net EXCEPT !.in[p] = Tail(@)]
      /\ UNCHANGED <<kind, probe, up, truth, budget>>
      /\ el' = IF ForThis(m) THEN e0 ELSE el
  BY DEF ChangeArrives, Arrives, Consumed
<1>2. kind \in AllKinds /\ el \in Element /\ Sound(el) /\ NetOK /\ el.peer \in Peers
  BY KindsAssumption DEF IInv, TypeInv, Element
<1>3. /\ net.in[p] \in Seq(InMsg) /\ net.out[p] \in Seq(OutMsg) /\ m \in InMsg
      /\ 1 \in DOMAIN net.in[p] /\ net.in[p][1] = m
  <2>1. net.in[p] \in Seq(InMsg) /\ net.out[p] \in Seq(OutMsg)
    BY <1>2, CountsAreNumbers
  <2>2. 1 \in DOMAIN net.in[p] /\ net.in[p][1] = m
    BY <1>1, <2>1, TailOf
  <2> QED BY <2>1, <2>2, ElementOfSeq, LenProperties
<1>4. m.id = el.sub /\ el.sub # 0 => p = el.peer
  <2>1. el.sub \in Nat
    BY <1>2 DEF Element
  <2>2. m.id = el.sub => ChangesAt(p, el.sub) # 0
    <3>1. m.id = el.sub => m \in ChangesFor(el.sub)
      BY <1>1, <1>3, <2>1, MessageKinds
    <3> QED BY <1>3, <3>1, CountType DEF ChangesAt
  <2> QED BY <2>1, <2>2 DEF IInv, HeardInv
<1> HIDE DEF m
<1>5. PICK e : e = IF ForThis(m) THEN e0 ELSE el
  OBVIOUS
<1>6. /\ SameRoute(e) /\ e.matched = el.matched /\ e.failed = el.failed /\ e.ready = el.ready
      /\ e.known = IF ForThis(m) THEN Shown(el.known, m) ELSE el.known
  <2>1. CASE ForThis(m)
    <3>1. PICK w : w = Shown(el.known, m)
      OBVIOUS
    <3>2. PICK h : h = el.heard + 1
      OBVIOUS
    <3>3. e = [el EXCEPT !.known = w, !.heard = h]
      BY <1>5, <2>1, <3>1, <3>2
    <3> QED BY <1>2, <2>1, <3>1, <3>3 DEF SameRoute, Element
  <2>2. CASE ~ForThis(m)
    BY <1>5, <2>2 DEF SameRoute
  <2> QED BY <2>1, <2>2
<1>7. ASSUME Chronicled
      PROVE  IF p = el.peer
             THEN Chronicle(kind, e, truth[el.peer][el.name], Tail(net.in[p]), net.out[p])
             ELSE ThisChronicle(e)
  <2>1. ThisChronicle(el) /\ el.sub # 0 /\ kind \in FourKinds
    BY <1>7 DEF RestInv, ChronicleInv, Chronicled, ThisChronicle
  <2>2. PICK t : t = truth[el.peer][el.name]
    OBVIOUS
  <2>3. CASE p # el.peer
    <3>1. ~ForThis(m)
      BY <1>4, <2>1, <2>3 DEF ForThis
    <3>2. SameView(e)
      BY <1>6, <3>1 DEF SameView, SameRoute
    <3> QED BY <2>1, <2>3, <3>2, SameChronicle DEF ThisChronicle
  <2>4. CASE p = el.peer
    <3> DEFINE q == net.in[p]
               o == net.out[p]
    <3>1. /\ q \in Seq(InMsg) /\ o \in Seq(OutMsg) /\ q # <<>> /\ Head(q) = m
          /\ Chronicle(kind, el, t, q, o)
      BY <1>1, <1>3, <2>1, <2>2, <2>4 DEF m, ThisChronicle
    <3> HIDE DEF q, o
    <3>2. e.sub = el.sub
      BY <1>6 DEF SameRoute
    <3>3. CASE ~ForThis(m)
      <4>1. ~Of(Head(q), "Change", el.sub) /\ ~Of(Head(q), "Answer", el.sub)
        BY <1>1, <2>1, <3>1, <3>3 DEF Of, ForThis
      <4>2. e.known = el.known
        BY <1>6, <3>3
      <4>3. Chronicle(kind, e, t, Tail(q), o)
        BY <1>6, <3>1, <3>2, <4>1, <4>2, ForeignTaken
      <4> QED BY <2>2, <2>4, <4>3 DEF q, o
    <3>4. CASE ForThis(m)
      <4>1. Of(m, "Change", el.sub) /\ e.known = Shown(el.known, m)
        BY <1>1, <1>6, <3>4 DEF Of, ForThis
      <4>2. m.from \in Answers /\ m.to \in Answers /\ el.known \in Shows
        BY <1>1, <1>2, <1>3, MessageKinds DEF Element
      <4>3. m.from # m.to
        <5>1. ChangesTrue(kind, el.sub, t, q) /\ 1 \in DOMAIN q /\ q[1] = m
          BY <1>3, <3>1 DEF Chronicle, q
        <5> QED BY <4>1, <5>1 DEF ChangesTrue
      <4>4. \A x \in Marks : \/ Sees(kind, e.known, x) <=> Has(kind, m.to, x)
                             \/ /\ Has(kind, m.from, x) <=> Has(kind, m.to, x)
                                /\ Sees(kind, e.known, x) <=> Sees(kind, el.known, x)
        BY <2>1, <4>1, <4>2, <4>3, ShowingMarks
      <4>5. kind = "OwnerTracker" => e.known = m.to
        BY <4>1 DEF Shown
      <4>6. Chronicle(kind, e, t, Tail(q), o)
        BY <1>6, <3>1, <3>2, <4>1, <4>4, <4>5, ChangeTaken
      <4> QED BY <2>2, <2>4, <4>6 DEF q, o
    <3> QED BY <3>3, <3>4
  <2> QED BY <2>3, <2>4
<1>8. RoutedNet(kind, e, net)
  BY <1>6, SameRouting DEF RestInv
<1>9. e.peer = el.peer /\ e.name = el.name /\ e.sub \in {0, el.sub}
  BY <1>6 DEF SameRoute
<1>10. el' = e
  BY <1>1, <1>5
<1> HIDE DEF e0
<1> QED BY <1>1, <1>7, <1>8, <1>9, <1>10, TakingRests

LEMMA PongArrivesRests ==
    ASSUME IInv, RestInv, NEW p \in Peers, PongArrives(p)
    PROVE  RestInv'
<1> DEFINE m == Head(net.in[p])
<1>1. /\ UNCHANGED <<kind, up, truth>> /\ net.in[p] # <<>> /\ m.kind = "Pong"
      /\ net' = [net EXCEPT !.in[p] = Tail(@)]
      /\ WrapperPong(p, m.ok) \/ (p = Session /\ SessionPong(m.ok))
  BY DEF PongArrives
<1>2. kind \in AllKinds /\ el \in Element /\ Sound(el) /\ NetOK /\ el.peer \in Peers
  BY KindsAssumption DEF IInv, TypeInv, Element
<1>3. /\ net.in[p] \in Seq(InMsg) /\ net.out[p] \in Seq(OutMsg) /\ m \in InMsg
      /\ 1 \in DOMAIN net.in[p] /\ net.in[p][1] = m
  <2>1. net.in[p] \in Seq(InMsg) /\ net.out[p] \in Seq(OutMsg)
    BY <1>2, CountsAreNumbers
  <2>2. 1 \in DOMAIN net.in[p] /\ net.in[p][1] = m
    BY <1>1, <2>1, TailOf
  <2> QED BY <2>1, <2>2, ElementOfSeq, LenProperties
<1>4. Proxy
  <2>1. m \in Pongs
    BY <1>1, <1>3, MessageKinds
  <2>2. CountOf(net.in[p], Pongs) # 0
    BY <1>3, <2>1, CountType
  <2>3. CountOf(net.in[p], Pongs) \in Nat /\ CountOf(net.out[p], {Ping}) \in Nat
    BY <1>2, CountsAreNumbers
  <2>4. PingsAt(p) # 0
    BY <2>2, <2>3 DEF PingsAt
  <2> QED BY <2>4 DEF IInv, QuietProbes
<1> HIDE DEF m
<1>5. PICK lost : lost = OnBusDisconnected(el)
  OBVIOUS
<1>6. el' = el \/ el' = lost
  BY <1>1, <1>5 DEF WrapperPong, SessionPong
<1>7. /\ lost.sub = 0 /\ lost.serial = el.serial /\ lost.peer = el.peer /\ lost.name = el.name
      /\ lost.blocked = el.blocked
  <2>1. PICK u : u = Unsubscribed(el)
    OBVIOUS
  <2>2. /\ u \in Element /\ u.sub = 0 /\ u.serial = el.serial /\ u.peer = el.peer /\ u.name = el.name
        /\ u.blocked = el.blocked
    BY <1>2, <2>1, Unsubscribing DEF Rest
  <2>3. lost = [u EXCEPT !.known = Nothing, !.told = @ + 1]
    BY <1>5, <2>1 DEF OnBusDisconnected
  <2> QED BY <2>2, <2>3 DEF Element
<1>8. RoutedNet(kind, lost, net)
  <2>1. kind # "ServiceWatcher" /\ kind # "ObjectManager"
    BY <1>4 DEF Proxy
  <2> QED BY <1>7, <2>1 DEF RestInv, RoutedNet, Routed
<1>9. CASE el' = lost
  BY <1>1, <1>7, <1>8, <1>9, TakingRests
<1>10. CASE el' = el
  <2>1. PICK e : e = el
    OBVIOUS
  <2>2. ASSUME Chronicled
        PROVE  IF p = el.peer
               THEN Chronicle(kind, e, truth[el.peer][el.name], Tail(net.in[p]), net.out[p])
               ELSE ThisChronicle(e)
    <3>1. ThisChronicle(e)
      BY <2>1, <2>2 DEF RestInv, ChronicleInv, Chronicled, ThisChronicle
    <3>2. PICK t : t = truth[el.peer][el.name]
      OBVIOUS
    <3> DEFINE q == net.in[p]
               o == net.out[p]
    <3>3. ASSUME p = el.peer PROVE Chronicle(kind, e, t, Tail(q), o)
      <4>1. /\ q \in Seq(InMsg) /\ o \in Seq(OutMsg) /\ q # <<>> /\ Head(q) = m
            /\ Chronicle(kind, e, t, q, o)
        BY <1>1, <1>3, <2>1, <3>1, <3>2, <3>3 DEF m, ThisChronicle
      <4> HIDE DEF q, o
      <4>2. ~Of(Head(q), "Change", e.sub) /\ ~Of(Head(q), "Answer", e.sub)
        BY <1>1, <4>1 DEF Of
      <4> QED BY <4>1, <4>2, ForeignTaken
    <3> QED BY <3>1, <3>2, <3>3
  <2>3. RoutedNet(kind, e, net) /\ el' = e /\ e.peer = el.peer /\ e.name = el.name /\ e.sub = el.sub
    BY <1>10, <2>1 DEF RestInv
  <2> QED BY <1>1, <2>2, <2>3, TakingRests
<1> QED BY <1>6, <1>9, <1>10

-----------------------------------------------------------------------------
(* The blocking call, and the steps of the peers.                          *)

LEMMA BlockingCallReturnsRests ==
    ASSUME IInv, RestInv, BlockingCallReturns
    PROVE  RestInv'
<1>1. kind \in AllKinds /\ el \in Element /\ Sound(el) /\ NetOK /\ el.peer \in Peers
  BY KindsAssumption DEF IInv, TypeInv, Element
<1>2. PICK p \in Peers : p = el.peer
  BY <1>1
<1>3. PICK h \in DOMAIN net.in[p] :
         LET m == net.in[p][h] IN
         /\ m.kind = "Answer"
         /\ el' = [el EXCEPT !.blocked = FALSE, !.known = m.ok /\ m.value # None, !.failed = ~m.ok]
         /\ net' = [net EXCEPT !.in[el.peer] = RemoveAt(@, h)]
  BY <1>2 DEF BlockingCallReturns
<1> DEFINE m == net.in[p][h]
           o == net.out[p]
           q == net.in[p]
           r == SubSeq(q, 1, h - 1) \o SubSeq(q, h + 1, Len(q))
<1>4. UNCHANGED <<kind, up, truth>> /\ el.blocked /\ kind = "ServiceWatcher"
  BY <1>1 DEF BlockingCallReturns, Sound
<1>5. o \in Seq(OutMsg) /\ q \in Seq(InMsg) /\ m \in InMsg
  <2>1. o \in Seq(OutMsg) /\ q \in Seq(InMsg)
    BY <1>1, CountsAreNumbers
  <2>2. DOMAIN q = 1 .. Len(q)
    BY <2>1, LenProperties
  <2> QED BY <1>3, <2>1, <2>2, ElementOfSeq
<1>6. net' = [out |-> [net.out EXCEPT ![p] = o], in |-> [net.in EXCEPT ![p] = r]]
  <2>1. /\ net = [out |-> net.out, in |-> net.in]
        /\ net.out \in [Peers -> Seq(OutMsg)] /\ net.in \in [Peers -> Seq(InMsg)]
    BY <1>1 DEF NetOK
  <2>2. net' = [out |-> net.out, in |-> [net.in EXCEPT ![p] = r]]
    BY <1>2, <1>3, <2>1 DEF RemoveAt
  <2>3. net.out = [net.out EXCEPT ![p] = o]
    BY <2>1
  <2> QED BY <2>2, <2>3
<1>7. m.kind = "Answer" /\ m.ok \in BOOLEAN
  BY <1>3, <1>5, MessageKinds
<1>8. PICK b \in BOOLEAN : b = (m.ok /\ m.value # None)
  BY <1>7
<1>9. PICK f \in BOOLEAN : f = ~m.ok
  BY <1>7
<1>10. PICK e : e = [el EXCEPT !.blocked = FALSE, !.known = b, !.failed = f]
  OBVIOUS
<1>11. /\ el' = e /\ e.sub = el.sub /\ e.serial = el.serial /\ e.peer = el.peer /\ e.name = el.name
       /\ e.matched = el.matched /\ e.known = b /\ e.failed = f /\ ~e.blocked
  BY <1>1, <1>3, <1>8, <1>9, <1>10 DEF Element
<1>12. h \in DOMAIN q /\ Routed(kind, el, p, m) /\ Sole(q, o)
  BY <1>3, <1>4 DEF RestInv, RoutedNet, SoleNet
<1>13. m.id = el.sub
  BY <1>4, <1>7, <1>12 DEF Routed
<1>14. /\ \A i \in DOMAIN o : Routed(kind, el, p, o[i])
       /\ \A i \in DOMAIN q : Routed(kind, el, p, q[i])
       /\ m = q[h]
  BY DEF RestInv, RoutedNet
<1>15. Chronicled => Chronicle(kind, el, truth[el.peer][el.name], q, o)
  BY <1>2 DEF RestInv, ChronicleInv, Chronicled
<1> HIDE DEF m, o, q
<1>16. \A i \in DOMAIN r : \E j \in DOMAIN q : j # h /\ r[i] = q[j]
  <2>1. /\ Len(q) \in Nat /\ DOMAIN q = 1 .. Len(q) /\ h \in 1 .. Len(q)
        /\ DOMAIN r = 1 .. (Len(q) - 1)
        /\ \A i \in 1 .. (Len(q) - 1) : r[i] = q[IF i < h THEN i ELSE i + 1]
    BY <1>5, <1>12, Without
  <2> HIDE DEF r
  <2>2. ASSUME NEW i \in DOMAIN r PROVE \E j \in DOMAIN q : j # h /\ r[i] = q[j]
    <3>1. CASE i < h
      BY <2>1, <3>1
    <3>2. CASE ~(i < h)
      <4>1. i + 1 \in DOMAIN q /\ i + 1 # h /\ r[i] = q[i + 1]
        BY <2>1, <3>2
      <4> QED BY <4>1
    <3> QED BY <3>1, <3>2
  <2> QED BY <2>2
\* That was the only call.
<1>17. /\ \A i \in DOMAIN r : r[i].kind # "Answer" /\ Routed(kind, el, p, r[i])
       /\ \A i \in DOMAIN o : o[i].kind # "Ask"
  BY <1>7, <1>12, <1>14, <1>16 DEF Sole
<1>18. \A s \in Peers \ {p} : /\ \A i \in DOMAIN net.out[s] : net.out[s][i].kind # "Ask"
                              /\ \A i \in DOMAIN net.in[s] : net.in[s][i].kind # "Answer"
  BY <1>2, <1>4 DEF RestInv, RoutedNet, Routed
<1>19. \A s, x : /\ Routed(kind, el, s, x) /\ x.kind \notin {"Ask", "Answer"} => Routed(kind, e, s, x)
  BY <1>4, <1>11 DEF Routed
<1>20. /\ net'.out[p] = o /\ net'.in[p] = r
       /\ \A s \in Peers \ {p} : net'.out[s] = net.out[s] /\ net'.in[s] = net.in[s]
  BY <1>1, <1>6 DEF NetOK
<1>21. \A s \in Peers : /\ \A i \in DOMAIN net.out[s] : net.out[s][i].kind # "Answer" /\ Routed(kind, el, s, net.out[s][i])
                        /\ \A i \in DOMAIN net.in[s] : net.in[s][i].kind # "Ask" /\ Routed(kind, el, s, net.in[s][i])
  <2> SUFFICES ASSUME NEW s \in Peers
               PROVE  /\ \A i \in DOMAIN net.out[s] : net.out[s][i].kind # "Answer" /\ Routed(kind, el, s, net.out[s][i])
                      /\ \A i \in DOMAIN net.in[s] : net.in[s][i].kind # "Ask" /\ Routed(kind, el, s, net.in[s][i])
    OBVIOUS
  <2>1. net.out[s] \in Seq(OutMsg) /\ net.in[s] \in Seq(InMsg)
    BY <1>1, CountsAreNumbers
  <2>2. /\ \A i \in DOMAIN net.out[s] : net.out[s][i] \in OutMsg
        /\ \A i \in DOMAIN net.in[s] : net.in[s][i] \in InMsg
    BY <2>1, ElementOfSeq, LenProperties
  <2> QED BY <2>2, MessageKinds DEF RestInv, RoutedNet
<1> HIDE DEF r
<1>22. \A i \in DOMAIN r : r[i].kind # "Ask"
  <2>1. \A j \in DOMAIN q : q[j].kind # "Ask"
    BY <1>2, <1>21 DEF q
  <2> QED BY <1>16, <2>1
<1>23. \A i \in DOMAIN o : o[i].kind # "Answer"
  BY <1>2, <1>21 DEF o
<1>24. RoutedNet(kind, e, net')
  <2>1. /\ \A i \in DOMAIN net'.out[p] : Routed(kind, e, p, net'.out[p][i])
        /\ \A i \in DOMAIN net'.in[p] : Routed(kind, e, p, net'.in[p][i])
    BY <1>14, <1>17, <1>19, <1>20, <1>22, <1>23
  <2>2. ASSUME NEW s \in Peers \ {p}
        PROVE  /\ \A i \in DOMAIN net'.out[s] : Routed(kind, e, s, net'.out[s][i])
               /\ \A i \in DOMAIN net'.in[s] : Routed(kind, e, s, net'.in[s][i])
    BY <1>18, <1>19, <1>20, <1>21
  <2> QED BY <2>1, <2>2 DEF RoutedNet
<1>25. SoleNet(kind, net')
  <2>1. SoleNet(kind, net) /\ Sole(r, o)
    BY <1>17 DEF RestInv, Sole
  <2> QED BY <1>1, <1>6, <2>1, SoleStep DEF o
<1>26. ASSUME Chronicled
       PROVE  Chronicle(kind, e, truth[el.peer][el.name], net'.in[el.peer], net'.out[el.peer])
  <2>1. PICK t : t = truth[el.peer][el.name]
    OBVIOUS
  <2>2. Chronicle(kind, el, t, q, o)
    BY <1>15, <1>26, <2>1
  <2>3. Of(q[h], "Answer", el.sub) /\ e.failed = ~q[h].ok /\ (q[h].ok => (e.known <=> q[h].value # None))
    BY <1>7, <1>8, <1>9, <1>11, <1>13, <1>14 DEF Of
  <2>4. Chronicle(kind, e, t, r, o)
    BY <1>4, <1>5, <1>11, <1>12, <2>2, <2>3, AnswerTakenOut DEF r
  <2> QED BY <1>2, <1>20, <2>1, <2>4
<1>27. ChronicleInv'
  BY <1>4, <1>11, <1>26 DEF ChronicleInv, Chronicled
<1> QED BY <1>4, <1>11, <1>24, <1>25, <1>27 DEF RestInv

\* The queues of p become o and q.
LEMMA PeerRests ==
    ASSUME IInv, RestInv, UNCHANGED kind, NEW p \in Peers, NEW o, NEW q,
           net' = [out |-> [net.out EXCEPT ![p] = o], in |-> [net.in EXCEPT ![p] = q]],
           NEW e, el' = e, SameRoute(e),
           \A i \in DOMAIN o : Routed(kind, el, p, o[i]), \A i \in DOMAIN q : Routed(kind, el, p, q[i]),
           kind = "ServiceWatcher" => Sole(q, o),
           kind \in FourKinds /\ el.sub # 0 /\ up'[el.peer] =>
              IF p = el.peer THEN Chronicle(kind, e, truth'[el.peer][el.name], q, o)
              ELSE Chronicle(kind, e, truth'[el.peer][el.name], net.in[el.peer], net.out[el.peer])
    PROVE  RestInv'
<1>1. NetOK /\ el.peer \in Peers /\ RoutedNet(kind, el, net) /\ SoleNet(kind, net)
  BY DEF IInv, TypeInv, Element, RestInv
<1>2. RoutedNet(kind, el, net')
  BY <1>1, RoutedStep
<1>3. RoutedNet(kind, e, net')
  BY <1>2, SameRouting
<1>4. SoleNet(kind, net')
  BY <1>1, SoleStep
<1>5. /\ net'.out[p] = o /\ net'.in[p] = q
      /\ \A r \in Peers \ {p} : net'.out[r] = net.out[r] /\ net'.in[r] = net.in[r]
  BY <1>1 DEF NetOK
<1>6. ChronicleInv'
  BY <1>1, <1>5 DEF ChronicleInv, SameRoute
<1> QED BY <1>3, <1>4, <1>6 DEF RestInv

LEMMA ServeRests ==
    ASSUME IInv, RestInv, NEW p \in Peers, Serve(p)
    PROVE  RestInv'
<1> DEFINE m == Head(net.out[p])
           o == net.out[p]
           q == net.in[p]
<1>1. kind \in AllKinds /\ el \in Element /\ Sound(el) /\ NetOK /\ el.peer \in Peers
  BY KindsAssumption DEF IInv, TypeInv, Element
<1>2. /\ o \in Seq(OutMsg) /\ q \in Seq(InMsg) /\ o # <<>>
      /\ UNCHANGED <<kind, up, truth>>
  BY <1>1, CountsAreNumbers, Zenon DEF Serve
<1>3. /\ \A i \in DOMAIN o : Routed(kind, el, p, o[i])
      /\ \A i \in DOMAIN q : Routed(kind, el, p, q[i])
      /\ kind = "ServiceWatcher" => Sole(q, o)
  BY DEF RestInv, RoutedNet, SoleNet
<1>4. /\ DOMAIN Tail(o) \in SUBSET Nat /\ 1 \in DOMAIN o /\ o[1] = m
      /\ \A i \in DOMAIN Tail(o) : i \in Nat /\ i # 0 /\ i + 1 \in DOMAIN o /\ i + 1 # 1 /\ Tail(o)[i] = o[i + 1]
  BY <1>2, TailOf
<1>5. /\ \A i \in DOMAIN Tail(o) : Routed(kind, el, p, Tail(o)[i])
      /\ Routed(kind, el, p, m)
  BY <1>3, <1>4
<1>6. m \in OutMsg
  BY <1>2, HeadTailProperties
<1>7. Chronicled => ThisChronicle(el) /\ el.sub # 0 /\ kind \in FourKinds
  BY DEF RestInv, ChronicleInv, Chronicled, ThisChronicle
<1>8. Chronicled /\ p = el.peer => Chronicle(kind, el, truth[el.peer][el.name], q, o)
  BY <1>7 DEF ThisChronicle
<1>9. \A i, j \in DOMAIN Tail(o) : i + 1 = j + 1 => i = j
  BY <1>4
<1>10. CASE m.kind = "Watch"
  <2>1. /\ net' = [out |-> [net.out EXCEPT ![p] = Tail(o)], in |-> [net.in EXCEPT ![p] = q \o <<>>]]
        /\ el' = [el EXCEPT !.matched = @ \/ (el.sub # 0 /\ m.id = el.sub)]
    BY <1>10, Zenon DEF Serve
  <2>2. q \o <<>> = q
    BY <1>2, EmptySeq
  <2>3. PICK b \in BOOLEAN : b = (el.matched \/ (el.sub # 0 /\ m.id = el.sub))
    BY <1>1 DEF Element
  <2>4. PICK e : e = [el EXCEPT !.matched = b]
    OBVIOUS
  <2>5. /\ el' = e /\ SameRoute(e) /\ e.matched = b
        /\ e.failed = el.failed /\ e.known = el.known /\ e.ready = el.ready
    BY <1>1, <2>1, <2>3, <2>4 DEF Element, SameRoute
  <2>6. PICK t : t = truth[el.peer][el.name]
    OBVIOUS
  <2>7. PICK s : s = Tail(o)
    OBVIOUS
  <2>8. net' = [out |-> [net.out EXCEPT ![p] = s], in |-> [net.in EXCEPT ![p] = q]]
    BY <2>1, <2>2, <2>7
  <2>9. kind = "ServiceWatcher" => Sole(q, s)
    BY <1>3, <1>4, <1>9, <2>7 DEF Sole
  <2>10. ASSUME Chronicled, p = el.peer PROVE Chronicle(kind, e, t, q, s)
    <3>1. Chronicle(kind, el, t, q, o) /\ el.sub # 0
      BY <1>7, <1>8, <2>6, <2>10
    <3>2. el.matched \/ Head(o).id = el.sub => e.matched
      BY <2>3, <2>5, <3>1
    <3>3. Head(o).kind = "Watch" /\ e.sub = el.sub
      BY <1>10, <2>5 DEF SameRoute
    <3> HIDE DEF m, o, q
    <3> QED BY <1>2, <2>5, <2>7, <3>1, <3>2, <3>3, WatchServed
  <2>11. ASSUME Chronicled, p # el.peer PROVE ThisChronicle(e)
    <3>1. m.id # el.sub
      BY <1>5, <1>7, <1>10, <2>11 DEF Routed
    <3>2. e.matched = el.matched
      BY <1>1, <2>3, <2>5, <3>1 DEF Element
    <3>3. SameView(e)
      BY <2>5, <3>2 DEF SameView, SameRoute
    <3> QED BY <1>7, <2>11, <3>3, SameChronicle DEF ThisChronicle
  <2>12. \A i \in DOMAIN s : Routed(kind, el, p, s[i])
    BY <1>5, <2>7
  <2>13. kind \in FourKinds /\ el.sub # 0 /\ up'[el.peer] =>
           IF p = el.peer THEN Chronicle(kind, e, truth'[el.peer][el.name], q, s)
           ELSE Chronicle(kind, e, truth'[el.peer][el.name], net.in[el.peer], net.out[el.peer])
    BY <1>2, <2>6, <2>10, <2>11 DEF Chronicled, ThisChronicle
  <2> HIDE DEF m, o, q
  <2> QED BY <1>2, <1>3, <2>5, <2>8, <2>9, <2>12, <2>13, PeerRests
<1>11. ASSUME NEW a \in InMsg, m.kind # "Watch", a.kind \in {"Answer", "Pong"},
              m.kind = "Ask" <=> a.kind = "Answer",
              a.kind = "Answer" => /\ a.id = m.id /\ a.name = m.name
                                   /\ a.ok => a.value = truth[p][m.name],
              el' = el,
              net' = [out |-> [net.out EXCEPT ![p] = Tail(o)], in |-> [net.in EXCEPT ![p] = q \o <<a>>]]
       PROVE  RestInv'
  <2>1. PICK r : r = Append(q, a)
    OBVIOUS
  <2>2. q \o <<a>> = Append(q, a)
    BY <1>2, <1>11, AppendIsConcat
  <2>3. PICK s : s = Tail(o)
    OBVIOUS
  <2>4. net' = [out |-> [net.out EXCEPT ![p] = s], in |-> [net.in EXCEPT ![p] = r]]
    BY <1>11, <2>1, <2>2, <2>3
  <2>5. /\ \A j \in DOMAIN r : (j \in DOMAIN q /\ r[j] = q[j]) \/ (j = Len(q) + 1 /\ r[j] = a)
    <3> HIDE DEF q
    <3>1. /\ DOMAIN q = 1 .. Len(q) /\ Len(q) \in Nat /\ DOMAIN Append(q, a) = 1 .. (Len(q) + 1)
          /\ \A j \in 1 .. Len(q) : Append(q, a)[j] = q[j]
          /\ Append(q, a)[Len(q) + 1] = a
      BY <1>2, <1>11, AppendProperties, LenProperties
    <3> QED BY <2>1, <3>1
  <2>6. Routed(kind, el, p, a)
    BY <1>5, <1>6, <1>11, MessageKinds DEF Routed
  <2>7. \A i \in DOMAIN r : Routed(kind, el, p, r[i])
    BY <1>3, <2>5, <2>6
  <2>8. \A i \in DOMAIN s : Routed(kind, el, p, s[i])
    BY <1>5, <2>3
  <2>9. kind = "ServiceWatcher" => Sole(r, s)
    <3> SUFFICES ASSUME kind = "ServiceWatcher" PROVE Sole(r, s)
      OBVIOUS
    <3>1. \A i, j \in DOMAIN s : s[i].kind = "Ask" /\ s[j].kind = "Ask" => i = j
      BY <1>3, <1>4, <1>9, <2>3 DEF Sole
    <3>2. ASSUME m.kind = "Ask"
          PROVE  /\ \A i \in DOMAIN s : s[i].kind # "Ask"
                 /\ \A i \in DOMAIN q : q[i].kind # "Answer"
      BY <1>3, <1>4, <2>3, <3>2 DEF Sole
    <3>3. CASE m.kind = "Ask"
      <4>1. \A i \in DOMAIN r : r[i].kind = "Answer" => i = Len(q) + 1
        BY <2>5, <3>2, <3>3
      <4>2. \A i \in DOMAIN s : s[i].kind # "Ask"
        BY <3>2, <3>3
      <4> HIDE DEF m, q, o
      <4> QED BY <4>1, <4>2 DEF Sole
    <3>4. CASE m.kind # "Ask"
      <4>1. \A i \in DOMAIN r : r[i].kind = "Answer" => i \in DOMAIN q /\ r[i] = q[i]
        BY <1>11, <2>5, <3>4
      <4>2. \A i \in DOMAIN s : i + 1 \in DOMAIN o /\ s[i] = o[i + 1]
        BY <1>4, <2>3
      <4>3. Sole(q, o)
        BY <1>3
      <4> HIDE DEF m, q, o
      <4> QED BY <3>1, <4>1, <4>2, <4>3 DEF Sole
    <3> QED BY <3>3, <3>4
  <2>10. PICK e : e = el
    OBVIOUS
  <2>11. el' = e /\ SameRoute(e) /\ SameView(e)
    BY <1>11, <2>10 DEF SameRoute, SameView
  <2>12. PICK t : t = truth[el.peer][el.name]
    OBVIOUS
  <2>13. ASSUME Chronicled, p = el.peer PROVE Chronicle(kind, e, t, r, s)
    <3>1. Chronicle(kind, e, t, q, o) /\ el.sub # 0
      BY <1>7, <1>8, <2>10, <2>12, <2>13
    <3>2. a.kind = "Answer" => a.id = m.id /\ (a.id = e.sub /\ a.ok => a.value = t)
      <4>1. a.kind = "Answer" /\ a.id = el.sub => m.name = el.name
        BY <1>5, <1>11, <3>1 DEF Routed
      <4> QED BY <1>11, <2>10, <2>12, <2>13, <4>1
    <3>3. /\ Head(o).kind # "Watch" /\ a.kind # "Change"
          /\ Head(o).kind = "Ask" <=> a.kind = "Answer"
          /\ a.kind = "Answer" => a.id = Head(o).id /\ (a.id = e.sub /\ a.ok => a.value = t)
      BY <1>11, <3>2
    <3> HIDE DEF m, q, o
    <3>4. Chronicle(kind, e, t, Append(q, a), Tail(o))
      BY ONLY <1>2, <1>11, <3>1, <3>3, QuestionServed
    <3> QED BY <2>1, <2>3, <3>4
  <2>14. kind \in FourKinds /\ el.sub # 0 /\ up'[el.peer] =>
           IF p = el.peer THEN Chronicle(kind, e, truth'[el.peer][el.name], r, s)
           ELSE Chronicle(kind, e, truth'[el.peer][el.name], net.in[el.peer], net.out[el.peer])
    BY <1>2, <1>7, <2>10, <2>12, <2>13 DEF Chronicled, ThisChronicle
  <2> HIDE DEF m, o, q
  <2> QED BY <1>2, <2>4, <2>7, <2>8, <2>9, <2>11, <2>14, PeerRests
<1>12. ASSUME NEW v, NEW ok \in BOOLEAN, ok => v = truth[p][m.name], ~ok => v = Nothing,
              m.kind = "Ask", el' = el,
              net' = [out |-> [net.out EXCEPT ![p] = Tail(o)],
                      in |-> [net.in EXCEPT ![p] = q \o <<Answer(m, ok, v)>>]]
       PROVE  RestInv'
  <2>1. m.id \in Nat /\ m.name \in Names
    BY <1>6, <1>12, MessageKinds DEF Ping
  <2>2. truth[p][m.name] \in Answers
    BY <2>1 DEF IInv, TypeInv, WorldType
  <2>3. PICK a : a = Answer(m, ok, v)
    OBVIOUS
  <2>4. /\ a \in InMsg /\ a.kind = "Answer" /\ a.id = m.id /\ a.name = m.name
        /\ a.ok = ok /\ a.value = v
    BY <1>12, <2>1, <2>2, <2>3 DEF Answer, InMsg
  <2>5. net' = [out |-> [net.out EXCEPT ![p] = Tail(o)], in |-> [net.in EXCEPT ![p] = q \o <<a>>]]
    BY <1>12, <2>3
  <2> HIDE DEF m, o, q
  <2> QED BY <1>11, <1>12, <2>4, <2>5
<1>13. ASSUME m.kind = "Ping", el' = el,
              net' = [out |-> [net.out EXCEPT ![p] = Tail(o)],
                      in |-> [net.in EXCEPT ![p] = q \o <<Pong(TRUE)>>]]
       PROVE  RestInv'
  <2>1. PICK a : a = Pong(TRUE)
    OBVIOUS
  <2>2. a \in InMsg /\ a.kind = "Pong"
    BY <2>1, MessageKinds DEF Pong
  <2> HIDE DEF m, o, q
  <2> QED BY <1>11, <1>13, <2>1, <2>2
<1>14. CASE m.kind = "Ask"
  <2>1. el' = el /\ \E ok \in BOOLEAN : \E v :
           /\ (ok => v = truth[p][m.name]) /\ (~ok => v = Nothing)
           /\ net' = [out |-> [net.out EXCEPT ![p] = Tail(o)],
                      in |-> [net.in EXCEPT ![p] = q \o <<Answer(m, ok, v)>>]]
    BY <1>14, Zenon DEF Serve
  <2> HIDE DEF m, o, q
  <2> QED BY <1>12, <1>14, <2>1
<1>15. CASE m.kind = "Ping"
  BY <1>13, <1>15, Zenon DEF Serve
<1> QED BY <1>6, <1>10, <1>14, <1>15, MessageKinds

LEMMA ChangesRests ==
    ASSUME IInv, RestInv, NEW p \in Peers, NEW n \in Names, NEW v \in Answers, Changes(p, n, v)
    PROVE  RestInv'
<1> DEFINE watched == el.matched /\ el.at = <<p, n>>
           o == net.out[p]
           q == net.in[p]
           m0 == Change(el.sub, truth[p][n], v)
<1>1. /\ kind \in AllKinds /\ el \in Element /\ Sound(el) /\ NetOK /\ el.peer \in Peers
      /\ el.name \in Names \cup {Nowhere} /\ truth \in [Peers -> [Names -> Answers]]
  BY KindsAssumption DEF IInv, TypeInv, Element, WorldType
<1>2. /\ UNCHANGED <<kind, up>> /\ truth' = [truth EXCEPT ![p][n] = v] /\ v # truth[p][n]
      /\ watched => /\ net' = [net EXCEPT !.in[p] = Append(q, m0)]
                    /\ el' = [el EXCEPT !.said = @ + 1]
      /\ ~watched => net' = net /\ el' = el
  BY DEF Changes
<1>3. /\ truth'[p][n] = v
      /\ \A s \in Peers, x \in Names : s # p \/ x # n => truth'[s][x] = truth[s][x]
  BY <1>1, <1>2
<1>4. Chronicled => ThisChronicle(el) /\ el.name \in Names /\ el.at = <<el.peer, el.name>>
  BY <1>1 DEF RestInv, ChronicleInv, Chronicled, ThisChronicle, Sound
<1>5. CASE ~watched
  <2>1. net' = net /\ el' = el
    BY <1>2, <1>5
  <2>2. RoutedNet(kind, el, net) /\ SoleNet(kind, net)
    BY DEF RestInv
  <2>3. PICK t : t = truth[el.peer][el.name]
    OBVIOUS
  <2>4. PICK u : u = truth'[el.peer][el.name]
    OBVIOUS
  <2>5. PICK e : e = el
    OBVIOUS
  <2>6. ASSUME Chronicled PROVE Chronicle(kind, e, u, net.in[el.peer], net.out[el.peer])
    <3>1. Chronicle(kind, e, t, net.in[el.peer], net.out[el.peer])
      BY <1>4, <2>3, <2>5, <2>6 DEF ThisChronicle
    <3>2. CASE el.peer = p /\ el.name = n
      <4>1. ~e.matched
        BY <1>4, <1>5, <2>5, <2>6, <3>2
      <4> QED BY <3>1, <4>1, TruthMoves
    <3>3. CASE el.peer # p \/ el.name # n
      <4>1. u = t
        BY <1>1, <1>3, <1>4, <2>3, <2>4, <2>6, <3>3
      <4> QED BY <3>1, <4>1
    <3> QED BY <3>2, <3>3
  <2>7. ChronicleInv'
    BY <1>2, <2>1, <2>4, <2>5, <2>6 DEF ChronicleInv, Chronicled
  <2> QED BY <1>2, <2>1, <2>2, <2>7 DEF RestInv
<1>6. CASE watched
  <2>1. PICK m : m = m0
    OBVIOUS
  <2>2. el.sub \in Nat /\ el.sub # 0 /\ p = el.peer /\ n = el.name /\ el.matched
    BY <1>1, <1>6 DEF Element, Sound
  <2>3. m \in InMsg /\ Of(m, "Change", el.sub) /\ m.from = truth[p][n] /\ m.to = v
    <3>1. truth[p][n] \in Answers
      BY <1>1
    <3> QED BY <2>1, <2>2, <3>1 DEF Change, InMsg, Of
  <2>4. o \in Seq(OutMsg) /\ q \in Seq(InMsg)
    BY <1>1, CountsAreNumbers
  <2>5. PICK r : r = Append(q, m)
    OBVIOUS
  <2>6. net' = [out |-> [net.out EXCEPT ![p] = o], in |-> [net.in EXCEPT ![p] = r]]
    <3>1. /\ net = [out |-> net.out, in |-> net.in]
          /\ net.out \in [Peers -> Seq(OutMsg)] /\ net.in \in [Peers -> Seq(InMsg)]
      BY <1>1 DEF NetOK
    <3>2. net' = [out |-> net.out, in |-> [net.in EXCEPT ![p] = r]]
      BY <1>2, <1>6, <2>1, <2>5, <3>1
    <3>3. net.out = [net.out EXCEPT ![p] = o]
      BY <3>1
    <3> QED BY <3>2, <3>3
  <2>7. PICK e : e = [el EXCEPT !.said = @ + 1]
    OBVIOUS
  <2>8. el' = e /\ SameRoute(e) /\ SameView(e)
    BY <1>1, <1>2, <1>6, <2>7 DEF Element, SameRoute, SameView
  <2>9. /\ \A i \in DOMAIN o : Routed(kind, el, p, o[i])
        /\ \A i \in DOMAIN q : Routed(kind, el, p, q[i])
        /\ kind = "ServiceWatcher" => Sole(q, o)
    BY DEF RestInv, RoutedNet, SoleNet
  <2>10. PICK t : t = truth[p][n]
    OBVIOUS
  <2>11. PICK u : u = v
    OBVIOUS
  <2> HIDE DEF o, q, m0
  <2>12. \A j \in DOMAIN r : (j \in DOMAIN q /\ r[j] = q[j]) \/ r[j] = m
    <3>1. /\ DOMAIN q = 1 .. Len(q) /\ Len(q) \in Nat /\ DOMAIN Append(q, m) = 1 .. (Len(q) + 1)
          /\ \A j \in 1 .. Len(q) : Append(q, m)[j] = q[j]
          /\ Append(q, m)[Len(q) + 1] = m
      BY <2>3, <2>4, AppendProperties, LenProperties
    <3> QED BY <2>5, <3>1
  <2>13. Routed(kind, el, p, m) /\ m.kind # "Answer"
    BY <2>3 DEF Routed, Of
  <2>14. \A i \in DOMAIN r : Routed(kind, el, p, r[i])
    BY <2>9, <2>12, <2>13
  <2>15. kind = "ServiceWatcher" => Sole(r, o)
    <3>1. \A j \in DOMAIN r : r[j].kind = "Answer" => j \in DOMAIN q /\ r[j] = q[j]
      BY <2>12, <2>13
    <3> QED BY <2>9, <3>1 DEF Sole
  <2>16. ASSUME Chronicled PROVE Chronicle(kind, e, u, r, o)
    <3>1. Chronicle(kind, el, t, q, o)
      BY <1>4, <2>2, <2>10, <2>16 DEF ThisChronicle, q, o
    <3>2. Of(m, "Change", e.sub) /\ m.from = t /\ m.to = u /\ t # u /\ e.matched
      BY <1>2, <2>2, <2>3, <2>8, <2>10, <2>11 DEF SameView
    <3>3. Chronicle(kind, e, t, q, o)
      BY <2>8, <3>1, SameChronicle
    <3>4. Chronicle(kind, e, u, Append(q, m), o)
      BY ONLY <2>3, <2>4, <3>2, <3>3, ChangeMade
    <3> QED BY <2>5, <3>4
  <2>17. kind \in FourKinds /\ el.sub # 0 /\ up'[el.peer] =>
           IF p = el.peer THEN Chronicle(kind, e, truth'[el.peer][el.name], r, o)
           ELSE Chronicle(kind, e, truth'[el.peer][el.name], net.in[el.peer], net.out[el.peer])
    BY <1>2, <1>3, <2>2, <2>11, <2>16 DEF Chronicled
  <2> QED BY <1>2, <2>6, <2>8, <2>9, <2>14, <2>15, <2>17, PeerRests
<1> QED BY <1>5, <1>6

LEMMA DiesRests ==
    ASSUME IInv, RestInv, NEW p \in Peers, Dies(p)
    PROVE  RestInv'
<1> DEFINE o == net.out[p]
           q == net.in[p]
           u == Errors(o)
<1>1. kind \in AllKinds /\ el \in Element /\ NetOK /\ el.peer \in Peers /\ up \in [Peers -> BOOLEAN]
  BY KindsAssumption DEF IInv, TypeInv, Element, WorldType
<1>2. /\ UNCHANGED <<kind, truth>> /\ up' = [up EXCEPT ![p] = FALSE]
      /\ net' = [out |-> [net.out EXCEPT ![p] = <<>>], in |-> [net.in EXCEPT ![p] = q \o u]]
      /\ el' = [el EXCEPT !.orphaned = @ \/ el.peer = p]
  BY DEF Dies
<1>3. PICK b : b = (el.orphaned \/ el.peer = p)
  OBVIOUS
<1>4. PICK e : e = [el EXCEPT !.orphaned = b]
  OBVIOUS
<1>5. el' = e /\ SameRoute(e) /\ SameView(e)
  BY <1>1, <1>2, <1>3, <1>4 DEF Element, SameRoute, SameView
<1>6. /\ \A i \in DOMAIN o : Routed(kind, el, p, o[i])
      /\ \A i \in DOMAIN q : Routed(kind, el, p, q[i])
      /\ kind = "ServiceWatcher" => Sole(q, o)
  BY DEF RestInv, RoutedNet, SoleNet
<1>7. o \in Seq(OutMsg) /\ q \in Seq(InMsg)
  BY <1>1, CountsAreNumbers
<1>8. ~up'[p] /\ \A s \in Peers : up'[s] => up[s]
  BY <1>1, <1>2
<1> HIDE DEF o, q
<1>9. u \in Seq(InMsg) /\ \E f : Erring(f, u, o)
  BY <1>7, ErrorsAnswer, ErrorsAreAnswers
<1> HIDE DEF u
<1>10. PICK f : Erring(f, u, o)
  BY <1>9
<1>11. PICK s : s = q \o u
  OBVIOUS
<1>12. Joins(s, q, u)
  BY <1>7, <1>9, <1>11, Joined
<1>13. ASSUME NEW j \in DOMAIN u PROVE Routed(kind, el, p, u[j])
  <2>1. /\ f[j] \in DOMAIN o /\ u[j].kind \in {"Answer", "Pong"}
        /\ u[j].kind = "Answer" => o[f[j]].kind = "Ask" /\ u[j].id = o[f[j]].id /\ u[j].name = o[f[j]].name
    BY <1>10 DEF Erring
  <2>2. Routed(kind, el, p, o[f[j]])
    BY <1>6, <2>1
  <2> QED BY <2>1, <2>2 DEF Routed
<1>14. \A i \in DOMAIN s : Routed(kind, el, p, s[i])
  BY ONLY <1>6, <1>12, <1>13 DEF Joins
<1>15. PICK none : none = <<>>
  OBVIOUS
<1>16. net' = [out |-> [net.out EXCEPT ![p] = none], in |-> [net.in EXCEPT ![p] = s]]
  BY <1>2, <1>11, <1>15
<1>17. DOMAIN none = {}
  BY <1>15
<1>18. ASSUME kind = "ServiceWatcher" PROVE Sole(s, none)
  <2>1. ASSUME NEW i \in DOMAIN s, NEW j \in DOMAIN s, s[i].kind = "Answer", s[j].kind = "Answer"
        PROVE  i = j
    <3>1. \/ i \in DOMAIN q /\ q[i].kind = "Answer"
          \/ \E a \in DOMAIN u : i = Len(q) + a /\ u[a].kind = "Answer"
      BY <1>12, <2>1 DEF Joins
    <3>2. \/ j \in DOMAIN q /\ q[j].kind = "Answer"
          \/ \E c \in DOMAIN u : j = Len(q) + c /\ u[c].kind = "Answer"
      BY <1>12, <2>1 DEF Joins
    <3>3. \A a \in DOMAIN u : u[a].kind = "Answer" => f[a] \in DOMAIN o /\ o[f[a]].kind = "Ask"
      BY <1>10 DEF Erring
    <3>4. \A a, c \in DOMAIN u : u[a].kind = "Answer" /\ u[c].kind = "Answer" => a = c
      <4>1. \A a, c \in DOMAIN u : f[a] = f[c] => a = c
        BY <1>10 DEF Erring
      <4> QED BY <1>6, <1>18, <3>3, <4>1 DEF Sole
    <3>5. ~(\E a \in DOMAIN u : u[a].kind = "Answer") \/ ~(\E a \in DOMAIN q : q[a].kind = "Answer")
      BY <1>6, <1>18, <3>3 DEF Sole
    <3>6. \A a, c \in DOMAIN q : q[a].kind = "Answer" /\ q[c].kind = "Answer" => a = c
      BY <1>6, <1>18 DEF Sole
    <3> QED BY <3>1, <3>2, <3>4, <3>5, <3>6
  <2> QED BY <1>17, <2>1 DEF Sole
<1>19. \A i \in DOMAIN none : Routed(kind, el, p, none[i])
  BY <1>17
<1>20. ASSUME kind \in FourKinds, el.sub # 0, up'[el.peer]
       PROVE  /\ p # el.peer
              /\ Chronicle(kind, e, truth'[el.peer][el.name], net.in[el.peer], net.out[el.peer])
  <2>1. ThisChronicle(el) /\ p # el.peer
    BY <1>1, <1>8, <1>20 DEF RestInv, ChronicleInv, ThisChronicle
  <2>2. ThisChronicle(e)
    BY <1>5, <2>1, SameChronicle DEF ThisChronicle
  <2> QED BY <1>2, <2>1, <2>2 DEF ThisChronicle
<1> QED BY <1>2, <1>5, <1>14, <1>16, <1>18, <1>19, <1>20, PeerRests

LEMMA InitRests == Init => RestInv
<1> SUFFICES ASSUME Init PROVE RestInv
  OBVIOUS
<1>1. el.sub = 0
  BY DEF Init
<1>2. ASSUME NEW p \in Peers
      PROVE  /\ \A i \in DOMAIN net.out[p] : net.out[p][i] = Ping
             /\ DOMAIN net.in[p] = {}
  <2>1. /\ net.out[p] = (IF Proxy /\ p # Session THEN <<Ping>> ELSE <<>>)
        /\ net.in[p] = <<>>
    BY DEF Init
  <2> QED BY <2>1
<1>3. RoutedNet(kind, el, net)
  BY <1>2 DEF RoutedNet, Routed, Ping
<1>4. SoleNet(kind, net)
  BY <1>2 DEF SoleNet, Sole, Ping
<1> QED BY <1>1, <1>3, <1>4 DEF RestInv, ChronicleInv

LEMMA NextRests ==
    ASSUME ~CrossAnswers, IInv, RestInv, [Next]_vars
    PROVE  RestInv'
<1>1. CASE Application
  BY <1>1, SetPeerRests, SetNameRests, SetEnabledRests, IntrospectedRests DEF Application
<1>2. CASE Environment
  BY <1>2, ChangesRests, DiesRests DEF Environment
<1>3. CASE ComponentComplete
  BY <1>3, ComponentCompleteRests
<1>4. CASE BlockingCallReturns
  BY <1>4, BlockingCallReturnsRests
<1>5. CASE SessionGate
  BY <1>5, SessionGateRests
<1>6. ASSUME NEW p \in Peers, Serve(p) \/ Deliver(p) PROVE RestInv'
  BY <1>6, ServeRests, ChangeArrivesRests, AnswerArrivesRests, PongArrivesRests DEF Deliver
<1>7. ASSUME NEW p \in Peers \ {Session}, ArmLossProbe(p) PROVE RestInv'
  BY <1>7, ArmLossProbeRests
<1>8. CASE UNCHANGED vars
  <2>1. UNCHANGED <<kind, el, net, up, truth>>
    BY <1>8 DEF vars
  <2>2. (RoutedNet(kind, el, net))' /\ (SoleNet(kind, net))'
    BY <2>1 DEF RestInv
  <2>3. ChronicleInv'
    BY <2>1 DEF RestInv, ChronicleInv
  <2> QED BY <2>2, <2>3 DEF RestInv
<1> QED BY <1>1, <1>2, <1>3, <1>4, <1>5, <1>6, <1>7, <1>8 DEF Next

\* At rest an element shows what holds where it points, unless it was refused
\* the answer: however it was moved and toggled, and whatever changed meanwhile.
\* For an object manager that does not turn to another service while an answer
\* of the old one is awaited (the code takes any answer), and a proxy that does
\* not leave the default connection while a ping of it is unanswered.
THEOREM ShowsTheTruth ==
    ASSUME ~MoveWhilePinged, ~CrossAnswers
    PROVE  Spec => []RightAtRest
<1>1. IInv /\ RestInv => RightAtRest
  <2> SUFFICES ASSUME IInv, RestInv, Quiet, Following, ~el.failed, kind # "SignalWatcher"
               PROVE  /\ el.known = LET t == truth[el.peer][el.name] IN
                                    IF kind \in {"ServiceWatcher", "Presence"} THEN t # None ELSE t
                      /\ kind = "ObjectManager" => el.ready
    BY DEF RightAtRest
  <2>1. /\ kind \in AllKinds /\ el \in Element /\ NetOK /\ el.peer \in Peers /\ kind \in FourKinds
        /\ el.name \in Names
    BY KindsAssumption DEF IInv, TypeInv, Element, AllKinds, FourKinds, Following
  <2>2. el.sub # 0 /\ up[el.peer]
    BY DEF IInv, Hooked, Following
  <2>3. PICK t : t = truth[el.peer][el.name]
    OBVIOUS
  <2>4. PICK q : q = net.in[el.peer]
    OBVIOUS
  <2>5. PICK o : o = net.out[el.peer]
    OBVIOUS
  <2>6. q \in Seq(InMsg) /\ o \in Seq(OutMsg) /\ t \in Answers
    BY <2>1, <2>3, <2>4, <2>5, CountsAreNumbers DEF IInv, TypeInv, WorldType
  <2>7. Chronicle(kind, el, t, q, o)
    BY <2>1, <2>2, <2>3, <2>4, <2>5 DEF RestInv, ChronicleInv
  <2>8. /\ \A i \in DOMAIN o : o[i].kind \notin {"Watch", "Ask"}
        /\ \A i \in DOMAIN q : q[i].kind \notin {"Answer", "Change"}
    BY <2>1, <2>4, <2>5, <2>6 DEF Quiet, Awaited, ToSet
  <2>9. el.matched
    BY <2>7, <2>8 DEF Chronicle, Unhooked, Of
  <2>10. Right(kind, el, t, q) /\ (kind = "ObjectManager" => el.ready)
    BY <2>7, <2>8 DEF Chronicle, Knowing, Asked, Of
  <2>11. \A x \in Marks : Sees(kind, el.known, x) <=> Has(kind, t, x)
    BY <2>8, <2>10 DEF Right, Agrees, Later, Turns, Of
  <2>12. el.known \in Shows
    BY <2>1 DEF Element
  <2>13. CASE Binary(kind)
    <3>1. None \in Marks /\ el.known \in BOOLEAN
      BY <2>12, <2>13 DEF Marks, Binary, Shows
    <3>2. el.known <=> t # None
      BY <2>11, <2>13, <3>1 DEF Sees, Has
    <3> QED BY <2>3, <2>10, <2>13, <3>1, <3>2 DEF Binary
  <2>14. CASE kind \in {"OwnerTracker", "ObjectManager"}
    <3>1. \A x \in Marks : Has(kind, el.known, x) <=> Has(kind, t, x)
      BY <2>11, <2>14 DEF Sees, Has, Binary
    <3>2. /\ kind = "ObjectManager" => el.known \in SUBSET Items /\ t \in SUBSET Items
          /\ kind = "OwnerTracker" => el.known \in Marks
      BY <2>6, <2>12 DEF Shows, Answers, Marks
    <3>3. PICK w : w = el.known
      OBVIOUS
    <3>4. w = t
      BY <2>14, <3>1, <3>2, <3>3, SameMarks
    <3> QED BY <2>3, <2>10, <2>14, <3>3, <3>4
  <2> QED BY <2>1, <2>13, <2>14 DEF FourKinds, Binary
<1>2. Init => IInv /\ RestInv
  BY InitLemma, InitRests
<1>3. IInv /\ RestInv /\ [Next]_vars => (IInv /\ RestInv)'
  BY NextLemma, NextRests
<1> QED BY <1>1, <1>2, <1>3, PTL DEF Spec
=============================================================================
