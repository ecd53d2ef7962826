----------------------- MODULE ProxyPropertiesProofs ------------------------
(***************************************************************************)
(* Theorems about ProxyProperties, for any number of targets, services,    *)
(* properties and values, and whatever is changed, written, refused, timed *)
(* out or pointed elsewhere: type correctness, that a property has one Set *)
(* on the wire while its record stands and none otherwise, that writes go  *)
(* where they were aimed, that the proxy does not end up deaf, and that    *)
(* its map shows, once all is quiet, what its target holds.                *)
(***************************************************************************)
EXTENDS ProxyProperties, EntriesProofs

-----------------------------------------------------------------------------
(* What is on the wire.                                                    *)

Kinds == {"Introspect", "GetAll", "Get", "Set"}
AnyValue == Values \cup {Null} \cup [Props -> Values]
Message == [kind : Kinds, to : Targets, prop : Props \cup {NoProp}, value : AnyValue,
            epoch : Nat, awaited : BOOLEAN, ok : BOOLEAN]

\* A call of one property names it, and a Set has a value for it.
Calls == {m \in Message : /\ m.kind \in {"Get", "Set"} => m.prop \in Props
                          /\ m.kind = "Set" => m.value \in Values}

\* An answer comes to who awaits it, with what was asked for.
Answers == {m \in Calls : /\ m.awaited
                          /\ m.kind = "GetAll" /\ m.ok => m.value \in [Props -> Values]
                          /\ m.kind = "Get" => m.value \in Values}
Changes == UNION {[ps -> Values] : ps \in SUBSET Props}
Signals == [kind : {"PropertiesChanged"}, changed : Changes, invalidated : Seq(Props)]
Heard == Answers \cup Signals

\* An introspection that was refused.
Refused == {m \in Answers : m.kind = "Introspect" /\ ~m.ok}
NoneIn(q, M) == \A i \in DOMAIN q : q[i] \notin M

Outgoing == [Services -> Seq(Calls)]
Incoming == [Services -> Seq(Heard)]

\* Messages that are told by what they ask, and are awaited.
Alike(m, n) == m.kind = n.kind /\ m.to = n.to /\ m.prop = n.prop /\ m.awaited = n.awaited
Awaited(M) == /\ M \in SUBSET Calls
              /\ \A m \in M : m.awaited
              /\ \A m, n \in Calls : Alike(m, n) => (m \in M <=> n \in M)

Introspects == {m \in Calls : m.kind = "Introspect" /\ m.awaited}
SetsOf(p) == {m \in Calls : m.kind = "Set" /\ m.prop = p /\ m.awaited}
Astray(p, t) == {m \in SetsOf(p) : m.to # t}

\* How many of them are on their way to s or back.
Under(rs, box, M, s) == CountOf(rs[s], M) + CountOf(box[s], M)

LEMMA KindsAwaited ==
    /\ Awaited(Introspects)
    /\ \A p, t : Awaited(SetsOf(p)) /\ Awaited(Astray(p, t))
BY DEF Awaited, Alike, Introspects, SetsOf, Astray

\* A call as it is made.
LEMMA RequestTyped ==
    /\ \A t \in Targets : /\ Request("Introspect", t, NoProp, Null, 0) \in Calls
                          /\ Request("GetAll", t, NoProp, Null, 0) \in Calls
    /\ \A t \in Targets, p \in Props, v \in Values : Request("Set", t, p, v, 0) \in Calls
    /\ \A t \in Targets, p \in Props, e \in Nat : Request("Get", t, p, Null, e) \in Calls
<1>1. \A t \in Targets : /\ Request("Introspect", t, NoProp, Null, 0) \in Calls
                         /\ Request("GetAll", t, NoProp, Null, 0) \in Calls
  BY DEF Request, Calls, Message, Kinds, AnyValue
<1>2. \A t \in Targets, p \in Props, v \in Values : Request("Set", t, p, v, 0) \in Calls
  BY DEF Request, Calls, Message, Kinds, AnyValue
<1>3. \A t \in Targets, p \in Props, e \in Nat : Request("Get", t, p, Null, e) \in Calls
  BY DEF Request, Calls, Message, Kinds, AnyValue
<1> QED BY <1>1, <1>2, <1>3

\* There is one r more.
Grown(qs, rs, r) ==
    \A M : \A s \in Services :
        CountOf(qs[s], M) = CountOf(rs[s], M) + IF r \in M /\ s = ServiceOf[r.to] THEN 1 ELSE 0

LEMMA SentKept ==
    ASSUME NEW rs \in Outgoing, NEW r \in Calls
    PROVE  Sent(rs, r) \in Outgoing /\ Grown(Sent(rs, r), rs, r)
<1>1. r.to \in Targets /\ ServiceOf[r.to] \in Services
  BY ServicesAssumption DEF Calls, Message
<1>2. \A s \in Services : rs[s] \in Seq(Calls) /\ Append(rs[s], r) \in Seq(Calls)
  BY AppendProperties DEF Outgoing
<1>3. Sent(rs, r) \in Outgoing
  BY <1>1, <1>2 DEF Sent, Outgoing
<1>4. ASSUME NEW M, NEW s \in Services
      PROVE  CountOf(Sent(rs, r)[s], M) =
                 CountOf(rs[s], M) + IF r \in M /\ s = ServiceOf[r.to] THEN 1 ELSE 0
  <2>1. CASE s = ServiceOf[r.to]
    <3>1. Sent(rs, r)[s] = Append(rs[s], r)
      BY <2>1 DEF Sent, Outgoing
    <3>2. CountOf(Append(rs[s], r), M) = CountOf(rs[s], M) + IF r \in M THEN 1 ELSE 0
      BY <1>2, CountAppend
    <3> QED BY <2>1, <3>1, <3>2
  <2>2. CASE s # ServiceOf[r.to]
    <3>1. Sent(rs, r)[s] = rs[s]
      BY <2>2 DEF Sent, Outgoing
    <3>2. CountOf(rs[s], M) \in Nat
      BY <1>2, CountType
    <3> QED BY <2>2, <3>1, <3>2
  <2> QED BY <2>1, <2>2
<1> QED BY <1>3, <1>4 DEF Grown

\* Who stops waiting for some calls waits for the others as before.
LEMMA UnawaitedKept ==
    ASSUME NEW rs \in Outgoing, NEW k, NEW p
    PROVE  /\ Unawaited(rs, k, p) \in Outgoing
           /\ \A M : Awaited(M) =>
                 /\ (\A m \in M : ~IsOf(m, k, p)) =>
                       \A s \in Services : CountOf(Unawaited(rs, k, p)[s], M) = CountOf(rs[s], M)
                 /\ (\A m \in M : IsOf(m, k, p)) =>
                       \A s \in Services : CountOf(Unawaited(rs, k, p)[s], M) = 0
<1> DEFINE f(m) == [m EXCEPT !.awaited = @ /\ ~IsOf(m, k, p)]
           u(s) == [i \in DOMAIN rs[s] |-> f(rs[s][i])]
<1>1. \A s \in Services : rs[s] \in Seq(Calls)
  BY DEF Outgoing
<1>2. \A m \in Calls : /\ f(m) \in Calls
                       /\ ~IsOf(m, k, p) => f(m) = m
                       /\ IsOf(m, k, p) => ~f(m).awaited
  <2> TAKE m \in Calls
  <2>1. IsOf(m, k, p) \in BOOLEAN
    BY DEF IsOf
  <2>2. m \in Message /\ m.awaited \in BOOLEAN
    BY DEF Calls, Message
  <2>3. PICK b \in BOOLEAN : b = (m.awaited /\ ~IsOf(m, k, p))
    BY <2>1, <2>2
  <2>4. f(m) = [m EXCEPT !.awaited = b]
    BY <2>3
  <2>5. [m EXCEPT !.awaited = b] \in Calls
    BY <2>2 DEF Calls, Message
  <2>6. ~IsOf(m, k, p) => b = m.awaited
    BY <2>2, <2>3
  <2>7. b = m.awaited => [m EXCEPT !.awaited = b] = m
    BY <2>2 DEF Message
  <2>8. IsOf(m, k, p) => ~b
    BY <2>3
  <2>9. [m EXCEPT !.awaited = b].awaited = b
    BY <2>2 DEF Message
  <2> HIDE DEF f
  <2>10. IsOf(m, k, p) => ~f(m).awaited
    BY <2>4, <2>8, <2>9
  <2>11. ~IsOf(m, k, p) => f(m) = m
    BY <2>4, <2>6, <2>7
  <2> QED BY <2>4, <2>5, <2>10, <2>11
<1>3. \A s \in Services : Unawaited(rs, k, p)[s] = u(s)
  BY DEF Unawaited
<1> HIDE DEF f
<1>4. ASSUME NEW s \in Services PROVE u(s) \in Seq(Calls) /\ DOMAIN u(s) = DOMAIN rs[s]
  <2>1. DOMAIN rs[s] = 1 .. Len(rs[s]) /\ Len(rs[s]) \in Nat /\ \A i \in DOMAIN rs[s] : rs[s][i] \in Calls
    BY <1>1, LenProperties, ElementOfSeq
  <2>2. \A i \in 1 .. Len(rs[s]) : f(rs[s][i]) \in Calls
    BY <1>2, <2>1
  <2> QED BY <2>1, <2>2, IsASeq
<1>5. Unawaited(rs, k, p) \in Outgoing
  BY <1>3, <1>4 DEF Unawaited, Outgoing
<1>6. ASSUME NEW M, Awaited(M), \A m \in M : ~IsOf(m, k, p), NEW s \in Services
      PROVE  CountOf(u(s), M) = CountOf(rs[s], M)
  <2>1. \A m \in Calls : f(m) \in M <=> m \in M
    BY <1>2, <1>6 DEF Awaited
  <2>2. \A i \in DOMAIN rs[s] : rs[s][i] \in Calls
    BY <1>1, ElementOfSeq, LenProperties
  <2>3. Hits(u(s), M) = Hits(rs[s], M)
    BY <1>4, <2>1, <2>2 DEF Hits
  <2> QED BY <2>3 DEF CountOf
<1>7. ASSUME NEW M, Awaited(M), \A m \in M : IsOf(m, k, p), NEW s \in Services
      PROVE  CountOf(u(s), M) = 0
  <2>1. \A m \in Calls : f(m) \notin M
    BY <1>2, <1>7 DEF Awaited
  <2>2. \A i \in DOMAIN rs[s] : rs[s][i] \in Calls
    BY <1>1, ElementOfSeq, LenProperties
  <2>3. \A i \in DOMAIN u(s) : u(s)[i] \notin M
    BY <1>4, <2>1, <2>2
  <2> HIDE DEF u
  <2> QED BY <1>4, <2>3, CountType
<1> HIDE DEF u
<1> QED BY <1>3, <1>5, <1>6, <1>7

\* What is taken out of the inboxes is gone, and the rest is as before.
LEMMA WithoutKept ==
    ASSUME NEW box \in Incoming, NEW k, NEW p
    PROVE  /\ Without(box, k, p) \in Incoming
           /\ \A M :
                 /\ (\A m \in M : ~IsOf(m, k, p)) =>
                       \A s \in Services : CountOf(Without(box, k, p)[s], M) = CountOf(box[s], M)
                 /\ (\A m \in M : IsOf(m, k, p)) =>
                       \A s \in Services : CountOf(Without(box, k, p)[s], M) = 0
<1> DEFINE hits(s) == {i \in DOMAIN box[s] : ~IsOf(box[s][i], k, p)}
           w(s) == EntriesAt(box[s], hits(s))
<1>1. \A s \in Services : box[s] \in Seq(Heard) /\ hits(s) \in SUBSET DOMAIN box[s]
  BY DEF Incoming
<1>2. \A s \in Services : Without(box, k, p)[s] = w(s)
  BY DEF Without
<1>3. ASSUME NEW s \in Services
      PROVE  w(s) \in Seq(Heard) /\ \E f : Traces(f, w(s), box[s], hits(s))
  <2>1. box[s] \in Seq(Heard) /\ hits(s) \in SUBSET DOMAIN box[s]
    BY <1>1
  <2> HIDE DEF hits
  <2> QED BY <2>1, EntriesKept
<1>4. Without(box, k, p) \in Incoming
  BY <1>2, <1>3 DEF Without, Incoming
<1>5. ASSUME NEW M, \A m \in M : ~IsOf(m, k, p), NEW s \in Services
      PROVE  CountOf(w(s), M) = CountOf(box[s], M)
  <2>1. PICK f : Traces(f, w(s), box[s], hits(s))
    BY <1>3
  <2>2. \A i \in DOMAIN box[s] : box[s][i] \in M => i \in hits(s)
    BY <1>5
  <2>3. w(s) \in Seq(Heard) /\ DOMAIN w(s) \in SUBSET Nat
    <3>1. w(s) \in Seq(Heard)
      BY <1>3
    <3> HIDE DEF w
    <3>2. DOMAIN w(s) = 1 .. Len(w(s))
      BY <3>1, LenProperties
    <3> QED BY <3>1, <3>2
  <2>4. box[s] \in Seq(Heard) /\ hits(s) \in SUBSET DOMAIN box[s]
    BY <1>1
  <2> HIDE DEF hits, w
  <2> QED BY <2>1, <2>2, <2>3, <2>4, CountTraced
<1>6. ASSUME NEW M, \A m \in M : IsOf(m, k, p), NEW s \in Services
      PROVE  CountOf(w(s), M) = 0
  <2>1. PICK f : Traces(f, w(s), box[s], hits(s))
    BY <1>3
  <2>2. \A j \in DOMAIN w(s) : f[j] \in hits(s) /\ w(s)[j] = box[s][f[j]]
    BY <2>1 DEF Traces
  <2>3. \A j \in DOMAIN w(s) : ~IsOf(w(s)[j], k, p)
    BY <2>2
  <2>4. \A j \in DOMAIN w(s) : w(s)[j] \notin M
    BY <1>6, <2>3
  <2> HIDE DEF w
  <2> QED BY <1>3, <2>4, CountType
<1> HIDE DEF w
<1> QED BY <1>2, <1>4, <1>5, <1>6

NoGets(M) == \A m \in M : m.kind # "Get"

Refetched(out, rs, s, names) == out = [rs EXCEPT ![s] = @ \o Refetches(names)]

\* A re-fetch sends a Get for each name.
LEMMA RefetchKept ==
    ASSUME target \in Targets, epoch \in Nat, NEW rs \in Outgoing, NEW names \in Seq(Props),
           NEW s \in Services, NEW out, Refetched(out, rs, s, names)
    PROVE  /\ out \in Outgoing
           /\ epoch + Len(names) \in Nat
           /\ \A M : NoGets(M) =>
                 \A x \in Services : CountOf(out[x], M) = CountOf(rs[x], M)
<1> DEFINE g == Refetches(names)
<1>1. /\ DOMAIN names = 1 .. Len(names) /\ Len(names) \in Nat
      /\ \A i \in DOMAIN names : names[i] \in Props
  BY LenProperties, ElementOfSeq
<1>2. \A i \in 1 .. Len(names) : Request("Get", target, names[i], Null, epoch + i) \in Calls
  <2> TAKE i \in 1 .. Len(names)
  <2>1. names[i] \in Props /\ epoch + i \in Nat
    BY <1>1
  <2> QED BY <2>1, RequestTyped
<1>3. /\ g \in Seq(Calls) /\ DOMAIN g = 1 .. Len(names)
      /\ \A i \in DOMAIN g : g[i].kind = "Get"
  <2>1. g = [i \in 1 .. Len(names) |-> Request("Get", target, names[i], Null, epoch + i)]
    BY <1>1 DEF Refetches
  <2>2. [i \in 1 .. Len(names) |-> Request("Get", target, names[i], Null, epoch + i)] \in Seq(Calls)
    BY <1>1, <1>2, IsASeq
  <2>3. \A i \in 1 .. Len(names) : Request("Get", target, names[i], Null, epoch + i).kind = "Get"
    BY DEF Request
  <2> HIDE DEF g
  <2> QED BY <2>1, <2>2, <2>3
<1>9. out = [rs EXCEPT ![s] = @ \o g]
  BY DEF Refetched
<1> HIDE DEF g
<1>4. \A x \in Services : rs[x] \in Seq(Calls)
  BY DEF Outgoing
<1>5. rs[s] \o g \in Seq(Calls)
  BY <1>3, <1>4, ConcatProperties
<1>6. out \in Outgoing
  BY <1>5, <1>9 DEF Outgoing
<1>7. ASSUME NEW M, NoGets(M), NEW x \in Services
      PROVE  CountOf(out[x], M) = CountOf(rs[x], M)
  <2>1. CountOf(g, M) = 0
    <3>1. \A i \in DOMAIN g : g[i] \notin M
      BY <1>3, <1>7 DEF NoGets
    <3> QED BY <1>3, <3>1, CountType
  <2>2. CountOf(rs[s] \o g, M) = CountOf(rs[s], M) + CountOf(g, M)
    BY <1>3, <1>4, CountConcat
  <2>3. CountOf(rs[s], M) \in Nat
    BY <1>4, CountType
  <2>4. out[x] = IF x = s THEN rs[s] \o g ELSE rs[x]
    BY <1>9 DEF Outgoing
  <2>5. CASE x = s
    <3>1. out[x] = rs[s] \o g
      BY <2>4, <2>5
    <3>2. CountOf(out[x], M) = CountOf(rs[s], M) + CountOf(g, M) /\ CountOf(rs[s], M) \in Nat
      BY <2>2, <2>3, <2>5, <3>1
    <3> QED BY <2>1, <2>5, <3>2
  <2>6. CASE x # s
    BY <2>4, <2>6
  <2> QED BY <2>5, <2>6
<1>8. epoch + Len(names) \in Nat
  BY <1>1
<1> QED BY <1>6, <1>7, <1>8

\* The first entry goes.
LEMMA TailKept ==
    ASSUME NEW S, NEW q \in [Services -> Seq(S)], NEW s \in Services, q[s] # <<>>
    PROVE  LET r == [q EXCEPT ![s] = Tail(@)]
           IN  /\ r \in [Services -> Seq(S)] /\ Head(q[s]) \in S
               /\ \A M : \A x \in Services :
                     CountOf(q[x], M) =
                         CountOf(r[x], M) + IF x = s /\ Head(q[s]) \in M THEN 1 ELSE 0
<1> DEFINE r == [q EXCEPT ![s] = Tail(@)]
<1>1. \A x \in Services : q[x] \in Seq(S)
  OBVIOUS
<1>2. Head(q[s]) \in S /\ Tail(q[s]) \in Seq(S)
  BY <1>1, HeadTailProperties
<1>3. r \in [Services -> Seq(S)]
  BY <1>1, <1>2
<1>4. ASSUME NEW M, NEW x \in Services
      PROVE  CountOf(q[x], M) = CountOf(r[x], M) + IF x = s /\ Head(q[s]) \in M THEN 1 ELSE 0
  <2>1. CountOf(q[s], M) = CountOf(Tail(q[s]), M) + IF Head(q[s]) \in M THEN 1 ELSE 0
    BY <1>1, CountTail
  <2>2. CountOf(q[x], M) \in Nat
    BY <1>1, CountType
  <2>3. r[x] = IF x = s THEN Tail(q[s]) ELSE q[x]
    OBVIOUS
  <2> HIDE DEF r
  <2>4. CASE x = s
    BY <2>1, <2>3, <2>4
  <2>5. CASE x # s
    BY <2>2, <2>3, <2>5
  <2> QED BY <2>4, <2>5
<1> QED BY <1>2, <1>3, <1>4

IsPut(r, q, s, a) == r = [q EXCEPT ![s] = @ \o a]

\* Something is added at the end.
LEMMA PutKept ==
    ASSUME NEW q \in Incoming, NEW s \in Services, NEW a \in Seq(Heard),
           NEW r, IsPut(r, q, s, a)
    PROVE  /\ r \in Incoming
           /\ \A M : CountOf(r[s], M) = CountOf(q[s], M) + CountOf(a, M)
           /\ \A x \in Services : x # s => r[x] = q[x]
<1> USE DEF IsPut
<1>1. q \in [Services -> Seq(Heard)] /\ \A x \in Services : q[x] \in Seq(Heard)
  BY DEF Incoming
<1>2. q[s] \o a \in Seq(Heard)
  BY <1>1, ConcatProperties
<1>3. r \in Incoming
  BY <1>1, <1>2 DEF Incoming
<1>4. r[s] = q[s] \o a /\ \A x \in Services : x # s => r[x] = q[x]
  BY <1>1
<1>5. \A M : CountOf(q[s] \o a, M) = CountOf(q[s], M) + CountOf(a, M)
  BY <1>1, CountConcat
<1> QED BY <1>3, <1>4, <1>5

\* A signal is no answer to anything.
LEMMA AnnouncedKept ==
    ASSUME NEW t, NEW c \in Changes, NEW n \in Seq(Props)
    PROVE  /\ Announced(t, c, n) \in Seq(Heard)
           /\ \A M \in SUBSET Calls : CountOf(Announced(t, c, n), M) = 0
<1>1. Signal(c, n) \in Heard
  BY DEF Signal, Signals, Heard
<1>2. Signal(c, n) \notin Calls
  BY DEF Signal, Calls, Message, Kinds
<1>3. <<Signal(c, n)>> \in Seq(Heard) /\ <<>> \in Seq(Heard)
  BY <1>1
<1>4. \A M \in SUBSET Calls : CountOf(<<Signal(c, n)>>, M) = 0
  BY <1>2, CountOne
<1> QED BY <1>3, <1>4, CountNone DEF Announced

LEMMA AnswerKept ==
    ASSUME NEW r \in Calls, r.awaited, NEW ok \in BOOLEAN, NEW v \in AnyValue,
           r.kind = "Set" => v \in Values,
           r.kind = "Get" => v \in Values,
           r.kind = "GetAll" /\ ok => v \in [Props -> Values]
    PROVE  Answer(r, ok, v) \in Answers /\ Alike(r, Answer(r, ok, v))
<1>1. r \in Message
  BY DEF Calls
<1>2. /\ Answer(r, ok, v) \in Message /\ Alike(r, Answer(r, ok, v))
      /\ Answer(r, ok, v).value = v /\ Answer(r, ok, v).ok = ok
  BY <1>1 DEF Message, Answer, Alike
<1> QED BY <1>2 DEF Alike, Answers, Calls

-----------------------------------------------------------------------------
(* Type correctness, and what becomes of the Sets on the wire in the steps *)
(* that neither make nor finish one.                                       *)

TypeInv == /\ TypeOK
           /\ requests \in Outgoing /\ inbox \in Incoming

\* From rs and box to qs and bin nothing happens to a Set that is awaited.
SetsStay(rs, box, qs, bin) ==
    \A p \in Props : \A M : Awaited(M) /\ M \in SUBSET SetsOf(p) =>
        \A s \in Services : Under(qs, bin, M, s) = Under(rs, box, M, s)

LEMMA TypeInit == Init => TypeInv
<1> SUFFICES ASSUME Init PROVE TypeInv
  OBVIOUS
<1>1. (CHOOSE t \in Targets : TRUE) \in Targets /\ (CHOOSE v \in Values : TRUE) \in Values
  BY DataAssumption
<1>2. requests \in Outgoing /\ inbox \in Incoming
  <2>1. requests = [s \in Services |-> <<>>] /\ inbox = [s \in Services |-> <<>>]
    BY DEF Init
  <2>2. <<>> \in Seq(Calls) /\ <<>> \in Seq(Heard)
    OBVIOUS
  <2> QED BY <2>1, <2>2 DEF Outgoing, Incoming
<1>3. TypeOK
  BY <1>1 DEF Init, TypeOK, PendingSet, NoSet
<1> QED BY <1>2, <1>3 DEF TypeInv

LEMMA SentStays ==
    ASSUME NEW rs \in Outgoing, NEW box \in Incoming, NEW r \in Calls, r.kind # "Set"
    PROVE  Sent(rs, r) \in Outgoing /\ SetsStay(rs, box, Sent(rs, r), box)
<1>1. /\ Sent(rs, r) \in Outgoing
      /\ \A M : \A s \in Services :
            CountOf(Sent(rs, r)[s], M) =
                CountOf(rs[s], M) + IF r \in M /\ s = ServiceOf[r.to] THEN 1 ELSE 0
  <2>1. Sent(rs, r) \in Outgoing /\ Grown(Sent(rs, r), rs, r)
    BY SentKept
  <2> QED BY <2>1 DEF Grown
<1>2. ASSUME NEW p \in Props, NEW M, M \in SUBSET SetsOf(p), NEW s \in Services
      PROVE  CountOf(Sent(rs, r)[s], M) = CountOf(rs[s], M)
  <2>1. r \notin M
    BY <1>2 DEF SetsOf
  <2>2. CountOf(rs[s], M) \in Nat
    BY CountType DEF Outgoing
  <2> QED BY <1>1, <2>1, <2>2
<1> QED BY <1>1, <1>2 DEF SetsStay, Under

LEMMA UnawaitedStays ==
    ASSUME NEW rs \in Outgoing, NEW box \in Incoming, NEW k, NEW q, k # "Set"
    PROVE  Unawaited(rs, k, q) \in Outgoing /\ SetsStay(rs, box, Unawaited(rs, k, q), box)
<1>1. \A p : \A m \in SetsOf(p) : ~IsOf(m, k, q)
  BY DEF SetsOf, IsOf
<1> QED BY <1>1, UnawaitedKept DEF SetsStay, Under

LEMMA WithoutStays ==
    ASSUME NEW rs \in Outgoing, NEW box \in Incoming, NEW k, NEW q, k # "Set"
    PROVE  Without(box, k, q) \in Incoming /\ SetsStay(rs, box, rs, Without(box, k, q))
<1>1. \A p : \A m \in SetsOf(p) : ~IsOf(m, k, q)
  BY DEF SetsOf, IsOf
<1> QED BY <1>1, WithoutKept DEF SetsStay, Under

LEMMA TailStays ==
    ASSUME NEW rs \in Outgoing, NEW box \in Incoming, NEW s \in Services, box[s] # <<>>,
           Head(box[s]).kind # "Set"
    PROVE  /\ [box EXCEPT ![s] = Tail(@)] \in Incoming
           /\ SetsStay(rs, box, rs, [box EXCEPT ![s] = Tail(@)])
<1> DEFINE b == [box EXCEPT ![s] = Tail(@)]
<1>1. /\ b \in Incoming
      /\ \A M : \A x \in Services :
            CountOf(box[x], M) = CountOf(b[x], M) + IF x = s /\ Head(box[s]) \in M THEN 1 ELSE 0
  BY TailKept DEF Incoming
<1>2. ASSUME NEW p \in Props, NEW M, M \in SUBSET SetsOf(p), NEW x \in Services
      PROVE  CountOf(b[x], M) = CountOf(box[x], M)
  <2>1. Head(box[s]) \notin M
    BY <1>2 DEF SetsOf
  <2>2. CountOf(b[x], M) \in Nat
    BY <1>1, CountType DEF Incoming
  <2> HIDE DEF b
  <2> QED BY <1>1, <2>1, <2>2
<1> QED BY <1>1, <1>2 DEF SetsStay, Under

LEMMA Staying ==
    ASSUME NEW rs, NEW box, NEW qs, NEW bin, NEW ts, NEW bun
    PROVE  /\ SetsStay(rs, box, rs, box)
           /\ SetsStay(rs, box, qs, bin) /\ SetsStay(qs, bin, ts, bun) => SetsStay(rs, box, ts, bun)
BY DEF SetsStay

\* The steps below neither make nor finish a Set.
Stays == TypeInv' /\ SetsStay(requests, inbox, requests', inbox')

LEMMA SubscribeStays ==
    ASSUME TypeInv, NEW rs \in Outgoing, NEW box \in Incoming, Subscribe(rs)
    PROVE  /\ requests' \in Outgoing /\ SetsStay(rs, box, requests', box)
           /\ subscribed' \in Targets \cup {Nowhere}
           /\ status' \in {"Null", "Loading", "Ready", "Error"}
<1> DEFINE r == Request("GetAll", target, NoProp, Null, 0)
<1>1. target \in Targets /\ status \in {"Null", "Loading", "Ready", "Error"}
  BY DEF TypeInv, TypeOK
<1>2. r \in Calls /\ r.kind # "Set"
  BY <1>1, RequestTyped DEF Request
<1>3. requests' = Sent(rs, r) \/ requests' = rs
  BY DEF Subscribe
<1> HIDE DEF r
<1>4. Sent(rs, r) \in Outgoing /\ SetsStay(rs, box, Sent(rs, r), box)
  BY <1>2, SentStays
<1> QED BY <1>1, <1>3, <1>4, Staying DEF Subscribe

LEMMA RepointStays == ASSUME TypeInv, NEW t \in Targets, Repoint(t) PROVE Stays
<1>1. requests \in Outgoing /\ inbox \in Incoming /\ requests' = requests
  BY DEF TypeInv, Repoint
<1>2. inbox' = Without(inbox, "PropertiesChanged", NoProp)
  BY DEF Repoint, WithoutSignals
<1>3. inbox' \in Incoming /\ SetsStay(requests, inbox, requests, inbox')
  BY <1>1, <1>2, WithoutStays
<1>4. TypeOK'
  <2>1. TypeOK
    BY DEF TypeInv
  <2>2. cache' \in [Props -> Values \cup Unsendable \cup {Null}] /\ introspected' \subseteq Targets
    BY <2>1 DEF Repoint, ForgetsXmlOrValues, TypeOK
  <2> QED BY <2>1, <2>2 DEF Repoint, switches, TypeOK
<1> QED BY <1>1, <1>3, <1>4 DEF Stays, TypeInv

LEMMA SwitchesStay ==
    ASSUME TypeInv, ServiceRegistered \/ SetSignalsEnabled \/ SetPropertiesEnabled PROVE Stays
<1>1. requests \in Outgoing /\ inbox \in Incoming /\ target \in Targets
  BY DEF TypeInv, TypeOK
<1>2. CASE ServiceRegistered
  BY <1>1, <1>2, Staying DEF ServiceRegistered, switches, Stays, TypeInv, TypeOK
<1>3. CASE SetSignalsEnabled
  <2>1. inbox' = Without(inbox, "PropertiesChanged", NoProp) /\ requests' = requests
    BY <1>3 DEF SetSignalsEnabled, WithoutSignals
  <2>2. inbox' \in Incoming /\ SetsStay(requests, inbox, requests, inbox')
    BY <1>1, <2>1, WithoutStays
  <2>3. signalsOn' \in BOOLEAN /\ queued' \in BOOLEAN
    BY <1>3 DEF SetSignalsEnabled, switches, TypeInv, TypeOK
  <2>4. TypeOK'
    BY <1>3, <2>3 DEF SetSignalsEnabled, switches, TypeInv, TypeOK
  <2> QED BY <1>1, <2>1, <2>2, <2>4 DEF Stays, TypeInv
<1>4. CASE SetPropertiesEnabled
  <2> DEFINE r == Request("GetAll", target, NoProp, Null, 0)
  <2>1. r \in Calls /\ r.kind # "Set"
    BY <1>1, RequestTyped DEF Request
  <2>2. (requests' = requests \/ requests' = Sent(requests, r)) /\ inbox' = inbox
    BY <1>4 DEF SetPropertiesEnabled
  <2> HIDE DEF r
  <2>3. Sent(requests, r) \in Outgoing /\ SetsStay(requests, inbox, Sent(requests, r), inbox)
    BY <1>1, <2>1, SentStays
  <2>4. TypeOK'
    BY <1>4 DEF SetPropertiesEnabled, switches, TypeInv, TypeOK
  <2> QED BY <1>1, <2>2, <2>3, <2>4, Staying DEF Stays, TypeInv
<1> QED BY <1>2, <1>3, <1>4

LEMMA DoIntrospectStays == ASSUME TypeInv, DoIntrospect PROVE Stays
<1> DEFINE u == AbandonIntrospection(requests)
<1>1. requests \in Outgoing /\ inbox \in Incoming /\ target \in Targets
  BY DEF TypeInv, TypeOK
<1>2. u \in Outgoing /\ SetsStay(requests, inbox, u, inbox)
  BY <1>1, UnawaitedStays DEF AbandonIntrospection
<1> HIDE DEF u
<1>3. CASE IntrospectFromCache
  <2> DEFINE b == WithoutSignals(inbox)
  <2>1. b \in Incoming /\ SetsStay(u, inbox, u, b)
    BY <1>1, <1>2, WithoutStays DEF WithoutSignals
  <2>2. inbox' = WithoutIntrospection(b) /\ Subscribe(u)
    BY <1>3 DEF IntrospectFromCache, u
  <2> HIDE DEF b
  <2>3. inbox' \in Incoming /\ SetsStay(u, b, u, inbox')
    BY <1>2, <2>1, <2>2, WithoutStays DEF WithoutIntrospection
  <2>4. /\ requests' \in Outgoing /\ SetsStay(u, inbox', requests', inbox')
        /\ subscribed' \in Targets \cup {Nowhere}
        /\ status' \in {"Null", "Loading", "Ready", "Error"}
    BY <1>2, <2>2, <2>3, SubscribeStays
  <2>5. SetsStay(requests, inbox, requests', inbox')
    BY <1>2, <2>1, <2>3, <2>4, Staying
  <2>6. TypeOK'
    BY <1>3, <2>4 DEF IntrospectFromCache, switches, TypeInv, TypeOK
  <2> QED BY <2>3, <2>4, <2>5, <2>6 DEF Stays, TypeInv
<1>4. CASE Introspect
  <2> DEFINE r == Request("Introspect", target, NoProp, Null, 0)
  <2>1. r \in Calls /\ r.kind # "Set"
    BY <1>1, RequestTyped DEF Request
  <2>2. requests' = Sent(u, r) /\ inbox' = WithoutIntrospection(inbox)
    BY <1>4 DEF Introspect, u
  <2> HIDE DEF r
  <2>3. requests' \in Outgoing /\ SetsStay(u, inbox, requests', inbox)
    BY <1>1, <1>2, <2>1, <2>2, SentStays
  <2>4. inbox' \in Incoming /\ SetsStay(requests', inbox, requests', inbox')
    BY <1>1, <2>2, <2>3, WithoutStays DEF WithoutIntrospection
  <2>5. SetsStay(requests, inbox, requests', inbox')
    BY <1>2, <2>3, <2>4, Staying
  <2>6. TypeOK'
    BY <1>4 DEF Introspect, switches, TypeInv, TypeOK
  <2> QED BY <2>3, <2>4, <2>5, <2>6 DEF Stays, TypeInv
<1> QED BY <1>3, <1>4 DEF DoIntrospect

LEMMA IntrospectReplyStays ==
    ASSUME TypeInv, NEW s \in Services, IntrospectReply(s) PROVE Stays
<1> DEFINE b == [inbox EXCEPT ![s] = Tail(@)]
           m == Head(inbox[s])
<1>1. requests \in Outgoing /\ inbox \in Incoming /\ inbox[s] # <<>> /\ m.kind = "Introspect"
  BY DEF TypeInv, IntrospectReply, Take
<1>2. b \in Incoming /\ SetsStay(requests, inbox, requests, b)
  BY <1>1, TailStays
<1>3. m \in Answers /\ m.to \in Targets
  <2>1. m \in Heard
    BY <1>1, TailKept DEF Incoming
  <2> QED BY <1>1, <2>1 DEF Heard, Answers, Signals, Calls, Message
<1>4. CASE m.ok \/ propertiesOn
  <2>1. /\ introspected' = introspected \cup (IF m.ok THEN {m.to} ELSE {})
        /\ Subscribe(requests)
        /\ inbox' = WithoutSignals(b)
    BY <1>4 DEF IntrospectReply
  <2>2. inbox' \in Incoming /\ SetsStay(requests, b, requests, inbox')
    <3> HIDE DEF b
    <3> QED BY <1>1, <1>2, <2>1, WithoutStays DEF WithoutSignals
  <2>3. /\ requests' \in Outgoing /\ SetsStay(requests, inbox', requests', inbox')
        /\ subscribed' \in Targets \cup {Nowhere}
        /\ status' \in {"Null", "Loading", "Ready", "Error"}
    BY <1>1, <2>1, <2>2, SubscribeStays
  <2>4. SetsStay(requests, inbox, requests', inbox')
    <3> HIDE DEF b
    <3> QED BY <1>2, <2>2, <2>3, Staying
  <2>5. introspected' \subseteq Targets
    BY <1>3, <2>1 DEF TypeInv, TypeOK
  <2>6. TypeOK'
    BY <2>3, <2>5 DEF IntrospectReply, switches, TypeInv, TypeOK
  <2> QED BY <2>2, <2>3, <2>4, <2>6 DEF Stays, TypeInv
<1>5. CASE ~(m.ok \/ propertiesOn)
  <2>1. inbox' = b /\ requests' = requests /\ status' = "Error" /\ UNCHANGED <<introspected, subscribed>>
    BY <1>5 DEF IntrospectReply
  <2>2. TypeOK'
    BY <2>1 DEF IntrospectReply, switches, TypeInv, TypeOK
  <2> HIDE DEF b
  <2> QED BY <1>1, <1>2, <2>1, <2>2 DEF Stays, TypeInv
<1> QED BY <1>4, <1>5

LEMMA OtherRepliesStay ==
    ASSUME TypeInv, NEW s \in Services, GetAllReply(s) \/ OnPropertiesChanged(s) \/ GetReply(s)
    PROVE  Stays
<1> DEFINE b == [inbox EXCEPT ![s] = Tail(@)]
           m == Head(inbox[s])
<1>1. requests \in Outgoing /\ inbox \in Incoming /\ target \in Targets /\ epoch \in Nat
  BY DEF TypeInv, TypeOK
<1>2. inbox[s] # <<>> /\ inbox' = b /\ m.kind \in {"GetAll", "PropertiesChanged", "Get"}
  BY DEF GetAllReply, OnPropertiesChanged, GetReply, Take, Consume
<1>3. b \in Incoming /\ SetsStay(requests, inbox, requests, b) /\ m \in Heard
  <2>1. m.kind # "Set"
    BY <1>2
  <2>2. m \in Heard
    BY <1>1, <1>2, TailKept DEF Incoming
  <2> QED BY <1>1, <1>2, <2>1, <2>2, TailStays
<1>4. CASE GetAllReply(s)
  <2>1. m.kind = "GetAll" /\ m \in Answers
    BY <1>3, <1>4 DEF GetAllReply, Take, Heard, Signals
  <2>2. cache' \in [Props -> Values \cup Unsendable \cup {Null}]
    <3>1. m.ok => m.value \in [Props -> Values]
      BY <2>1 DEF Answers
    <3> QED BY <1>4, <3>1 DEF GetAllReply, switches, TypeInv, TypeOK
  <2>3. TypeOK'
    BY <1>4, <2>2 DEF GetAllReply, switches, TypeInv, TypeOK
  <2>4. requests' = requests
    BY <1>4 DEF GetAllReply
  <2> HIDE DEF b
  <2> QED BY <1>1, <1>2, <1>3, <2>3, <2>4 DEF Stays, TypeInv
<1>5. CASE OnPropertiesChanged(s)
  <2>1. m.changed \in Changes /\ m.invalidated \in Seq(Props)
    <3>1. m.kind = "PropertiesChanged"
      BY <1>5 DEF OnPropertiesChanged, Take
    <3> QED BY <1>3, <3>1 DEF Heard, Answers, Calls, Message, Kinds, Signals
  <2>2. cache' \in [Props -> Values \cup Unsendable \cup {Null}]
    <3>1. \A p \in DOMAIN m.changed : m.changed[p] \in Values
      BY <2>1 DEF Changes
    <3>2. cache \in [Props -> Values \cup Unsendable \cup {Null}]
      BY DEF TypeInv, TypeOK
    <3>3. cache' = [p \in Props |-> IF p \in DOMAIN m.changed THEN m.changed[p] ELSE cache[p]]
      BY <1>5 DEF OnPropertiesChanged
    <3> HIDE DEF m
    <3> QED BY <3>1, <3>2, <3>3
  <2>3. /\ requests' = [requests EXCEPT ![ServiceOf[target]] = @ \o Refetches(m.invalidated)]
        /\ epoch' = epoch + Len(m.invalidated)
    BY <1>5 DEF OnPropertiesChanged, Refetch
  <2> HIDE DEF m, b
  <2>4. /\ requests' \in Outgoing /\ epoch' \in Nat
        /\ \A M : NoGets(M) =>
              \A x \in Services : CountOf(requests'[x], M) = CountOf(requests[x], M)
    <3>1. ServiceOf[target] \in Services
      BY <1>1, ServicesAssumption
    <3>2. PICK n \in Seq(Props), x \in Services, rs \in Outgoing :
             n = m.invalidated /\ x = ServiceOf[target] /\ rs = requests
      BY <1>1, <2>1, <3>1
    <3>3. PICK out : out = requests'
      OBVIOUS
    <3>4. Refetched(out, rs, x, n) /\ epoch' = epoch + Len(n)
      BY <2>3, <3>2, <3>3 DEF Refetched
    <3>5. /\ out \in Outgoing /\ epoch + Len(n) \in Nat
          /\ \A M : NoGets(M) => \A z \in Services : CountOf(out[z], M) = CountOf(rs[z], M)
      BY <1>1, <3>4, RefetchKept
    <3> QED BY <3>2, <3>3, <3>4, <3>5
  <2>5. SetsStay(requests, b, requests', b)
    <3>1. \A p, M : M \in SUBSET SetsOf(p) => NoGets(M)
      BY DEF SetsOf, NoGets
    <3> QED BY <2>4, <3>1 DEF SetsStay, Under
  <2>6. TypeOK'
    BY <1>5, <2>2, <2>4 DEF OnPropertiesChanged, switches, TypeInv, TypeOK
  <2>7. SetsStay(requests, inbox, requests', b)
    BY <1>3, <2>5, Staying
  <2> QED BY <1>2, <1>3, <2>4, <2>6, <2>7 DEF Stays, TypeInv
<1>6. CASE GetReply(s)
  <2>1. m.kind = "Get" /\ m \in Answers
    BY <1>3, <1>6 DEF GetReply, Take, Heard, Signals
  <2>2. m.value \in Values /\ m.prop \in Props
    BY <2>1 DEF Answers, Calls
  <2>3. cache' \in [Props -> Values \cup Unsendable \cup {Null}]
    BY <1>6, <2>2 DEF GetReply, switches, TypeInv, TypeOK
  <2>4. TypeOK'
    BY <1>6, <2>3 DEF GetReply, switches, TypeInv, TypeOK
  <2>5. requests' = requests
    BY <1>6 DEF GetReply
  <2> HIDE DEF b
  <2> QED BY <1>1, <1>2, <1>3, <2>4, <2>5 DEF Stays, TypeInv
<1> QED BY <1>4, <1>5, <1>6

LEMMA ChangesAre == \A ps \in SUBSET Props : \A c \in [ps -> Values] : c \in Changes
BY DEF Changes

\* What a change sends.
LEMMA ServerChangesSay ==
    ASSUME NEW t \in Targets, NEW new \in [Props -> Values], ServerChanges(t, new)
    PROVE  \E c \in Changes, n \in Seq(Props) :
              inbox' = [inbox EXCEPT ![ServiceOf[t]] = @ \o Announced(t, c, n)]
<1> DEFINE ps == {p \in Props : new[p] # server[t][p]}
<1>1. ps \in SUBSET Props /\ IsFiniteSet(ps) /\ Cardinality(ps) \in Nat
  BY PropsAssumption, FS_Subset, FS_CardinalityType
<1>2. [p \in ps |-> new[p]] \in Changes /\ <<>> \in Changes /\ <<>> \in Seq(Props)
  <2>1. [p \in ps |-> new[p]] \in [ps -> Values]
    BY <1>1
  <2>2. <<>> \in [{} -> Values] /\ {} \in SUBSET Props /\ <<>> \in Seq(Props)
    OBVIOUS
  <2> HIDE DEF ps
  <2> QED BY <1>1, <2>1, <2>2, ChangesAre
<1>3. \A names \in SetToSeqs(ps) : names \in Seq(Props)
  <2> TAKE names \in SetToSeqs(ps)
  <2>1. names \in [1 .. Cardinality(ps) -> ps]
    BY DEF SetToSeqs
  <2>2. names \in [1 .. Cardinality(ps) -> Props]
    BY <1>1, <2>1
  <2>3. names = [i \in 1 .. Cardinality(ps) |-> names[i]] /\ \A i \in 1 .. Cardinality(ps) : names[i] \in Props
    BY <2>2
  <2> HIDE DEF ps
  <2> QED BY <1>1, <2>3, IsASeq
<1> QED BY <1>2, <1>3 DEF ServerChanges

LEMMA ServerChangesStay ==
    ASSUME TypeInv, NEW t \in Targets, NEW new \in [Props -> Values], ServerChanges(t, new)
    PROVE  Stays
<1>1. requests \in Outgoing /\ inbox \in Incoming /\ ServiceOf[t] \in Services
  BY ServicesAssumption DEF TypeInv
<1>2. PICK c \in Changes, n \in Seq(Props) :
         inbox' = [inbox EXCEPT ![ServiceOf[t]] = @ \o Announced(t, c, n)]
  BY ServerChangesSay
<1>3. PICK a, x : a = Announced(t, c, n) /\ x = ServiceOf[t]
  OBVIOUS
<1>4. a \in Seq(Heard) /\ x \in Services /\ \A M \in SUBSET Calls : CountOf(a, M) = 0
  BY <1>1, <1>3, AnnouncedKept
<1>5. inbox' \in Incoming /\ SetsStay(requests, inbox, requests, inbox')
  <2>1. PICK q \in Incoming : q = inbox
    BY <1>1
  <2> DEFINE r == [q EXCEPT ![x] = @ \o a]
  <2>2. inbox' = r
    BY <1>2, <1>3, <2>1
  <2>3. /\ r \in Incoming
        /\ \A M : CountOf(r[x], M) = CountOf(q[x], M) + CountOf(a, M)
        /\ \A y \in Services : y # x => r[y] = q[y]
    <3>1. IsPut(r, q, x, a)
      BY DEF IsPut
    <3>2. a \in Seq(Heard) /\ x \in Services
      BY <1>4
    <3> HIDE DEF r
    <3> QED BY <3>1, <3>2, PutKept
  <2>4. \A M : \A y \in Services : CountOf(q[y], M) \in Nat
    BY CountType DEF Incoming
  <2> HIDE DEF r
  <2>5. ASSUME NEW p \in Props, NEW M, M \in SUBSET SetsOf(p), NEW y \in Services
        PROVE  CountOf(r[y], M) = CountOf(q[y], M)
    <3>1. CountOf(a, M) = 0
      BY <1>4, <2>5 DEF SetsOf
    <3>2. CountOf(r[x], M) = CountOf(q[x], M) + CountOf(a, M) /\ CountOf(q[x], M) \in Nat
      BY <1>4, <2>3, <2>4
    <3> QED BY <2>3, <3>1, <3>2
  <2> QED BY <2>1, <2>2, <2>3, <2>5 DEF SetsStay, Under
<1>6. server' \in [Targets -> [Props -> Values]]
  BY DEF ServerChanges, TypeInv, TypeOK
<1>7. TypeOK'
  BY <1>6 DEF ServerChanges, proxy, switches, TypeInv, TypeOK
<1>8. requests' = requests
  BY DEF ServerChanges
<1> QED BY <1>1, <1>5, <1>7, <1>8 DEF Stays, TypeInv

\* A call that is served leaves the requests, and is on its way back if it is
\* awaited; a service that refuses nothing sends no refusal.
LEMMA ServeMoves ==
    ASSUME TypeInv, NEW s \in Services, Serve(s)
    PROVE  /\ TypeInv'
           /\ \A M : Awaited(M) => \A x \in Services :
                 Under(requests', inbox', M, x) = Under(requests, inbox, M, x)
           /\ budget.refusals = 0 =>
                 \E a \in Seq(Heard) : IsPut(inbox', inbox, s, a) /\ NoneIn(a, Refused)
<1> DEFINE r == Head(requests[s])
<1>1. /\ requests \in Outgoing /\ inbox \in Incoming /\ server \in [Targets -> [Props -> Values]]
      /\ requests[s] # <<>>
  BY DEF TypeInv, TypeOK, Serve
<1>2. r \in Calls /\ [requests EXCEPT ![s] = Tail(@)] \in Outgoing
  BY <1>1, TailKept DEF Outgoing
<1>3. /\ r.kind \in Kinds /\ r.to \in Targets /\ r.value \in AnyValue /\ r.awaited \in BOOLEAN
      /\ r.kind \in {"Get", "Set"} => r.prop \in Props
      /\ r.kind = "Set" => r.value \in Values
  BY <1>2 DEF Calls, Message
<1>4. server' \in [Targets -> [Props -> Values]]
  <2>1. server[r.to] \in [Props -> Values]
    BY <1>1, <1>3
  <2>2. \/ server' = server
        \/ r.kind = "Set" /\ server' = [server EXCEPT ![r.to][r.prop] = r.value]
    BY DEF Serve
  <2> HIDE DEF r
  <2> QED BY <1>1, <1>3, <2>1, <2>2
<1>5. PICK g \in Seq(Heard), ok \in BOOLEAN, v \in AnyValue :
         /\ \A M \in SUBSET Calls : CountOf(g, M) = 0
         /\ budget.refusals = 0 => ok
         /\ r.kind = "Set" => v \in Values
         /\ r.kind = "Get" => v \in Values
         /\ r.kind = "GetAll" /\ ok => v \in [Props -> Values]
         /\ inbox' = [inbox EXCEPT ![s] = @ \o g \o
                         (IF r.awaited THEN <<Answer(r, ok, v)>> ELSE <<>>)]
  <2> DEFINE Put(g, ok, v) == inbox' = [inbox EXCEPT ![s] = @ \o g \o
                                  (IF r.awaited THEN <<Answer(r, ok, v)>> ELSE <<>>)]
  <2>1. <<>> \in Seq(Heard) /\ (\A M \in SUBSET Calls : CountOf(<<>>, M) = 0) /\ Null \in AnyValue
    BY CountNone DEF AnyValue
  <2>2. CASE r.kind = "Introspect" /\ Put(<<>>, TRUE, Null)
    BY <2>1, <2>2
  <2>3. CASE /\ r.kind \in {"Introspect", "GetAll", "Set"} /\ Put(<<>>, FALSE, r.value)
             /\ budget.refusals > 0
    <3>1. budget.refusals # 0
      BY <2>3
    <3> QED BY <1>3, <2>1, <2>3, <3>1
  <2>4. CASE r.kind = "GetAll" /\ Put(<<>>, TRUE, server[r.to])
    <3>1. server[r.to] \in [Props -> Values] /\ server[r.to] \in AnyValue
      BY <1>1, <1>3 DEF AnyValue
    <3> QED BY <2>1, <2>4, <3>1
  <2>5. CASE r.kind = "Get" /\ Put(<<>>, TRUE, server[r.to][r.prop])
    <3>1. server[r.to][r.prop] \in Values /\ server[r.to][r.prop] \in AnyValue
      <4>1. server[r.to] \in [Props -> Values] /\ r.prop \in Props
        BY <1>1, <1>3, <2>5
      <4> QED BY <4>1 DEF AnyValue
    <3> QED BY <2>1, <2>5, <3>1
  <2>6. CASE /\ r.kind = "Set"
             /\ Put(IF server[r.to][r.prop] = r.value THEN <<>>
                    ELSE Announced(r.to, [p \in {r.prop} |-> r.value], <<>>), TRUE, r.value)
    <3> DEFINE c == [p \in {r.prop} |-> r.value]
    <3>1. c \in Changes /\ <<>> \in Seq(Props)
      <4>1. c \in [{r.prop} -> Values] /\ {r.prop} \in SUBSET Props
        BY <1>3, <2>6
      <4>2. <<>> \in Seq(Props)
        OBVIOUS
      <4> HIDE DEF c
      <4> QED BY <4>1, <4>2, ChangesAre
    <3> HIDE DEF c
    <3>2. /\ Announced(r.to, c, <<>>) \in Seq(Heard)
          /\ \A M \in SUBSET Calls : CountOf(Announced(r.to, c, <<>>), M) = 0
      BY <3>1, AnnouncedKept
    <3>3. PICK g \in Seq(Heard) : /\ \A M \in SUBSET Calls : CountOf(g, M) = 0
                                  /\ Put(g, TRUE, r.value)
      BY <2>1, <2>6, <3>2 DEF c
    <3> QED BY <1>3, <2>6, <3>3
  <2>7. \/ r.kind = "Introspect" /\ Put(<<>>, TRUE, Null)
        \/ /\ r.kind \in {"Introspect", "GetAll", "Set"} /\ Put(<<>>, FALSE, r.value)
           /\ budget.refusals > 0
        \/ r.kind = "GetAll" /\ Put(<<>>, TRUE, server[r.to])
        \/ r.kind = "Get" /\ Put(<<>>, TRUE, server[r.to][r.prop])
        \/ /\ r.kind = "Set"
           /\ Put(IF server[r.to][r.prop] = r.value THEN <<>>
                  ELSE Announced(r.to, [p \in {r.prop} |-> r.value], <<>>), TRUE, r.value)
    BY DEF Serve
  <2> QED BY <2>2, <2>3, <2>4, <2>5, <2>6, <2>7
<1> DEFINE b == IF r.awaited THEN <<Answer(r, ok, v)>> ELSE <<>>
<1>6. /\ b \in Seq(Heard)
      /\ \A M : Awaited(M) => CountOf(b, M) = IF r \in M THEN 1 ELSE 0
  <2>1. CASE r.awaited
    <3>1. PICK e : e = Answer(r, ok, v)
      OBVIOUS
    <3>2. e \in Answers /\ Alike(r, e)
      BY <1>2, <1>5, <2>1, <3>1, AnswerKept
    <3>3. b = <<e>> /\ e \in Heard /\ e \in Calls
      BY <2>1, <3>1, <3>2 DEF Heard, Answers
    <3> HIDE DEF b
    <3>4. \A M : Awaited(M) => (r \in M <=> e \in M)
      BY <1>2, <3>2, <3>3 DEF Awaited
    <3> QED BY <3>3, <3>4, CountOne
  <2>2. CASE ~r.awaited
    <3>1. \A M : Awaited(M) => r \notin M
      BY <2>2 DEF Awaited
    <3> QED BY <2>2, <3>1, CountNone
  <2> QED BY <2>1, <2>2
<1>7. inbox' = [inbox EXCEPT ![s] = @ \o g \o b]
  BY <1>5
<1>8. requests' = [requests EXCEPT ![s] = Tail(@)]
  BY DEF Serve
<1>9. g \o b \in Seq(Heard) /\ \A M : Awaited(M) => CountOf(g \o b, M) = IF r \in M THEN 1 ELSE 0
  <2> HIDE DEF b, r
  <2>1. g \o b \in Seq(Heard)
    BY <1>5, <1>6, ConcatProperties
  <2>2. ASSUME NEW M, Awaited(M) PROVE CountOf(g \o b, M) = IF r \in M THEN 1 ELSE 0
    <3>1. CountOf(g \o b, M) = CountOf(g, M) + CountOf(b, M)
      BY <1>5, <1>6, CountConcat
    <3>2. CountOf(g, M) = 0 /\ CountOf(b, M) = IF r \in M THEN 1 ELSE 0
      BY <1>5, <1>6, <2>2 DEF Awaited
    <3> QED BY <3>1, <3>2
  <2> QED BY <2>1, <2>2
<1>10. PICK a \in Seq(Heard), q \in Incoming, rs \in [Services -> Seq(Calls)], e \in Calls :
          /\ a = g \o b /\ q = inbox /\ rs = requests /\ e = r
          /\ \A M : Awaited(M) => CountOf(a, M) = IF e \in M THEN 1 ELSE 0
  BY <1>1, <1>2, <1>9 DEF Outgoing
<1>11. inbox' = [q EXCEPT ![s] = @ \o a]
  <2>1. (q[s] \o g) \o b = q[s] \o (g \o b)
    <3>1. q[s] \in Seq(Heard)
      BY DEF Incoming
    <3>2. b \in Seq(Heard)
      BY <1>6
    <3> HIDE DEF b
    <3>3. PICK c \in Seq(Heard), d \in Seq(Heard) : c = q[s] /\ d = b
      BY <3>1, <3>2
    <3>4. (c \o g) \o d = c \o (g \o d)
      BY SMTT(30)
    <3> QED BY <3>3, <3>4
  <2> QED BY <1>7, <1>10, <2>1
<1> HIDE DEF b, r
<1> DEFINE bin == [q EXCEPT ![s] = @ \o a]
           out == [rs EXCEPT ![s] = Tail(@)]
<1>12. /\ bin \in Incoming
       /\ \A M : CountOf(bin[s], M) = CountOf(q[s], M) + CountOf(a, M)
       /\ \A y \in Services : y # s => bin[y] = q[y]
  <2>1. IsPut(bin, q, s, a)
    BY DEF IsPut
  <2> HIDE DEF bin
  <2> QED BY <2>1, PutKept
<1>13. /\ out \in [Services -> Seq(Calls)] /\ Head(rs[s]) = e
       /\ \A M : \A y \in Services :
             CountOf(rs[y], M) = CountOf(out[y], M) + IF y = s /\ Head(rs[s]) \in M THEN 1 ELSE 0
  <2>1. rs[s] # <<>> /\ Head(rs[s]) = e
    BY <1>1, <1>10 DEF r
  <2> QED BY <2>1, TailKept
<1>14. inbox' = bin /\ requests' = out
  BY <1>8, <1>10, <1>11
<1>15. \A M : \A y \in Services : /\ CountOf(bin[y], M) \in Nat /\ CountOf(q[y], M) \in Nat
                                  /\ CountOf(out[y], M) \in Nat /\ CountOf(rs[y], M) \in Nat
  <2> HIDE DEF bin, out
  <2> QED BY <1>12, <1>13, CountType DEF Incoming
<1> HIDE DEF bin, out
<1>16. ASSUME NEW M, Awaited(M), NEW y \in Services
       PROVE  Under(out, bin, M, y) = Under(rs, q, M, y)
  <2>1. /\ CountOf(bin[s], M) = CountOf(q[s], M) + CountOf(a, M)
        /\ y # s => bin[y] = q[y]
    BY <1>12
  <2>2. CountOf(rs[y], M) = CountOf(out[y], M) + IF y = s /\ e \in M THEN 1 ELSE 0
    BY <1>13
  <2>3. CountOf(a, M) = IF e \in M THEN 1 ELSE 0
    BY <1>10, <1>16
  <2>4. CASE y = s
    BY <1>15, <2>1, <2>2, <2>3, <2>4 DEF Under
  <2>5. CASE y # s
    BY <1>15, <2>1, <2>2, <2>5 DEF Under
  <2> QED BY <2>4, <2>5
<1>17. TypeOK'
  BY <1>4 DEF Serve, proxy, switches, TypeInv, TypeOK
<1>18. ASSUME budget.refusals = 0 PROVE IsPut(inbox', inbox, s, a) /\ NoneIn(a, Refused)
  <2>1. Refused \in SUBSET Calls
    BY DEF Refused, Answers
  <2>2. CountOf(b, Refused) = 0
    <3>1. r.awaited => Answer(r, ok, v).ok
      BY <1>2, <1>5, <1>18 DEF Answer, Calls, Message
    <3>2. \A i \in DOMAIN b : b[i] \notin Refused
      BY <3>1 DEF Refused, b
    <3> QED BY <1>6, <3>2, CountType
  <2>3. CountOf(g \o b, Refused) = CountOf(g, Refused) + CountOf(b, Refused)
    BY <1>5, <1>6, CountConcat
  <2>4. CountOf(a, Refused) = 0
    BY <1>5, <1>10, <2>1, <2>2, <2>3
  <2>5. NoneIn(a, Refused)
    BY <2>4, CountType DEF NoneIn
  <2> QED BY <1>10, <1>11, <2>5 DEF IsPut
<1> QED BY <1>10, <1>12, <1>13, <1>14, <1>16, <1>17, <1>18 DEF TypeInv, Incoming, Outgoing

-----------------------------------------------------------------------------
(* The inductive invariant.                                                *)

\* The one Set of p that is awaited, on its way to one service or back.
OneSet(rs, box, st, p) ==
    /\ ~st[p].inFlight => \A s \in Services : Under(rs, box, SetsOf(p), s) = 0
    /\ st[p].inFlight =>
          \E s \in Services : /\ Under(rs, box, SetsOf(p), s) = 1
                              /\ \A x \in Services : x # s => Under(rs, box, SetsOf(p), x) = 0

\* A record, and the Set under way, are for where the application aimed.
Aim(rs, box, st, p) ==
    st[p].inFlight => /\ st[p].for = st[p].to
                      /\ \A s \in Services : Under(rs, box, Astray(p, st[p].to), s) = 0

\* All targets are over one connection, and a property is not written at a new
\* target while the write to the old one is unanswered.
OneConnection == /\ \A t, u \in Targets : ServiceOf[t] = ServiceOf[u]
                 /\ \A t, u \in Targets : PlaceOf[t] = PlaceOf[u] => t = u
Straight == OneConnection /\ ~CrossWrites

IInv == /\ TypeInv
        /\ \A p \in Props : OneSet(requests, inbox, sets, p)
        /\ Straight => \A p \in Props : Aim(requests, inbox, sets, p)

LEMMA IInvInit == Init => IInv
<1> SUFFICES ASSUME Init PROVE IInv
  OBVIOUS
<1>1. \A p \in Props : ~sets[p].inFlight
  BY DEF Init, NoSet
<1>2. \A s \in Services : requests[s] = <<>> /\ inbox[s] = <<>>
  BY DEF Init
<1>3. \A M : \A s \in Services : Under(requests, inbox, M, s) = 0
  BY <1>2, CountNone DEF Under
<1> QED BY <1>1, <1>3, TypeInit DEF IInv, OneSet, Aim

\* A step that does nothing to a Set keeps the invariant.
LEMMA IInvStays == ASSUME IInv, Stays, sets' = sets PROVE IInv'
<1>1. ASSUME NEW p \in Props PROVE OneSet(requests, inbox, sets, p)'
  <2>1. OneSet(requests, inbox, sets, p)
    BY DEF IInv
  <2>2. \A s \in Services : Under(requests', inbox', SetsOf(p), s) = Under(requests, inbox, SetsOf(p), s)
    BY KindsAwaited DEF Stays, SetsStay
  <2> QED BY <2>1, <2>2 DEF OneSet
<1>2. ASSUME Straight, NEW p \in Props PROVE Aim(requests, inbox, sets, p)'
  <2>1. Aim(requests, inbox, sets, p)
    BY <1>2 DEF IInv
  <2>2. PICK t : t = sets[p].to
    OBVIOUS
  <2>3. Awaited(Astray(p, t)) /\ Astray(p, t) \in SUBSET SetsOf(p)
    BY KindsAwaited DEF Astray
  <2>4. \A s \in Services : Under(requests', inbox', Astray(p, t), s) = Under(requests, inbox, Astray(p, t), s)
    BY <2>3 DEF Stays, SetsStay
  <2> QED BY <2>1, <2>2, <2>4 DEF Aim
<1> QED BY <1>1, <1>2 DEF IInv, Stays

\* None of some messages, none of fewer.
LEMMA NoneOfFewer ==
    ASSUME NEW rs \in Outgoing, NEW box \in Incoming, NEW M, NEW N \in SUBSET M, NEW s \in Services,
           Under(rs, box, M, s) = 0
    PROVE  Under(rs, box, N, s) = 0
<1>1. rs[s] \in Seq(Calls) /\ box[s] \in Seq(Heard)
  BY DEF Outgoing, Incoming
<1>2. /\ CountOf(rs[s], M) \in Nat /\ CountOf(box[s], M) \in Nat
      /\ CountOf(rs[s], M) = 0 <=> \A i \in DOMAIN rs[s] : rs[s][i] \notin M
      /\ CountOf(rs[s], N) = 0 <=> \A i \in DOMAIN rs[s] : rs[s][i] \notin N
      /\ CountOf(box[s], M) = 0 <=> \A i \in DOMAIN box[s] : box[s][i] \notin M
      /\ CountOf(box[s], N) = 0 <=> \A i \in DOMAIN box[s] : box[s][i] \notin N
  BY <1>1, CountType
<1>3. CountOf(rs[s], M) = 0 /\ CountOf(box[s], M) = 0
  BY <1>2 DEF Under
<1>4. CountOf(rs[s], N) = 0 /\ CountOf(box[s], N) = 0
  BY <1>2, <1>3
<1> QED BY <1>4 DEF Under

LEMMA UnderType ==
    ASSUME NEW rs \in Outgoing, NEW box \in Incoming, NEW M, NEW s \in Services
    PROVE  Under(rs, box, M, s) \in Nat
<1>1. rs[s] \in Seq(Calls) /\ box[s] \in Seq(Heard)
  BY DEF Outgoing, Incoming
<1>2. CountOf(rs[s], M) \in Nat /\ CountOf(box[s], M) \in Nat
  BY <1>1, CountType
<1> QED BY <1>2 DEF Under

\* The records but that of p, and what is under way for them.
Others(rs, box, st, p) ==
    \A q \in Props : q # p => /\ OneSet(rs, box, st, q)
                              /\ Straight => Aim(rs, box, st, q)

\* A Set is sent where none is under way.
LEMMA SetMade ==
    ASSUME NEW p \in Props, NEW t \in Targets, NEW v \in Values,
           NEW rs \in Outgoing, NEW box \in Incoming,
           NEW st, NEW su, st[p].inFlight, \A q \in Props : q # p => st[q] = su[q],
           Straight => st[p].for = t /\ st[p].to = t,
           Others(rs, box, su, p),
           \A s \in Services : Under(rs, box, SetsOf(p), s) = 0
    PROVE  LET qs == Sent(rs, Request("Set", t, p, v, 0))
           IN  /\ qs \in Outgoing
               /\ \A q \in Props : OneSet(qs, box, st, q)
               /\ Straight => \A q \in Props : Aim(qs, box, st, q)
<1> DEFINE r == Request("Set", t, p, v, 0)
           qs == Sent(rs, r)
<1>1. r \in Calls /\ r.kind = "Set" /\ r.prop = p /\ r.to = t /\ r.awaited
  BY RequestTyped DEF Request
<1> HIDE DEF r
<1>2. /\ qs \in Outgoing
      /\ \A N : \A x \in Services :
            CountOf(qs[x], N) = CountOf(rs[x], N) + IF r \in N /\ x = ServiceOf[r.to] THEN 1 ELSE 0
  <2>1. r \in Calls
    BY <1>1
  <2>2. qs \in Outgoing /\ Grown(qs, rs, r)
    BY <2>1, SentKept
  <2> HIDE DEF qs
  <2> QED BY <2>2 DEF Grown
<1>3. ASSUME NEW M, NEW s \in Services
      PROVE  Under(qs, box, M, s) =
                 Under(rs, box, M, s) + IF r \in M /\ s = ServiceOf[t] THEN 1 ELSE 0
  <2>1. CountOf(qs[s], M) = CountOf(rs[s], M) + IF r \in M /\ s = ServiceOf[t] THEN 1 ELSE 0
    <3> HIDE DEF qs
    <3> QED BY <1>1, <1>2
  <2>2. CountOf(rs[s], M) \in Nat /\ CountOf(box[s], M) \in Nat
    BY CountType DEF Outgoing, Incoming
  <2> HIDE DEF qs
  <2> QED BY <2>1, <2>2 DEF Under
<1> HIDE DEF qs
<1>4. \A M : \A s \in Services : Under(rs, box, M, s) \in Nat
  BY UnderType
<1>5. ASSUME NEW q \in Props, q # p PROVE OneSet(qs, box, st, q) /\ (Straight => Aim(qs, box, st, q))
  <2>1. \A x : r \notin SetsOf(q) /\ r \notin Astray(q, x)
    BY <1>1, <1>5 DEF SetsOf, Astray
  <2>2. \A s \in Services : Under(qs, box, SetsOf(q), s) = Under(rs, box, SetsOf(q), s)
    BY <1>3, <1>4, <2>1
  <2>3. \A x : \A s \in Services : Under(qs, box, Astray(q, x), s) = Under(rs, box, Astray(q, x), s)
    BY <1>3, <1>4, <2>1
  <2>4. OneSet(rs, box, su, q) /\ (Straight => Aim(rs, box, su, q)) /\ st[q] = su[q]
    BY <1>5 DEF Others
  <2>5. OneSet(qs, box, st, q)
    BY <2>2, <2>4 DEF OneSet
  <2>6. Straight => Aim(qs, box, st, q)
    <3>1. PICK x : x = st[q].to
      OBVIOUS
    <3> QED BY <2>3, <2>4, <3>1 DEF Aim
  <2> QED BY <2>5, <2>6
<1>6. OneSet(qs, box, st, p)
  <2>1. r \in SetsOf(p) /\ ServiceOf[t] \in Services
    BY <1>1, ServicesAssumption DEF SetsOf
  <2>2. Under(qs, box, SetsOf(p), ServiceOf[t]) = 1
    BY <1>3, <2>1
  <2>3. \A x \in Services : x # ServiceOf[t] => Under(qs, box, SetsOf(p), x) = 0
    BY <1>3, <2>1
  <2> QED BY <2>1, <2>2, <2>3 DEF OneSet
<1>7. Straight => Aim(qs, box, st, p)
  <2>1. r \notin Astray(p, t)
    BY <1>1 DEF Astray
  <2>2. ASSUME NEW s \in Services PROVE Under(qs, box, Astray(p, t), s) = 0
    <3>1. Under(rs, box, Astray(p, t), s) = 0
      <4>1. Astray(p, t) \in SUBSET SetsOf(p) /\ Under(rs, box, SetsOf(p), s) = 0
        BY DEF Astray
      <4> QED BY <4>1, NoneOfFewer
    <3> QED BY <1>3, <2>1, <3>1
  <2> QED BY <2>2 DEF Aim
<1> QED BY <1>2, <1>5, <1>6, <1>7 DEF qs, r

\* setProperty and updateValue: a Set is sent, or folded into the one that is
\* under way.
LEMMA IInvWrite ==
    ASSUME IInv, NEW p \in Props, NEW v \in Values, NEW optimistic \in WriteKinds,
           Write(p, v, optimistic)
    PROVE  IInv'
<1>1. /\ TypeOK /\ target \in Targets /\ sets \in [Props -> PendingSet]
      /\ requests \in Outgoing /\ inbox \in Incoming
      /\ Others(requests, inbox, sets, p) /\ OneSet(requests, inbox, sets, p)
      /\ Straight => Aim(requests, inbox, sets, p)
  BY DEF IInv, TypeInv, TypeOK, Others
<1> DEFINE s == SetRecord(p, v)
<1>2. /\ s \in PendingSet /\ s.inFlight /\ s.value = v /\ s.for = target
      /\ s.to = (IF sets[p].inFlight THEN sets[p].to ELSE target)
  BY <1>1 DEF SetRecord, PendingSet
<1>3. sets' = [sets EXCEPT ![p] = s] /\ inbox' = inbox
  BY DEF Write
<1> HIDE DEF s
<1>4. sets' \in [Props -> PendingSet] /\ sets'[p] = s /\ \A q \in Props : q # p => sets'[q] = sets[q]
  BY <1>1, <1>2, <1>3
<1>5. TypeOK'
  <2>1. \A q \in Props : sets'[q].inFlight => sets'[q].to \in Targets /\ sets'[q].value \in Values
    BY <1>1, <1>2, <1>4 DEF TypeOK
  <2>2. cache' \in [Props -> Values \cup Unsendable \cup {Null}]
    BY <1>1 DEF Write, TypeOK
  <2> QED BY <1>1, <1>4, <2>1, <2>2 DEF Write, switches, TypeOK
<1>6. CASE ~sets[p].inFlight
  <2>1. requests' = Sent(requests, Request("Set", target, p, v, 0))
    BY <1>6 DEF Write, SetSent
  <2>2. PICK t \in Targets : t = target
    BY <1>1
  <2>3. \A x \in Services : Under(requests, inbox, SetsOf(p), x) = 0
    BY <1>1, <1>6 DEF OneSet
  <2>4. Straight => sets'[p].for = t /\ sets'[p].to = t
    BY <1>2, <1>4, <1>6, <2>2
  <2>5. PICK rs \in Outgoing, box \in Incoming :
           rs = requests /\ box = inbox
    BY <1>1
  <2>6. PICK st, su : st = sets' /\ su = sets
    OBVIOUS
  <2>7. /\ st[p].inFlight /\ (\A q \in Props : q # p => st[q] = su[q])
        /\ Straight => st[p].for = t /\ st[p].to = t
        /\ Others(rs, box, su, p)
        /\ \A x \in Services : Under(rs, box, SetsOf(p), x) = 0
    BY <1>1, <1>2, <1>4, <2>3, <2>4, <2>5, <2>6
  <2>8. LET qs == Sent(rs, Request("Set", t, p, v, 0))
        IN  /\ qs \in Outgoing
            /\ \A q \in Props : OneSet(qs, box, st, q)
            /\ Straight => \A q \in Props : Aim(qs, box, st, q)
    BY <2>7, SetMade
  <2> QED BY <1>1, <1>3, <1>5, <2>1, <2>2, <2>5, <2>8, <2>6 DEF IInv, TypeInv
<1>7. CASE sets[p].inFlight
  <2>1. requests' = requests /\ (CrossWrites \/ sets[p].to = target)
    BY <1>7 DEF Write, SetSent
  <2>2. OneSet(requests, inbox, sets', p)
    BY <1>1, <1>2, <1>4, <1>7 DEF OneSet
  <2>3. Straight => Aim(requests, inbox, sets', p)
    BY <1>1, <1>2, <1>4, <1>7, <2>1 DEF Straight, Aim
  <2>4. \A q \in Props : q # p => /\ OneSet(requests, inbox, sets', q)
                                  /\ Straight => Aim(requests, inbox, sets', q)
    BY <1>1, <1>4 DEF Others, OneSet, Aim
  <2> QED BY <1>1, <1>3, <1>5, <2>1, <2>2, <2>3, <2>4 DEF IInv, TypeInv
<1> QED BY <1>6, <1>7

\* A snapshot leads somewhere, and with one connection to where it was made for.
LEMMA LiveConnection ==
    ASSUME target \in Targets, NEW t \in Targets
    PROVE  OverLiveConnection(t) \in Targets /\ (OneConnection => OverLiveConnection(t) = t)
<1>1. \E x \in Targets : PlaceOf[x] = PlaceOf[t] /\ ServiceOf[x] = ServiceOf[target]
  BY PlacesAssumption
<1>2. /\ OverLiveConnection(t) \in Targets
      /\ PlaceOf[OverLiveConnection(t)] = PlaceOf[t]
  BY <1>1 DEF OverLiveConnection
<1> QED BY <1>2 DEF OneConnection

\* The end of a Set, with nothing of p under way.
LEMMA SetEndsKept ==
    ASSUME TypeInv, NEW p \in Props, sets[p].inFlight, NEW failed \in BOOLEAN,
           NEW rs \in Outgoing, NEW box \in Incoming, SetEnds(p, failed, rs),
           Others(rs, box, sets, p),
           Straight => sets[p].for = sets[p].to,
           \A s \in Services : Under(rs, box, SetsOf(p), s) = 0
    PROVE  /\ TypeOK' /\ requests' \in Outgoing
           /\ \A q \in Props : OneSet(requests', box, sets', q)
           /\ Straight => \A q \in Props : Aim(requests', box, sets', q)
<1>1. /\ TypeOK /\ target \in Targets /\ sets \in [Props -> PendingSet] /\ epoch \in Nat
      /\ sets[p] \in PendingSet /\ sets[p].to \in Targets /\ sets[p].value \in Values
  BY DEF TypeInv, TypeOK
<1>2. ASSUME NEW t \in Targets, NEW v \in Values, NEW st \in [Props -> PendingSet], st = sets',
             requests' = Sent(rs, Request("Set", t, p, v, 0)),
             st[p].inFlight, st[p].to \in Targets, st[p].value \in Values,
             \A q \in Props : q # p => st[q] = sets[q],
             Straight => st[p].for = t /\ st[p].to = t,
             cache' \in [Props -> Values \cup Unsendable \cup {Null}], epoch' \in Nat, failedSets' \subseteq Props
      PROVE  /\ TypeOK' /\ requests' \in Outgoing
             /\ \A q \in Props : OneSet(requests', box, sets', q)
             /\ Straight => \A q \in Props : Aim(requests', box, sets', q)
  <2>1. TypeOK'
    <3>1. \A q \in Props : st[q].inFlight => st[q].to \in Targets /\ st[q].value \in Values
      BY <1>1, <1>2 DEF TypeOK
    <3> QED BY <1>1, <1>2, <3>1 DEF SetEnds, switches, TypeOK
  <2>2. PICK su : su = sets
    OBVIOUS
  <2>3. /\ \A q \in Props : q # p => st[q] = su[q]
        /\ Others(rs, box, su, p)
    BY <1>2, <2>2
  <2>4. LET qs == Sent(rs, Request("Set", t, p, v, 0))
        IN  /\ qs \in Outgoing
            /\ \A q \in Props : OneSet(qs, box, st, q)
            /\ Straight => \A q \in Props : Aim(qs, box, st, q)
    BY <1>2, <2>3, SetMade
  <2> QED BY <1>2, <2>1, <2>4
<1>3. ASSUME requests' \in Outgoing, sets' = [sets EXCEPT ![p] = NoSet],
             \A M : NoGets(M) => \A s \in Services : CountOf(requests'[s], M) = CountOf(rs[s], M),
             cache' = cache, epoch' \in Nat, failedSets' \subseteq Props
      PROVE  /\ TypeOK' /\ requests' \in Outgoing
             /\ \A q \in Props : OneSet(requests', box, sets', q)
             /\ Straight => \A q \in Props : Aim(requests', box, sets', q)
  <2>1. /\ sets' \in [Props -> PendingSet] /\ ~sets'[p].inFlight
        /\ \A q \in Props : q # p => sets'[q] = sets[q]
    BY <1>1, <1>3 DEF NoSet, PendingSet
  <2>2. TypeOK'
    <3>1. \A q \in Props : sets'[q].inFlight => sets'[q].to \in Targets /\ sets'[q].value \in Values
      BY <1>1, <2>1 DEF TypeOK
    <3> QED BY <1>1, <1>3, <2>1, <3>1 DEF SetEnds, switches, TypeOK
  <2>3. \A q, x : \A s \in Services :
           /\ Under(requests', box, SetsOf(q), s) = Under(rs, box, SetsOf(q), s)
           /\ Under(requests', box, Astray(q, x), s) = Under(rs, box, Astray(q, x), s)
    <3>1. \A q, x : NoGets(SetsOf(q)) /\ NoGets(Astray(q, x))
      BY DEF NoGets, SetsOf, Astray
    <3> QED BY <1>3, <3>1 DEF Under
  <2>4. OneSet(requests', box, sets', p) /\ Aim(requests', box, sets', p)
    BY <2>1, <2>3 DEF OneSet, Aim
  <2>5. ASSUME NEW q \in Props, q # p
        PROVE  OneSet(requests', box, sets', q) /\ (Straight => Aim(requests', box, sets', q))
    <3>1. OneSet(rs, box, sets, q) /\ (Straight => Aim(rs, box, sets, q)) /\ sets'[q] = sets[q]
      BY <2>1, <2>5 DEF Others
    <3>2. OneSet(requests', box, sets', q)
      BY <2>3, <3>1 DEF OneSet
    <3>3. PICK x : x = sets[q].to
      OBVIOUS
    <3>4. Straight => Aim(requests', box, sets', q)
      BY <2>3, <3>1, <3>3 DEF Aim
    <3> QED BY <3>2, <3>4
  <2> QED BY <1>3, <2>2, <2>4, <2>5
<1>4. ASSUME /\ sets[p].queued
             /\ sets' = [sets EXCEPT ![p].queued = FALSE]
             /\ requests' = Sent(rs, Request("Set", OverLiveConnection(sets[p].to), p, sets[p].value, 0))
             /\ failedSets' = IF failed THEN failedSets \cup {p} ELSE failedSets
             /\ UNCHANGED <<epoch, cache>>
      PROVE  /\ TypeOK' /\ requests' \in Outgoing
             /\ \A q \in Props : OneSet(requests', box, sets', q)
             /\ Straight => \A q \in Props : Aim(requests', box, sets', q)
  <2>1. PICK t \in Targets : t = OverLiveConnection(sets[p].to) /\ (OneConnection => t = sets[p].to)
    <3>1. PICK x \in Targets : x = sets[p].to
      BY <1>1
    <3> QED BY <1>1, <3>1, LiveConnection
  <2>2. PICK v \in Values : v = sets[p].value
    BY <1>1
  <2>3. PICK rec : rec = [sets[p] EXCEPT !.queued = FALSE]
    OBVIOUS
  <2>4. /\ rec \in PendingSet /\ rec.inFlight /\ rec.to = sets[p].to /\ rec.for = sets[p].for
        /\ rec.value = sets[p].value
    BY <1>1, <2>3 DEF PendingSet
  <2>5. PICK st \in [Props -> PendingSet] : st = sets' /\ st[p] = rec /\ \A q \in Props : q # p => st[q] = sets[q]
    <3>1. sets' = [sets EXCEPT ![p] = rec]
      BY <1>4, <2>3
    <3> QED BY <1>1, <2>4, <3>1
  <2>6. cache' \in [Props -> Values \cup Unsendable \cup {Null}] /\ epoch' \in Nat /\ failedSets' \subseteq Props
    BY <1>1, <1>4 DEF TypeOK
  <2>7. /\ st[p].inFlight /\ st[p].to \in Targets /\ st[p].value \in Values
        /\ Straight => st[p].for = t /\ st[p].to = t
    BY <1>1, <2>1, <2>4, <2>5 DEF Straight
  <2>8. requests' = Sent(rs, Request("Set", t, p, v, 0))
    BY <1>4, <2>1, <2>2
  <2> QED BY <1>2, <2>5, <2>6, <2>7, <2>8
<1>5. CASE SetFinished(p, failed, rs) /\ UNCHANGED <<cache, budget>>
  <2>1. CASE sets[p].queued
    BY <1>4, <1>5, <2>1 DEF SetFinished
  <2>2. CASE ~sets[p].queued /\ ~failed
    <3>1. /\ sets' = [sets EXCEPT ![p] = NoSet] /\ requests' = rs
          /\ UNCHANGED <<epoch, failedSets, cache>>
      BY <1>5, <2>2 DEF SetFinished
    <3> QED BY <1>1, <1>3, <3>1 DEF TypeOK
  <2>3. CASE ~sets[p].queued /\ failed
    <3>1. /\ sets' = [sets EXCEPT ![p] = NoSet] /\ failedSets' \subseteq Props /\ cache' = cache
          /\ Refetch(rs, <<p>>)
      BY <1>1, <1>5, <2>3 DEF SetFinished, TypeOK
    <3>2. PICK n \in Seq(Props) : n = <<p>>
      <4>1. <<p>> \in Seq(Props)
        OBVIOUS
      <4> QED BY <4>1
    <3>3. PICK x \in Services : x = ServiceOf[target]
      BY <1>1, ServicesAssumption
    <3>4. PICK out : out = requests'
      OBVIOUS
    <3>5. x = ServiceOf[target] /\ out = requests' /\ n = <<p>>
      BY <3>2, <3>3, <3>4
    <3>6. Refetched(out, rs, x, n) /\ epoch' = epoch + Len(n)
      BY <3>1, <3>5 DEF Refetch, Refetched
    <3>7. /\ out \in Outgoing /\ epoch + Len(n) \in Nat
          /\ \A M : NoGets(M) => \A s \in Services : CountOf(out[s], M) = CountOf(rs[s], M)
      BY <1>1, <3>6, RefetchKept
    <3> QED BY <1>3, <3>1, <3>5, <3>6, <3>7
  <2> QED BY <2>1, <2>2, <2>3
<1>6. ASSUME failed, NEW v \in Values, NEW optimistic \in WriteKinds, WrittenAgain(p, v, optimistic, rs)
      PROVE  /\ TypeOK' /\ requests' \in Outgoing
             /\ \A q \in Props : OneSet(requests', box, sets', q)
             /\ Straight => \A q \in Props : Aim(requests', box, sets', q)
  <2>1. PICK t \in Targets : t = target
    BY <1>1
  <2>2. PICK rec : rec = [inFlight |-> TRUE, to |-> t, for |-> t, value |-> v, queued |-> FALSE]
    OBVIOUS
  <2>3. rec \in PendingSet /\ rec.inFlight /\ rec.to = t /\ rec.for = t /\ rec.value = v
    BY <2>2 DEF PendingSet
  <2>4. PICK st \in [Props -> PendingSet] : st = sets' /\ st[p] = rec /\ \A q \in Props : q # p => st[q] = sets[q]
    <3>1. sets' = [sets EXCEPT ![p] = rec]
      BY <1>6, <2>1, <2>2 DEF WrittenAgain
    <3> QED BY <1>1, <2>3, <3>1
  <2>5. cache' \in [Props -> Values \cup Unsendable \cup {Null}] /\ epoch' \in Nat /\ failedSets' \subseteq Props
    BY <1>1, <1>6 DEF WrittenAgain, TypeOK
  <2>6. requests' = Sent(rs, Request("Set", t, p, v, 0))
    BY <1>6, <2>1 DEF WrittenAgain
  <2> QED BY <1>2, <2>3, <2>4, <2>5, <2>6
<1> QED BY <1>5, <1>6 DEF SetEnds

LEMMA IInvSetReply == ASSUME IInv, NEW s \in Services, SetReply(s) PROVE IInv'
<1>1. /\ TypeInv /\ requests \in Outgoing /\ inbox \in Incoming
      /\ inbox[s] # <<>> /\ Head(inbox[s]).kind = "Set"
  BY DEF IInv, TypeInv, SetReply, Take
<1>2. PICK m, box : m = Head(inbox[s]) /\ box = [inbox EXCEPT ![s] = Tail(@)]
  OBVIOUS
<1>3. /\ box \in Incoming /\ m \in Heard
      /\ \A M : \A x \in Services :
            CountOf(inbox[x], M) = CountOf(box[x], M) + IF x = s /\ m \in M THEN 1 ELSE 0
  <2>1. PICK q \in [Services -> Seq(Heard)] : q = inbox
    BY <1>1 DEF Incoming
  <2>2. q[s] # <<>> /\ m = Head(q[s]) /\ box = [q EXCEPT ![s] = Tail(@)]
    BY <1>1, <1>2, <2>1
  <2>3. LET r == [q EXCEPT ![s] = Tail(@)]
        IN  /\ r \in [Services -> Seq(Heard)] /\ Head(q[s]) \in Heard
            /\ \A M : \A x \in Services :
                  CountOf(q[x], M) = CountOf(r[x], M) + IF x = s /\ Head(q[s]) \in M THEN 1 ELSE 0
    BY <2>2, TailKept
  <2>4. \A M : \A x \in Services :
           CountOf(q[x], M) = CountOf(box[x], M) + IF x = s /\ m \in M THEN 1 ELSE 0
    BY <2>2, <2>3
  <2>5. box \in Incoming /\ m \in Heard
    BY <2>2, <2>3 DEF Incoming
  <2> QED BY <2>1, <2>4, <2>5
<1>4. m \in Answers /\ m \in SetsOf(m.prop) /\ m.prop \in Props /\ m.ok \in BOOLEAN
  <2>1. m \in Answers
    BY <1>1, <1>2, <1>3 DEF Heard, Signals
  <2> QED BY <1>1, <1>2, <2>1 DEF Answers, SetsOf, Calls, Message
<1>5. PICK p \in Props, failed \in BOOLEAN : p = m.prop /\ failed = ~m.ok
  BY <1>4
<1>6. SetEnds(p, failed, requests) /\ inbox' = box
  <2>1. SetEnds(m.prop, ~m.ok, requests) /\ inbox' = box
    BY <1>2 DEF SetReply, Consume
  <2> QED BY <1>5, <2>1
<1>7. \A M : \A x \in Services :
         Under(requests, inbox, M, x) = Under(requests, box, M, x) + IF x = s /\ m \in M THEN 1 ELSE 0
  <2> TAKE M
  <2> TAKE x \in Services
  <2>1. CountOf(inbox[x], M) = CountOf(box[x], M) + IF x = s /\ m \in M THEN 1 ELSE 0
    BY <1>3
  <2>2. CountOf(requests[x], M) \in Nat /\ CountOf(box[x], M) \in Nat
    BY <1>1, <1>3, CountType DEF Outgoing, Incoming
  <2> QED BY <2>1, <2>2 DEF Under
<1>8. \A M : \A x \in Services : Under(requests, box, M, x) \in Nat /\ Under(requests, inbox, M, x) \in Nat
  BY <1>1, <1>3, UnderType
<1>9. OneSet(requests, inbox, sets, p) /\ (Straight => Aim(requests, inbox, sets, p))
  BY DEF IInv
<1>10. Under(requests, inbox, SetsOf(p), s) = Under(requests, box, SetsOf(p), s) + 1
  BY <1>4, <1>5, <1>7
<1>11. sets[p].inFlight
  BY <1>8, <1>9, <1>10 DEF OneSet
<1>12. \A x \in Services : Under(requests, box, SetsOf(p), x) = 0
  <2>1. PICK y \in Services : /\ Under(requests, inbox, SetsOf(p), y) = 1
                              /\ \A x \in Services : x # y => Under(requests, inbox, SetsOf(p), x) = 0
    BY <1>9, <1>11 DEF OneSet
  <2>2. y = s
    BY <1>8, <1>10, <2>1
  <2>3. Under(requests, box, SetsOf(p), s) = 0
    BY <1>8, <1>10, <2>1, <2>2
  <2>4. ASSUME NEW x \in Services, x # s PROVE Under(requests, box, SetsOf(p), x) = 0
    BY <1>7, <1>8, <2>1, <2>2, <2>4
  <2> QED BY <2>3, <2>4
<1>13. Others(requests, box, sets, p)
  <2>1. ASSUME NEW q \in Props, q # p
        PROVE  OneSet(requests, box, sets, q) /\ (Straight => Aim(requests, box, sets, q))
    <3>1. OneSet(requests, inbox, sets, q) /\ (Straight => Aim(requests, inbox, sets, q))
      BY DEF IInv
    <3>2. \A x : m \notin SetsOf(q) /\ m \notin Astray(q, x)
      BY <1>5, <2>1 DEF SetsOf, Astray
    <3>3. \A y \in Services : Under(requests, box, SetsOf(q), y) = Under(requests, inbox, SetsOf(q), y)
      BY <1>7, <1>8, <3>2
    <3>4. \A x : \A y \in Services :
             Under(requests, box, Astray(q, x), y) = Under(requests, inbox, Astray(q, x), y)
      BY <1>7, <1>8, <3>2
    <3>5. OneSet(requests, box, sets, q)
      BY <3>1, <3>3 DEF OneSet
    <3>6. PICK x : x = sets[q].to
      OBVIOUS
    <3>7. Straight => Aim(requests, box, sets, q)
      BY <3>1, <3>4, <3>6 DEF Aim
    <3> QED BY <3>5, <3>7
  <2> QED BY <2>1 DEF Others
<1>14. Straight => sets[p].for = sets[p].to
  BY <1>9, <1>11 DEF Aim
<1>15. PICK rs \in Outgoing : rs = requests
  BY <1>1
<1>16. /\ SetEnds(p, failed, rs) /\ Others(rs, box, sets, p)
       /\ \A x \in Services : Under(rs, box, SetsOf(p), x) = 0
  BY <1>6, <1>12, <1>13, <1>15
<1>17. /\ TypeOK' /\ requests' \in Outgoing
       /\ \A q \in Props : OneSet(requests', box, sets', q)
       /\ Straight => \A q \in Props : Aim(requests', box, sets', q)
  BY <1>1, <1>3, <1>11, <1>14, <1>16, SetEndsKept
<1> QED BY <1>3, <1>6, <1>17 DEF IInv, TypeInv

LEMMA IInvSetTimesOut == ASSUME IInv, NEW p \in Props, SetTimesOut(p) PROVE IInv'
<1>1. TypeInv /\ requests \in Outgoing /\ inbox \in Incoming
  BY DEF IInv, TypeInv
<1>2. PICK rs, box : rs = Unawaited(requests, "Set", p) /\ box = Without(inbox, "Set", p)
  OBVIOUS
<1>3. sets[p].inFlight /\ SetEnds(p, TRUE, rs) /\ inbox' = box
  BY <1>2 DEF SetTimesOut
<1>4. /\ rs \in Outgoing
      /\ \A M : Awaited(M) =>
            /\ (\A m \in M : ~IsOf(m, "Set", p)) =>
                  \A s \in Services : CountOf(rs[s], M) = CountOf(requests[s], M)
            /\ (\A m \in M : IsOf(m, "Set", p)) => \A s \in Services : CountOf(rs[s], M) = 0
  BY <1>1, <1>2, UnawaitedKept
<1>5. /\ box \in Incoming
      /\ \A M : /\ (\A m \in M : ~IsOf(m, "Set", p)) =>
                      \A s \in Services : CountOf(box[s], M) = CountOf(inbox[s], M)
                /\ (\A m \in M : IsOf(m, "Set", p)) => \A s \in Services : CountOf(box[s], M) = 0
  BY <1>1, <1>2, WithoutKept
<1>6. \A s \in Services : Under(rs, box, SetsOf(p), s) = 0
  <2>1. Awaited(SetsOf(p)) /\ \A m \in SetsOf(p) : IsOf(m, "Set", p)
    BY KindsAwaited DEF SetsOf, IsOf
  <2>2. \A s \in Services : CountOf(rs[s], SetsOf(p)) = 0
    BY <1>4, <2>1
  <2>3. \A s \in Services : CountOf(box[s], SetsOf(p)) = 0
    BY <1>5, <2>1
  <2> QED BY <2>2, <2>3 DEF Under
<1>7. Others(rs, box, sets, p)
  <2>1. ASSUME NEW q \in Props, q # p
        PROVE  OneSet(rs, box, sets, q) /\ (Straight => Aim(rs, box, sets, q))
    <3>1. OneSet(requests, inbox, sets, q) /\ (Straight => Aim(requests, inbox, sets, q))
      BY DEF IInv
    <3>2. ASSUME NEW M, Awaited(M), M \in SUBSET SetsOf(q), NEW s \in Services
          PROVE  Under(rs, box, M, s) = Under(requests, inbox, M, s)
      <4>1. \A m \in M : ~IsOf(m, "Set", p)
        BY <2>1, <3>2 DEF SetsOf, IsOf
      <4>2. CountOf(rs[s], M) = CountOf(requests[s], M)
        BY <1>4, <3>2, <4>1
      <4>3. CountOf(box[s], M) = CountOf(inbox[s], M)
        BY <1>5, <4>1
      <4> QED BY <4>2, <4>3 DEF Under
    <3>3. \A s \in Services : Under(rs, box, SetsOf(q), s) = Under(requests, inbox, SetsOf(q), s)
      BY <3>2, KindsAwaited
    <3>4. PICK x : x = sets[q].to
      OBVIOUS
    <3>5. Awaited(Astray(q, x)) /\ Astray(q, x) \in SUBSET SetsOf(q)
      BY KindsAwaited DEF Astray
    <3>6. \A s \in Services : Under(rs, box, Astray(q, x), s) = Under(requests, inbox, Astray(q, x), s)
      BY <3>2, <3>5
    <3>7. OneSet(rs, box, sets, q)
      BY <3>1, <3>3 DEF OneSet
    <3>8. Straight => Aim(rs, box, sets, q)
      BY <3>1, <3>4, <3>6 DEF Aim
    <3> QED BY <3>7, <3>8
  <2> QED BY <2>1 DEF Others
<1>8. Straight => sets[p].for = sets[p].to
  BY <1>3 DEF IInv, Aim
<1>9. /\ TypeOK' /\ requests' \in Outgoing
      /\ \A q \in Props : OneSet(requests', box, sets', q)
      /\ Straight => \A q \in Props : Aim(requests', box, sets', q)
  BY <1>1, <1>3, <1>4, <1>5, <1>6, <1>7, <1>8, SetEndsKept
<1> QED BY <1>3, <1>5, <1>9 DEF IInv, TypeInv

LEMMA IInvNext == IInv /\ [Next]_vars => IInv'
<1> SUFFICES ASSUME IInv, [Next]_vars PROVE IInv'
  OBVIOUS
<1>1. TypeInv
  BY DEF IInv
<1>2. ASSUME NEW t \in Targets, Repoint(t) PROVE IInv'
  <2>1. sets' = sets
    BY <1>2 DEF Repoint
  <2> QED BY <1>1, <1>2, <2>1, RepointStays, IInvStays
<1>3. CASE ServiceRegistered \/ SetSignalsEnabled \/ SetPropertiesEnabled
  <2>1. sets' = sets
    BY <1>3 DEF ServiceRegistered, SetSignalsEnabled, SetPropertiesEnabled
  <2> QED BY <1>1, <1>3, <2>1, SwitchesStay, IInvStays
<1>4. CASE DoIntrospect
  <2>1. sets' = sets
    BY <1>4 DEF DoIntrospect, IntrospectFromCache, Introspect
  <2> QED BY <1>1, <1>4, <2>1, DoIntrospectStays, IInvStays
<1>5. ASSUME NEW t \in Targets, NEW new \in [Props -> Values], ServerChanges(t, new) PROVE IInv'
  <2>1. sets' = sets
    BY <1>5 DEF ServerChanges, proxy
  <2> QED BY <1>1, <1>5, <2>1, ServerChangesStay, IInvStays
<1>6. ASSUME NEW s \in Services, Serve(s) PROVE IInv'
  <2>1. sets' = sets
    BY <1>6 DEF Serve, proxy
  <2>2. Stays
    BY <1>1, <1>6, ServeMoves DEF Stays, SetsStay
  <2> QED BY <2>1, <2>2, IInvStays
<1>7. ASSUME NEW s \in Services, IntrospectReply(s) PROVE IInv'
  <2>1. sets' = sets
    BY <1>7 DEF IntrospectReply
  <2> QED BY <1>1, <1>7, <2>1, IntrospectReplyStays, IInvStays
<1>8. ASSUME NEW s \in Services, GetAllReply(s) \/ OnPropertiesChanged(s) \/ GetReply(s) PROVE IInv'
  <2>1. sets' = sets
    BY <1>8 DEF GetAllReply, OnPropertiesChanged, GetReply
  <2> QED BY <1>1, <1>8, <2>1, OtherRepliesStay, IInvStays
<1>9. CASE UNCHANGED vars
  <2>1. UNCHANGED <<target, switches, status, queued, introspected, subscribed, cache, epoch, sets,
                    failedSets, requests, inbox, server, budget>>
    BY <1>9 DEF vars, proxy
  <2>2. TypeInv'
    BY <1>1, <2>1 DEF TypeInv, TypeOK, switches
  <2>3. Stays /\ sets' = sets
    BY <2>1, <2>2, Staying DEF Stays
  <2> QED BY <2>3, IInvStays
<1>10. ASSUME NEW p \in Props, NEW v \in Unsendable, WriteDropped(p, v) PROVE IInv'
  <2>1. /\ cache' = [cache EXCEPT ![p] = v]
        /\ UNCHANGED <<target, switches, status, queued, introspected, subscribed, epoch, sets,
                       failedSets, requests, inbox, server>>
    BY <1>10 DEF WriteDropped
  <2>2. TypeInv'
    BY <1>1, <2>1 DEF TypeInv, TypeOK, switches
  <2>3. Stays /\ sets' = sets
    BY <2>1, <2>2, Staying DEF Stays
  <2> QED BY <2>3, IInvStays
<1> QED BY <1>2, <1>3, <1>4, <1>5, <1>6, <1>7, <1>8, <1>9, <1>10,
           IInvWrite, IInvSetReply, IInvSetTimesOut
        DEF Next, Application, Deliver

LEMMA IInvAlways == Init /\ [][Next]_vars => []IInv
BY IInvInit, IInvNext, PTL

-----------------------------------------------------------------------------
(* What it means for the messages on the wire.                             *)

LEMMA WireHits ==
    ASSUME TypeInv, NEW M \in SUBSET Calls, NEW s \in Services
    PROVE  /\ Wire(s) \in Seq(Calls \cup Heard)
           /\ CountOf(Wire(s), M) = Under(requests, inbox, M, s)
<1>1. requests[s] \in Seq(Calls) /\ inbox[s] \in Seq(Heard)
  BY DEF TypeInv, Outgoing, Incoming
<1>2. PICK T : T = Calls \cup Heard
  OBVIOUS
<1>3. requests[s] \in Seq(T) /\ inbox[s] \in Seq(T)
  <2>1. PICK q \in Seq(Calls), r \in Seq(Heard) : q = requests[s] /\ r = inbox[s]
    BY <1>1
  <2>2. q \in Seq(T) /\ r \in Seq(T)
    <3>1. \A i \in 1 .. Len(q) : q[i] \in T
      BY <1>2
    <3>2. \A i \in 1 .. Len(r) : r[i] \in T
      BY <1>2
    <3> QED BY <3>1, <3>2
  <2> QED BY <2>1, <2>2
<1>4. requests[s] \o inbox[s] \in Seq(T)
  BY <1>3, ConcatProperties
<1>5. CountOf(requests[s] \o inbox[s], M) = CountOf(requests[s], M) + CountOf(inbox[s], M)
  BY <1>3, CountConcat
<1> QED BY <1>2, <1>4, <1>5 DEF Wire, Under

LEMMA AwaitedSetsAre ==
    ASSUME TypeInv, NEW p \in Props
    PROVE  AwaitedSets(p) = UNION {{<<s, i>> : i \in Hits(Wire(s), SetsOf(p))} : s \in Services}
<1>1. ASSUME NEW s \in Services, NEW k \in DOMAIN Wire(s)
      PROVE  (LET m == Wire(s)[k] IN m.kind = "Set" /\ m.prop = p /\ m.awaited) <=> Wire(s)[k] \in SetsOf(p)
  <2>1. Wire(s) \in Seq(Calls \cup Heard)
    <3>1. {} \in SUBSET Calls
      OBVIOUS
    <3> QED BY <3>1, WireHits
  <2>2. PICK m : m = Wire(s)[k] /\ m \in Calls \cup Heard
    BY <2>1, ElementOfSeq, LenProperties
  <2>3. m.kind = "Set" => m \in Calls
    BY <2>2 DEF Heard, Answers, Signals
  <2>4. (m.kind = "Set" /\ m.prop = p /\ m.awaited) <=> m \in SetsOf(p)
    BY <2>3 DEF SetsOf
  <2> QED BY <2>2, <2>4
<1>2. \A s \in Services :
         {k \in DOMAIN Wire(s) : LET m == Wire(s)[k] IN m.kind = "Set" /\ m.prop = p /\ m.awaited}
             = Hits(Wire(s), SetsOf(p))
  BY <1>1 DEF Hits
<1> QED BY <1>2 DEF AwaitedSets

LEMMA OneSetInside == IInv => OneSetOnTheWire
<1> SUFFICES ASSUME IInv, NEW p \in Props
             PROVE  Cardinality(AwaitedSets(p)) = IF sets[p].inFlight THEN 1 ELSE 0
  BY DEF OneSetOnTheWire
<1> DEFINE hits(s) == Hits(Wire(s), SetsOf(p))
           n(s) == Under(requests, inbox, SetsOf(p), s)
<1>1. TypeInv /\ OneSet(requests, inbox, sets, p)
  BY DEF IInv
<1>2. SetsOf(p) \in SUBSET Calls
  BY DEF SetsOf
<1>3. ASSUME NEW s \in Services
      PROVE  /\ IsFiniteSet(hits(s)) /\ Cardinality(hits(s)) = n(s)
             /\ n(s) = 0 => hits(s) = {}
  <2>1. Wire(s) \in Seq(Calls \cup Heard) /\ CountOf(Wire(s), SetsOf(p)) = n(s)
    BY <1>1, <1>2, WireHits
  <2>2. /\ IsFiniteSet(Hits(Wire(s), SetsOf(p)))
        /\ CountOf(Wire(s), SetsOf(p)) = 0 <=> \A i \in DOMAIN Wire(s) : Wire(s)[i] \notin SetsOf(p)
    BY <2>1, CountType
  <2> QED BY <2>1, <2>2 DEF CountOf, Hits
<1>4. AwaitedSets(p) = UNION {{<<s, i>> : i \in hits(s)} : s \in Services}
  BY <1>1, AwaitedSetsAre
<1> HIDE DEF hits, n
<1>5. CASE ~sets[p].inFlight
  <2>1. \A s \in Services : hits(s) = {}
    BY <1>1, <1>3, <1>5 DEF OneSet, n
  <2>2. AwaitedSets(p) = {}
    BY <1>4, <2>1
  <2> QED BY <1>5, <2>2, FS_EmptySet
<1>6. CASE sets[p].inFlight
  <2>1. PICK s \in Services : n(s) = 1 /\ \A x \in Services : x # s => n(x) = 0
    BY <1>1, <1>6 DEF OneSet, n
  <2>2. PICK i : hits(s) = {i}
    BY <1>3, <2>1, FS_Singleton
  <2>3. \A x \in Services : x # s => hits(x) = {}
    BY <1>3, <2>1
  <2>4. AwaitedSets(p) = {<<s, i>>}
    BY <1>4, <2>2, <2>3
  <2> QED BY <1>6, <2>4, FS_Singleton
<1> QED BY <1>5, <1>6

LEMMA AimInside == ASSUME Straight, IInv PROVE WritesGoWhereAimed
<1> SUFFICES ASSUME NEW p \in Props, sets[p].inFlight
             PROVE  /\ sets[p].for = sets[p].to
                    /\ \A x \in AwaitedSets(p) : Wire(x[1])[x[2]].to = sets[p].for
  BY DEF WritesGoWhereAimed
<1>1. TypeInv /\ Aim(requests, inbox, sets, p)
  BY DEF IInv
<1>2. PICK t : t = sets[p].to
  OBVIOUS
<1>3. sets[p].for = t /\ \A s \in Services : Under(requests, inbox, Astray(p, t), s) = 0
  BY <1>1, <1>2 DEF Aim
<1>4. ASSUME NEW x \in AwaitedSets(p) PROVE Wire(x[1])[x[2]].to = t
  <2>1. PICK s \in Services : \E i \in Hits(Wire(s), SetsOf(p)) : x = <<s, i>>
    BY <1>1, AwaitedSetsAre
  <2>2. PICK i \in Hits(Wire(s), SetsOf(p)) : x = <<s, i>>
    BY <2>1
  <2>3. i \in DOMAIN Wire(s) /\ Wire(s)[i] \in SetsOf(p)
    BY <2>2 DEF Hits
  <2>4. Astray(p, t) \in SUBSET Calls
    BY DEF Astray, SetsOf
  <2>5. Wire(s) \in Seq(Calls \cup Heard) /\ CountOf(Wire(s), Astray(p, t)) = 0
    BY <1>1, <1>3, <2>4, WireHits
  <2>6. Wire(s)[i] \notin Astray(p, t)
    BY <2>3, <2>5, CountType
  <2> QED BY <2>2, <2>3, <2>6 DEF Astray
<1> QED BY <1>2, <1>3, <1>4

-----------------------------------------------------------------------------
(* Why the proxy does not end up deaf: it listens, or its introspection is *)
(* due or awaited, and no refused introspection reaches a proxy that is    *)
(* for methods only.                                                       *)

\* Nothing is switched on or off, or nothing is refused.
Steady == \A b \in Budgets : b.switches = 0 \/ b.refusals = 0

BudgetType == budget \in [changes : Nat, writes : Nat, restarts : Nat, switches : Nat, refusals : Nat]

\* None of M is on its way to the proxy.
Free(box, M) == \A s \in Services : NoneIn(box[s], M)
NoRefusal(box) == Free(box, Refused)

Lenient == \/ budget.switches = 0 /\ propertiesOn
           \/ budget.refusals = 0 /\ NoRefusal(inbox)

Listens ==
    \/ signalsOn /\ subscribed = target
    \/ /\ subscribed = Nowhere
       /\ \/ queued \/ ~signalsOn
          \/ \E s \in Services : Under(requests, inbox, Introspects, s) # 0

DeafInv == BudgetType /\ Lenient /\ Listens

\* A bound that is used up stays so, and without switches the proxy keeps its
\* properties.
LEMMA Spent ==
    ASSUME BudgetType, [Next]_vars
    PROVE  /\ BudgetType'
           /\ \/ budget'.switches = budget.switches /\ propertiesOn' = propertiesOn
              \/ budget.switches > 0 /\ budget'.switches = budget.switches - 1
           /\ budget.refusals = 0 => budget'.refusals = 0
<1> USE DEF BudgetType
<1>1. ASSUME NEW t \in Targets, Repoint(t) PROVE
        /\ BudgetType' /\ budget'.switches = budget.switches /\ budget'.refusals = budget.refusals
        /\ propertiesOn' = propertiesOn
  BY <1>1 DEF Repoint, switches
<1>2. CASE ServiceRegistered
  BY <1>2 DEF ServiceRegistered, switches
<1>3. CASE SetSignalsEnabled
  BY <1>3 DEF SetSignalsEnabled
<1>4. CASE SetPropertiesEnabled
  BY <1>4 DEF SetPropertiesEnabled
<1>5. CASE DoIntrospect
  BY <1>5 DEF DoIntrospect, IntrospectFromCache, Introspect, switches
<1>6. ASSUME NEW p \in Props, NEW v \in Values, NEW optimistic \in WriteKinds, Write(p, v, optimistic)
      PROVE  /\ BudgetType' /\ budget'.switches = budget.switches /\ budget'.refusals = budget.refusals
             /\ propertiesOn' = propertiesOn
  BY <1>6 DEF Write, switches
<1>7. ASSUME NEW p, NEW failed, NEW rs, SetEnds(p, failed, rs)
      PROVE  /\ BudgetType' /\ budget'.switches = budget.switches /\ budget'.refusals = budget.refusals
             /\ propertiesOn' = propertiesOn
  BY <1>7 DEF SetEnds, WrittenAgain, switches
<1>8. ASSUME NEW t \in Targets, NEW new \in [Props -> Values], ServerChanges(t, new) PROVE
        /\ BudgetType' /\ budget'.switches = budget.switches /\ budget'.refusals = budget.refusals
        /\ propertiesOn' = propertiesOn
  BY <1>8 DEF ServerChanges, proxy, switches
<1>9. ASSUME NEW s \in Services, Serve(s)
      PROVE  /\ BudgetType' /\ budget'.switches = budget.switches
             /\ budget.refusals = 0 => budget'.refusals = 0
             /\ propertiesOn' = propertiesOn
  <2>1. propertiesOn' = propertiesOn
    BY <1>9 DEF Serve, proxy, switches
  <2>2. \/ budget' = budget
        \/ budget.refusals > 0 /\ budget' = [budget EXCEPT !.refusals = @ - 1]
    BY <1>9 DEF Serve
  <2> QED BY <2>1, <2>2
<1>10. ASSUME NEW s \in Services, IntrospectReply(s) \/ GetAllReply(s) \/ OnPropertiesChanged(s) \/ GetReply(s)
       PROVE  budget' = budget /\ propertiesOn' = propertiesOn
  BY <1>10 DEF IntrospectReply, GetAllReply, OnPropertiesChanged, GetReply, switches
<1>11. CASE UNCHANGED vars
  BY <1>11 DEF vars, proxy, switches
<1>12. ASSUME NEW p \in Props, NEW v \in Unsendable, WriteDropped(p, v)
       PROVE  /\ BudgetType' /\ budget'.switches = budget.switches /\ budget'.refusals = budget.refusals
              /\ propertiesOn' = propertiesOn
  BY <1>12 DEF WriteDropped, switches
<1> QED BY <1>1, <1>2, <1>3, <1>4, <1>5, <1>6, <1>7, <1>8, <1>9, <1>10, <1>11, <1>12
        DEF Next, Application, Deliver, SetReply, SetTimesOut

LEMMA NoneParts ==
    ASSUME NEW T, NEW q \in Seq(T), NEW M, NoneIn(q, M)
    PROVE  /\ q # <<>> => NoneIn(Tail(q), M) /\ Head(q) \notin M
           /\ \A r \in Seq(T) : NoneIn(r, M) => NoneIn(q \o r, M)
BY DEF NoneIn

LEMMA NoneLeft ==
    ASSUME NEW box \in Incoming, NEW k, NEW p, NEW M, Free(box, M)
    PROVE  Free(Without(box, k, p), M)
<1> SUFFICES ASSUME NEW s \in Services PROVE NoneIn(Without(box, k, p)[s], M)
  BY DEF Free
<1>1. PICK q \in Seq(Heard) : q = box[s]
  BY DEF Incoming
<1>2. PICK hits \in SUBSET DOMAIN q : hits = {i \in DOMAIN q : ~IsOf(q[i], k, p)}
  OBVIOUS
<1>3. Without(box, k, p)[s] = EntriesAt(q, hits)
  BY <1>1, <1>2 DEF Without
<1>4. PICK f : Traces(f, EntriesAt(q, hits), q, hits)
  BY EntriesKept
<1>5. \A j \in DOMAIN EntriesAt(q, hits) : f[j] \in hits /\ EntriesAt(q, hits)[j] = q[f[j]]
  BY <1>4 DEF Traces
<1>6. NoneIn(q, M)
  BY <1>1 DEF Free
<1> QED BY <1>3, <1>5, <1>6 DEF NoneIn

LEMMA NoneTaken ==
    ASSUME NEW box \in Incoming, NEW s \in Services, box[s] # <<>>, NEW M, Free(box, M)
    PROVE  Free([box EXCEPT ![s] = Tail(@)], M)
<1>1. \A x \in Services : box[x] \in Seq(Heard) /\ NoneIn(box[x], M)
  BY DEF Incoming, Free
<1>2. NoneIn(Tail(box[s]), M)
  BY <1>1, NoneParts
<1> QED BY <1>1, <1>2 DEF Free, Incoming

LEMMA NonePut ==
    ASSUME NEW box \in Incoming, NEW s \in Services, NEW M, NEW a \in Seq(Heard), NoneIn(a, M), Free(box, M),
           NEW r, IsPut(r, box, s, a)
    PROVE  Free(r, M)
<1>1. \A x \in Services : box[x] \in Seq(Heard) /\ NoneIn(box[x], M)
  BY DEF Incoming, Free
<1>2. NoneIn(box[s] \o a, M)
  BY <1>1, NoneParts
<1> QED BY <1>1, <1>2 DEF Free, Incoming, IsPut

\* A signal is not a refusal.
LEMMA NoneAnnounced ==
    ASSUME NEW t, NEW c, NEW n PROVE NoneIn(Announced(t, c, n), Refused)
<1>1. Signal(c, n) \notin Refused
  BY DEF Signal, Refused, Answers, Calls, Message, Kinds
<1> QED BY <1>1 DEF Announced, NoneIn

\* What the services do not say does not turn up.
LEMMA NoneNext ==
    ASSUME TypeInv, NEW M, Free(inbox, M), [Next]_vars,
           \A t \in Targets, new \in [Props -> Values] : ServerChanges(t, new) => Free(inbox', M),
           \A s \in Services : Serve(s) => Free(inbox', M)
    PROVE  Free(inbox', M)
<1>1. PICK box \in Incoming : box = inbox
  BY DEF TypeInv
<1>2. Free(box, M)
  BY <1>1
<1>3. \A k : \A p : Free(Without(box, k, p), M)
  BY <1>2, NoneLeft
<1>4. ASSUME NEW s \in Services, box[s] # <<>>
      PROVE  /\ [box EXCEPT ![s] = Tail(@)] \in Incoming
             /\ Free([box EXCEPT ![s] = Tail(@)], M)
  <2>1. [box EXCEPT ![s] = Tail(@)] \in Incoming
    BY <1>4, TailKept DEF Incoming
  <2> QED BY <1>2, <1>4, <2>1, NoneTaken
<1>5. ASSUME NEW t \in Targets, Repoint(t) PROVE Free(inbox', M)
  BY <1>1, <1>3, <1>5 DEF Repoint, WithoutSignals
<1>6. CASE ServiceRegistered \/ SetPropertiesEnabled \/ UNCHANGED vars
  BY <1>1, <1>2, <1>6 DEF ServiceRegistered, SetPropertiesEnabled, vars
<1>7. CASE SetSignalsEnabled
  BY <1>1, <1>3, <1>7 DEF SetSignalsEnabled, WithoutSignals
<1>8. CASE DoIntrospect
  <2>1. CASE IntrospectFromCache
    <3>1. PICK bin : bin = Without(box, "PropertiesChanged", NoProp)
      OBVIOUS
    <3>2. bin \in Incoming /\ Free(bin, M)
      BY <1>3, <3>1, WithoutKept
    <3>3. inbox' = Without(bin, "Introspect", NoProp)
      BY <1>1, <2>1, <3>1 DEF IntrospectFromCache, WithoutIntrospection, WithoutSignals
    <3> QED BY <3>2, <3>3, NoneLeft
  <2>2. CASE Introspect
    BY <1>1, <1>3, <2>2 DEF Introspect, WithoutIntrospection
  <2> QED BY <1>8, <2>1, <2>2 DEF DoIntrospect
<1>9. ASSUME NEW p \in Props, NEW v \in Values, NEW optimistic \in WriteKinds, Write(p, v, optimistic)
      PROVE  Free(inbox', M)
  BY <1>1, <1>2, <1>9 DEF Write
<1>10. ASSUME NEW p \in Props, SetTimesOut(p) PROVE Free(inbox', M)
  BY <1>1, <1>3, <1>10 DEF SetTimesOut
<1>11. ASSUME NEW s \in Services, Deliver(s) PROVE Free(inbox', M)
  <2>1. box[s] # <<>>
    BY <1>1, <1>11 DEF Deliver, IntrospectReply, GetAllReply, OnPropertiesChanged, GetReply, SetReply, Take
  <2>2. PICK bin : bin = [box EXCEPT ![s] = Tail(@)]
    OBVIOUS
  <2>3. bin \in Incoming /\ Free(bin, M)
    BY <1>4, <2>1, <2>2
  <2>4. inbox' = bin \/ inbox' = Without(bin, "PropertiesChanged", NoProp)
    BY <1>1, <1>11, <2>2 DEF Deliver, IntrospectReply, GetAllReply, OnPropertiesChanged, GetReply, SetReply,
                             Consume, WithoutSignals
  <2> QED BY <2>3, <2>4, NoneLeft
<1>12. ASSUME NEW p \in Props, NEW v \in Unsendable, WriteDropped(p, v) PROVE Free(inbox', M)
  BY <1>1, <1>2, <1>12 DEF WriteDropped
<1> QED BY <1>5, <1>6, <1>7, <1>8, <1>9, <1>10, <1>11, <1>12 DEF Next, Application

\* Where nothing is refused no refusal turns up.
LEMMA NoRefusalNext ==
    ASSUME TypeInv, budget.refusals = 0, NoRefusal(inbox), [Next]_vars
    PROVE  NoRefusal(inbox')
<1>1. PICK box \in Incoming : box = inbox
  BY DEF TypeInv
<1>2. Free(box, Refused)
  BY <1>1 DEF NoRefusal
<1>3. ASSUME NEW t \in Targets, NEW new \in [Props -> Values], ServerChanges(t, new)
       PROVE  Free(inbox', Refused)
  <2>1. PICK s \in Services : s = ServiceOf[t]
    BY ServicesAssumption
  <2>2. PICK c \in Changes, n \in Seq(Props) :
           inbox' = [inbox EXCEPT ![ServiceOf[t]] = @ \o Announced(t, c, n)]
    BY <1>3, ServerChangesSay
  <2>3. PICK a, bin : a = Announced(t, c, n) /\ bin = inbox'
    OBVIOUS
  <2>4. a \in Seq(Heard) /\ NoneIn(a, Refused)
    BY <2>3, AnnouncedKept, NoneAnnounced
  <2>5. IsPut(bin, box, s, a)
    BY <1>1, <2>1, <2>2, <2>3 DEF IsPut
  <2> QED BY <1>2, <2>3, <2>4, <2>5, NonePut
<1>4. ASSUME NEW s \in Services, Serve(s) PROVE Free(inbox', Refused)
  <2>1. PICK a \in Seq(Heard) : IsPut(inbox', inbox, s, a) /\ NoneIn(a, Refused)
    BY <1>4, ServeMoves
  <2>2. PICK bin : bin = inbox'
    OBVIOUS
  <2>3. IsPut(bin, box, s, a)
    BY <1>1, <2>1, <2>2
  <2> QED BY <1>2, <2>1, <2>2, <2>3, NonePut
<1> QED BY <1>3, <1>4, NoneNext DEF NoRefusal

\* A call that is none of M is not counted.
LEMMA SentOther ==
    ASSUME NEW rs \in Outgoing, NEW M, NEW r, r \notin M, NEW s \in Services
    PROVE  CountOf(Sent(rs, r)[s], M) = CountOf(rs[s], M)
<1>1. PICK T : T = Calls \cup {r}
  OBVIOUS
<1>2. PICK q \in Seq(T) : q = rs[s]
  <2>1. rs[s] \in Seq(Calls)
    BY DEF Outgoing
  <2>2. PICK q \in Seq(Calls) : q = rs[s]
    BY <2>1
  <2>3. \A i \in 1 .. Len(q) : q[i] \in T
    BY <1>1
  <2>4. q \in Seq(T)
    BY <2>3
  <2> QED BY <2>2, <2>4
<1>3. CASE s = ServiceOf[r.to]
  <2>1. Sent(rs, r)[s] = Append(q, r)
    BY <1>2, <1>3 DEF Sent, Outgoing
  <2>2. r \in T /\ r \notin M
    BY <1>1
  <2>3. CountOf(Append(q, r), M) = CountOf(q, M) + 0
    BY <2>2, CountAppend
  <2>4. CountOf(q, M) \in Nat
    BY CountType
  <2> QED BY <1>2, <2>1, <2>3, <2>4
<1>4. CASE s # ServiceOf[r.to]
  BY <1>4 DEF Sent, Outgoing
<1> QED BY <1>3, <1>4

\* No end of a Set touches another call, but for a Get that it may send.
Loads(M) == \A m \in M : m.kind \notin {"Get", "Set"}

LEMMA SetEndsOther ==
    ASSUME TypeInv, NEW p \in Props, NEW failed \in BOOLEAN, NEW rs \in Outgoing, SetEnds(p, failed, rs),
           NEW M, Loads(M)
    PROVE  \A s \in Services : CountOf(requests'[s], M) = CountOf(rs[s], M)
<1>1. ASSUME NEW t, NEW v, requests' = Sent(rs, Request("Set", t, p, v, 0)), NEW s \in Services
      PROVE  CountOf(requests'[s], M) = CountOf(rs[s], M)
  <2>1. PICK r : r = Request("Set", t, p, v, 0)
    OBVIOUS
  <2>2. r \notin M
    BY <2>1 DEF Request, Loads
  <2> QED BY <1>1, <2>1, <2>2, SentOther
<1>2. CASE Refetch(rs, <<p>>)
  <2>1. PICK n \in Seq(Props), x \in Services : n = <<p>> /\ x = ServiceOf[target]
    <3>1. <<p>> \in Seq(Props) /\ ServiceOf[target] \in Services
      BY ServicesAssumption DEF TypeInv, TypeOK
    <3> QED BY <3>1
  <2>2. PICK out : out = requests'
    OBVIOUS
  <2>3. Refetched(out, rs, x, n) /\ target \in Targets /\ epoch \in Nat
    BY <1>2, <2>1, <2>2 DEF Refetch, Refetched, TypeInv, TypeOK
  <2>4. NoGets(M)
    BY DEF NoGets, Loads
  <2>5. \A N : NoGets(N) => \A s \in Services : CountOf(out[s], N) = CountOf(rs[s], N)
    BY <2>3, RefetchKept
  <2> QED BY <2>2, <2>4, <2>5
<1>3. \/ \E t, v : requests' = Sent(rs, Request("Set", t, p, v, 0))
      \/ requests' = rs
      \/ Refetch(rs, <<p>>)
  BY DEF SetEnds, SetFinished, WrittenAgain
<1> QED BY <1>1, <1>2, <1>3

\* How many of M are awaited does not change.
Unmoved(M) == \A s \in Services : Under(requests', inbox', M, s) = Under(requests, inbox, M, s)

LEMMA ListensStays ==
    ASSUME Listens, Unmoved(Introspects), UNCHANGED <<target, signalsOn, subscribed, queued>> PROVE Listens'
<1>1. /\ target' = target /\ signalsOn' = signalsOn /\ subscribed' = subscribed /\ queued' = queued
      /\ \A s \in Services : Under(requests, inbox, Introspects, s)' = Under(requests, inbox, Introspects, s)
  BY DEF Unmoved, Under
<1> QED BY <1>1 DEF Listens

\* A step in which neither what the proxy listens to changes nor whether an
\* introspection is due or awaited.
Passing == Unmoved(Introspects) /\ UNCHANGED <<target, signalsOn, subscribed, queued>>

\* Most steps do nothing to a call that loads the proxy.
LEMMA MostStepsKeep ==
    ASSUME TypeInv, NEW M, Awaited(M), Loads(M)
    PROVE  /\ SetPropertiesEnabled /\ (\A m \in M : m.kind # "GetAll") => Unmoved(M)
           /\ \A p \in Props, v \in Values, optimistic \in WriteKinds : Write(p, v, optimistic) => Unmoved(M)
           /\ \A p \in Props, v \in Unsendable : WriteDropped(p, v) => Unmoved(M)
           /\ \A p \in Props : SetTimesOut(p) => Unmoved(M)
           /\ \A t \in Targets, new \in [Props -> Values] : ServerChanges(t, new) => Unmoved(M)
           /\ \A s \in Services :
                 /\ Serve(s) => Unmoved(M)
                 /\ GetAllReply(s) /\ (\A m \in M : m.kind # "GetAll") => Unmoved(M)
                 /\ OnPropertiesChanged(s) \/ GetReply(s) \/ SetReply(s) => Unmoved(M)
           /\ UNCHANGED vars => Unmoved(M)
<1>1. PICK rs \in Outgoing : rs = requests
  BY DEF TypeInv
<1>2. PICK box \in Incoming : box = inbox
  BY DEF TypeInv
<1>3. ASSUME SetPropertiesEnabled, \A m \in M : m.kind # "GetAll" PROVE Unmoved(M)
  <2>1. PICK r : r = Request("GetAll", target, NoProp, Null, 0)
    OBVIOUS
  <2>2. r \notin M /\ (requests' = rs \/ requests' = Sent(rs, r))
    BY <1>1, <1>3, <2>1 DEF Request, SetPropertiesEnabled
  <2>3. \A s \in Services : CountOf(requests'[s], M) = CountOf(requests[s], M)
    BY <1>1, <2>2, SentOther
  <2> QED BY <1>3, <2>3 DEF SetPropertiesEnabled, Unmoved, Under
<1>4. ASSUME NEW p \in Props, NEW v \in Values, NEW optimistic \in WriteKinds, Write(p, v, optimistic)
      PROVE  Unmoved(M)
  <2>1. PICK r : r = Request("Set", target, p, v, 0)
    OBVIOUS
  <2>2. r \notin M /\ (requests' = rs \/ requests' = Sent(rs, r))
    BY <1>1, <1>4, <2>1 DEF Request, Write, SetSent, Loads
  <2>3. \A s \in Services : CountOf(requests'[s], M) = CountOf(requests[s], M)
    BY <1>1, <2>2, SentOther
  <2> QED BY <1>4, <2>3 DEF Write, Unmoved, Under
<1>5. ASSUME NEW p \in Props, SetTimesOut(p) PROVE Unmoved(M)
  <2>1. PICK qs, bin : qs = Unawaited(rs, "Set", p) /\ bin = Without(box, "Set", p)
    OBVIOUS
  <2>2. \A m \in M : ~IsOf(m, "Set", p)
    BY DEF Loads, IsOf
  <2>3. qs \in Outgoing /\ \A s \in Services : CountOf(qs[s], M) = CountOf(rs[s], M)
    BY <2>1, <2>2, UnawaitedKept
  <2>4. \A s \in Services : CountOf(bin[s], M) = CountOf(box[s], M)
    BY <2>1, <2>2, WithoutKept
  <2>5. SetEnds(p, TRUE, qs) /\ inbox' = bin
    BY <1>1, <1>2, <1>5, <2>1 DEF SetTimesOut
  <2>6. \A s \in Services : CountOf(requests'[s], M) = CountOf(qs[s], M)
    BY <2>3, <2>5, SetEndsOther
  <2> QED BY <1>1, <1>2, <2>3, <2>4, <2>5, <2>6 DEF Unmoved, Under
<1>6. ASSUME NEW t \in Targets, NEW new \in [Props -> Values], ServerChanges(t, new) PROVE Unmoved(M)
  <2>1. PICK s \in Services : s = ServiceOf[t]
    BY ServicesAssumption
  <2>2. PICK c \in Changes, n \in Seq(Props) :
           inbox' = [inbox EXCEPT ![ServiceOf[t]] = @ \o Announced(t, c, n)]
    BY <1>6, ServerChangesSay
  <2>3. PICK a, bin : a = Announced(t, c, n) /\ bin = inbox'
    OBVIOUS
  <2>4. a \in Seq(Heard) /\ CountOf(a, M) = 0
    BY <2>3, AnnouncedKept DEF Awaited
  <2>5. IsPut(bin, box, s, a)
    BY <1>2, <2>1, <2>2, <2>3 DEF IsPut
  <2>6. /\ CountOf(bin[s], M) = CountOf(box[s], M) + CountOf(a, M)
        /\ \A x \in Services : x # s => bin[x] = box[x]
    BY <2>4, <2>5, PutKept
  <2>7. CountOf(box[s], M) \in Nat
    BY CountType DEF Incoming
  <2>8. \A x \in Services : CountOf(bin[x], M) = CountOf(box[x], M)
    BY <2>4, <2>6, <2>7
  <2> QED BY <1>2, <1>6, <2>3, <2>8 DEF ServerChanges, Unmoved, Under
<1>7. ASSUME NEW s \in Services, Serve(s) PROVE Unmoved(M)
  BY <1>7, ServeMoves DEF Unmoved
<1>8. ASSUME NEW s \in Services, box[s] # <<>>, Head(box[s]) \notin M,
              inbox' = [box EXCEPT ![s] = Tail(@)],
              \A x \in Services : CountOf(requests'[x], M) = CountOf(rs[x], M)
       PROVE  Unmoved(M)
  <2>1. PICK bin : bin = [box EXCEPT ![s] = Tail(@)]
    OBVIOUS
  <2>2. bin \in Incoming /\ \A x \in Services :
           CountOf(box[x], M) =
               CountOf(bin[x], M) + IF x = s /\ Head(box[s]) \in M THEN 1 ELSE 0
    BY <1>8, <2>1, TailKept DEF Incoming
  <2>3. \A x \in Services : CountOf(bin[x], M) \in Nat
    BY <2>2, CountType DEF Incoming
  <2>4. \A x \in Services : CountOf(box[x], M) = CountOf(bin[x], M)
    BY <1>8, <2>2, <2>3
  <2> QED BY <1>1, <1>2, <1>8, <2>1, <2>4 DEF Unmoved, Under
<1>9. ASSUME NEW s \in Services, GetAllReply(s) \/ OnPropertiesChanged(s) \/ GetReply(s) \/ SetReply(s),
             Head(inbox[s]).kind = "GetAll" => \A m \in M : m.kind # "GetAll"
       PROVE  Unmoved(M)
  <2>1. /\ box[s] # <<>> /\ Head(box[s]).kind \in {"GetAll", "PropertiesChanged", "Get", "Set"}
        /\ inbox' = [box EXCEPT ![s] = Tail(@)]
    BY <1>2, <1>9 DEF GetAllReply, OnPropertiesChanged, GetReply, SetReply, Take, Consume
  <2>2. Head(box[s]) \in Heard
    BY <2>1, HeadTailProperties DEF Incoming
  <2>3. \A x \in Services : CountOf(requests'[x], M) = CountOf(rs[x], M)
    <3>1. CASE GetAllReply(s) \/ GetReply(s)
      BY <1>1, <3>1 DEF GetAllReply, GetReply
    <3>2. CASE OnPropertiesChanged(s)
      <4>1. Head(box[s]).invalidated \in Seq(Props)
        <5>1. Head(box[s]).kind = "PropertiesChanged"
          BY <1>2, <3>2 DEF OnPropertiesChanged, Take
        <5> QED BY <2>2, <5>1 DEF Heard, Answers, Calls, Message, Kinds, Signals
      <4>2. PICK n \in Seq(Props), x \in Services : n = Head(box[s]).invalidated /\ x = ServiceOf[target]
        BY <4>1, ServicesAssumption DEF TypeInv, TypeOK
      <4>3. PICK out : out = requests'
        OBVIOUS
      <4>4. Refetched(out, rs, x, n) /\ target \in Targets /\ epoch \in Nat
        BY <1>1, <1>2, <3>2, <4>2, <4>3 DEF OnPropertiesChanged, Refetch, Refetched, TypeInv, TypeOK
      <4>5. \A N : NoGets(N) => \A y \in Services : CountOf(out[y], N) = CountOf(rs[y], N)
        BY <4>4, RefetchKept
      <4>6. NoGets(M)
        BY DEF NoGets, Loads
      <4> QED BY <4>3, <4>5, <4>6
    <3>3. CASE SetReply(s)
      <4>1. Head(box[s]).kind = "Set" /\ SetEnds(Head(box[s]).prop, ~Head(box[s]).ok, rs)
        BY <1>1, <1>2, <3>3 DEF SetReply, Take
      <4>2. Head(box[s]).prop \in Props /\ Head(box[s]).ok \in BOOLEAN
        BY <2>2, <4>1 DEF Heard, Answers, Calls, Message, Signals
      <4>3. PICK p \in Props, failed \in BOOLEAN : p = Head(box[s]).prop /\ failed = ~Head(box[s]).ok
        BY <4>2
      <4>4. SetEnds(p, failed, rs)
        BY <4>1, <4>3
      <4> QED BY <4>4, SetEndsOther
    <3> QED BY <1>9, <3>1, <3>2, <3>3
  <2>4. Head(box[s]) \notin M
    <3>1. Head(box[s]).kind = "PropertiesChanged" => Head(box[s]) \notin M
      BY DEF Awaited, Calls, Message, Kinds
    <3> QED BY <1>2, <1>9, <2>1, <3>1 DEF Loads
  <2> QED BY <1>8, <2>1, <2>3, <2>4
<1>10. CASE UNCHANGED vars
  BY <1>10 DEF vars, Unmoved, Under
<1>11. \A s \in Services :
          OnPropertiesChanged(s) \/ GetReply(s) \/ SetReply(s) => Head(inbox[s]).kind # "GetAll"
  BY DEF OnPropertiesChanged, GetReply, SetReply, Take
<1>12. \A p \in Props, v \in Unsendable : WriteDropped(p, v) => Unmoved(M)
  BY DEF WriteDropped, Unmoved, Under
<1> QED BY <1>3, <1>4, <1>5, <1>6, <1>7, <1>9, <1>10, <1>11, <1>12

LEMMA MostStepsPass ==
    ASSUME TypeInv
    PROVE  /\ SetPropertiesEnabled => Passing
           /\ \A p \in Props, v \in Values, optimistic \in WriteKinds : Write(p, v, optimistic) => Passing
           /\ \A p \in Props, v \in Unsendable : WriteDropped(p, v) => Passing
           /\ \A p \in Props : SetTimesOut(p) => Passing
           /\ \A t \in Targets, new \in [Props -> Values] : ServerChanges(t, new) => Passing
           /\ \A s \in Services :
                 /\ Serve(s) => Passing
                 /\ GetAllReply(s) \/ OnPropertiesChanged(s) \/ GetReply(s) \/ SetReply(s) => Passing
           /\ UNCHANGED vars => Passing
<1>1. Awaited(Introspects) /\ Loads(Introspects) /\ \A m \in Introspects : m.kind # "GetAll"
  BY KindsAwaited DEF Introspects, Loads
<1>2. /\ SetPropertiesEnabled => Unmoved(Introspects)
      /\ \A p \in Props, v \in Values, optimistic \in WriteKinds :
            Write(p, v, optimistic) => Unmoved(Introspects)
      /\ \A p \in Props, v \in Unsendable : WriteDropped(p, v) => Unmoved(Introspects)
      /\ \A p \in Props : SetTimesOut(p) => Unmoved(Introspects)
      /\ \A t \in Targets, new \in [Props -> Values] : ServerChanges(t, new) => Unmoved(Introspects)
      /\ \A s \in Services :
            /\ Serve(s) => Unmoved(Introspects)
            /\ GetAllReply(s) \/ OnPropertiesChanged(s) \/ GetReply(s) \/ SetReply(s) => Unmoved(Introspects)
      /\ UNCHANGED vars => Unmoved(Introspects)
  BY <1>1, MostStepsKeep
<1>3. SetPropertiesEnabled => UNCHANGED <<target, signalsOn, subscribed, queued>>
  BY DEF SetPropertiesEnabled
<1>4. /\ \A p \in Props, v \in Values, optimistic \in WriteKinds :
            Write(p, v, optimistic) => UNCHANGED <<target, signalsOn, subscribed, queued>>
      /\ \A p \in Props, v \in Unsendable :
            WriteDropped(p, v) => UNCHANGED <<target, signalsOn, subscribed, queued>>
  BY DEF Write, WriteDropped, switches
<1>5. /\ \A p \in Props : SetTimesOut(p) => UNCHANGED <<target, signalsOn, subscribed, queued>>
      /\ \A s \in Services : SetReply(s) => UNCHANGED <<target, signalsOn, subscribed, queued>>
  BY DEF SetTimesOut, SetReply, SetEnds, switches
<1>6. /\ \A t \in Targets, new \in [Props -> Values] :
            ServerChanges(t, new) => UNCHANGED <<target, signalsOn, subscribed, queued>>
      /\ \A s \in Services : Serve(s) => UNCHANGED <<target, signalsOn, subscribed, queued>>
      /\ UNCHANGED vars => UNCHANGED <<target, signalsOn, subscribed, queued>>
  BY DEF ServerChanges, Serve, vars, proxy, switches
<1>7. \A s \in Services : GetAllReply(s) \/ OnPropertiesChanged(s) \/ GetReply(s) =>
         UNCHANGED <<target, signalsOn, subscribed, queued>>
  BY DEF GetAllReply, OnPropertiesChanged, GetReply, switches
<1> QED BY <1>2, <1>3, <1>4, <1>5, <1>6, <1>7 DEF Passing

\* An introspection that was started is awaited.
LEMMA IntrospectAwaited ==
    ASSUME TypeInv, Introspect PROVE \E s \in Services : Under(requests', inbox', Introspects, s) # 0
<1>1. PICK rs \in Outgoing, box \in Incoming : rs = requests /\ box = inbox
  BY DEF TypeInv
<1>2. PICK qs \in Outgoing : qs = AbandonIntrospection(requests)
  BY <1>1, UnawaitedKept DEF AbandonIntrospection
<1>3. PICK bin \in Incoming : bin = Without(box, "Introspect", NoProp)
  BY WithoutKept
<1>4. PICK t \in Targets, s \in Services : t = target /\ s = ServiceOf[t]
  BY ServicesAssumption DEF TypeInv, TypeOK
<1>5. PICK r \in Calls : r = Request("Introspect", t, NoProp, Null, 0)
  BY RequestTyped
<1>6. r \in Introspects /\ r.to = t
  BY <1>5 DEF Introspects, Request
<1>7. CountOf(Sent(qs, r)[s], Introspects) =
         CountOf(qs[s], Introspects) + IF r \in Introspects /\ s = ServiceOf[r.to] THEN 1 ELSE 0
  <2>1. Grown(Sent(qs, r), qs, r)
    BY SentKept
  <2> QED BY <2>1 DEF Grown
<1>8. CountOf(qs[s], Introspects) \in Nat /\ CountOf(bin[s], Introspects) \in Nat
  <2>1. qs[s] \in Seq(Calls)
    BY DEF Outgoing
  <2>2. bin[s] \in Seq(Heard)
    BY DEF Incoming
  <2>3. CountOf(qs[s], Introspects) \in Nat
    BY ONLY <2>1, CountType
  <2>4. CountOf(bin[s], Introspects) \in Nat
    BY ONLY <2>2, CountType
  <2> QED BY <2>3, <2>4
<1>9. requests' = Sent(qs, r) /\ inbox' = bin
  BY <1>1, <1>2, <1>3, <1>4, <1>5 DEF Introspect, WithoutIntrospection
<1>10. CountOf(requests'[s], Introspects) + CountOf(inbox'[s], Introspects) # 0
  BY <1>4, <1>6, <1>7, <1>8, <1>9
<1> QED BY <1>10 DEF Under

LEMMA ListensNext ==
    ASSUME TypeInv, propertiesOn \/ NoRefusal(inbox), Listens, [Next]_vars
    PROVE  Listens'
<1>1. PICK rs \in Outgoing : rs = requests
  BY DEF TypeInv
<1>2. PICK box \in Incoming : box = inbox
  BY DEF TypeInv
<1>3. ASSUME NEW t \in Targets, Repoint(t) PROVE Listens'
  BY <1>3 DEF Repoint, Listens
<1>4. CASE ServiceRegistered
  BY <1>4 DEF ServiceRegistered, switches, Listens
<1>5. CASE SetSignalsEnabled
  BY <1>5 DEF SetSignalsEnabled, Listens
<1>6. CASE IntrospectFromCache
  BY <1>6 DEF IntrospectFromCache, Subscribe, switches, Listens
<1>7. CASE Introspect
  <2>1. \E s \in Services : Under(requests', inbox', Introspects, s) # 0
    BY <1>7, IntrospectAwaited
  <2> QED BY <1>7, <2>1 DEF Introspect, switches, Listens, Under
<1>8. ASSUME NEW s \in Services, IntrospectReply(s) PROVE Listens'
  <2>1. Head(inbox[s]).ok \/ propertiesOn
    <3>1. CASE NoRefusal(inbox)
      <4>1. box[s] \in Seq(Heard) /\ box[s] # <<>> /\ NoneIn(box[s], Refused)
        BY <1>2, <1>8, <3>1 DEF IntrospectReply, Take, Incoming, NoRefusal, Free
      <4>2. Head(box[s]) \in Heard /\ Head(box[s]) \notin Refused
        BY <4>1, NoneParts, HeadTailProperties
      <4>3. Head(box[s]).kind = "Introspect"
        BY <1>2, <1>8 DEF IntrospectReply, Take
      <4> QED BY <1>2, <4>2, <4>3 DEF Refused, Heard, Signals
    <3> QED BY <3>1
  <2>2. Subscribe(requests) /\ target' = target /\ signalsOn' = signalsOn
    BY <1>8, <2>1 DEF IntrospectReply, switches
  <2> QED BY <2>2 DEF Subscribe, Listens
<1>9. ASSUME Passing PROVE Listens'
  BY <1>9, ListensStays DEF Passing
<1> QED BY <1>3, <1>4, <1>5, <1>6, <1>7, <1>8, <1>9, MostStepsPass DEF Next, Application, DoIntrospect, Deliver

LEMMA DeafAlways == ASSUME Steady PROVE Init /\ [][Next]_vars => []DeafInv
<1>1. Init => DeafInv
  <2> SUFFICES ASSUME Init PROVE DeafInv
    OBVIOUS
  <2>1. BudgetType
    BY BoundsAssumption DEF Init, BudgetType
  <2>2. Lenient
    BY DEF Init, Steady, Lenient, NoRefusal, Free, NoneIn
  <2>3. Listens
    BY DEF Init, Listens
  <2> QED BY <2>1, <2>2, <2>3 DEF DeafInv
<1>2. TypeInv /\ DeafInv /\ [Next]_vars => DeafInv'
  <2> SUFFICES ASSUME TypeInv, BudgetType, Lenient, Listens, [Next]_vars PROVE DeafInv'
    BY DEF DeafInv
  <2>1. BudgetType'
    BY Spent
  <2>2. Lenient'
    <3>1. CASE budget.switches = 0 /\ propertiesOn
      <4>1. \/ budget'.switches = budget.switches /\ propertiesOn' = propertiesOn
            \/ budget.switches > 0 /\ budget'.switches = budget.switches - 1
        BY Spent
      <4>2. ~(budget.switches > 0)
        BY <3>1
      <4>3. budget'.switches = budget.switches /\ propertiesOn' = propertiesOn
        BY <4>1, <4>2, Zenon
      <4>4. budget'.switches = 0 /\ propertiesOn'
        BY <3>1, <4>3, Zenon
      <4> QED BY <4>4, Zenon DEF Lenient
    <3>2. CASE budget.refusals = 0 /\ NoRefusal(inbox)
      <4>1. budget'.refusals = 0 /\ NoRefusal(inbox')
        BY <3>2, Spent, NoRefusalNext
      <4> QED BY <4>1 DEF Lenient, NoRefusal, Free
    <3> QED BY <3>1, <3>2 DEF Lenient
  <2>3. Listens'
    BY ListensNext DEF Lenient
  <2> QED BY <2>1, <2>2, <2>3 DEF DeafInv
<1>3. IInv => TypeInv
  BY DEF IInv
<1> QED BY <1>1, <1>2, <1>3, IInvAlways, PTL

\* Who has its properties listens, or is on the way to, also where one thing is
\* switched and no more: what is off stays off then.
Tame == \A b \in Budgets : b.switches <= 1 \/ b.refusals = 0
Attends == /\ BudgetType
           /\ \/ budget.refusals = 0 /\ NoRefusal(inbox) /\ Listens
              \/ propertiesOn /\ budget.switches <= 1 /\ Listens
              \/ ~propertiesOn /\ budget.switches = 0

LEMMA AttendsAlways == ASSUME Tame PROVE Init /\ [][Next]_vars => []Attends
<1>1. Init => Attends
  <2> SUFFICES ASSUME Init PROVE Attends
    OBVIOUS
  <2>1. BudgetType
    BY BoundsAssumption DEF Init, BudgetType
  <2>2. propertiesOn /\ NoRefusal(inbox) /\ Listens
    BY DEF Init, NoRefusal, Free, NoneIn, Listens
  <2>3. budget.switches <= 1 \/ budget.refusals = 0
    BY DEF Init, Tame
  <2> QED BY <2>1, <2>2, <2>3 DEF Attends
<1>2. TypeInv /\ Attends /\ [Next]_vars => Attends'
  <2> SUFFICES ASSUME TypeInv, Attends, [Next]_vars PROVE Attends'
    OBVIOUS
  <2>1. /\ BudgetType'
        /\ \/ budget'.switches = budget.switches /\ propertiesOn' = propertiesOn
           \/ budget.switches > 0 /\ budget'.switches = budget.switches - 1
        /\ budget.refusals = 0 => budget'.refusals = 0
    BY Spent DEF Attends
  <2>2. CASE budget.refusals = 0 /\ NoRefusal(inbox) /\ Listens
    <3>1. NoRefusal(inbox') /\ Listens'
      BY <2>2, NoRefusalNext, ListensNext
    <3> QED BY <2>1, <2>2, <3>1 DEF Attends, NoRefusal, Free
  <2>3. CASE propertiesOn /\ budget.switches <= 1 /\ Listens
    <3>1. Listens' /\ budget.switches \in Nat
      BY <2>3, ListensNext DEF Attends, BudgetType
    <3>2. CASE budget'.switches = budget.switches /\ propertiesOn' = propertiesOn
      <4>1. propertiesOn' /\ budget'.switches <= 1
        BY <2>3, <3>2, Zenon
      <4> QED BY <2>1, <3>1, <4>1, Zenon DEF Attends
    <3>3. CASE budget.switches > 0 /\ budget'.switches = budget.switches - 1
      <4>1. budget'.switches = 0
        <5>1. PICK n \in Nat : n = budget.switches
          BY <3>1
        <5>2. n <= 1 /\ n > 0
          BY <2>3, <3>3, <5>1
        <5>3. n - 1 = 0
          BY <5>2
        <5> QED BY <3>3, <5>1, <5>3, Zenon
      <4>2. budget'.switches <= 1
        BY <4>1
      <4>3. propertiesOn' \/ ~propertiesOn'
        OBVIOUS
      <4> QED BY <2>1, <3>1, <4>1, <4>2, <4>3, Zenon DEF Attends
    <3> QED BY <2>1, <3>2, <3>3, Zenon
  <2>4. CASE ~propertiesOn /\ budget.switches = 0
    BY <2>1, <2>4 DEF Attends
  <2> QED BY <2>2, <2>3, <2>4 DEF Attends
<1>3. IInv => TypeInv
  BY DEF IInv
<1> QED BY <1>1, <1>2, <1>3, IInvAlways, PTL

LEMMA NotDeafInside == ASSUME TypeInv, Listens PROVE NeverDeaf
<1>1. CASE signalsOn /\ subscribed = target
  BY <1>1 DEF NeverDeaf
<1>2. CASE subscribed = Nowhere /\ (queued \/ ~signalsOn)
  BY <1>2 DEF NeverDeaf
<1>3. ASSUME subscribed = Nowhere, NEW s \in Services, Under(requests, inbox, Introspects, s) # 0
      PROVE  NeverDeaf
  <2>1. Introspects \in SUBSET Calls
    BY DEF Introspects
  <2>2. Wire(s) \in Seq(Calls \cup Heard) /\ CountOf(Wire(s), Introspects) # 0
    BY <1>3, <2>1, WireHits
  <2>3. PICK i \in DOMAIN Wire(s) : Wire(s)[i] \in Introspects
    BY <2>2, CountType
  <2>4. LET m == Wire(s)[i] IN m.kind = "Introspect" /\ m.awaited
    BY <2>3 DEF Introspects
  <2> QED BY <1>3, <2>4 DEF NeverDeaf
<1> QED BY <1>1, <1>2, <1>3 DEF Listens

-----------------------------------------------------------------------------
(* The last word in a queue.                                               *)

\* The last entry of q that is in W is in X too.
Ends(q, W, X) == \E i \in DOMAIN q : /\ q[i] \in W /\ q[i] \in X
                                     /\ \A j \in DOMAIN q : j > i => q[j] \notin W

\* What is added at the end is the last word, unless it says nothing.
LEMMA LastPut ==
    ASSUME NEW T, NEW q \in Seq(T), NEW a \in Seq(T)
    PROVE  \A W, X : /\ Ends(a, W, X) => Ends(q \o a, W, X)
                     /\ Ends(q, W, X) /\ NoneIn(a, W) => Ends(q \o a, W, X)
                     /\ NoneIn(q \o a, W) <=> NoneIn(q, W) /\ NoneIn(a, W)
<1> TAKE W, X
<1> DEFINE m == Len(q)
           n == Len(a)
           b == q \o a
<1>1. m \in Nat /\ n \in Nat /\ DOMAIN q = 1 .. m /\ DOMAIN a = 1 .. n
  BY LenProperties
<1>2. /\ DOMAIN b = 1 .. (m + n)
      /\ \A i \in 1 .. (m + n) : b[i] = IF i <= m THEN q[i] ELSE a[i - m]
  BY ConcatProperties, LenProperties
<1> HIDE DEF m, n, b
<1>3. /\ \A i \in DOMAIN q : i \in DOMAIN b /\ b[i] = q[i]
      /\ \A i \in DOMAIN a : i + m \in DOMAIN b /\ b[i + m] = a[i]
  BY <1>1, <1>2
<1>4. \A i \in DOMAIN b : \/ i \in DOMAIN q /\ b[i] = q[i]
                          \/ i > m /\ i - m \in DOMAIN a /\ b[i] = a[i - m]
  BY <1>1, <1>2
<1>5. ASSUME Ends(a, W, X) PROVE Ends(b, W, X)
  <2>1. PICK i \in DOMAIN a : a[i] \in W /\ a[i] \in X /\ \A j \in DOMAIN a : j > i => a[j] \notin W
    BY <1>5 DEF Ends
  <2>2. i + m \in DOMAIN b /\ b[i + m] \in W /\ b[i + m] \in X
    BY <1>3, <2>1
  <2>3. ASSUME NEW j \in DOMAIN b, j > i + m PROVE b[j] \notin W
    <3>1. j \notin DOMAIN q
      BY <1>1, <1>2, <2>3
    <3>2. j - m \in DOMAIN a /\ b[j] = a[j - m] /\ j - m > i
      BY <1>1, <1>2, <1>4, <2>3, <3>1
    <3> QED BY <2>1, <3>2
  <2> QED BY <2>2, <2>3 DEF Ends
<1>6. ASSUME Ends(q, W, X), NoneIn(a, W) PROVE Ends(b, W, X)
  <2>1. PICK i \in DOMAIN q : q[i] \in W /\ q[i] \in X /\ \A j \in DOMAIN q : j > i => q[j] \notin W
    BY <1>6 DEF Ends
  <2>2. \A j \in DOMAIN b : j > i => b[j] \notin W
    BY <1>4, <1>6, <2>1 DEF NoneIn
  <2> QED BY <1>3, <2>1, <2>2 DEF Ends
<1>7. NoneIn(b, W) <=> NoneIn(q, W) /\ NoneIn(a, W)
  BY <1>3, <1>4 DEF NoneIn
<1> QED BY <1>5, <1>6, <1>7 DEF b

LEMMA LastOne ==
    ASSUME NEW m, NEW W
    PROVE  /\ NoneIn(<<m>>, W) <=> m \notin W
           /\ \A X : m \in W /\ m \in X => Ends(<<m>>, W, X)
<1>1. DOMAIN <<m>> = {1} /\ <<m>>[1] = m
  OBVIOUS
<1> QED BY <1>1 DEF NoneIn, Ends

\* Who takes the first entry has heard the last word, or it is still to come.
LEMMA LastTaken ==
    ASSUME NEW T, NEW q \in Seq(T), q # <<>>
    PROVE  \A W, X :
              /\ Ends(q, W, X) => \/ Ends(Tail(q), W, X)
                                  \/ Head(q) \in W /\ Head(q) \in X /\ NoneIn(Tail(q), W)
              /\ NoneIn(q, W) <=> NoneIn(Tail(q), W) /\ Head(q) \notin W
              /\ Ends(Tail(q), W, X) => Ends(q, W, X)
<1> TAKE W, X
<1> DEFINE n == Len(q)
           b == Tail(q)
<1>1. n \in Nat /\ n >= 1 /\ DOMAIN q = 1 .. n /\ Head(q) = q[1]
  BY LenProperties
<1>2. DOMAIN b = 1 .. (n - 1) /\ \A i \in 1 .. (n - 1) : b[i] = q[i + 1]
  OBVIOUS
<1> HIDE DEF n, b
<1>3. /\ \A i \in DOMAIN b : i + 1 \in DOMAIN q /\ b[i] = q[i + 1]
      /\ \A i \in DOMAIN q : i = 1 \/ (i - 1 \in DOMAIN b /\ q[i] = b[i - 1])
      /\ 1 \in DOMAIN q
  BY <1>1, <1>2
<1>4. NoneIn(q, W) <=> NoneIn(b, W) /\ Head(q) \notin W
  BY <1>1, <1>3 DEF NoneIn
<1>5. ASSUME NEW i \in DOMAIN q, q[i] \in W, q[i] \in X, \A j \in DOMAIN q : j > i => q[j] \notin W
      PROVE  Ends(b, W, X) \/ (Head(q) \in W /\ Head(q) \in X /\ NoneIn(b, W))
  <2>1. CASE i = 1
    <3>1. \A j \in DOMAIN b : j + 1 \in DOMAIN q /\ j + 1 > 1 /\ b[j] = q[j + 1]
      BY <1>1, <1>2, <1>3
    <3> QED BY <1>1, <1>5, <2>1, <3>1 DEF NoneIn
  <2>2. CASE i # 1
    <3>1. i - 1 \in DOMAIN b /\ b[i - 1] = q[i]
      BY <1>3, <2>2
    <3>2. \A j \in DOMAIN b : j > i - 1 => j + 1 \in DOMAIN q /\ j + 1 > i /\ b[j] = q[j + 1]
      BY <1>1, <1>2, <1>3
    <3> QED BY <1>5, <3>1, <3>2 DEF Ends
  <2> QED BY <2>1, <2>2
<1>6. ASSUME NEW i \in DOMAIN b, b[i] \in W, b[i] \in X, \A j \in DOMAIN b : j > i => b[j] \notin W
      PROVE  Ends(q, W, X)
  <2>1. i + 1 \in DOMAIN q /\ b[i] = q[i + 1]
    BY <1>3
  <2>2. \A j \in DOMAIN q : j > i + 1 => j - 1 \in DOMAIN b /\ j - 1 > i /\ q[j] = b[j - 1]
    BY <1>1, <1>2, <1>3
  <2> QED BY <1>6, <2>1, <2>2 DEF Ends
<1> QED BY <1>4, <1>5, <1>6 DEF b, Ends

\* Where nothing of W is taken out or changed the last word of W stays.
LEMMA LastKept ==
    ASSUME NEW T, NEW q \in Seq(T), NEW hits \in SUBSET DOMAIN q, NEW w \in Seq(T),
           NEW f, Traces(f, w, q, hits)
    PROVE  \A W, X : (\A i \in DOMAIN q : q[i] \in W => i \in hits) =>
              /\ NoneIn(q, W) <=> NoneIn(w, W)
              /\ Ends(q, W, X) => Ends(w, W, X)
<1> TAKE W, X
<1> SUFFICES ASSUME \A i \in DOMAIN q : q[i] \in W => i \in hits
             PROVE  (NoneIn(q, W) <=> NoneIn(w, W)) /\ (Ends(q, W, X) => Ends(w, W, X))
  OBVIOUS
<1>1. /\ f \in [DOMAIN w -> hits]
      /\ \A j, k \in DOMAIN w : j < k => f[j] < f[k]
      /\ \A j \in DOMAIN w : w[j] = q[f[j]]
      /\ \A i \in hits : \E j \in DOMAIN w : f[j] = i
  BY DEF Traces
<1>2. \A j \in DOMAIN w : f[j] \in DOMAIN q
  BY <1>1
<1>3. DOMAIN q \in SUBSET Nat /\ DOMAIN w \in SUBSET Nat
  BY LenProperties
<1>4. NoneIn(q, W) <=> NoneIn(w, W)
  BY <1>1, <1>2 DEF NoneIn
<1>5. ASSUME NEW i \in DOMAIN q, q[i] \in W, q[i] \in X, \A j \in DOMAIN q : j > i => q[j] \notin W
      PROVE  Ends(w, W, X)
  <2>1. PICK j \in DOMAIN w : f[j] = i
    BY <1>1, <1>5
  <2>2. ASSUME NEW k \in DOMAIN w, k > j PROVE w[k] \notin W
    <3>1. f[j] < f[k]
      BY <1>1, <1>3, <2>2
    <3> QED BY <1>1, <1>2, <1>3, <1>5, <2>1, <3>1
  <2> QED BY <1>1, <1>5, <2>1, <2>2 DEF Ends
<1> QED BY <1>4, <1>5 DEF Ends

LEMMA LastSame ==
    ASSUME NEW q, NEW u, DOMAIN u = DOMAIN q
    PROVE  \A W, X : (\A i \in DOMAIN q : u[i] = q[i] \/ (q[i] \notin W /\ u[i] \notin W)) =>
              /\ NoneIn(q, W) <=> NoneIn(u, W)
              /\ Ends(q, W, X) => Ends(u, W, X)
<1> TAKE W, X
<1> SUFFICES ASSUME \A i \in DOMAIN q : u[i] = q[i] \/ (q[i] \notin W /\ u[i] \notin W)
             PROVE  (NoneIn(q, W) <=> NoneIn(u, W)) /\ (Ends(q, W, X) => Ends(u, W, X))
  OBVIOUS
<1>1. NoneIn(q, W) <=> NoneIn(u, W)
  BY DEF NoneIn
<1>2. Ends(q, W, X) => Ends(u, W, X)
  BY DEF Ends
<1> QED BY <1>1, <1>2

\* They differ in nothing but Sets, for who asks for the last word.
SetsApart(q, u) ==
    \A W, X : (\A m \in W : m.kind # "Set") =>
        /\ NoneIn(q, W) <=> NoneIn(u, W)
        /\ Ends(q, W, X) => Ends(u, W, X)

LEMMA ApartOfItself == \A q : SetsApart(q, q)
BY DEF SetsApart

LEMMA ApartPut ==
    ASSUME NEW q, NEW T, NEW u \in Seq(T), SetsApart(q, u), NEW m \in T, m.kind = "Set"
    PROVE  SetsApart(q, Append(u, m))
<1>1. Append(u, m) = u \o <<m>> /\ <<m>> \in Seq(T)
  BY AppendIsConcat
<1>2. SUFFICES ASSUME NEW W, NEW X, \A n \in W : n.kind # "Set"
               PROVE  /\ NoneIn(q, W) <=> NoneIn(u \o <<m>>, W)
                      /\ Ends(q, W, X) => Ends(u \o <<m>>, W, X)
  BY <1>1 DEF SetsApart
<1>3. m \notin W
  BY <1>2
<1>4. NoneIn(<<m>>, W)
  BY <1>3, LastOne
<1>5. (NoneIn(q, W) <=> NoneIn(u, W)) /\ (Ends(q, W, X) => Ends(u, W, X))
  BY <1>2 DEF SetsApart
<1>6. /\ Ends(u, W, X) /\ NoneIn(<<m>>, W) => Ends(u \o <<m>>, W, X)
      /\ NoneIn(u \o <<m>>, W) <=> NoneIn(u, W) /\ NoneIn(<<m>>, W)
  BY <1>1, LastPut
<1> QED BY <1>4, <1>5, <1>6

LEMMA ApartTail ==
    ASSUME NEW T, NEW q \in Seq(T), q # <<>>, Head(q).kind = "Set"
    PROVE  SetsApart(q, Tail(q))
<1>1. SUFFICES ASSUME NEW W, NEW X, \A n \in W : n.kind # "Set"
               PROVE  /\ NoneIn(q, W) <=> NoneIn(Tail(q), W)
                      /\ Ends(q, W, X) => Ends(Tail(q), W, X)
  BY DEF SetsApart
<1>2. Head(q) \notin W
  BY <1>1
<1>3. /\ Ends(q, W, X) => \/ Ends(Tail(q), W, X)
                          \/ Head(q) \in W /\ Head(q) \in X /\ NoneIn(Tail(q), W)
      /\ NoneIn(q, W) <=> NoneIn(Tail(q), W) /\ Head(q) \notin W
  BY LastTaken
<1> QED BY <1>2, <1>3

LEMMA ApartWithout ==
    ASSUME NEW box \in Incoming, NEW p, NEW s \in Services
    PROVE  SetsApart(box[s], Without(box, "Set", p)[s])
<1>1. PICK q \in Seq(Heard) : q = box[s]
  BY DEF Incoming
<1>2. PICK hits \in SUBSET DOMAIN q : hits = {i \in DOMAIN q : ~IsOf(q[i], "Set", p)}
  OBVIOUS
<1>3. PICK w : w = EntriesAt(q, hits)
  OBVIOUS
<1>4. Without(box, "Set", p)[s] = w
  BY <1>1, <1>2, <1>3 DEF Without
<1>5. w \in Seq(Heard) /\ \E f : Traces(f, w, q, hits)
  BY <1>3, EntriesKept
<1>6. PICK f : Traces(f, w, q, hits)
  BY <1>5
<1>7. \A W, X : (\A i \in DOMAIN q : q[i] \in W => i \in hits) =>
              /\ NoneIn(q, W) <=> NoneIn(w, W)
              /\ Ends(q, W, X) => Ends(w, W, X)
  BY <1>5, <1>6, LastKept
<1>8. \A W : (\A m \in W : m.kind # "Set") => \A i \in DOMAIN q : q[i] \in W => i \in hits
  BY <1>2 DEF IsOf
<1>9. SetsApart(q, w)
  BY <1>7, <1>8 DEF SetsApart
<1> QED BY <1>1, <1>4, <1>9

LEMMA ApartUnawaited ==
    ASSUME NEW rs \in Outgoing, NEW p, NEW s \in Services
    PROVE  SetsApart(rs[s], Unawaited(rs, "Set", p)[s])
<1>1. PICK q \in Seq(Calls) : q = rs[s]
  BY DEF Outgoing
<1>2. \A i \in DOMAIN q : q[i] \in Message
  BY ElementOfSeq, LenProperties DEF Calls
<1>3. PICK u : u = [i \in DOMAIN q |-> [q[i] EXCEPT !.awaited = @ /\ ~IsOf(q[i], "Set", p)]]
  OBVIOUS
<1>4. Unawaited(rs, "Set", p)[s] = u /\ DOMAIN u = DOMAIN q
  BY <1>1, <1>3 DEF Unawaited
<1>5. ASSUME NEW i \in DOMAIN q PROVE u[i] = q[i] \/ (q[i].kind = "Set" /\ u[i].kind = "Set")
  <2>1. PICK m \in Message : m = q[i]
    BY <1>2
  <2>2. u[i] = [m EXCEPT !.awaited = @ /\ ~IsOf(m, "Set", p)]
    BY <1>3, <2>1
  <2>3. CASE m.kind = "Set"
    <3>1. u[i].kind = "Set"
      BY <2>2, <2>3 DEF Message
    <3> QED BY <2>1, <2>3, <3>1
  <2>4. CASE m.kind # "Set"
    <3>1. ~IsOf(m, "Set", p) /\ m.awaited \in BOOLEAN
      BY <2>4 DEF IsOf, Message
    <3>2. PICK b \in BOOLEAN : b = m.awaited /\ b = (m.awaited /\ ~IsOf(m, "Set", p))
      BY <3>1
    <3>3. u[i] = [m EXCEPT !.awaited = b]
      BY <2>2, <3>2
    <3>4. [m EXCEPT !.awaited = b] = m
      BY <3>2 DEF Message
    <3> QED BY <2>1, <3>3, <3>4
  <2> QED BY <2>3, <2>4
<1>6. \A W, X : (\A i \in DOMAIN q : u[i] = q[i] \/ (q[i] \notin W /\ u[i] \notin W)) =>
              /\ NoneIn(q, W) <=> NoneIn(u, W)
              /\ Ends(q, W, X) => Ends(u, W, X)
  BY <1>4, LastSame
<1>7. SetsApart(q, u)
  BY <1>5, <1>6 DEF SetsApart
<1> QED BY <1>1, <1>4, <1>7

-----------------------------------------------------------------------------
(* The map is in step with the target, or what puts it in step is on its   *)
(* way.                                                                    *)

\* The GetAlls that are awaited, and what was refused or answered of them.
Alls == {m \in Calls : m.kind = "GetAll" /\ m.awaited}
AllsTo(t) == {m \in Alls : m.to = t}
Denied == {m \in Alls : ~m.ok}

\* The Gets of p whose answer counts.
Gets(p, t, e) ==
    {m \in Calls : m.kind = "Get" /\ m.prop = p /\ m.to = t /\ m.epoch = e /\ m.awaited}

\* Signals that have names read again.
Recalls == {m \in Signals : m.invalidated # <<>>}

\* What sets p in the map when it is taken, and what of it sets p to v.
Words(p, t, e) ==
    {m \in Alls : m.ok} \cup Gets(p, t, e) \cup {m \in Signals : p \in DOMAIN m.changed}
Said(m, p) == IF m.kind = "GetAll" THEN m.value[p]
              ELSE IF m.kind = "Get" THEN m.value ELSE m.changed[p]
Truths(p, t, e, v) == {m \in Words(p, t, e) : Said(m, p) = v}

\* Sets that bring v to the service, and those that failed.
Storing(p, v) == {m \in SetsOf(p) : m.value = v}
Failures(p) == {m \in SetsOf(p) : ~m.ok}

\* The map has an optimistic value that the target is still to get, or to refuse.
Excused(p, t, rec, c, r, q) ==
    /\ TRUE \in WriteKinds /\ rec.inFlight /\ rec.to = t /\ c = rec.value
    /\ rec.queued \/ ~NoneIn(r, Storing(p, rec.value)) \/ ~NoneIn(q, Failures(p))

\* Of a property p with record rec that the map has as c and the target as v,
\* with calls r on their way to the service and q on its way back.  A value that
\* could not be sent is in the map until something is said of p.
Synced(p, t, e, st, rec, c, r, q, v) ==
    \/ Ends(r, Alls, AllsTo(t))
    \/ /\ NoneIn(r, Alls)
       /\ \/ ~NoneIn(r, Gets(p, t, e))
          \/ ~NoneIn(q, Recalls)
          \/ Ends(q, Alls, Denied)
          \/ NoneIn(q, Alls) /\ st # "Ready"
          \/ Ends(q, Words(p, t, e), Truths(p, t, e, v))
          \/ NoneIn(q, Words(p, t, e)) /\ (c = v \/ c \in Unsendable \/ Excused(p, t, rec, c, r, q))

LEMMA NotSets ==
    /\ \A m \in Alls : m.kind # "Set"
    /\ \A m \in Recalls : m.kind # "Set"
    /\ \A p, t, e : /\ \A m \in Gets(p, t, e) : m.kind # "Set"
                    /\ \A m \in Words(p, t, e) : m.kind # "Set"
BY DEF Alls, Recalls, Gets, Words, Signals

\* A GetAll to the target is on its way.
LEMMA SyncedByGetAll ==
    ASSUME NEW r \in Seq(Calls), NEW t, NEW m \in AllsTo(t)
    PROVE  \A p, e, st, rec, c, q, v : Synced(p, t, e, st, rec, c, Append(r, m), q, v)
<1>1. m \in Calls /\ m \in Alls
  BY DEF AllsTo, Alls
<1>2. Append(r, m) = r \o <<m>> /\ <<m>> \in Seq(Calls)
  BY <1>1, AppendIsConcat
<1>3. Ends(<<m>>, Alls, AllsTo(t))
  BY <1>1, LastOne
<1>4. Ends(r \o <<m>>, Alls, AllsTo(t))
  BY <1>2, <1>3, LastPut
<1> QED BY <1>2, <1>4 DEF Synced

\* A Get of p is on its way, the last that was sent of all.
LEMMA SyncedByGet ==
    ASSUME NEW r \in Seq(Calls), NEW r2 \in Seq(Calls), NEW g \in Seq(Calls), NEW p, NEW t, NEW e2,
           NoneIn(g, Alls), ~NoneIn(g, Gets(p, t, e2)), SetsApart(r, r2),
           NEW e, NEW st, NEW rec, NEW c, NEW q, NEW v, Synced(p, t, e, st, rec, c, r, q, v)
    PROVE  \A st2, rec2, c2, q2, v2 : Synced(p, t, e2, st2, rec2, c2, r2 \o g, q2, v2)
<1>1. Ends(r, Alls, AllsTo(t)) \/ NoneIn(r, Alls)
  BY DEF Synced
<1>2. Ends(r2, Alls, AllsTo(t)) \/ NoneIn(r2, Alls)
  BY <1>1, NotSets DEF SetsApart
<1>3. /\ Ends(r2, Alls, AllsTo(t)) => Ends(r2 \o g, Alls, AllsTo(t))
      /\ NoneIn(r2, Alls) => NoneIn(r2 \o g, Alls)
      /\ ~NoneIn(r2 \o g, Gets(p, t, e2))
  BY LastPut
<1> QED BY <1>2, <1>3 DEF Synced

\* Something more is on its way back: a word that is true now, a signal that
\* has names read again, or nothing that matters while the target has v still.
LEMMA SyncedPut ==
    ASSUME NEW p, NEW t, NEW e, NEW st, NEW rec, NEW c, NEW r, NEW q \in Seq(Heard), NEW v,
           Synced(p, t, e, st, rec, c, r, q, v),
           NEW a \in Seq(Heard), NoneIn(a, Alls), NEW v2,
           \/ NoneIn(a, Words(p, t, e)) /\ v2 = v
           \/ Ends(a, Words(p, t, e), Truths(p, t, e, v2))
           \/ ~NoneIn(a, Recalls)
    PROVE  Synced(p, t, e, st, rec, c, r, q \o a, v2)
<1>1. \A W, X : /\ Ends(a, W, X) => Ends(q \o a, W, X)
                /\ Ends(q, W, X) /\ NoneIn(a, W) => Ends(q \o a, W, X)
                /\ NoneIn(q \o a, W) <=> NoneIn(q, W) /\ NoneIn(a, W)
  BY LastPut
<1> PICK b : b = q \o a
  OBVIOUS
<1>2. \A W, X : /\ Ends(a, W, X) => Ends(b, W, X)
                /\ Ends(q, W, X) /\ NoneIn(a, W) => Ends(b, W, X)
                /\ NoneIn(b, W) <=> NoneIn(q, W) /\ NoneIn(a, W)
  BY <1>1
<1>3. Excused(p, t, rec, c, r, q) => Excused(p, t, rec, c, r, b)
  BY <1>2 DEF Excused
<1>4. CASE NoneIn(a, Words(p, t, e)) /\ v2 = v
  BY <1>2, <1>3, <1>4 DEF Synced
<1>5. CASE Ends(a, Words(p, t, e), Truths(p, t, e, v2)) \/ ~NoneIn(a, Recalls)
  BY <1>2, <1>5 DEF Synced
<1> QED BY <1>4, <1>5

\* The record, the map or the Sets under way change, and nothing else.
LEMMA SyncedRewritten ==
    ASSUME NEW p, NEW t, NEW e, NEW st, NEW rec, NEW c, NEW r, NEW q, NEW v,
           Synced(p, t, e, st, rec, c, r, q, v),
           NEW rec2, NEW c2, NEW r2, NEW q2, SetsApart(r, r2), SetsApart(q, q2),
           \/ /\ c2 = c
              /\ Excused(p, t, rec, c, r, q) => Excused(p, t, rec2, c2, r2, q2)
           \/ Excused(p, t, rec2, c2, r2, q2)
           \/ c2 \in Unsendable
    PROVE  Synced(p, t, e, st, rec2, c2, r2, q2, v)
<1>1. /\ Ends(r, Alls, AllsTo(t)) => Ends(r2, Alls, AllsTo(t))
      /\ NoneIn(r, Alls) => NoneIn(r2, Alls)
      /\ NoneIn(r, Gets(p, t, e)) <=> NoneIn(r2, Gets(p, t, e))
  BY NotSets DEF SetsApart
<1>2. /\ NoneIn(q, Recalls) <=> NoneIn(q2, Recalls)
      /\ Ends(q, Alls, Denied) => Ends(q2, Alls, Denied)
      /\ NoneIn(q, Alls) <=> NoneIn(q2, Alls)
      /\ Ends(q, Words(p, t, e), Truths(p, t, e, v)) => Ends(q2, Words(p, t, e), Truths(p, t, e, v))
      /\ NoneIn(q, Words(p, t, e)) <=> NoneIn(q2, Words(p, t, e))
  BY NotSets DEF SetsApart
<1> QED BY <1>1, <1>2 DEF Synced

\* The next message is taken: what it says of p is in the map now.
LEMMA SyncedTaken ==
    ASSUME NEW p, NEW t, NEW e, NEW st, NEW rec, NEW c, NEW r, NEW q \in Seq(Heard), NEW v,
           Synced(p, t, e, st, rec, c, r, q, v),
           NEW m, NEW c2, NEW st2, q # <<>>, m = Head(q), m \notin Recalls, m \notin Failures(p),
           c2 = IF m \in Words(p, t, e) THEN Said(m, p) ELSE c,
           m \in Denied => st2 = "Error",
           m \notin Alls => st2 = st
    PROVE  Synced(p, t, e, st2, rec, c2, r, Tail(q), v)
<1> PICK b : b = Tail(q)
  OBVIOUS
<1>1. \A W, X : /\ Ends(q, W, X) => Ends(b, W, X) \/ (m \in W /\ m \in X /\ NoneIn(b, W))
                /\ NoneIn(q, W) <=> NoneIn(b, W) /\ m \notin W
  BY LastTaken
<1>2. Ends(q, Alls, Denied) => Ends(b, Alls, Denied) \/ (NoneIn(b, Alls) /\ st2 # "Ready")
  BY <1>1
<1>3. NoneIn(q, Alls) /\ st # "Ready" => NoneIn(b, Alls) /\ st2 # "Ready"
  BY <1>1
<1>4. Ends(q, Words(p, t, e), Truths(p, t, e, v)) =>
         \/ Ends(b, Words(p, t, e), Truths(p, t, e, v))
         \/ NoneIn(b, Words(p, t, e)) /\ c2 = v
  BY <1>1 DEF Truths
<1>5. NoneIn(q, Words(p, t, e)) => NoneIn(b, Words(p, t, e)) /\ c2 = c
  BY <1>1
<1>6. ~NoneIn(q, Recalls) => ~NoneIn(b, Recalls)
  BY <1>1
<1>7. Excused(p, t, rec, c, r, q) => Excused(p, t, rec, c, r, b)
  BY <1>1 DEF Excused
<1> QED BY <1>2, <1>3, <1>4, <1>5, <1>6, <1>7 DEF Synced

\* A call that is no GetAll is served: a Get of p is answered with the truth,
\* and a Set leaves its failure behind or has stored the value that the map has.
LEMMA SyncedServed ==
    ASSUME NEW p, NEW t, NEW e, NEW st, NEW rec, NEW c, NEW r \in Seq(Calls), NEW q \in Seq(Heard), NEW v,
           Synced(p, t, e, st, rec, c, r, q, v),
           NEW m, NEW a \in Seq(Heard), NEW v2, r # <<>>, m = Head(r), m \notin Alls, NoneIn(a, Alls),
           \/ /\ NoneIn(a, Words(p, t, e)) /\ v2 = v /\ m \notin Gets(p, t, e)
              /\ Excused(p, t, rec, c, r, q) /\ m \in Storing(p, rec.value) =>
                    rec.queued \/ ~NoneIn(a, Failures(p)) \/ c = v2
           \/ Ends(a, Words(p, t, e), Truths(p, t, e, v2))
    PROVE  Synced(p, t, e, st, rec, c, Tail(r), q \o a, v2)
<1> PICK b, x : b = q \o a /\ x = Tail(r)
  OBVIOUS
<1>1. \A W, X : /\ Ends(a, W, X) => Ends(b, W, X)
                /\ Ends(q, W, X) /\ NoneIn(a, W) => Ends(b, W, X)
                /\ NoneIn(b, W) <=> NoneIn(q, W) /\ NoneIn(a, W)
  BY LastPut
<1>2. \A W, X : /\ Ends(r, W, X) => Ends(x, W, X) \/ (m \in W /\ m \in X /\ NoneIn(x, W))
                /\ NoneIn(r, W) <=> NoneIn(x, W) /\ m \notin W
  BY LastTaken
<1>3. Ends(r, Alls, AllsTo(t)) => Ends(x, Alls, AllsTo(t))
  BY <1>2
<1>4. NoneIn(r, Alls) => NoneIn(x, Alls)
  BY <1>2
<1>5. CASE Ends(a, Words(p, t, e), Truths(p, t, e, v2))
  BY <1>1, <1>3, <1>4, <1>5 DEF Synced
<1>6. CASE /\ NoneIn(a, Words(p, t, e)) /\ v2 = v /\ m \notin Gets(p, t, e)
           /\ Excused(p, t, rec, c, r, q) /\ m \in Storing(p, rec.value) =>
                    rec.queued \/ ~NoneIn(a, Failures(p)) \/ c = v2
  <2>1. Excused(p, t, rec, c, r, q) => c = v2 \/ Excused(p, t, rec, c, x, b)
    BY <1>1, <1>2, <1>6 DEF Excused
  <2>2. NoneIn(r, Gets(p, t, e)) <=> NoneIn(x, Gets(p, t, e))
    BY <1>2, <1>6
  <2> QED BY <1>1, <1>3, <1>4, <1>6, <2>1, <2>2 DEF Synced
<1> QED BY <1>5, <1>6

\* A GetAll is served: the last one, which is to the target, is answered with
\* the truth or refused.
\* What is said is how the target is; or nothing is said, of a call that is
\* no word on p.
LEMMA SyncedTold ==
    ASSUME NEW p, NEW t, NEW e, NEW st, NEW rec, NEW c, NEW r \in Seq(Calls), NEW q \in Seq(Heard), NEW v,
           Synced(p, t, e, st, rec, c, r, q, v),
           NEW a \in Seq(Heard), NEW v2, r # <<>>, Head(r) \notin Alls, NoneIn(a, Alls),
           Ends(a, Words(p, t, e), Truths(p, t, e, v2))
    PROVE  Synced(p, t, e, st, rec, c, Tail(r), q \o a, v2)
BY SyncedServed

LEMMA SyncedUntold ==
    ASSUME NEW p, NEW t, NEW e, NEW st, NEW rec, NEW c, NEW r \in Seq(Calls), NEW q \in Seq(Heard), NEW v,
           Synced(p, t, e, st, rec, c, r, q, v),
           NEW a \in Seq(Heard), r # <<>>, Head(r) \notin Alls, NoneIn(a, Alls),
           NoneIn(a, Words(p, t, e)), Head(r) \notin Gets(p, t, e), Head(r) \notin Storing(p, rec.value)
    PROVE  Synced(p, t, e, st, rec, c, Tail(r), q \o a, v)
BY SyncedServed

LEMMA SyncedServedAll ==
    ASSUME NEW p, NEW t, NEW e, NEW st, NEW rec, NEW c, NEW r \in Seq(Calls), NEW q \in Seq(Heard), NEW v,
           Synced(p, t, e, st, rec, c, r, q, v),
           NEW m, NEW n \in Heard, r # <<>>, m = Head(r), m \in Alls, n \in Alls,
           m.to = t => n \in Denied \/ n \in Truths(p, t, e, v)
    PROVE  Synced(p, t, e, st, rec, c, Tail(r), q \o <<n>>, v)
<1> PICK b, x, a : a = <<n>> /\ b = q \o a /\ x = Tail(r)
  OBVIOUS
<1>0. a \in Seq(Heard)
  OBVIOUS
<1>1. \A W, X : Ends(a, W, X) => Ends(b, W, X)
  BY <1>0, LastPut
<1>2. \A W, X : /\ Ends(r, W, X) => Ends(x, W, X) \/ (m \in W /\ m \in X /\ NoneIn(x, W))
                /\ NoneIn(r, W) <=> NoneIn(x, W) /\ m \notin W
  BY LastTaken
<1>3. Ends(r, Alls, AllsTo(t))
  BY <1>2 DEF Synced
<1>4. Ends(x, Alls, AllsTo(t)) \/ (m \in AllsTo(t) /\ NoneIn(x, Alls))
  BY <1>2, <1>3
<1>5. ASSUME m \in AllsTo(t) PROVE Ends(b, Alls, Denied) \/ Ends(b, Words(p, t, e), Truths(p, t, e, v))
  <2>1. n \in Denied \/ n \in Truths(p, t, e, v)
    BY <1>5 DEF AllsTo
  <2>2. n \in Truths(p, t, e, v) => n \in Words(p, t, e)
    BY DEF Truths
  <2>3. Ends(a, Alls, Denied) \/ Ends(a, Words(p, t, e), Truths(p, t, e, v))
    BY <2>1, <2>2, LastOne
  <2> QED BY <1>1, <2>3
<1> QED BY <1>4, <1>5 DEF Synced

-----------------------------------------------------------------------------
(* How the steps keep the map in step, over one stream and with one kind   *)
(* of write.                                                               *)

OneStream == \A s, x \in Services : s = x
OneKind == \A j, k \in WriteKinds : j = k

Now(p, s) ==
    Synced(p, target, epoch, status, sets[p], cache[p], requests[s], inbox[s], server[target][p])

LEMMA Here == ASSUME OneStream, NEW t \in Targets, NEW s \in Services PROVE ServiceOf[t] = s
BY ServicesAssumption DEF OneStream

\* A Set that is sent where the map has its value already, or has it now.
LEMMA SetPut ==
    ASSUME OneStream, NEW rs \in Outgoing, NEW s \in Services, NEW t \in Targets, NEW p \in Props,
           NEW v \in Values
    PROVE  LET m == Request("Set", t, p, v, 0)
           IN  /\ m \in Calls /\ m.kind = "Set" /\ m \in Storing(p, v)
               /\ \A x \in Props : x # p => \A u : m \notin Storing(x, u)
               /\ Sent(rs, m)[s] = Append(rs[s], m)
               /\ rs[s] \in Seq(Calls)
<1> PICK m \in Calls : m = Request("Set", t, p, v, 0)
  BY RequestTyped
<1>1. m.kind = "Set" /\ m.prop = p /\ m.value = v /\ m.to = t /\ m.awaited
  BY DEF Request
<1>2. ServiceOf[m.to] = s
  BY <1>1, Here
<1>3. Sent(rs, m)[s] = Append(rs[s], m)
  BY <1>2 DEF Sent, Outgoing
<1>4. rs[s] \in Seq(Calls)
  BY DEF Outgoing
<1> QED BY <1>1, <1>3, <1>4 DEF Storing, SetsOf

LEMMA WriteInStep ==
    ASSUME TypeInv, OneStream, OneKind, ~CrossWrites, NEW p \in Props, NEW s \in Services, Now(p, s),
           NEW x \in Props, NEW v \in Values, NEW optimistic \in WriteKinds, Write(x, v, optimistic)
    PROVE  Now(p, s)'
<1> PICK t \in Targets, rec \in PendingSet, rs \in Outgoing : t = target /\ rec = sets[p] /\ rs = requests
  BY DEF TypeInv, TypeOK
<1> PICK e, st, c, q, w :
        e = epoch /\ st = status /\ c = cache[p] /\ q = inbox[s] /\ w = server[target][p]
  OBVIOUS
<1> PICK r \in Seq(Calls) : r = rs[s]
  BY DEF Outgoing
<1> PICK rec2, c2, r2 : rec2 = sets'[p] /\ c2 = cache'[p] /\ r2 = requests'[s]
  OBVIOUS
<1>1. Synced(p, t, e, st, rec, c, r, q, w)
  BY DEF Now
<1>2. sets \in [Props -> PendingSet] /\ cache \in [Props -> Values \cup Unsendable \cup {Null}] /\ optimistic \in BOOLEAN
  BY WritesAssumption DEF TypeInv, TypeOK
<1>3. SUFFICES Synced(p, t, e, st, rec2, c2, r2, q, w)
  BY DEF Now, Write, switches
<1> PICK m \in Calls : m = Request("Set", t, x, v, 0)
  BY RequestTyped
<1>4. /\ m.kind = "Set" /\ m \in Storing(x, v) /\ \A y \in Props : y # x => \A u : m \notin Storing(y, u)
      /\ Sent(rs, m)[s] = Append(r, m)
  BY SetPut
<1>5. r2 = IF sets[x].inFlight THEN r ELSE Append(r, m)
  <2>1. requests' = IF sets[x].inFlight THEN rs ELSE Sent(rs, m)
    BY DEF Write, SetSent
  <2> QED BY <1>4, <2>1
<1>6. SetsApart(r, r2) /\ SetsApart(q, q)
  BY <1>4, <1>5, ApartOfItself, ApartPut
<1>7. /\ ~NoneIn(r, Storing(p, rec.value)) => ~NoneIn(r2, Storing(p, rec.value))
      /\ ~sets[x].inFlight => ~NoneIn(r2, Storing(x, v))
  <2>1. /\ Append(r, m) = r \o <<m>> /\ <<m>> \in Seq(Calls)
        /\ \A W : NoneIn(<<m>>, W) <=> m \notin W
    BY AppendIsConcat, LastOne
  <2>2. \A W : NoneIn(r \o <<m>>, W) <=> NoneIn(r, W) /\ NoneIn(<<m>>, W)
    BY <2>1, LastPut
  <2> QED BY <1>4, <1>5, <2>1, <2>2
<1>8. CASE x = p
  <2>1. /\ rec2 = SetRecord(p, v) /\ c2 = IF optimistic THEN v ELSE c
        /\ rec.inFlight => rec.to = t
    BY <1>2, <1>8 DEF Write
  <2>2. rec2.inFlight /\ rec2.to = t /\ rec2.value = v /\ (rec.inFlight => rec2.queued)
    BY <2>1 DEF SetRecord, PendingSet
  <2>3. CASE optimistic
    <3>1. TRUE \in WriteKinds
      BY <1>2, <2>3
    <3>2. Excused(p, t, rec2, c2, r2, q)
      BY <1>7, <1>8, <2>1, <2>2, <2>3, <3>1 DEF Excused
    <3> QED BY <1>1, <1>6, <3>2, SyncedRewritten
  <2>4. CASE ~optimistic
    <3>1. TRUE \notin WriteKinds
      BY <1>2, <2>4 DEF OneKind
    <3>2. ~Excused(p, t, rec, c, r, q) /\ c2 = c
      BY <2>1, <2>4, <3>1 DEF Excused
    <3> QED BY <1>1, <1>6, <3>2, SyncedRewritten
  <2> QED BY <2>3, <2>4
<1>9. CASE x # p
  <2>1. rec2 = rec /\ c2 = c
    BY <1>2, <1>9 DEF Write
  <2>2. Excused(p, t, rec, c, r, q) => Excused(p, t, rec2, c2, r2, q)
    BY <1>7, <2>1 DEF Excused
  <2> QED BY <1>1, <1>6, <2>1, <2>2, SyncedRewritten
<1> QED BY <1>8, <1>9

\* A value that cannot be sent is put in the map.
LEMMA WriteDroppedInStep ==
    ASSUME TypeInv, NEW p \in Props, NEW s \in Services, Now(p, s),
           NEW x \in Props, NEW v \in Unsendable, WriteDropped(x, v)
    PROVE  Now(p, s)'
<1> PICK c, c2, r, q : c = cache[p] /\ c2 = cache'[p] /\ r = requests[s] /\ q = inbox[s]
  OBVIOUS
<1>1. Synced(p, target, epoch, status, sets[p], c, r, q, server[target][p])
  BY DEF Now
<1>2. c2 = c \/ c2 \in Unsendable
  BY DEF WriteDropped, TypeInv, TypeOK
<1>3. SetsApart(r, r) /\ SetsApart(q, q)
  BY ApartOfItself
<1>4. Synced(p, target, epoch, status, sets[p], c2, r, q, server[target][p])
  BY <1>1, <1>2, <1>3, SyncedRewritten
<1> QED BY <1>4 DEF Now, WriteDropped, switches

\* A Set of p ends, with calls rs and answers box left that differ from those
\* of before in Sets only.
LEMMA SetEndsInStep ==
    ASSUME TypeInv, OneStream, OneConnection, OneKind, NEW p \in Props, NEW s \in Services, Now(p, s),
           sets[p].inFlight, NEW failed \in BOOLEAN, NEW rs \in Outgoing, NEW q,
           SetsApart(requests[s], rs[s]), SetsApart(inbox[s], q), SetEnds(p, failed, rs),
           ~failed /\ ~sets[p].queued =>
               ~Excused(p, target, sets[p], cache[p], requests[s], inbox[s])
    PROVE  Synced(p, target, epoch', status, sets'[p], cache'[p], requests'[s], q, server[target][p])
<1> PICK t \in Targets, e \in Nat, rec \in PendingSet, r \in Seq(Calls) :
        t = target /\ e = epoch /\ rec = sets[p] /\ r = requests[s]
  BY DEF TypeInv, TypeOK, Outgoing
<1> PICK st, c, q0, w : st = status /\ c = cache[p] /\ q0 = inbox[s] /\ w = server[target][p]
  OBVIOUS
<1> PICK r1 \in Seq(Calls) : r1 = rs[s]
  BY DEF Outgoing
<1> PICK e2, rec2, c2, r2 : e2 = epoch' /\ rec2 = sets'[p] /\ c2 = cache'[p] /\ r2 = requests'[s]
  OBVIOUS
<1>1. Synced(p, t, e, st, rec, c, r, q0, w) /\ SetsApart(r, r1) /\ SetsApart(q0, q)
  BY DEF Now
<1>2. /\ sets \in [Props -> PendingSet] /\ cache \in [Props -> Values \cup Unsendable \cup {Null}]
      /\ rec.inFlight /\ rec.to \in Targets /\ rec.value \in Values
  BY DEF TypeInv, TypeOK
<1>3. SUFFICES Synced(p, t, e2, st, rec2, c2, r2, q, w)
  OBVIOUS
<1>4. ASSUME NEW u \in Targets, NEW v \in Values, requests' = Sent(rs, Request("Set", u, p, v, 0))
      PROVE  SetsApart(r, r2) /\ ~NoneIn(r2, Storing(p, v))
  <2> PICK m \in Calls : m = Request("Set", u, p, v, 0)
    BY RequestTyped
  <2>1. m.kind = "Set" /\ m \in Storing(p, v) /\ Sent(rs, m)[s] = Append(r1, m)
    BY SetPut
  <2>2. r2 = Append(r1, m)
    BY <1>4, <2>1
  <2>3. SetsApart(r, Append(r1, m))
    BY <1>1, <2>1, ApartPut
  <2>4. Append(r1, m) = r1 \o <<m>> /\ <<m>> \in Seq(Calls) /\ ~NoneIn(<<m>>, Storing(p, v))
    <3>1. Append(r1, m) = r1 \o <<m>> /\ <<m>> \in Seq(Calls)
      BY AppendIsConcat
    <3>2. ~NoneIn(<<m>>, Storing(p, v))
      BY <2>1, LastOne
    <3> QED BY <3>1, <3>2
  <2>5. ~NoneIn(r1 \o <<m>>, Storing(p, v))
    BY <2>4, LastPut
  <2> QED BY <2>2, <2>3, <2>4, <2>5
<1>5. CASE /\ rec.queued /\ rec2 = [rec EXCEPT !.queued = FALSE] /\ e2 = e /\ c2 = c
           /\ requests' = Sent(rs, Request("Set", OverLiveConnection(rec.to), p, rec.value, 0))
  <2>1. OverLiveConnection(rec.to) \in Targets
    BY <1>2, LiveConnection
  <2>2. SetsApart(r, r2) /\ ~NoneIn(r2, Storing(p, rec.value))
    BY <1>2, <1>4, <1>5, <2>1
  <2>3. rec2.value = rec.value /\ rec2.inFlight = rec.inFlight /\ rec2.to = rec.to
    BY <1>5 DEF PendingSet
  <2>4. Excused(p, t, rec, c, r, q0) => Excused(p, t, rec2, c2, r2, q)
    BY <1>5, <2>2, <2>3 DEF Excused
  <2> QED BY <1>1, <1>5, <2>2, <2>4, SyncedRewritten
<1>6. CASE ~rec.queued /\ ~failed /\ requests' = rs /\ e2 = e /\ c2 = c
  <2>1. ~Excused(p, t, rec, c, r, q0) /\ r2 = r1
    BY <1>6
  <2> QED BY <1>1, <1>6, <2>1, SyncedRewritten
<1>7. CASE Refetch(rs, <<p>>)
  <2> PICK m \in Calls : m = Request("Get", t, p, Null, e + 1)
    BY RequestTyped
  <2>1. m \in Gets(p, t, e + 1) /\ m \notin Alls
    BY DEF Request, Gets, Alls
  <2>2. Refetches(<<p>>) = <<m>> /\ Len(<<p>>) = 1
    BY DEF Refetches
  <2>3. e2 = e + 1 /\ r2 = r1 \o <<m>>
    BY <1>7, <2>2, Here DEF Refetch, Outgoing
  <2>4. NoneIn(<<m>>, Alls) /\ ~NoneIn(<<m>>, Gets(p, t, e2)) /\ <<m>> \in Seq(Calls)
    BY <2>1, <2>3, LastOne
  <2> PICK g \in Seq(Calls) : g = <<m>>
    BY <2>4
  <2>5. NoneIn(g, Alls) /\ ~NoneIn(g, Gets(p, t, e2)) /\ r2 = r1 \o g
    BY <2>3, <2>4
  <2>6. Synced(p, t, e2, st, rec2, c2, r1 \o g, q, w)
    BY ONLY <1>1, <2>5, SyncedByGet, r \in Seq(Calls), r1 \in Seq(Calls), g \in Seq(Calls)
  <2> QED BY <2>5, <2>6
<1>8. ASSUME NEW v \in Values, NEW optimistic \in WriteKinds, WrittenAgain(p, v, optimistic, rs)
      PROVE  Synced(p, t, e2, st, rec2, c2, r2, q, w)
  <2>1. /\ rec2.inFlight /\ rec2.to = t /\ rec2.value = v /\ e2 = e
        /\ requests' = Sent(rs, Request("Set", t, p, v, 0))
        /\ c2 = IF optimistic THEN v ELSE c
    BY <1>2, <1>8 DEF WrittenAgain
  <2>2. SetsApart(r, r2) /\ ~NoneIn(r2, Storing(p, v))
    BY <1>4, <2>1
  <2>3. optimistic \in BOOLEAN
    BY WritesAssumption
  <2>4. CASE optimistic
    <3>1. TRUE \in WriteKinds
      BY <2>3, <2>4
    <3>2. Excused(p, t, rec2, c2, r2, q)
      BY <2>1, <2>2, <2>4, <3>1 DEF Excused
    <3> QED BY <1>1, <2>1, <2>2, <3>2, SyncedRewritten
  <2>5. CASE ~optimistic
    <3>1. TRUE \notin WriteKinds
      BY <2>3, <2>5 DEF OneKind
    <3>2. ~Excused(p, t, rec, c, r, q0) /\ c2 = c
      BY <2>1, <2>5, <3>1 DEF Excused
    <3> QED BY <1>1, <2>1, <2>2, <3>2, SyncedRewritten
  <2> QED BY <2>4, <2>5
<1>9. CASE SetFinished(p, failed, rs) /\ UNCHANGED <<cache, budget>>
  <2>1. \/ /\ rec.queued /\ sets' = [sets EXCEPT ![p].queued = FALSE] /\ epoch' = epoch
           /\ requests' = Sent(rs, Request("Set", OverLiveConnection(rec.to), p, rec.value, 0))
        \/ ~rec.queued /\ ~failed /\ requests' = rs /\ epoch' = epoch
        \/ Refetch(rs, <<p>>)
    BY <1>9 DEF SetFinished
  <2>2. sets' = [sets EXCEPT ![p].queued = FALSE] => rec2 = [rec EXCEPT !.queued = FALSE]
    BY <1>2
  <2>3. c2 = c
    BY <1>9
  <2> QED BY <1>5, <1>6, <1>7, <2>1, <2>2, <2>3
<1> QED BY <1>8, <1>9 DEF SetEnds

LEMMA SetTimesOutInStep ==
    ASSUME TypeInv, OneStream, OneConnection, OneKind, NEW p \in Props, NEW s \in Services, Now(p, s),
           SetTimesOut(p)
    PROVE  Now(p, s)'
<1> PICK rs \in Outgoing : rs = Unawaited(requests, "Set", p)
  BY UnawaitedKept DEF TypeInv
<1> PICK q : q = inbox'[s]
  OBVIOUS
<1>1. SetsApart(requests[s], rs[s]) /\ SetsApart(inbox[s], q)
  BY ApartUnawaited, ApartWithout DEF SetTimesOut, TypeInv
<1>2. PICK failed \in BOOLEAN : failed = TRUE
  OBVIOUS
<1>3. SetEnds(p, failed, rs) /\ sets[p].inFlight
  BY <1>2 DEF SetTimesOut
<1>4. Synced(p, target, epoch', status, sets'[p], cache'[p], requests'[s], q, server[target][p])
  BY <1>1, <1>2, <1>3, SetEndsInStep
<1>5. target' = target /\ status' = status /\ server' = server
  BY <1>3 DEF SetEnds
<1> QED BY <1>4, <1>5 DEF Now

\* The answer of a Set is of the only one of its property that is under way.
LEMMA OnlySet ==
    ASSUME IInv, NEW p \in Props, NEW s \in Services, inbox[s] # <<>>, Head(inbox[s]) \in SetsOf(p)
    PROVE  /\ sets[p].inFlight
           /\ NoneIn(requests[s], SetsOf(p)) /\ NoneIn(Tail(inbox[s]), SetsOf(p))
<1> PICK r \in Seq(Calls), q \in Seq(Heard) : r = requests[s] /\ q = inbox[s]
  BY DEF IInv, TypeInv, Outgoing, Incoming
<1>1. Tail(q) \in Seq(Heard)
  BY HeadTailProperties
<1>2. /\ CountOf(r, SetsOf(p)) \in Nat /\ CountOf(Tail(q), SetsOf(p)) \in Nat
      /\ CountOf(q, SetsOf(p)) = CountOf(Tail(q), SetsOf(p)) + 1
  BY <1>1, CountType, CountTail
<1>3. Under(requests, inbox, SetsOf(p), s) = CountOf(r, SetsOf(p)) + CountOf(q, SetsOf(p))
  BY DEF Under
<1>4. sets[p].inFlight /\ Under(requests, inbox, SetsOf(p), s) = 1
  BY <1>2, <1>3 DEF IInv, OneSet
<1>5. CountOf(r, SetsOf(p)) = 0 /\ CountOf(Tail(q), SetsOf(p)) = 0
  BY <1>2, <1>3, <1>4
<1> QED BY <1>1, <1>4, <1>5, CountType DEF NoneIn

LEMMA SetReplyInStep ==
    ASSUME IInv, OneStream, OneConnection, OneKind, NEW p \in Props, NEW s \in Services, Now(p, s),
           SetReply(s), Head(inbox[s]).prop = p
    PROVE  Now(p, s)'
<1>1. TypeInv
  BY DEF IInv
<1> PICK rs \in Outgoing, q \in Seq(Heard) : rs = requests /\ q = inbox[s]
  BY <1>1 DEF TypeInv, Incoming
<1> PICK m : m = Head(q)
  OBVIOUS
<1>2. q # <<>> /\ m.kind = "Set" /\ SetEnds(p, ~m.ok, requests) /\ inbox'[s] = Tail(q)
  BY <1>1 DEF SetReply, Take, Consume, TypeInv, Incoming
<1>3. m \in Answers /\ m \in SetsOf(p) /\ m.ok \in BOOLEAN
  <2>1. m \in Heard
    BY <1>2, HeadTailProperties
  <2> QED BY <1>2, <2>1 DEF Heard, Signals, Answers, SetsOf, Calls, Message
<1>4. sets[p].inFlight /\ NoneIn(requests[s], SetsOf(p)) /\ NoneIn(Tail(q), SetsOf(p))
  BY <1>2, <1>3, OnlySet
<1>5. SetsApart(requests[s], rs[s]) /\ SetsApart(inbox[s], Tail(q))
  BY <1>2, ApartOfItself, ApartTail
<1>6. PICK failed \in BOOLEAN : failed = ~m.ok
  BY <1>3
<1>7. ~failed /\ ~sets[p].queued =>
         ~Excused(p, target, sets[p], cache[p], requests[s], inbox[s])
  <2>1. NoneIn(requests[s], Storing(p, sets[p].value))
    BY <1>4 DEF NoneIn, Storing
  <2>2. NoneIn(Tail(q), Failures(p)) /\ (~failed => m \notin Failures(p))
    BY <1>4, <1>6 DEF NoneIn, Failures
  <2>3. ~failed => NoneIn(q, Failures(p))
    BY <1>2, <2>2, LastTaken
  <2> QED BY <2>1, <2>3 DEF Excused
<1>8. SetEnds(p, failed, rs)
  BY <1>2, <1>6
<1>9. Synced(p, target, epoch', status, sets'[p], cache'[p], requests'[s], Tail(q), server[target][p])
  BY <1>1, <1>4, <1>5, <1>7, <1>8, SetEndsInStep
<1>10. target' = target /\ status' = status /\ server' = server
  BY <1>2 DEF SetEnds
<1> QED BY <1>2, <1>9, <1>10 DEF Now

\* What a signal to who listens says.
LEMMA SignalSays ==
    ASSUME NEW ch \in Changes, NEW n \in Seq(Props), NEW p, NEW t, NEW e
    PROVE  LET g == Signal(ch, n)
           IN  /\ g \in Heard /\ g \notin Alls /\ (g \in Recalls <=> n # <<>>)
               /\ g \in Words(p, t, e) <=> p \in DOMAIN ch
               /\ p \in DOMAIN ch => \A v : v = ch[p] => g \in Truths(p, t, e, v)
<1> PICK g : g = Signal(ch, n)
  OBVIOUS
<1>1. g.kind = "PropertiesChanged" /\ g.changed = ch /\ g.invalidated = n /\ g \in Signals
  BY DEF Signal, Signals
<1>2. g \in Heard /\ g \notin Alls /\ (g \in Recalls <=> n # <<>>)
  BY <1>1 DEF Heard, Alls, Recalls
<1>3. g \in Words(p, t, e) <=> p \in DOMAIN ch
  BY <1>1 DEF Words, Alls, Gets
<1>4. p \in DOMAIN ch => \A v : v = ch[p] => g \in Truths(p, t, e, v)
  BY <1>1, <1>3 DEF Truths, Said
<1> QED BY <1>2, <1>3, <1>4

LEMMA ServerChangesInStep ==
    ASSUME TypeInv, OneStream, subscribed = target, NEW p \in Props, NEW s \in Services, Now(p, s),
           NEW u \in Targets, NEW new \in [Props -> Values], ServerChanges(u, new)
    PROVE  Now(p, s)'
<1> PICK t \in Targets, q \in Seq(Heard) : t = target /\ q = inbox[s]
  BY DEF TypeInv, TypeOK, Incoming
<1> PICK e, st, rec, c, r, w, ps :
        /\ e = epoch /\ st = status /\ rec = sets[p] /\ c = cache[p] /\ r = requests[s]
        /\ w = server[t][p] /\ ps = {x \in Props : new[x] # server[u][x]}
  OBVIOUS
<1>1. Synced(p, t, e, st, rec, c, r, q, w)
  BY DEF Now
<1>2. PICK w2 : w2 = server'[t][p] /\ w2 = IF u = t THEN new[p] ELSE w
  BY DEF ServerChanges, TypeInv, TypeOK
<1>3. /\ ps # {} /\ ps \in SUBSET Props
      /\ \/ inbox' = [inbox EXCEPT ![ServiceOf[u]] = @ \o Announced(u, [x \in ps |-> new[x]], <<>>)]
         \/ \E names \in SetToSeqs(ps) :
               inbox' = [inbox EXCEPT ![ServiceOf[u]] = @ \o Announced(u, <<>>, names)]
  BY DEF ServerChanges
<1> DEFINE Put(a) == inbox' = [inbox EXCEPT ![ServiceOf[u]] = @ \o a]
           Fits(a) == /\ a \in Seq(Heard) /\ NoneIn(a, Alls)
                      /\ \/ NoneIn(a, Words(p, t, e)) /\ w2 = w
                         \/ Ends(a, Words(p, t, e), Truths(p, t, e, w2))
                         \/ ~NoneIn(a, Recalls)
<1>4. \E a : Put(a) /\ Fits(a)
  <2>1. CASE u # t
    <3>1. \A ch, n : Announced(u, ch, n) = <<>>
      BY <2>1 DEF Announced
    <3>2. Fits(<<>>)
      BY <1>2, <2>1 DEF NoneIn
    <3>3. Put(<<>>)
      BY <1>3, <3>1
    <3> QED BY <3>2, <3>3
  <2>2. CASE u = t /\ Put(Announced(u, [x \in ps |-> new[x]], <<>>))
    <3> PICK ch, n : ch = [x \in ps |-> new[x]] /\ n = <<>>
      OBVIOUS
    <3>1. ch \in Changes /\ n \in Seq(Props) /\ DOMAIN ch = ps /\ ch # <<>>
      <4>1. ch \in [ps -> Values] /\ DOMAIN ch = ps
        BY <1>3
      <4>2. DOMAIN <<>> = {}
        OBVIOUS
      <4>3. ch # <<>>
        BY <1>3, <4>1, <4>2
      <4> QED BY <1>3, <4>1, <4>3, ChangesAre
    <3> PICK g : g = Signal(ch, n)
      OBVIOUS
    <3>2. /\ g \in Heard /\ g \notin Alls /\ (g \in Words(p, t, e) <=> p \in DOMAIN ch)
          /\ p \in DOMAIN ch => \A v : v = ch[p] => g \in Truths(p, t, e, v)
      BY <3>1, SignalSays
    <3>3. Announced(u, ch, n) = <<g>>
      BY <2>2, <3>1 DEF Announced
    <3>4. p \in ps => w2 = ch[p]
      BY <1>2, <2>2
    <3>5. p \notin ps => w2 = w
      BY <1>2, <2>2
    <3>6. Fits(<<g>>)
      <4>1. <<g>> \in Seq(Heard) /\ NoneIn(<<g>>, Alls)
        BY <3>2, LastOne
      <4>2. p \in ps => Ends(<<g>>, Words(p, t, e), Truths(p, t, e, w2))
        BY <3>1, <3>2, <3>4, LastOne
      <4>3. p \notin ps => NoneIn(<<g>>, Words(p, t, e))
        BY <3>1, <3>2, LastOne
      <4> QED BY <3>5, <4>1, <4>2, <4>3
    <3>7. Put(<<g>>)
      BY <2>2, <3>3
    <3> QED BY <3>6, <3>7
  <2>3. ASSUME u = t, NEW n \in SetToSeqs(ps), Put(Announced(u, <<>>, n)) PROVE \E a : Put(a) /\ Fits(a)
    <3>1. n \in Seq(Props) /\ n # <<>>
      <4>1. IsFiniteSet(ps) /\ Cardinality(ps) \in Nat /\ Cardinality(ps) # 0
        BY <1>3, PropsAssumption, FS_Subset, FS_CardinalityType, FS_EmptySet
      <4>2. n \in [1 .. Cardinality(ps) -> ps]
        BY <2>3 DEF SetToSeqs
      <4> PICK k \in Nat : k = Cardinality(ps)
        BY <4>1
      <4>3. n \in [1 .. k -> Props]
        BY <1>3, <4>2
      <4>4. n \in Seq(Props)
        BY ONLY <4>3, k \in Nat
      <4>5. 1 \in DOMAIN n
        BY <4>1, <4>2
      <4> QED BY <4>4, <4>5
    <3>2. <<>> \in Changes
      <4>1. <<>> \in [{} -> Values] /\ {} \in SUBSET Props
        OBVIOUS
      <4> QED BY <4>1, ChangesAre
    <3> PICK ch, g : ch = <<>> /\ g = Signal(ch, n)
      OBVIOUS
    <3>3. g \in Heard /\ g \notin Alls /\ g \in Recalls
      BY <3>1, <3>2, SignalSays
    <3>4. Announced(u, <<>>, n) = <<g>>
      BY <2>3, <3>1 DEF Announced
    <3>5. <<g>> \in Seq(Heard) /\ NoneIn(<<g>>, Alls) /\ ~NoneIn(<<g>>, Recalls)
      BY <3>3, LastOne
    <3>6. Put(<<g>>)
      BY <2>3, <3>4
    <3> QED BY <3>5, <3>6
  <2> QED BY <1>3, <2>1, <2>2, <2>3
<1> PICK a : Put(a) /\ Fits(a)
  BY <1>4
<1>5. Synced(p, t, e, st, rec, c, r, q \o a, w2)
  BY <1>1, SyncedPut
<1>6. inbox'[s] = q \o a
  BY Here DEF TypeInv, Incoming
<1> QED BY <1>2, <1>5, <1>6 DEF Now, ServerChanges, proxy, switches

LEMMA AnswerAs ==
    ASSUME NEW m \in Calls, NEW ok, NEW v, NEW n, n = Answer(m, ok, v)
    PROVE  /\ n.kind = m.kind /\ n.to = m.to /\ n.prop = m.prop /\ n.epoch = m.epoch
           /\ n.awaited = m.awaited /\ n.ok = ok /\ n.value = v
BY DEF Answer, Calls, Message

\* What is on its way back when a call m was served: what else it says, and the
\* answer if m is awaited.
Back(q, g, m, ok, v) == q \o g \o (IF m.awaited THEN <<Answer(m, ok, v)>> ELSE <<>>)

LEMMA ServedOther ==
    ASSUME NEW p, NEW t, NEW e, NEW st, NEW rec, NEW c, NEW r \in Seq(Calls), NEW q \in Seq(Heard), NEW w,
           Synced(p, t, e, st, rec, c, r, q, w),
           NEW m \in Calls, NEW ok \in BOOLEAN, NEW v \in AnyValue, r # <<>>, m = Head(r),
           m.kind = "Introspect"
    PROVE  Synced(p, t, e, st, rec, c, Tail(r), Back(q, <<>>, m, ok, v), w)
<1> PICK n : n = Answer(m, ok, v)
  OBVIOUS
<1> PICK a : a = IF m.awaited THEN <<n>> ELSE <<>>
  OBVIOUS
<1>1. n.kind = "Introspect" /\ (m.awaited => n \in Heard)
  BY AnswerAs, AnswerKept DEF Heard
<1>2. a \in Seq(Heard) /\ (a = <<n>> \/ a = <<>>)
  BY <1>1
<1>3. \A W : n \notin W => NoneIn(a, W)
  BY <1>2, LastOne DEF NoneIn
<1>4. NoneIn(a, Alls) /\ NoneIn(a, Words(p, t, e))
  BY <1>1, <1>3 DEF Alls, Words, Gets, Signals
<1>5. m \notin Alls /\ m \notin Gets(p, t, e) /\ \A u : m \notin Storing(p, u)
  BY DEF Alls, Gets, Storing, SetsOf
<1>6. Synced(p, t, e, st, rec, c, Tail(r), q \o a, w)
  BY <1>2, <1>4, <1>5, SyncedServed
<1>7. Back(q, <<>>, m, ok, v) = q \o a
  <2>1. q \o <<>> = q
    OBVIOUS
  <2> QED BY <2>1 DEF Back
<1> QED BY <1>6, <1>7

LEMMA ServedGetAll ==
    ASSUME NEW p, NEW t, NEW e, NEW st, NEW rec, NEW c, NEW r \in Seq(Calls), NEW q \in Seq(Heard), NEW w,
           Synced(p, t, e, st, rec, c, r, q, w),
           NEW m \in Calls, NEW ok \in BOOLEAN, NEW v \in AnyValue, r # <<>>, m = Head(r),
           m.kind = "GetAll", ok => v \in [Props -> Values] /\ (m.to = t => v[p] = w)
    PROVE  Synced(p, t, e, st, rec, c, Tail(r), Back(q, <<>>, m, ok, v), w)
<1> PICK n : n = Answer(m, ok, v)
  OBVIOUS
<1>1. q \o <<>> = q
  OBVIOUS
<1>2. m.awaited \in BOOLEAN
  BY DEF Calls, Message
<1>3. CASE m.awaited
  <2>1. n \in Answers
    BY <1>3, AnswerKept
  <2>2. n.kind = "GetAll" /\ n.awaited /\ n.ok = ok /\ n.value = v
    BY <1>3, AnswerAs
  <2>3. n \in Heard /\ n \in Alls /\ m \in Alls
    BY <1>3, <2>1, <2>2 DEF Heard, Answers, Alls
  <2>4. m.to = t => n \in Denied \/ n \in Truths(p, t, e, w)
    BY <2>2, <2>3 DEF Denied, Truths, Words, Said
  <2>5. Synced(p, t, e, st, rec, c, Tail(r), q \o <<n>>, w)
    BY <2>3, <2>4, SyncedServedAll
  <2> QED BY <1>1, <1>3, <2>5 DEF Back
<1>4. CASE ~m.awaited
  <2>1. m \notin Alls /\ m \notin Gets(p, t, e) /\ \A u : m \notin Storing(p, u)
    BY <1>4 DEF Alls, Gets, Storing, SetsOf
  <2>2. <<>> \in Seq(Heard) /\ \A W : NoneIn(<<>>, W)
    BY DEF NoneIn
  <2>3. Synced(p, t, e, st, rec, c, Tail(r), q \o <<>>, w)
    BY <2>1, <2>2, SyncedServed
  <2> QED BY <1>1, <1>4, <2>3 DEF Back
<1> QED BY <1>2, <1>3, <1>4

LEMMA ServedGet ==
    ASSUME NEW p, NEW t, NEW e, NEW st, NEW rec, NEW c, NEW r \in Seq(Calls), NEW q \in Seq(Heard), NEW w,
           Synced(p, t, e, st, rec, c, r, q, w),
           NEW m \in Calls, NEW ok \in BOOLEAN, NEW v \in Values, r # <<>>, m = Head(r),
           m.kind = "Get", m.to = t /\ m.prop = p => v = w
    PROVE  Synced(p, t, e, st, rec, c, Tail(r), Back(q, <<>>, m, ok, v), w)
<1> PICK n : n = Answer(m, ok, v)
  OBVIOUS
<1> PICK a : a = IF m.awaited THEN <<n>> ELSE <<>>
  OBVIOUS
<1>1. /\ n.kind = "Get" /\ n.awaited = m.awaited /\ n.to = m.to /\ n.prop = m.prop
      /\ n.epoch = m.epoch /\ n.value = v
  BY AnswerAs
<1>2. v \in AnyValue /\ m.awaited \in BOOLEAN
  BY DEF AnyValue, Calls, Message
<1>3. m.awaited => n \in Answers
  BY <1>2, AnswerKept
<1>4. m.awaited => n \in Heard /\ n \in Calls
  BY <1>3 DEF Heard, Answers
<1>5. a \in Seq(Heard)
  BY <1>4
<1>6. n \notin Alls /\ m \notin Alls /\ \A u : m \notin Storing(p, u)
  BY <1>1 DEF Alls, Storing, SetsOf
<1>7. Back(q, <<>>, m, ok, v) = q \o a
  <2>1. q \o <<>> = q
    OBVIOUS
  <2> QED BY <2>1 DEF Back
<1>8. NoneIn(a, Alls)
  BY <1>6, LastOne DEF NoneIn
<1>9. CASE m \in Gets(p, t, e)
  <2>1. n \in Truths(p, t, e, w) /\ n \in Words(p, t, e) /\ a = <<n>>
    BY <1>1, <1>4, <1>9 DEF Gets, Truths, Words, Said
  <2>2. Ends(a, Words(p, t, e), Truths(p, t, e, w))
    BY <2>1, LastOne
  <2> QED BY <1>5, <1>6, <1>7, <1>8, <2>2, SyncedTold
<1>10. CASE m \notin Gets(p, t, e)
  <2>1. m.awaited => n \notin Words(p, t, e)
    BY <1>1, <1>6, <1>10 DEF Gets, Words, Signals, Alls
  <2>2. NoneIn(a, Words(p, t, e))
    BY <2>1, LastOne DEF NoneIn
  <2> QED BY <1>5, <1>6, <1>7, <1>8, <1>10, <2>2, SyncedUntold
<1> QED BY <1>9, <1>10

\* A Set is served or refused: what is said of p says what the target has now,
\* and a Set of the value that the map has is stored or leaves its failure.
LEMMA ServedSet ==
    ASSUME NEW p, NEW t, NEW e, NEW st, NEW rec, NEW c, NEW r \in Seq(Calls), NEW q \in Seq(Heard), NEW w,
           Synced(p, t, e, st, rec, c, r, q, w),
           NEW m \in Calls, NEW ok \in BOOLEAN, NEW v \in Values, r # <<>>, m = Head(r), m.kind = "Set",
           NEW g \in Seq(Heard), NoneIn(g, Alls), NEW w2,
           \/ /\ NoneIn(g, Words(p, t, e)) /\ w2 = w
              /\ ok /\ Excused(p, t, rec, c, r, q) /\ m \in Storing(p, rec.value) => c = w2
           \/ Ends(g, Words(p, t, e), Truths(p, t, e, w2))
    PROVE  Synced(p, t, e, st, rec, c, Tail(r), Back(q, g, m, ok, v), w2)
<1> PICK n : n = Answer(m, ok, v)
  OBVIOUS
<1> PICK b : b = IF m.awaited THEN <<n>> ELSE <<>>
  OBVIOUS
<1>1. n.kind = "Set" /\ n.prop = m.prop /\ n.awaited = m.awaited /\ n.ok = ok
  BY AnswerAs
<1>2. v \in AnyValue /\ m.awaited \in BOOLEAN
  BY DEF AnyValue, Calls, Message
<1>3. m.awaited => n \in Answers
  BY <1>2, AnswerKept
<1>4. b \in Seq(Heard) /\ (m.awaited => n \in Calls)
  <2>1. m.awaited => n \in Heard /\ n \in Calls
    BY <1>3 DEF Heard, Answers
  <2> QED BY <2>1
<1>5. NoneIn(b, Alls) /\ NoneIn(b, Words(p, t, e))
  <2>1. n \notin Alls /\ n \notin Words(p, t, e)
    BY <1>1, NotSets
  <2> QED BY <2>1, LastOne DEF NoneIn
<1> PICK a \in Seq(Heard) : a = g \o b
  BY <1>4, ConcatProperties
<1>6. Back(q, g, m, ok, v) = q \o a
  <2>1. (q \o g) \o b = q \o (g \o b)
    BY ONLY <1>4, q \in Seq(Heard), g \in Seq(Heard), SMTT(30)
  <2> QED BY <2>1 DEF Back
<1>7. \A W, X : /\ Ends(g, W, X) /\ NoneIn(b, W) => Ends(a, W, X)
                /\ NoneIn(a, W) <=> NoneIn(g, W) /\ NoneIn(b, W)
  BY <1>4, LastPut
<1>8. NoneIn(a, Alls)
  BY <1>5, <1>7
<1>9. m \notin Alls /\ m \notin Gets(p, t, e)
  BY DEF Alls, Gets
<1>10. CASE Ends(g, Words(p, t, e), Truths(p, t, e, w2))
  <2>1. Ends(a, Words(p, t, e), Truths(p, t, e, w2))
    BY <1>5, <1>7, <1>10
  <2>2. Synced(p, t, e, st, rec, c, Tail(r), q \o a, w2)
    BY <1>8, <1>9, <2>1, SyncedServed
  <2> QED BY <1>6, <2>2
<1>11. CASE /\ NoneIn(g, Words(p, t, e)) /\ w2 = w
            /\ ok /\ Excused(p, t, rec, c, r, q) /\ m \in Storing(p, rec.value) => c = w2
  <2>1. NoneIn(a, Words(p, t, e))
    BY <1>5, <1>7, <1>11
  <2>2. ~ok /\ m \in Storing(p, rec.value) => ~NoneIn(a, Failures(p))
    <3> SUFFICES ASSUME ~ok, m \in Storing(p, rec.value) PROVE ~NoneIn(a, Failures(p))
      OBVIOUS
    <3>1. m.awaited /\ m.prop = p
      BY DEF Storing, SetsOf
    <3>2. n \in Failures(p) /\ b = <<n>>
      BY <1>1, <1>4, <3>1 DEF Failures, SetsOf
    <3>3. ~NoneIn(b, Failures(p))
      BY <3>2, LastOne
    <3> QED BY <1>7, <3>3
  <2>3. \/ /\ NoneIn(a, Words(p, t, e)) /\ w2 = w /\ m \notin Gets(p, t, e)
           /\ Excused(p, t, rec, c, r, q) /\ m \in Storing(p, rec.value) =>
                 rec.queued \/ ~NoneIn(a, Failures(p)) \/ c = w2
        \/ Ends(a, Words(p, t, e), Truths(p, t, e, w2))
    BY <1>9, <1>11, <2>1, <2>2
  <2>4. Synced(p, t, e, st, rec, c, Tail(r), q \o a, w2)
    BY <1>8, <1>9, <2>3, SyncedServed
  <2> QED BY <1>6, <2>4
<1> QED BY <1>10, <1>11

\* The same, of a Set that says nothing of p.
LEMMA ServedSetTold ==
    ASSUME NEW p, NEW t, NEW e, NEW st, NEW rec, NEW c, NEW r \in Seq(Calls), NEW q \in Seq(Heard), NEW w,
           Synced(p, t, e, st, rec, c, r, q, w),
           NEW m \in Calls, NEW ok \in BOOLEAN, NEW v \in Values, r # <<>>, m = Head(r), m.kind = "Set",
           NEW g \in Seq(Heard), NoneIn(g, Alls), NEW w2, Ends(g, Words(p, t, e), Truths(p, t, e, w2))
    PROVE  Synced(p, t, e, st, rec, c, Tail(r), Back(q, g, m, ok, v), w2)
BY ServedSet

LEMMA ServedSetSilently ==
    ASSUME NEW p, NEW t, NEW e, NEW st, NEW rec, NEW c, NEW r \in Seq(Calls), NEW q \in Seq(Heard), NEW w,
           Synced(p, t, e, st, rec, c, r, q, w),
           NEW m \in Calls, NEW ok \in BOOLEAN, NEW v \in Values, r # <<>>, m = Head(r), m.kind = "Set",
           NEW g \in Seq(Heard), NoneIn(g, Alls), NoneIn(g, Words(p, t, e)),
           Excused(p, t, rec, c, r, q) /\ m \in Storing(p, rec.value) => c = w
    PROVE  Synced(p, t, e, st, rec, c, Tail(r), Back(q, g, m, ok, v), w)
<1>1. /\ NoneIn(g, Words(p, t, e)) /\ w = w
      /\ ok /\ Excused(p, t, rec, c, r, q) /\ m \in Storing(p, rec.value) => c = w
  OBVIOUS
<1> QED BY <1>1, ServedSet

\* Whoever serves a call of the proxy tells it how the target is now.
LEMMA ServeInStep ==
    ASSUME IInv, Straight, OneStream, subscribed = target, NEW p \in Props, NEW s \in Services, Now(p, s),
           Serve(s)
    PROVE  Now(p, s)'
<1>1. TypeInv /\ Aim(requests, inbox, sets, p)
  BY DEF IInv
<1> PICK t \in Targets, r \in Seq(Calls), q \in Seq(Heard) : t = target /\ r = requests[s] /\ q = inbox[s]
  BY <1>1 DEF TypeInv, TypeOK, Incoming, Outgoing
<1> PICK m \in Calls, sv \in [Targets -> [Props -> Values]] : m = Head(r) /\ sv = server
  BY <1>1, HeadTailProperties DEF Serve, TypeInv, TypeOK
<1> PICK e, st, rec, c, w : e = epoch /\ st = status /\ rec = sets[p] /\ c = cache[p] /\ w = server[t][p]
  OBVIOUS
<1> PICK w2, q2 : w2 = server'[t][p] /\ q2 = inbox'[s]
  OBVIOUS
<1>2. Synced(p, t, e, st, rec, c, r, q, w)
  BY DEF Now
<1>3. r # <<>> /\ requests'[s] = Tail(r) /\ UNCHANGED proxy
  BY <1>1 DEF Serve, TypeInv, Outgoing
<1>4. SUFFICES Synced(p, t, e, st, rec, c, Tail(r), q2, w2)
  BY <1>3 DEF Now, proxy, switches
<1>5. /\ m.to \in Targets /\ m.value \in AnyValue
      /\ m.kind \in {"Get", "Set"} => m.prop \in Props
      /\ m.kind = "Set" => m.value \in Values
      /\ Null \in AnyValue
  BY DEF Calls, Message, AnyValue
<1> DEFINE put(g, ok, v) ==
        inbox' = [inbox EXCEPT ![s] = @ \o g \o (IF m.awaited THEN <<Answer(m, ok, v)>> ELSE <<>>)]
<1>6. \A g, ok, v : put(g, ok, v) => q2 = Back(q, g, m, ok, v)
  BY <1>1 DEF Back, TypeInv, Incoming
<1>7. \/ m.kind = "Introspect" /\ put(<<>>, TRUE, Null) /\ server' = server
      \/ m.kind \in {"Introspect", "GetAll", "Set"} /\ put(<<>>, FALSE, m.value) /\ server' = server
      \/ m.kind = "GetAll" /\ put(<<>>, TRUE, server[m.to]) /\ server' = server
      \/ m.kind = "Get" /\ put(<<>>, TRUE, server[m.to][m.prop]) /\ server' = server
      \/ /\ m.kind = "Set"
         /\ server' = [server EXCEPT ![m.to][m.prop] = m.value]
         /\ put(IF server[m.to][m.prop] = m.value THEN <<>>
                ELSE Announced(m.to, [x \in {m.prop} |-> m.value], <<>>), TRUE, m.value)
  BY DEF Serve
<1> HIDE DEF put
<1>8. ASSUME m.kind = "Introspect", server' = server,
             NEW ok \in BOOLEAN, NEW v \in AnyValue, put(<<>>, ok, v)
      PROVE  Synced(p, t, e, st, rec, c, Tail(r), q2, w2)
  <2>1. q2 = Back(q, <<>>, m, ok, v)
    BY <1>6, <1>8
  <2>2. Synced(p, t, e, st, rec, c, Tail(r), Back(q, <<>>, m, ok, v), w)
    BY <1>2, <1>3, <1>8, ServedOther
  <2> QED BY <1>8, <2>1, <2>2
<1>9. ASSUME m.kind = "GetAll", server' = server,
             NEW ok \in BOOLEAN, NEW v \in AnyValue, ok => v = server[m.to], put(<<>>, ok, v)
      PROVE  Synced(p, t, e, st, rec, c, Tail(r), q2, w2)
  <2>1. q2 = Back(q, <<>>, m, ok, v)
    BY <1>6, <1>9
  <2>2. ok => v \in [Props -> Values] /\ (m.to = t => v[p] = w)
    BY <1>5, <1>9
  <2>3. Synced(p, t, e, st, rec, c, Tail(r), Back(q, <<>>, m, ok, v), w)
    BY <1>2, <1>3, <1>9, <2>2, ServedGetAll
  <2> QED BY <1>9, <2>1, <2>3
<1>10. ASSUME m.kind = "Get", server' = server,
              NEW ok \in BOOLEAN, NEW v \in Values, v = server[m.to][m.prop], put(<<>>, ok, v)
       PROVE  Synced(p, t, e, st, rec, c, Tail(r), q2, w2)
  <2>1. q2 = Back(q, <<>>, m, ok, v)
    BY <1>6, <1>10
  <2>2. m.to = t /\ m.prop = p => v = w
    BY <1>10
  <2>3. Synced(p, t, e, st, rec, c, Tail(r), Back(q, <<>>, m, ok, v), w)
    BY <1>2, <1>3, <1>10, <2>2, ServedGet
  <2> QED BY <1>10, <2>1, <2>3
<1>11. ASSUME m.kind = "Set", server' = server,
              NEW ok \in BOOLEAN, NEW v \in Values, ~ok, put(<<>>, ok, v)
       PROVE  Synced(p, t, e, st, rec, c, Tail(r), q2, w2)
  <2> PICK g : g = <<>>
    OBVIOUS
  <2>1. g \in Seq(Heard) /\ NoneIn(g, Alls) /\ NoneIn(g, Words(p, t, e))
    BY DEF NoneIn
  <2>2. q2 = Back(q, g, m, ok, v)
    BY <1>6, <1>11
  <2>3. Synced(p, t, e, st, rec, c, Tail(r), Back(q, g, m, ok, v), w)
    BY <1>2, <1>3, <1>11, <2>1, ServedSet
  <2> QED BY <1>11, <2>2, <2>3
<1>12. ASSUME m.kind = "Set", server' = [server EXCEPT ![m.to][m.prop] = m.value],
              NEW ok \in BOOLEAN, NEW v \in Values, v = m.value, NEW g, put(g, ok, v),
              g = IF server[m.to][m.prop] = m.value THEN <<>>
                  ELSE Announced(m.to, [x \in {m.prop} |-> m.value], <<>>)
       PROVE  Synced(p, t, e, st, rec, c, Tail(r), q2, w2)
  <2>1. w2 = IF m.to = t /\ m.prop = p THEN m.value ELSE w
    BY <1>5, <1>12
  <2>2. m.kind = "Set" /\ q2 = Back(q, g, m, ok, v)
    <3>1. m.kind = "Set" /\ put(g, ok, v)
      BY <1>12
    <3> QED BY <1>6, <3>1
  <2> PICK ch : ch = [x \in {m.prop} |-> m.value]
    OBVIOUS
  <2>3. DOMAIN ch = {m.prop} /\ ch[m.prop] = m.value /\ ch \in Changes /\ ch # <<>>
    <3>1. ch \in [{m.prop} -> Values] /\ {m.prop} \in SUBSET Props /\ DOMAIN ch = {m.prop}
      BY <1>5, <1>12
    <3>2. DOMAIN <<>> = {}
      OBVIOUS
    <3> QED BY <3>1, <3>2, ChangesAre
  <2> PICK none : none = <<>>
    OBVIOUS
  <2> PICK sg : sg = Signal(ch, none)
    OBVIOUS
  <2>4. /\ sg \in Heard /\ sg \notin Alls /\ (sg \in Words(p, t, e) <=> p \in DOMAIN ch)
        /\ p \in DOMAIN ch => \A u : u = ch[p] => sg \in Truths(p, t, e, u)
    <3>1. none \in Seq(Props)
      OBVIOUS
    <3> QED BY <2>3, <3>1, SignalSays
  <2>5. Announced(m.to, ch, <<>>) = IF m.to = t THEN <<sg>> ELSE <<>>
    BY <2>3 DEF Announced
  <2>6. g = IF server[m.to][m.prop] # m.value /\ m.to = t THEN <<sg>> ELSE <<>>
    BY <1>12, <2>5
  <2>7. g \in Seq(Heard) /\ NoneIn(g, Alls)
    BY <2>4, <2>6, LastOne DEF NoneIn
  <2>8. CASE m.to = t /\ m.prop = p /\ w # m.value
    <3>1. g = <<sg>> /\ sg \in Words(p, t, e) /\ sg \in Truths(p, t, e, w2)
      BY <2>1, <2>3, <2>4, <2>6, <2>8
    <3>2. Ends(g, Words(p, t, e), Truths(p, t, e, w2))
      BY <3>1, LastOne
    <3>3. Synced(p, t, e, st, rec, c, Tail(r), Back(q, g, m, ok, v), w2)
      BY <1>2, <1>3, <2>2, <2>7, <3>2, ServedSetTold
    <3> QED BY <2>2, <3>3, Zenon
  <2>9. CASE ~(m.to = t /\ m.prop = p /\ w # m.value)
    <3>1. NoneIn(g, Words(p, t, e)) /\ w2 = w
      <4>1. g = <<>> \/ (g = <<sg>> /\ sg \notin Words(p, t, e))
        BY <2>3, <2>4, <2>6, <2>9
      <4> QED BY <2>1, <2>9, <4>1, LastOne DEF NoneIn
    <3>2. Excused(p, t, rec, c, r, q) /\ m \in Storing(p, rec.value) => c = w2
      <4> SUFFICES ASSUME Excused(p, t, rec, c, r, q), m \in Storing(p, rec.value) PROVE c = w2
        OBVIOUS
      <4>1. rec.inFlight /\ rec.to = t /\ c = rec.value /\ m \in SetsOf(p) /\ m.value = rec.value /\ m.prop = p
        BY DEF Excused, Storing, SetsOf
      <4>2. Under(requests, inbox, Astray(p, t), s) = 0
        BY <1>1, <4>1 DEF Aim
      <4>3. CountOf(r, Astray(p, t)) = 0
        <5>1. CountOf(r, Astray(p, t)) \in Nat /\ CountOf(q, Astray(p, t)) \in Nat
          BY CountType
        <5> QED BY <4>2, <5>1 DEF Under
      <4>4. 1 \in DOMAIN r /\ m = r[1]
        BY <1>3, LenProperties
      <4>5. m \notin Astray(p, t)
        BY <4>3, <4>4, CountType
      <4> QED BY <2>1, <4>1, <4>5 DEF Astray
    <3>3. Excused(p, t, rec, c, r, q) /\ m \in Storing(p, rec.value) => c = w
      BY <3>1, <3>2
    <3>4. Synced(p, t, e, st, rec, c, Tail(r), Back(q, g, m, ok, v), w)
      BY <1>2, <1>3, <2>2, <2>7, <3>1, <3>3, ServedSetSilently
    <3> QED BY <2>2, <3>1, <3>4, Zenon
  <2> QED BY <2>8, <2>9
<1>13. m.kind = "GetAll" => server[m.to] \in AnyValue
  BY <1>5 DEF AnyValue
<1>14. m.kind = "Get" => server[m.to][m.prop] \in Values
  BY <1>5
<1>15. TRUE \in BOOLEAN /\ FALSE \in BOOLEAN
  OBVIOUS
<1>16. CASE m.kind = "Introspect" /\ put(<<>>, TRUE, Null) /\ server' = server
  BY <1>5, <1>8, <1>15, <1>16
<1>17. CASE m.kind \in {"Introspect", "GetAll", "Set"} /\ put(<<>>, FALSE, m.value) /\ server' = server
  BY <1>5, <1>8, <1>9, <1>11, <1>15, <1>17
<1>18. CASE m.kind = "GetAll" /\ put(<<>>, TRUE, server[m.to]) /\ server' = server
  BY <1>9, <1>13, <1>15, <1>18
<1>19. CASE m.kind = "Get" /\ put(<<>>, TRUE, server[m.to][m.prop]) /\ server' = server
  BY <1>10, <1>14, <1>15, <1>19
<1> QED BY <1>5, <1>7, <1>12, <1>15, <1>16, <1>17, <1>18, <1>19

LEMMA GetAllReplyInStep ==
    ASSUME TypeInv, NEW p \in Props, NEW s \in Services, Now(p, s), GetAllReply(s)
    PROVE  Now(p, s)'
<1> PICK q \in Seq(Heard) : q = inbox[s]
  BY DEF TypeInv, Incoming
<1> PICK t, e, st, rec, c, r, w :
        /\ t = target /\ e = epoch /\ st = status /\ rec = sets[p] /\ c = cache[p] /\ r = requests[s]
        /\ w = server[target][p]
  OBVIOUS
<1> PICK m, c2, st2 : m = Head(q) /\ c2 = cache'[p] /\ st2 = status'
  OBVIOUS
<1>1. Synced(p, t, e, st, rec, c, r, q, w)
  BY DEF Now
<1>2. /\ q # <<>> /\ m.kind = "GetAll" /\ inbox'[s] = Tail(q)
      /\ m.ok => c2 = m.value[p]
      /\ ~m.ok => c2 = c /\ st2 = "Error"
  BY DEF GetAllReply, Take, Consume, TypeInv, Incoming
<1>3. m \in Calls /\ m.awaited
  <2>1. m \in Heard
    BY <1>2, HeadTailProperties
  <2> QED BY <1>2, <2>1 DEF Heard, Signals, Answers
<1>4. m \in Alls /\ m \notin Recalls /\ m \notin Failures(p)
  BY <1>2, <1>3 DEF Alls, Recalls, Signals, Failures, SetsOf
<1>5. m \in Words(p, t, e) <=> m.ok
  BY <1>2, <1>4 DEF Words, Gets, Signals
<1>6. c2 = IF m \in Words(p, t, e) THEN Said(m, p) ELSE c
  BY <1>2, <1>5 DEF Said
<1>7. m \in Denied => st2 = "Error"
  BY <1>2 DEF Denied
<1>8. Synced(p, t, e, st2, rec, c2, r, Tail(q), w)
  BY <1>1, <1>2, <1>4, <1>6, <1>7, SyncedTaken
<1>9. target' = t /\ epoch' = e /\ sets'[p] = rec /\ requests'[s] = r /\ server'[target'][p] = w
  BY DEF GetAllReply
<1> QED BY <1>2, <1>8, <1>9 DEF Now

LEMMA GetReplyInStep ==
    ASSUME TypeInv, NEW p \in Props, NEW s \in Services, Now(p, s), GetReply(s)
    PROVE  Now(p, s)'
<1> PICK q \in Seq(Heard) : q = inbox[s]
  BY DEF TypeInv, Incoming
<1> PICK t, e, st, rec, c, r, w :
        /\ t = target /\ e = epoch /\ st = status /\ rec = sets[p] /\ c = cache[p] /\ r = requests[s]
        /\ w = server[target][p]
  OBVIOUS
<1> PICK m, c2 : m = Head(q) /\ c2 = cache'[p]
  OBVIOUS
<1>1. Synced(p, t, e, st, rec, c, r, q, w)
  BY DEF Now
<1>2. /\ q # <<>> /\ m.kind = "Get" /\ inbox'[s] = Tail(q)
      /\ cache' = IF m.epoch = e /\ m.to = t THEN [cache EXCEPT ![m.prop] = m.value] ELSE cache
  BY DEF GetReply, Take, Consume, TypeInv, Incoming
<1>3. m \in Calls /\ m.awaited /\ m.prop \in Props
  <2>1. m \in Heard
    BY <1>2, HeadTailProperties
  <2> QED BY <1>2, <2>1 DEF Heard, Signals, Answers, Calls
<1>4. m \notin Alls /\ m \notin Recalls /\ m \notin Failures(p) /\ m \notin Denied
  BY <1>2 DEF Alls, Recalls, Signals, Failures, SetsOf, Denied
<1>5. m \in Words(p, t, e) <=> m.prop = p /\ m.to = t /\ m.epoch = e
  BY <1>2, <1>3, <1>4 DEF Words, Gets, Signals
<1>6. c2 = IF m \in Words(p, t, e) THEN Said(m, p) ELSE c
  <2>1. c2 = IF m.epoch = e /\ m.to = t /\ m.prop = p THEN m.value ELSE c
    BY <1>2, <1>3 DEF TypeInv, TypeOK
  <2> QED BY <1>2, <1>5, <2>1 DEF Said
<1>7. Synced(p, t, e, st, rec, c2, r, Tail(q), w)
  BY <1>1, <1>2, <1>4, <1>6, SyncedTaken
<1>8. target' = t /\ epoch' = e /\ sets'[p] = rec /\ requests'[s] = r /\ server'[target'][p] = w /\ status' = st
  BY DEF GetReply
<1> QED BY <1>2, <1>7, <1>8 DEF Now

\* A change signal is taken that has no name but p read again.
LEMMA SignalInStep ==
    ASSUME TypeInv, OneStream, NEW p \in Props, NEW s \in Services, Now(p, s), OnPropertiesChanged(s),
           Head(inbox[s]).invalidated \in Seq({p})
    PROVE  Now(p, s)'
<1> PICK q \in Seq(Heard), r \in Seq(Calls) : q = inbox[s] /\ r = requests[s]
  BY DEF TypeInv, Incoming, Outgoing
<1> PICK t \in Targets, e \in Nat : t = target /\ e = epoch
  BY DEF TypeInv, TypeOK
<1> PICK st, rec, c, w : st = status /\ rec = sets[p] /\ c = cache[p] /\ w = server[target][p]
  OBVIOUS
<1> PICK m : m = Head(q)
  OBVIOUS
<1> PICK n \in Seq({p}) : n = m.invalidated
  OBVIOUS
<1> PICK c2, e2, r2 : c2 = cache'[p] /\ e2 = epoch' /\ r2 = requests'[s]
  OBVIOUS
<1>1. Synced(p, t, e, st, rec, c, r, q, w)
  BY DEF Now
<1>2. /\ q # <<>> /\ m.kind = "PropertiesChanged" /\ inbox'[s] = Tail(q)
      /\ c2 = IF p \in DOMAIN m.changed THEN m.changed[p] ELSE c
  BY DEF OnPropertiesChanged, Take, Consume, TypeInv, Incoming
<1>3. r2 = r \o Refetches(n) /\ e2 = e + Len(n)
  BY Here DEF OnPropertiesChanged, Refetch, TypeInv, Outgoing
<1>4. m \in Signals
  <2>1. m \in Heard
    BY <1>2, HeadTailProperties
  <2> QED BY <1>2, <2>1 DEF Heard, Answers, Calls, Message, Kinds
<1>5. /\ target' = t /\ sets'[p] = rec /\ server'[target'][p] = w /\ status' = st
  BY DEF OnPropertiesChanged
<1>6. SUFFICES Synced(p, t, e2, st, rec, c2, r2, Tail(q), w)
  BY <1>2, <1>5 DEF Now
<1>7. CASE n = <<>>
  <2>1. Refetches(n) = <<>> /\ Len(n) = 0
    BY <1>7 DEF Refetches
  <2>2. r2 = r /\ e2 = e
    <3>1. r \o <<>> = r
      OBVIOUS
    <3>2. r2 = r
      BY <1>3, <2>1, <3>1
    <3>3. e2 = e
      BY <1>3, <2>1
    <3> QED BY <3>2, <3>3
  <2>3. m \notin Alls /\ m \notin Recalls /\ m \notin Failures(p) /\ m \notin Denied
    BY <1>2, <1>7 DEF Alls, Recalls, Failures, SetsOf, Denied
  <2>4. m \in Words(p, t, e) <=> p \in DOMAIN m.changed
    BY <1>2, <1>4, <2>3 DEF Words, Gets
  <2>5. c2 = IF m \in Words(p, t, e) THEN Said(m, p) ELSE c
    BY <1>2, <2>4 DEF Said
  <2>6. Synced(p, t, e, st, rec, c2, r, Tail(q), w)
    BY <1>1, <1>2, <2>3, <2>5, SyncedTaken
  <2> QED BY <2>2, <2>6
<1>8. CASE n # <<>>
  <2> PICK k \in Nat : k = Len(n)
    BY LenProperties
  <2>1. k >= 1 /\ DOMAIN n = 1 .. k /\ \A i \in 1 .. k : n[i] = p
    BY <1>8, LenProperties, ElementOfSeq
  <2>2. \A i \in 1 .. k : Request("Get", t, p, Null, e + i) \in Calls
    BY RequestTyped
  <2> PICK g : g = Refetches(n)
    OBVIOUS
  <2>3. g = [i \in 1 .. k |-> Request("Get", t, p, Null, e + i)]
    BY <2>1 DEF Refetches
  <2>4. g \in Seq(Calls)
    <3>1. [i \in 1 .. k |-> Request("Get", t, p, Null, e + i)] \in Seq(Calls)
      BY <2>2, IsASeq
    <3> QED BY <2>3, <3>1
  <2>5. NoneIn(g, Alls)
    <3>1. \A i \in DOMAIN g : g[i].kind = "Get"
      BY <2>3 DEF Request
    <3> QED BY <3>1 DEF NoneIn, Alls
  <2>6. ~NoneIn(g, Gets(p, t, e2))
    <3>1. k \in DOMAIN g /\ g[k] = Request("Get", t, p, Null, e2) /\ g[k] \in Calls
      <4>1. k \in 1 .. k /\ e2 = e + k
        BY <1>3, <2>1
      <4>2. k \in DOMAIN g /\ g[k] = Request("Get", t, p, Null, e + k)
        BY <2>3, <4>1
      <4> QED BY <2>2, <4>1, <4>2
    <3>2. g[k] \in Gets(p, t, e2)
      BY <3>1 DEF Request, Gets
    <3> QED BY <3>1, <3>2 DEF NoneIn
  <2>7. SetsApart(r, r) /\ r2 = r \o g
    BY <1>3, ApartOfItself
  <2>8. Synced(p, t, e2, st, rec, c2, r \o g, Tail(q), w)
    BY ONLY <1>1, <2>4, <2>5, <2>6, <2>7, SyncedByGet, r \in Seq(Calls)
  <2> QED BY <2>7, <2>8
<1> QED BY <1>7, <1>8

-----------------------------------------------------------------------------
(* Where no property is read again but the one.                            *)

\* There is one property; or none is written, and none changes by name.
OneName == \A p, x \in Props : p = x
Unwritten == MaxInvalidated = 0 /\ WriteKinds = {}

Unasked == Unwritten => (\A p \in Props : ~sets[p].inFlight) /\ Free(inbox, Recalls)

LEMMA SeqOfMore == ASSUME NEW S, NEW T, S \in SUBSET T, NEW q \in Seq(S) PROVE q \in Seq(T)
<1>1. \A i \in 1 .. Len(q) : q[i] \in T
  OBVIOUS
<1> QED BY <1>1

LEMMA SignalOfNone == \A ch : Signal(ch, <<>>) \notin Recalls
BY DEF Signal, Recalls

\* A service answers, and says of a Set what was set.
LEMMA NoRecallServed ==
    ASSUME TypeInv, Free(inbox, Recalls), NEW s \in Services, Serve(s)
    PROVE  Free(inbox', Recalls)
<1> PICK box \in Incoming : box = inbox
  BY DEF TypeInv
<1>1. requests[s] \in Seq(Calls) /\ requests[s] # <<>>
  BY DEF TypeInv, Outgoing, Serve
<1> PICK m \in Calls : m = Head(requests[s])
  BY <1>1, HeadTailProperties
<1> DEFINE put(g, ok, v) ==
        inbox' = [inbox EXCEPT ![s] = @ \o g \o (IF m.awaited THEN <<Answer(m, ok, v)>> ELSE <<>>)]
<1>2. \E g, ok, v : put(g, ok, v) /\ (g = <<>> \/ \E ch : g = <<Signal(ch, <<>>)>>)
  <2>1. \A ch : Announced(m.to, ch, <<>>) = <<>> \/ Announced(m.to, ch, <<>>) = <<Signal(ch, <<>>)>>
    BY DEF Announced
  <2>2. \/ put(<<>>, TRUE, Null) \/ put(<<>>, FALSE, m.value) \/ put(<<>>, TRUE, server[m.to])
        \/ put(<<>>, TRUE, server[m.to][m.prop])
        \/ put(IF server[m.to][m.prop] = m.value THEN <<>>
               ELSE Announced(m.to, [x \in {m.prop} |-> m.value], <<>>), TRUE, m.value)
    BY DEF Serve
  <2> HIDE DEF put
  <2> QED BY <2>1, <2>2
<1> PICK g, ok, v : put(g, ok, v) /\ (g = <<>> \/ \E ch : g = <<Signal(ch, <<>>)>>)
  BY <1>2
<1> PICK b : b = IF m.awaited THEN <<Answer(m, ok, v)>> ELSE <<>>
  OBVIOUS
<1>3. inbox' = [inbox EXCEPT ![s] = @ \o g \o b]
  OBVIOUS
<1>4. NoneIn(g, Recalls) /\ \E T : g \in Seq(T)
  <2>1. CASE g = <<>>
    BY <2>1 DEF NoneIn
  <2>2. ASSUME NEW ch, g = <<Signal(ch, <<>>)>> PROVE NoneIn(g, Recalls) /\ \E T : g \in Seq(T)
    <3> PICK x : x = Signal(ch, <<>>)
      OBVIOUS
    <3>1. x \notin Recalls /\ g = <<x>>
      BY <2>2, SignalOfNone
    <3>2. g \in Seq({x})
      BY <3>1
    <3> QED BY <3>1, <3>2, LastOne
  <2> QED BY <2>1, <2>2
<1>5. NoneIn(b, Recalls) /\ \E T : b \in Seq(T)
  <2> PICK x : x = Answer(m, ok, v)
    OBVIOUS
  <2>1. x \notin Recalls
    BY AnswerAs DEF Recalls, Signals, Calls, Message, Kinds
  <2>2. b = <<>> \/ (b = <<x>> /\ b \in Seq({x}))
    OBVIOUS
  <2>3. CASE b = <<>>
    BY <2>3 DEF NoneIn
  <2>4. CASE b = <<x>> /\ b \in Seq({x})
    BY <2>1, <2>4, LastOne
  <2> QED BY <2>2, <2>3, <2>4
<1> PICK q : q = inbox[s]
  OBVIOUS
<1>6. q \in Seq(Heard) /\ NoneIn(q, Recalls)
  BY DEF Incoming, Free
<1>7. PICK T : q \in Seq(T) /\ g \in Seq(T) /\ b \in Seq(T)
  <2> PICK T1 : g \in Seq(T1)
    BY <1>4
  <2> PICK T2 : b \in Seq(T2)
    BY <1>5
  <2> PICK T : T = Heard \cup T1 \cup T2
    OBVIOUS
  <2>1. Heard \in SUBSET T /\ T1 \in SUBSET T /\ T2 \in SUBSET T
    OBVIOUS
  <2>2. q \in Seq(T) /\ g \in Seq(T) /\ b \in Seq(T)
    BY <1>6, <2>1, SeqOfMore
  <2> QED BY <2>2
<1>8. NoneIn(q \o g \o b, Recalls)
  <2> PICK d \in Seq(T) : d = q \o g
    BY <1>7, ConcatProperties
  <2>1. NoneIn(d, Recalls)
    BY <1>4, <1>6, <1>7, LastPut
  <2>2. NoneIn(d \o b, Recalls)
    BY <1>5, <1>7, <2>1, LastPut
  <2> QED BY <2>2
<1>9. \A x \in Services : inbox'[x] = IF x = s THEN q \o g \o b ELSE inbox[x]
  BY <1>3 DEF Incoming
<1> QED BY <1>8, <1>9 DEF Free

LEMMA NoRecallSaid ==
    ASSUME TypeInv, MaxInvalidated = 0, Free(inbox, Recalls),
           NEW t \in Targets, NEW new \in [Props -> Values], ServerChanges(t, new)
    PROVE  Free(inbox', Recalls)
<1> PICK box \in Incoming, x \in Services : box = inbox /\ x = ServiceOf[t]
  BY ServicesAssumption DEF TypeInv
<1> PICK ps : ps = {p \in Props : new[p] # server[t][p]}
  OBVIOUS
<1>1. IsFiniteSet(ps) /\ Cardinality(ps) \in Nat /\ Cardinality(ps) # 0
  BY PropsAssumption, FS_Subset, FS_CardinalityType, FS_EmptySet DEF ServerChanges
<1>2. \E ch \in Changes : inbox' = [inbox EXCEPT ![ServiceOf[t]] = @ \o Announced(t, ch, <<>>)]
  <2>1. inbox' = [inbox EXCEPT ![ServiceOf[t]] = @ \o Announced(t, [p \in ps |-> new[p]], <<>>)]
    <3>1. \/ inbox' = [inbox EXCEPT ![ServiceOf[t]] = @ \o Announced(t, [p \in ps |-> new[p]], <<>>)]
          \/ Cardinality(ps) <= MaxInvalidated
      BY Zenon DEF ServerChanges
    <3>2. ~(Cardinality(ps) <= MaxInvalidated)
      BY <1>1
    <3> QED BY <3>1, <3>2, Zenon
  <2>2. [p \in ps |-> new[p]] \in [ps -> Values] /\ ps \in SUBSET Props
    OBVIOUS
  <2> QED BY <2>1, <2>2, ChangesAre
<1> PICK ch \in Changes : inbox' = [inbox EXCEPT ![ServiceOf[t]] = @ \o Announced(t, ch, <<>>)]
  BY <1>2
<1> PICK n : n = <<>> /\ n \in Seq(Props)
  <2>1. <<>> \in Seq(Props)
    OBVIOUS
  <2> QED BY <2>1
<1> PICK a, bin : a = Announced(t, ch, n) /\ bin = inbox'
  OBVIOUS
<1>3. a \in Seq(Heard)
  BY AnnouncedKept
<1>4. NoneIn(a, Recalls)
  <2>1. a = <<>> \/ a = <<Signal(ch, n)>>
    BY DEF Announced
  <2>2. Signal(ch, n) \notin Recalls
    BY SignalOfNone
  <2> QED BY <2>1, <2>2, LastOne DEF NoneIn
<1>5. IsPut(bin, box, x, a)
  BY DEF IsPut
<1> QED BY <1>3, <1>4, <1>5, NonePut

LEMMA UnaskedNext == ASSUME IInv, Unasked, [Next]_vars PROVE Unasked'
<1> SUFFICES ASSUME Unwritten PROVE (\A p \in Props : ~sets[p].inFlight)' /\ Free(inbox', Recalls)
  BY DEF Unasked, Free
<1>1. /\ TypeInv /\ MaxInvalidated = 0 /\ WriteKinds = {}
      /\ (\A p \in Props : ~sets[p].inFlight) /\ Free(inbox, Recalls)
  BY DEF IInv, Unasked, Unwritten
<1>2. Free(inbox', Recalls)
  <2>1. \A t \in Targets, new \in [Props -> Values] : ServerChanges(t, new) => Free(inbox', Recalls)
    BY <1>1, NoRecallSaid
  <2>2. \A s \in Services : Serve(s) => Free(inbox', Recalls)
    BY <1>1, NoRecallServed
  <2> QED BY <1>1, <2>1, <2>2, NoneNext
<1>3. \A s \in Services : ~SetReply(s)
  <2> SUFFICES ASSUME NEW s \in Services, SetReply(s) PROVE FALSE
    OBVIOUS
  <2>1. inbox[s] # <<>> /\ Head(inbox[s]).kind = "Set" /\ inbox[s] \in Seq(Heard)
    BY <1>1 DEF SetReply, Take, TypeInv, Incoming
  <2>2. Head(inbox[s]) \in Heard
    BY <2>1, HeadTailProperties
  <2>3. PICK p \in Props : Head(inbox[s]) \in SetsOf(p)
    BY <2>1, <2>2 DEF Heard, Signals, Answers, Calls, SetsOf
  <2>4. sets[p].inFlight
    BY <2>1, <2>3, OnlySet
  <2> QED BY <1>1, <2>4
<1>4. sets' = sets
  <2>1. \A p \in Props : ~SetTimesOut(p)
    BY <1>1 DEF SetTimesOut
  <2>2. /\ \A t \in Targets : Repoint(t) => sets' = sets
        /\ ServiceRegistered \/ SetSignalsEnabled \/ SetPropertiesEnabled => sets' = sets
        /\ DoIntrospect => sets' = sets
    BY DEF Repoint, ServiceRegistered, SetSignalsEnabled, SetPropertiesEnabled, DoIntrospect,
           IntrospectFromCache, Introspect
  <2>3. /\ \A t \in Targets, new \in [Props -> Values] : ServerChanges(t, new) => sets' = sets
        /\ \A s \in Services : Serve(s) => sets' = sets
        /\ UNCHANGED vars => sets' = sets
    BY DEF ServerChanges, Serve, proxy, vars
  <2>4. \A s \in Services :
           IntrospectReply(s) \/ GetAllReply(s) \/ OnPropertiesChanged(s) \/ GetReply(s) => sets' = sets
    BY DEF IntrospectReply, GetAllReply, OnPropertiesChanged, GetReply
  <2>5. \A p \in Props, v \in Unsendable : ~WriteDropped(p, v)
    BY <1>1 DEF WriteDropped
  <2> QED BY <1>1, <1>3, <2>1, <2>2, <2>3, <2>4, <2>5 DEF Next, Application, Deliver
<1> QED BY <1>1, <1>2, <1>4

\* What is answered or read again is p.
LEMMA OnlyOf ==
    ASSUME IInv, Unasked, OneName \/ Unwritten, NEW p \in Props, NEW s \in Services
    PROVE  /\ \A x \in Props : SetTimesOut(x) => x = p
           /\ SetReply(s) => Head(inbox[s]).prop = p
           /\ OnPropertiesChanged(s) => Head(inbox[s]).invalidated \in Seq({p})
<1> PICK q \in Seq(Heard) : q = inbox[s]
  BY DEF IInv, TypeInv, Incoming
<1> PICK m : m = Head(q)
  OBVIOUS
<1>1. q # <<>> => m \in Heard
  BY HeadTailProperties
<1>2. SetReply(s) => q # <<>> /\ \E x \in Props : m \in SetsOf(x) /\ m.prop = x
  BY <1>1 DEF SetReply, Take, Heard, Signals, Answers, Calls, SetsOf
<1>3. OnPropertiesChanged(s) => q # <<>> /\ m \in Signals
  BY <1>1 DEF OnPropertiesChanged, Take, Heard, Signals, Answers, Calls, Message, Kinds
<1>4. CASE OneName
  <2>1. \A x \in Props : x = p
    BY <1>4 DEF OneName
  <2>2. m \in Signals => m.invalidated \in Seq({p})
    <3> SUFFICES ASSUME m \in Signals PROVE m.invalidated \in Seq({p})
      OBVIOUS
    <3>1. m.invalidated \in Seq(Props) /\ Props \in SUBSET {p}
      BY <2>1 DEF Signals
    <3> QED BY <3>1, SeqOfMore
  <2> QED BY <1>2, <1>3, <2>1, <2>2
<1>5. CASE Unwritten
  <2>1. (\A x \in Props : ~sets[x].inFlight) /\ NoneIn(q, Recalls)
    BY <1>5 DEF Unasked, Free
  <2>2. ~SetReply(s)
    BY <1>2, <2>1, OnlySet
  <2>3. q # <<>> => m \notin Recalls
    BY <2>1, LastTaken
  <2>4. OnPropertiesChanged(s) => m.invalidated = <<>>
    BY <1>3, <2>3 DEF Recalls
  <2>5. <<>> \in Seq({p})
    OBVIOUS
  <2> QED BY <2>1, <2>2, <2>4, <2>5 DEF SetTimesOut
<1> QED BY <1>4, <1>5

-----------------------------------------------------------------------------
(* A proxy that is to have its properties and to hear of them, and has its *)
(* introspection behind it, is in step with its target.                    *)

Still == /\ signalsOn /\ propertiesOn /\ ~queued
         /\ \A s \in Services : Under(requests, inbox, Introspects, s) = 0
InStep == Still => \A p \in Props, s \in Services : Now(p, s)

\* GetAll was sent.
LEMMA NowByGetAll ==
    ASSUME TypeInv, OneStream, NEW rs \in Outgoing, target' = target,
           requests' = Sent(rs, Request("GetAll", target, NoProp, Null, 0)),
           NEW p \in Props, NEW s \in Services
    PROVE  Now(p, s)'
<1> PICK t \in Targets, r \in Seq(Calls) : t = target /\ r = rs[s]
  BY DEF TypeInv, TypeOK, Outgoing
<1> PICK m \in Calls : m = Request("GetAll", t, NoProp, Null, 0)
  BY RequestTyped
<1>1. m \in AllsTo(t) /\ m.to = t
  BY DEF Request, AllsTo, Alls
<1>2. requests'[s] = Append(r, m)
  BY <1>1, Here DEF Sent, Outgoing
<1>3. \A x, e, st, rec, c, q, v : Synced(x, t, e, st, rec, c, Append(r, m), q, v)
  BY <1>1, SyncedByGetAll
<1> QED BY <1>2, <1>3 DEF Now

\* A step in which the proxy is still, before and after.
LEMMA StillPasses ==
    ASSUME TypeInv, propertiesOn => Listens, Passing, propertiesOn' = propertiesOn, Still'
    PROVE  Still /\ subscribed = target
<1>1. /\ signalsOn' = signalsOn /\ queued' = queued
      /\ \A s \in Services : Under(requests', inbox', Introspects, s) = Under(requests, inbox, Introspects, s)
  BY DEF Passing, Unmoved
<1>2. /\ signalsOn' /\ propertiesOn' /\ ~queued'
      /\ \A s \in Services : Under(requests', inbox', Introspects, s) = 0
  BY DEF Still, Under
<1>3. Still
  BY <1>1, <1>2 DEF Still
<1> QED BY <1>3 DEF Still, Listens

LEMMA InStepNext ==
    ASSUME IInv, propertiesOn => Listens, Unasked, InStep, Straight, OneStream, OneKind, OneName \/ Unwritten, [Next]_vars
    PROVE  InStep'
<1> SUFFICES ASSUME Still', NEW p \in Props, NEW s \in Services PROVE Now(p, s)'
  BY DEF InStep
<1>1. TypeInv /\ OneConnection /\ ~CrossWrites
  BY DEF IInv, Straight
<1>2. \A x \in Services : x = s
  BY DEF OneStream
<1>3. /\ signalsOn' /\ propertiesOn' /\ ~queued'
      /\ \A x \in Services : Under(requests', inbox', Introspects, x) = 0
  BY DEF Still, Under
<1>4. ASSUME Passing, propertiesOn' = propertiesOn PROVE Now(p, s) /\ subscribed = target
  BY <1>1, <1>4, StillPasses DEF InStep
<1>5. ASSUME NEW t \in Targets, Repoint(t) PROVE FALSE
  BY <1>3, <1>5 DEF Repoint
<1>6. ~ServiceRegistered /\ ~SetSignalsEnabled
  BY <1>3 DEF ServiceRegistered, SetSignalsEnabled
<1>7. CASE SetPropertiesEnabled
  <2>1. requests' = Sent(requests, Request("GetAll", target, NoProp, Null, 0)) /\ target' = target
    BY <1>3, <1>7 DEF SetPropertiesEnabled
  <2> PICK rs \in Outgoing : rs = requests
    BY <1>1 DEF TypeInv
  <2>2. requests' = Sent(rs, Request("GetAll", target, NoProp, Null, 0))
    BY <2>1
  <2> QED BY <1>1, <2>1, <2>2, NowByGetAll
<1>8. CASE IntrospectFromCache
  <2> PICK rs \in Outgoing : rs = AbandonIntrospection(requests)
    BY <1>1, UnawaitedKept DEF AbandonIntrospection, TypeInv
  <2>1. target' = target /\ propertiesOn' = propertiesOn /\ Subscribe(rs)
    BY <1>8 DEF IntrospectFromCache, switches
  <2>2. requests' = Sent(rs, Request("GetAll", target, NoProp, Null, 0))
    BY <1>3, <2>1 DEF Subscribe
  <2> QED BY <1>1, <2>1, <2>2, NowByGetAll
<1>9. ~Introspect
  BY <1>1, <1>3, IntrospectAwaited
<1>10. ASSUME IntrospectReply(s) PROVE Now(p, s)'
  <2> PICK rs \in Outgoing : rs = requests
    BY <1>1 DEF TypeInv
  <2>1. target' = target /\ propertiesOn' = propertiesOn
    BY <1>10 DEF IntrospectReply, switches
  <2>2. Subscribe(rs)
    BY <1>3, <1>10, <2>1 DEF IntrospectReply
  <2>3. requests' = Sent(rs, Request("GetAll", target, NoProp, Null, 0))
    BY <1>3, <2>1, <2>2 DEF Subscribe
  <2> QED BY <1>1, <2>1, <2>3, NowByGetAll
<1>11. ASSUME NEW x \in Props, NEW v \in Values, NEW optimistic \in WriteKinds, Write(x, v, optimistic)
       PROVE  Now(p, s)'
  <2>1. Passing
    BY <1>1, <1>11, MostStepsPass
  <2>2. Now(p, s)
    BY <1>4, <1>11, <2>1 DEF Write, switches
  <2> QED BY <1>1, <1>11, <2>2, WriteInStep
<1>12. ASSUME NEW x \in Props, SetTimesOut(x) PROVE Now(p, s)'
  <2>1. Passing
    BY <1>1, <1>12, MostStepsPass
  <2>2. Now(p, s)
    BY <1>4, <1>12, <2>1 DEF SetTimesOut, SetEnds, switches
  <2>3. SetTimesOut(p)
    BY <1>12, OnlyOf
  <2> QED BY <1>1, <2>2, <2>3, SetTimesOutInStep
<1>13. ASSUME NEW t \in Targets, NEW new \in [Props -> Values], ServerChanges(t, new) PROVE Now(p, s)'
  <2>1. Passing
    BY <1>1, <1>13, MostStepsPass
  <2>2. Now(p, s) /\ subscribed = target
    BY <1>4, <1>13, <2>1 DEF ServerChanges, proxy, switches
  <2> QED BY <1>1, <1>13, <2>2, ServerChangesInStep
<1>14. ASSUME Serve(s) PROVE Now(p, s)'
  <2>1. Passing
    BY <1>1, <1>14, MostStepsPass
  <2>2. Now(p, s) /\ subscribed = target
    BY <1>4, <1>14, <2>1 DEF Serve, proxy, switches
  <2> QED BY <1>14, <2>2, ServeInStep
<1>15. ASSUME GetAllReply(s) \/ OnPropertiesChanged(s) \/ GetReply(s) PROVE Now(p, s)'
  <2>1. Passing
    BY <1>1, <1>15, MostStepsPass
  <2>2. Now(p, s)
    BY <1>4, <1>15, <2>1 DEF GetAllReply, OnPropertiesChanged, GetReply, switches
  <2>3. OnPropertiesChanged(s) => Head(inbox[s]).invalidated \in Seq({p})
    BY OnlyOf
  <2> QED BY <1>1, <1>15, <2>2, <2>3, GetAllReplyInStep, GetReplyInStep, SignalInStep
<1>16. ASSUME SetReply(s) PROVE Now(p, s)'
  <2>1. Passing
    BY <1>1, <1>16, MostStepsPass
  <2>2. Now(p, s)
    BY <1>4, <1>16, <2>1 DEF SetReply, SetEnds, switches
  <2>3. Head(inbox[s]).prop = p
    BY <1>16, OnlyOf
  <2> QED BY <1>1, <1>16, <2>2, <2>3, SetReplyInStep
<1>17. CASE UNCHANGED vars
  <2>1. Passing
    BY <1>1, <1>17, MostStepsPass
  <2>2. Now(p, s)
    BY <1>4, <1>17, <2>1 DEF vars, proxy, switches
  <2> QED BY <1>17, <2>2 DEF vars, proxy, switches, Now
<1>18. ASSUME NEW x \in Props, NEW v \in Unsendable, WriteDropped(x, v) PROVE Now(p, s)'
  <2>1. Passing
    BY <1>1, <1>18, MostStepsPass
  <2>2. Now(p, s)
    BY <1>4, <1>18, <2>1 DEF WriteDropped, switches
  <2> QED BY <1>1, <1>18, <2>2, WriteDroppedInStep
<1> QED BY <1>2, <1>5, <1>6, <1>7, <1>8, <1>9, <1>10, <1>11, <1>12, <1>13, <1>14, <1>15, <1>16, <1>17, <1>18
        DEF Next, Application, DoIntrospect, Deliver

-----------------------------------------------------------------------------
(* A proxy that is not loaded yet has what loads it on its way.            *)

GetsThere ==
    status \in {"Null", "Loading"} =>
        \/ queued
        \/ \E s \in Services : \/ Under(requests, inbox, Introspects, s) # 0
                               \/ Under(requests, inbox, Alls, s) # 0

LEMMA AllsAwaited == Awaited(Alls) /\ Loads(Alls)
BY DEF Awaited, Alike, Alls, Loads

LEMMA GetAllAwaited ==
    ASSUME TypeInv, NEW rs \in Outgoing, NEW box \in Incoming,
           requests' = Sent(rs, Request("GetAll", target, NoProp, Null, 0)), inbox' = box
    PROVE  \E s \in Services : Under(requests', inbox', Alls, s) # 0
<1>1. PICK t \in Targets, s \in Services : t = target /\ s = ServiceOf[t]
  BY ServicesAssumption DEF TypeInv, TypeOK
<1>2. PICK m \in Calls : m = Request("GetAll", t, NoProp, Null, 0)
  BY RequestTyped
<1>3. m \in Alls /\ m.to = t
  BY <1>2 DEF Alls, Request
<1>4. Grown(Sent(rs, m), rs, m)
  BY SentKept
<1>5. CountOf(Sent(rs, m)[s], Alls) = CountOf(rs[s], Alls) + 1
  BY <1>1, <1>3, <1>4 DEF Grown
<1>6. rs[s] \in Seq(Calls) /\ box[s] \in Seq(Heard)
  BY DEF Outgoing, Incoming
<1>7. CountOf(rs[s], Alls) \in Nat
  BY ONLY <1>6, CountType
<1>8. CountOf(box[s], Alls) \in Nat
  BY ONLY <1>6, CountType
<1>9. CountOf(requests'[s], Alls) + CountOf(inbox'[s], Alls) # 0
  BY <1>1, <1>2, <1>5, <1>7, <1>8
<1> QED BY <1>9 DEF Under

LEMMA GetsThereNext == ASSUME TypeInv, TypeInv', GetsThere, [Next]_vars PROVE GetsThere'
<1> PICK rs \in Outgoing, box \in Incoming, bin \in Incoming : rs = requests /\ box = inbox /\ bin = inbox'
  BY DEF TypeInv
<1>1. ASSUME queued' \/ status' \notin {"Null", "Loading"} PROVE GetsThere'
  BY <1>1 DEF GetsThere
<1>2. ASSUME NEW qs \in Outgoing, requests' = Sent(qs, Request("GetAll", target, NoProp, Null, 0))
      PROVE  GetsThere'
  <2>1. \E s \in Services : Under(requests', inbox', Alls, s) # 0
    BY <1>2, GetAllAwaited
  <2> QED BY <2>1 DEF GetsThere, Under
<1>3. ASSUME Unmoved(Introspects), Unmoved(Alls), UNCHANGED <<status, queued>> PROVE GetsThere'
  <2>1. \A s \in Services : /\ Under(requests', inbox', Introspects, s) = Under(requests, inbox, Introspects, s)
                            /\ Under(requests', inbox', Alls, s) = Under(requests, inbox, Alls, s)
    BY <1>3 DEF Unmoved
  <2> QED BY <1>3, <2>1 DEF GetsThere, Under
<1>4. Awaited(Introspects) /\ Loads(Introspects) /\ Awaited(Alls) /\ Loads(Alls)
  BY KindsAwaited, AllsAwaited DEF Introspects, Loads
<1>5. ASSUME NEW qs \in Outgoing, Subscribe(qs) PROVE GetsThere'
  <2>1. \/ requests' = Sent(qs, Request("GetAll", target, NoProp, Null, 0))
        \/ status' = "Ready"
    BY <1>5 DEF Subscribe
  <2> QED BY <1>1, <1>2, <2>1
<1>6. ASSUME NEW t \in Targets, Repoint(t) PROVE GetsThere'
  BY <1>1, <1>6 DEF Repoint
<1>7. CASE ServiceRegistered
  BY <1>1, <1>7 DEF ServiceRegistered
<1>8. CASE SetSignalsEnabled
  <2>1. bin = Without(box, "PropertiesChanged", NoProp) /\ requests' = requests /\ status' = status
    BY <1>8 DEF SetSignalsEnabled, WithoutSignals
  <2>2. /\ \A m \in Introspects : ~IsOf(m, "PropertiesChanged", NoProp)
        /\ \A m \in Alls : ~IsOf(m, "PropertiesChanged", NoProp)
    BY DEF Introspects, Alls, IsOf
  <2>3. \A s \in Services : /\ CountOf(bin[s], Introspects) = CountOf(box[s], Introspects)
                            /\ CountOf(bin[s], Alls) = CountOf(box[s], Alls)
    BY <2>1, <2>2, WithoutKept
  <2>4. Unmoved(Introspects) /\ Unmoved(Alls)
    BY <2>1, <2>3 DEF Unmoved, Under
  <2>5. queued' \/ queued' = queued
    BY <1>8 DEF SetSignalsEnabled, TypeInv, TypeOK
  <2> QED BY <1>1, <1>3, <2>1, <2>4, <2>5
<1>9. CASE SetPropertiesEnabled
  <2>1. CASE propertiesOn
    <3>1. UNCHANGED <<requests, inbox, status, queued>>
      BY <1>9, <2>1 DEF SetPropertiesEnabled
    <3>2. Unmoved(Introspects) /\ Unmoved(Alls)
      BY <3>1 DEF Unmoved, Under
    <3> QED BY <1>3, <3>1, <3>2
  <2>2. CASE ~propertiesOn
    <3>1. requests' = Sent(rs, Request("GetAll", target, NoProp, Null, 0))
      BY <1>9, <2>2 DEF SetPropertiesEnabled
    <3> QED BY <1>2, <3>1
  <2> QED BY <2>1, <2>2
<1>10. CASE IntrospectFromCache
  <2> PICK qs \in Outgoing : qs = AbandonIntrospection(requests)
    BY UnawaitedKept DEF AbandonIntrospection
  <2>1. Subscribe(qs)
    BY <1>10 DEF IntrospectFromCache
  <2> QED BY <1>5, <2>1
<1>11. CASE Introspect
  <2>1. \E s \in Services : Under(requests', inbox', Introspects, s) # 0
    BY <1>11, IntrospectAwaited
  <2> QED BY <2>1 DEF GetsThere, Under
<1>12. ASSUME NEW s \in Services, IntrospectReply(s) PROVE GetsThere'
  <2>1. Subscribe(rs) \/ status' = "Error"
    BY <1>12 DEF IntrospectReply
  <2> QED BY <1>1, <1>5, <2>1
<1>13. ASSUME NEW s \in Services, GetAllReply(s) PROVE GetsThere'
  BY <1>1, <1>13 DEF GetAllReply
<1>14. ASSUME NEW p \in Props, NEW v \in Values, NEW optimistic \in WriteKinds, Write(p, v, optimistic)
       PROVE  GetsThere'
  <2>1. Unmoved(Introspects) /\ Unmoved(Alls)
    BY <1>4, <1>14, MostStepsKeep
  <2> QED BY <1>3, <1>14, <2>1 DEF Write
<1>15. ASSUME NEW p \in Props, SetTimesOut(p) PROVE GetsThere'
  <2>1. Unmoved(Introspects) /\ Unmoved(Alls)
    BY <1>4, <1>15, MostStepsKeep
  <2> QED BY <1>3, <1>15, <2>1 DEF SetTimesOut, SetEnds
<1>16. ASSUME NEW t \in Targets, NEW new \in [Props -> Values], ServerChanges(t, new) PROVE GetsThere'
  <2>1. Unmoved(Introspects) /\ Unmoved(Alls)
    BY <1>4, <1>16, MostStepsKeep
  <2> QED BY <1>3, <1>16, <2>1 DEF ServerChanges, proxy
<1>17. ASSUME NEW s \in Services, Serve(s) PROVE GetsThere'
  <2>1. Unmoved(Introspects) /\ Unmoved(Alls)
    BY <1>4, <1>17, MostStepsKeep
  <2> QED BY <1>3, <1>17, <2>1 DEF Serve, proxy
<1>18. ASSUME NEW s \in Services, OnPropertiesChanged(s) \/ GetReply(s) \/ SetReply(s) PROVE GetsThere'
  <2>1. Unmoved(Introspects) /\ Unmoved(Alls)
    BY <1>4, <1>18, MostStepsKeep
  <2>2. UNCHANGED <<status, queued>>
    BY <1>18 DEF OnPropertiesChanged, GetReply, SetReply, SetEnds
  <2> QED BY <1>3, <2>1, <2>2
<1>19. CASE UNCHANGED vars
  <2>1. Unmoved(Introspects) /\ Unmoved(Alls)
    BY <1>4, <1>19, MostStepsKeep
  <2> QED BY <1>3, <1>19, <2>1 DEF vars, proxy
<1>20. ASSUME NEW p \in Props, NEW v \in Unsendable, WriteDropped(p, v) PROVE GetsThere'
  <2>1. Unmoved(Introspects) /\ Unmoved(Alls)
    BY <1>4, <1>20, MostStepsKeep
  <2> QED BY <1>3, <1>20, <2>1 DEF WriteDropped
<1> QED BY <1>6, <1>7, <1>8, <1>9, <1>10, <1>11, <1>12, <1>13, <1>14, <1>15, <1>16, <1>17, <1>18, <1>19, <1>20
        DEF Next, Application, DoIntrospect, Deliver

-----------------------------------------------------------------------------
(* Once nothing is under way.                                              *)

\* One stream, each place looked for over it once, one kind of write to one
\* object at a time, and no property that can be read again but the one.
Simple == /\ OneStream /\ Straight /\ OneKind
          /\ OneName \/ Unwritten

ConvInv == InStep /\ Unasked /\ GetsThere

LEMMA ConvAlways == ASSUME Simple, Tame PROVE Init /\ [][Next]_vars => []ConvInv
<1>1. Init => ConvInv
  <2> SUFFICES ASSUME Init PROVE ConvInv
    OBVIOUS
  <2>1. queued
    BY DEF Init
  <2>2. (\A p \in Props : ~sets[p].inFlight) /\ \A s \in Services : inbox[s] = <<>>
    BY DEF Init, NoSet
  <2> QED BY <2>1, <2>2 DEF ConvInv, InStep, Still, Unasked, Free, NoneIn, GetsThere
<1>2. IInv /\ Attends /\ ConvInv /\ IInv' /\ [Next]_vars => ConvInv'
  <2> SUFFICES ASSUME IInv, Attends, ConvInv, IInv', [Next]_vars PROVE ConvInv'
    OBVIOUS
  <2>1. InStep'
    BY InStepNext DEF ConvInv, Attends, Simple
  <2>2. Unasked'
    BY UnaskedNext DEF ConvInv
  <2>3. GetsThere'
    BY GetsThereNext DEF ConvInv, IInv
  <2> QED BY <2>1, <2>2, <2>3 DEF ConvInv
<1> QED BY <1>1, <1>2, IInvAlways, AttendsAlways, PTL

LEMMA ConvInside == ASSUME Simple, IInv, ConvInv PROVE Converges
<1> SUFFICES ASSUME Quiet PROVE /\ status \in {"Ready", "Error"}
                                /\ status = "Ready" /\ signalsOn /\ propertiesOn =>
                                      \A p \in Props : \/ cache[p] = server[target][p]
                                                       \/ cache[p] \in Unsendable
  BY DEF Converges
<1>1. \A M : \A s \in Services : Under(requests, inbox, M, s) = 0
  BY CountNone DEF Quiet, Under
<1>2. TypeInv /\ TypeOK
  BY DEF IInv, TypeInv
<1>3. status \in {"Ready", "Error"}
  BY <1>1, <1>2 DEF ConvInv, GetsThere, Quiet, TypeOK
<1>4. ASSUME status = "Ready", signalsOn, propertiesOn, NEW p \in Props
      PROVE  cache[p] = server[target][p] \/ cache[p] \in Unsendable
  <2>1. PICK s \in Services : s = ServiceOf[target]
    BY <1>2, ServicesAssumption DEF TypeOK
  <2>2. Now(p, s)
    BY <1>1, <1>4 DEF ConvInv, InStep, Still, Quiet
  <2>3. requests[s] = <<>> /\ inbox[s] = <<>>
    BY DEF Quiet
  <2>4. \A W, X : NoneIn(<<>>, W) /\ ~Ends(<<>>, W, X)
    BY DEF NoneIn, Ends
  <2>5. ~sets[p].inFlight
    BY <1>1 DEF IInv, OneSet
  <2> QED BY <1>4, <2>2, <2>3, <2>4, <2>5 DEF Now, Synced, Excused
<1> QED BY <1>3, <1>4

-----------------------------------------------------------------------------
(* The theorems.                                                           *)

\* The map, the records of the writes and the rest of the proxy's fields stay
\* within their types: in particular a write under way has a value and a place
\* it goes to (PendingSet and its users in src/dbus.cpp).
THEOREM TypeCorrect == Spec => []TypeOK
<1>1. IInv => TypeOK
  BY DEF IInv, TypeInv
<1> QED BY <1>1, IInvAlways, PTL DEF Spec

\* Writes of one property are serialised: however writes, answers, timeouts,
\* refusals and repointing interleave, a property with a record has exactly one
\* Set whose answer is awaited, and one without a record has none, so a record
\* is neither lost nor stuck (updateValue, setProperty and finishPendingSet in
\* src/dbus.cpp).
THEOREM OneSetAlways == Spec => []OneSetOnTheWire
BY OneSetInside, IInvAlways, PTL DEF Spec

\* Over one connection, and with a property written to one object at a time, a
\* write reaches the object it was made for, also when it waited behind another
\* while the proxy was pointed elsewhere: the snapshot in PendingSet sees to it
\* (src/dbus.cpp).  The two hypotheses are the two cases the snapshot does not
\* cover; run proxy_cross shows the second.
THEOREM WritesAimed == ASSUME Straight PROVE Spec => []WritesGoWhereAimed
<1>1. IInv => WritesGoWhereAimed
  BY AimInside
<1> QED BY <1>1, IInvAlways, PTL DEF Spec

\* Where nothing is switched on or off, or nothing is refused, the proxy does
\* not end up deaf: whatever is abandoned and started over, it listens to its
\* target or its introspection is due or awaited (doIntrospect and
\* onIntrospectionReady in src/dbus.cpp).  A proxy that is for methods only
\* while an introspection is refused gives up, and stays so when its properties
\* are switched on again: hence the hypothesis.
THEOREM HearsItsTarget == ASSUME Steady PROVE Spec => []NeverDeaf
<1>1. IInv /\ DeafInv => NeverDeaf
  BY NotDeafInside DEF IInv, DeafInv
<1> QED BY <1>1, IInvAlways, DeafAlways, PTL DEF Spec

\* The same of a proxy that has its properties, also where it is switched once
\* and refused: what is off stays off then.
THEOREM HearsForProperties == ASSUME Tame PROVE Spec => [](propertiesOn => NeverDeaf)
<1>1. IInv /\ Attends => (propertiesOn => NeverDeaf)
  BY NotDeafInside DEF IInv, Attends
<1> QED BY <1>1, IInvAlways, AttendsAlways, PTL DEF Spec

\* Once all is quiet the proxy is loaded and, if it is to have the properties
\* and to hear of them, its map shows what its target holds, but for a value
\* that could not be sent and stays where it was put, however changes,
\* answers, re-fetches, optimistic writes, refusals, timeouts, restarts and
\* repointing interleaved (onIntrospectionReady, onPropertiesChanged,
\* refetchInvalidated, updateValue and finishPendingSet in src/dbus.cpp).  The
\* hypotheses leave out what the code does not handle: a GetAll answer that
\* comes over another stream, a write that goes astray (proxy_cross), optimistic
\* and plain writes mixed (WriteKinds), two properties read again in one
\* epoch (proxy_invalidated), and two switches with a refusal (see Tame).
THEOREM MapInStep == ASSUME Simple, Tame PROVE Spec => []Converges
<1>1. IInv /\ ConvInv => Converges
  BY ConvInside
<1> QED BY <1>1, IInvAlways, ConvAlways, PTL DEF Spec
=============================================================================
