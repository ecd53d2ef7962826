------------------------- MODULE PathRegistryProofs -------------------------
(***************************************************************************)
(* Theorems about PathRegistry, for every tree of paths, every set of      *)
(* adaptors and every interface they serve: type correctness, that the two *)
(* sides of a capture agree, that no dispatcher leaks; and, of the calls   *)
(* it routes, that a captured adaptor answers as a plain one would, that   *)
(* what is advertised is served, and that introspection finds what a root  *)
(* captured.                                                               *)
(***************************************************************************)
EXTENDS PathRegistry, SequenceTheorems, WellFoundedInduction, TLAPS

-----------------------------------------------------------------------------
(* Lists and paths.                                                        *)

LEMMA FirstOfIsLeast ==
    ASSUME NEW hits \in SUBSET Nat, hits # {}
    PROVE  FirstOf(hits) \in hits /\ \A j \in hits : FirstOf(hits) <= j
<1>1. \E i \in hits : \A j \in hits : ~ (<<j, i>> \in OpToRel(<, Nat))
  BY NatLessThanWellFounded, WFMin
<1>2. \E i \in hits : \A j \in hits : i <= j
  <2>1. PICK i \in hits : \A j \in hits : ~ (<<j, i>> \in OpToRel(<, Nat))
    BY <1>1
  <2>2. ASSUME NEW j \in hits PROVE i <= j
    <3>1. ~ (j < i)
      BY <2>1 DEF OpToRel
    <3> QED BY <3>1
  <2> QED BY <2>2
<1> QED BY <1>2 DEF FirstOf

Distinct(s) == \A i, j \in DOMAIN s : s[i] = s[j] => i = j

LEMMA ListAppend ==
    ASSUME NEW s \in Seq(Adaptors), NEW a \in Adaptors
    PROVE  /\ Append(s, a) \in Seq(Adaptors)
           /\ Append(s, a) # <<>>
           /\ Range(Append(s, a)) = Range(s) \cup {a}
           /\ Distinct(s) /\ a \notin Range(s) => Distinct(Append(s, a))
<1>1. /\ Append(s, a) \in Seq(Adaptors) /\ Len(Append(s, a)) = Len(s) + 1
      /\ \A i \in 1 .. Len(s) : Append(s, a)[i] = s[i]
      /\ Append(s, a)[Len(s) + 1] = a /\ Append(s, a) # <<>>
  BY AppendProperties
<1>2. DOMAIN s = 1 .. Len(s) /\ DOMAIN Append(s, a) = 1 .. Len(s) + 1 /\ Len(s) \in Nat
  BY <1>1, LenProperties
<1> DEFINE t == Append(s, a)
<1> HIDE DEF t
<1>3. Range(t) = Range(s) \cup {a}
  <2>1. \A x \in Range(t) : x \in Range(s) \cup {a}
    BY <1>1, <1>2 DEF Range, t
  <2>2. \A x \in Range(s) : x \in Range(t)
    BY <1>1, <1>2 DEF Range, t
  <2>3. a \in Range(t)
    BY <1>1, <1>2 DEF Range, t
  <2> QED BY <2>1, <2>2, <2>3
<1>4. Distinct(s) /\ a \notin Range(s) => Distinct(t)
  <2> SUFFICES ASSUME Distinct(s), a \notin Range(s), NEW i \in DOMAIN t, NEW j \in DOMAIN t,
                      t[i] = t[j]
               PROVE  i = j
    BY DEF Distinct
  <2>1. \A k \in DOMAIN s : s[k] # a
    BY DEF Range
  <2> QED BY <1>1, <1>2, <2>1 DEF Distinct, t
<1> QED BY <1>1, <1>3, <1>4 DEF t

\* detachAdaptor takes the one entry of an adaptor out of the list.
LEMMA ListWithout ==
    ASSUME NEW s \in Seq(Adaptors), NEW a
    PROVE  /\ Without(s, a) \in Seq(Adaptors)
           /\ Distinct(s) /\ a \in Range(s) =>
                 /\ Distinct(Without(s, a))
                 /\ Range(Without(s, a)) = Range(s) \ {a}
<1> DEFINE i0 == FirstOf({j \in DOMAIN s : s[j] = a})
           t == Without(s, a)
<1>1. DOMAIN s = 1 .. Len(s) /\ Len(s) \in Nat /\ \A i \in 1 .. Len(s) : s[i] \in Adaptors
  BY LenProperties
<1>2. t = [j \in 1 .. Len(s) - 1 |-> IF j < i0 THEN s[j] ELSE s[j + 1]]
  BY DEF Without
<1> HIDE DEF t, i0
<1>3. t \in Seq(Adaptors)
  <2>1. CASE Len(s) = 0
    BY <1>1, <1>2, <2>1
  <2>2. CASE Len(s) # 0
    <3>1. Len(s) - 1 \in Nat
      BY <1>1, <2>2
    <3>2. \A j \in 1 .. Len(s) - 1 : s[j] \in Adaptors /\ s[j + 1] \in Adaptors
      BY <1>1
    <3>3. t \in [1 .. Len(s) - 1 -> Adaptors]
      BY <1>2, <3>2
    <3> QED BY <3>1, <3>3
  <2> QED BY <2>1, <2>2
<1>4. ASSUME Distinct(s), a \in Range(s) PROVE Distinct(t) /\ Range(t) = Range(s) \ {a}
  <2>1. i0 \in DOMAIN s /\ s[i0] = a
    <3>1. {j \in DOMAIN s : s[j] = a} \in SUBSET Nat /\ {j \in DOMAIN s : s[j] = a} # {}
      BY <1>1, <1>4 DEF Range
    <3> QED BY <3>1, FirstOfIsLeast DEF i0
  <2>2. i0 \in Nat /\ \A j \in DOMAIN s : j # i0 => s[j] # a
    BY <1>1, <1>4, <2>1 DEF Distinct
  <2>3. /\ DOMAIN t = 1 .. Len(s) - 1
        /\ \A j \in 1 .. Len(s) - 1 : t[j] = IF j < i0 THEN s[j] ELSE s[j + 1]
    BY <1>2
  <2>4. \A j \in DOMAIN t : t[j] \in Range(s) /\ t[j] # a
    <3> SUFFICES ASSUME NEW j \in DOMAIN t PROVE t[j] \in Range(s) /\ t[j] # a
      OBVIOUS
    <3>1. CASE j < i0
      BY <1>1, <2>2, <2>3, <3>1 DEF Range
    <3>2. CASE ~(j < i0)
      BY <1>1, <2>2, <2>3, <3>2 DEF Range
    <3> QED BY <3>1, <3>2
  <2>5. \A x \in Range(s) \ {a} : x \in Range(t)
    <3> SUFFICES ASSUME NEW k \in DOMAIN s, s[k] # a PROVE s[k] \in Range(t)
      BY DEF Range
    <3>1. CASE k < i0
      BY <1>1, <2>1, <2>3, <3>1 DEF Range
    <3>2. CASE k > i0
      <4>1. k - 1 \in DOMAIN t /\ t[k - 1] = s[k]
        BY <1>1, <2>1, <2>3, <3>2
      <4> QED BY <4>1 DEF Range
    <3> QED BY <1>1, <2>1, <3>1, <3>2
  <2>6. Range(t) = Range(s) \ {a}
    BY <2>4, <2>5 DEF Range
  <2>7. Distinct(t)
    <3> SUFFICES ASSUME NEW j \in DOMAIN t, NEW k \in DOMAIN t, t[j] = t[k] PROVE j = k
      BY DEF Distinct
    <3> DEFINE f(x) == IF x < i0 THEN x ELSE x + 1
    <3>1. f(j) \in DOMAIN s /\ f(k) \in DOMAIN s /\ s[f(j)] = s[f(k)]
      BY <1>1, <2>2, <2>3
    <3>2. f(j) = f(k)
      BY <1>4, <3>1 DEF Distinct
    <3> QED BY <1>1, <2>2, <2>3, <3>2
  <2> QED BY <2>6, <2>7
<1> QED BY <1>3, <1>4 DEF t

LEMMA EmptyList ==
    ASSUME NEW s \in Seq(Adaptors)
    PROVE  s = <<>> <=> Range(s) = {}
<1>1. Range(s) = {s[i] : i \in 1 .. Len(s)}
  BY RangeEquality
<1>2. Len(s) \in Nat /\ (s = <<>> <=> Len(s) = 0)
  BY LenProperties
<1> QED BY <1>1, <1>2

\* The paths above a path are comparable, and none is above itself.
LEMMA Tree ==
    /\ \A p \in Paths : Range(Above[p]) \in SUBSET Paths /\ ~IsAbove(p, p)
    /\ \A p, q, r \in Paths : IsAbove(q, p) /\ IsAbove(r, p) => q = r \/ IsAbove(q, r) \/ IsAbove(r, q)
    /\ \A p, q, r \in Paths : IsAbove(r, q) /\ IsAbove(q, p) => IsAbove(r, p)
<1>1. ASSUME NEW p \in Paths
      PROVE  /\ Above[p] \in Seq(Paths) /\ Len(Above[p]) \in Nat
             /\ DOMAIN Above[p] = 1 .. Len(Above[p])
             /\ \A i \in DOMAIN Above[p] : Above[p][i] \in Paths
             /\ Range(Above[p]) \in SUBSET Paths
  <2>1. Above[p] \in Seq(Paths)
    BY PathsAssumption
  <2> QED BY <2>1, LenProperties, RangeOfSeq
\* What lies above an ancestor.
<1>2. ASSUME NEW p \in Paths, NEW i \in DOMAIN Above[p]
      PROVE  LET up == Above[Above[p][i]]
             IN  /\ Len(up) = Len(Above[p]) - i
                 /\ DOMAIN up = 1 .. Len(Above[p]) - i
                 /\ \A k \in 1 .. Len(Above[p]) - i : up[k] = Above[p][i + k]
  <2> DEFINE up == Above[Above[p][i]]
             n == Len(Above[p])
  <2>1. up = SubSeq(Above[p], i + 1, n)
    BY AboveAssumption
  <2>2. n \in Nat /\ i \in 1 .. n /\ \A j \in i + 1 .. n : Above[p][j] \in Paths
    BY <1>1
  <2>3. /\ Len(up) = IF i + 1 <= n THEN n - (i + 1) + 1 ELSE 0
        /\ \A k \in 1 .. n - (i + 1) + 1 : up[k] = Above[p][(i + 1) + k - 1]
    BY <2>1, <2>2, SubSeqProperties
  <2>4. Above[p][i] \in Paths
    BY <1>1
  <2>5. DOMAIN up = 1 .. Len(up)
    BY <1>1, <2>4
  <2> HIDE DEF up, n
  <2>6. Len(up) = n - i
    BY <2>2, <2>3
  <2>7. \A k \in 1 .. n - i : up[k] = Above[p][i + k]
    <3> SUFFICES ASSUME NEW k \in 1 .. n - i PROVE up[k] = Above[p][i + k]
      OBVIOUS
    <3>1. k \in 1 .. n - (i + 1) + 1 /\ (i + 1) + k - 1 = i + k
      BY <2>2
    <3> QED BY <2>3, <3>1
  <2> QED BY <2>5, <2>6, <2>7 DEF up, n
<1>3. ASSUME NEW p \in Paths PROVE ~IsAbove(p, p)
  <2> SUFFICES ASSUME NEW i \in DOMAIN Above[p], Above[p][i] = p PROVE FALSE
    BY DEF IsAbove, Range
  <2>1. Len(Above[p]) = Len(Above[p]) - i
    BY <1>2
  <2> QED BY <1>1, <2>1
<1>4. ASSUME NEW p \in Paths, NEW i \in DOMAIN Above[p], NEW j \in DOMAIN Above[p], i < j
      PROVE  IsAbove(Above[p][j], Above[p][i])
  <2>1. j - i \in 1 .. Len(Above[p]) - i /\ i + (j - i) = j
    BY <1>1, <1>4
  <2>2. j - i \in DOMAIN Above[Above[p][i]] /\ Above[Above[p][i]][j - i] = Above[p][j]
    BY <1>2, <2>1
  <2> QED BY <2>2 DEF IsAbove, Range
<1>5. ASSUME NEW p \in Paths, NEW q \in Paths, NEW r \in Paths, IsAbove(q, p), IsAbove(r, p)
      PROVE  q = r \/ IsAbove(q, r) \/ IsAbove(r, q)
  <2>1. PICK i \in DOMAIN Above[p] : Above[p][i] = q
    BY <1>5 DEF IsAbove, Range
  <2>2. PICK j \in DOMAIN Above[p] : Above[p][j] = r
    BY <1>5 DEF IsAbove, Range
  <2>3. i < j \/ j < i \/ i = j
    BY <1>1
  <2> QED BY <1>4, <2>1, <2>2, <2>3
<1>6. ASSUME NEW p \in Paths, NEW q \in Paths, NEW r \in Paths, IsAbove(r, q), IsAbove(q, p)
      PROVE  IsAbove(r, p)
  <2>1. PICK i \in DOMAIN Above[p] : Above[p][i] = q
    BY <1>6 DEF IsAbove, Range
  <2>2. PICK k \in DOMAIN Above[q] : Above[q][k] = r
    BY <1>6 DEF IsAbove, Range
  <2>3. k \in 1 .. Len(Above[p]) - i /\ Above[q][k] = Above[p][i + k]
    <3>1. /\ DOMAIN Above[q] = 1 .. Len(Above[p]) - i
          /\ \A j \in 1 .. Len(Above[p]) - i : Above[q][j] = Above[p][i + j]
      BY <1>2, <2>1
    <3> QED BY <2>2, <3>1
  <2>4. i + k \in DOMAIN Above[p]
    BY <1>1, <2>3
  <2> QED BY <2>2, <2>3, <2>4 DEF IsAbove, Range
<1> QED BY <1>1, <1>3, <1>5, <1>6

\* The root that would capture p is a capturing dispatcher above it.
LEMMA RootAbove ==
    ASSUME NEW p \in Paths
    PROVE  /\ CapturingRoot(p) \in Paths \cup {NoPath}
           /\ CapturingRoot(p) # NoPath =>
                 Capturing(CapturingRoot(p)) /\ IsAbove(CapturingRoot(p), p)
           /\ CapturingRoot(p) = NoPath => \A q \in Paths : IsAbove(q, p) => ~Capturing(q)
<1> DEFINE hits == {i \in DOMAIN Above[p] : Capturing(Above[p][i])}
<1>1. Above[p] \in Seq(Paths)
  BY PathsAssumption
<1>2. /\ DOMAIN Above[p] = 1 .. Len(Above[p]) /\ Len(Above[p]) \in Nat
      /\ \A i \in DOMAIN Above[p] : Above[p][i] \in Paths
  BY <1>1, LenProperties
<1>3. hits \in SUBSET Nat
  BY <1>2
<1>4. CASE hits = {}
  <2>1. CapturingRoot(p) = NoPath
    BY <1>4 DEF CapturingRoot
  <2>2. \A q \in Paths : IsAbove(q, p) => ~Capturing(q)
    BY <1>4 DEF IsAbove, Range
  <2> QED BY <2>1, <2>2
<1>5. CASE hits # {}
  <2>1. FirstOf(hits) \in hits
    BY <1>3, <1>5, FirstOfIsLeast
  <2>2. CapturingRoot(p) = Above[p][FirstOf(hits)]
    BY <1>5 DEF CapturingRoot
  <2>3. CapturingRoot(p) \in Paths /\ Capturing(CapturingRoot(p)) /\ IsAbove(CapturingRoot(p), p)
    BY <1>2, <2>1, <2>2 DEF IsAbove, Range
  <2> QED BY <2>3, PathsAssumption
<1> QED BY <1>4, <1>5

-----------------------------------------------------------------------------
(* Dispatchers.                                                            *)

LEMMA NoDispatcherFields ==
    /\ NoDispatcher \in Dispatcher
    /\ ~NoDispatcher.exists /\ NoDispatcher.adaptors = <<>> /\ ~NoDispatcher.captures
    /\ ~NoDispatcher.requestedCapture /\ NoDispatcher.capturedBy = NoPath
    /\ NoDispatcher.children = {}
BY DEF NoDispatcher, Dispatcher

LEMMA NewDispatcherFields ==
    ASSUME NEW capture \in BOOLEAN, NEW captures \in BOOLEAN, NEW root \in Paths \cup {NoPath}
    PROVE  LET d == NewDispatcher(capture, captures, root)
           IN  /\ d \in Dispatcher
               /\ d.exists /\ d.adaptors = <<>> /\ (d.captures <=> captures)
               /\ d.capturedBy = root /\ d.children = {}
BY DEF NewDispatcher, Dispatcher

LEMMA AddedFields ==
    ASSUME NEW d \in Dispatcher, NEW a \in Adaptors
    PROVE  LET e == Added(d, a)
           IN  /\ e \in Dispatcher
               /\ e.exists = d.exists /\ e.adaptors = Append(d.adaptors, a)
               /\ e.captures = d.captures /\ e.requestedCapture = d.requestedCapture
               /\ e.capturedBy = d.capturedBy /\ e.children = d.children
<1>1. Append(d.adaptors, a) \in Seq(Adaptors)
  BY ListAppend DEF Dispatcher
<1> QED BY <1>1 DEF Added, Dispatcher

-----------------------------------------------------------------------------
(* Type correctness.                                                       *)

LEMMA TypeInit == Init => TypeOK
BY NoDispatcherFields DEF Init, TypeOK, QtNode

\* A detach leaves every dispatcher as it was, shortens the list of one, takes
\* what goes out of the children of its root, or ends it.
DetachedTo(p, left, dying, q) ==
    IF q \in dying THEN NoDispatcher
    ELSE IF q = p THEN [disp[q] EXCEPT !.adaptors = left]
    ELSE IF q = disp[p].capturedBy THEN [disp[q] EXCEPT !.children = @ \ dying]
    ELSE disp[q]

LEMMA DetachedFields ==
    ASSUME TypeOK, NEW p \in Paths, NEW left \in Seq(Adaptors), NEW dying, NEW q \in Paths
    PROVE  /\ DetachedTo(p, left, dying, q) \in Dispatcher
           /\ q \in dying => DetachedTo(p, left, dying, q) = NoDispatcher
           /\ q \notin dying =>
                 /\ DetachedTo(p, left, dying, q).exists = disp[q].exists
                 /\ DetachedTo(p, left, dying, q).captures = disp[q].captures
                 /\ DetachedTo(p, left, dying, q).capturedBy = disp[q].capturedBy
                 /\ q = p => DetachedTo(p, left, dying, q).adaptors = left
                 /\ q # p => DetachedTo(p, left, dying, q).adaptors = disp[q].adaptors
                 /\ q # p /\ q = disp[p].capturedBy =>
                       DetachedTo(p, left, dying, q).children = disp[q].children \ dying
                 /\ ~(q # p /\ q = disp[p].capturedBy) =>
                       DetachedTo(p, left, dying, q).children = disp[q].children
<1>1. disp[q] \in Dispatcher
  BY DEF TypeOK
<1>2. LET d == [disp[q] EXCEPT !.adaptors = left]
      IN  /\ d \in Dispatcher /\ d.exists = disp[q].exists /\ d.captures = disp[q].captures
          /\ d.requestedCapture = disp[q].requestedCapture /\ d.capturedBy = disp[q].capturedBy
          /\ d.adaptors = left /\ d.children = disp[q].children
  BY <1>1 DEF Dispatcher
<1>3. LET d == [disp[q] EXCEPT !.children = @ \ dying]
      IN  /\ d \in Dispatcher /\ d.exists = disp[q].exists /\ d.captures = disp[q].captures
          /\ d.requestedCapture = disp[q].requestedCapture /\ d.capturedBy = disp[q].capturedBy
          /\ d.adaptors = disp[q].adaptors /\ d.children = disp[q].children \ dying
  BY <1>1 DEF Dispatcher
<1>4. CASE q \in dying
  BY <1>4, NoDispatcherFields DEF DetachedTo
<1>5. CASE q \notin dying /\ q = p
  BY <1>2, <1>5 DEF DetachedTo
<1>6. CASE q \notin dying /\ q # p /\ q = disp[p].capturedBy
  BY <1>3, <1>6 DEF DetachedTo
<1>7. CASE q \notin dying /\ q # p /\ q # disp[p].capturedBy
  BY <1>1, <1>7 DEF DetachedTo
<1> QED BY <1>4, <1>5, <1>6, <1>7

LEMMA TypeNext == TypeOK /\ [Next]_vars => TypeOK'
<1> SUFFICES ASSUME TypeOK, [Next]_vars PROVE TypeOK'
  OBVIOUS
<1>1. disp \in [Paths -> Dispatcher] /\ qt \in [Paths -> QtNode]
      /\ at \in [Adaptors -> Paths \cup {NoPath}] /\ refused \in SUBSET Adaptors
  BY DEF TypeOK
<1>2. ASSUME NEW a \in Adaptors, NEW p \in Paths, NEW capture \in BOOLEAN,
             AttachShared(a, p, capture)
      PROVE  TypeOK'
  <2>1. Added(disp[p], a) \in Dispatcher
    BY <1>1, AddedFields
  <2> QED BY <1>1, <1>2, <2>1 DEF AttachShared, TypeOK
<1>3. ASSUME NEW a \in Adaptors, Refuse(a) PROVE TypeOK'
  BY <1>1, <1>3 DEF Refuse, TypeOK
<1>4. ASSUME NEW a \in Adaptors, NEW p \in Paths, NEW capture \in BOOLEAN,
             AttachCaptured(a, p, capture)
      PROVE  TypeOK'
  <2> DEFINE root == CapturingRoot(p)
             d == Added(NewDispatcher(capture, FALSE, root), a)
  <2>1. root \in Paths
    BY <1>4, RootAbove DEF AttachCaptured
  <2>2. d \in Dispatcher
    BY <2>1, NewDispatcherFields, AddedFields
  <2>3. disp' = [disp EXCEPT ![p] = d, ![root].children = @ \cup {p}]
    BY <1>4 DEF AttachCaptured
  <2>4. [disp[root] EXCEPT !.children = @ \cup {p}] \in Dispatcher
    <3>1. \A e \in Dispatcher : [e EXCEPT !.children = @ \cup {p}] \in Dispatcher
      BY DEF Dispatcher
    <3>2. disp[root] \in Dispatcher
      BY <1>1, <2>1
    <3> HIDE DEF Dispatcher
    <3> QED BY <3>1, <3>2
  <2>5. p # root
    BY <1>4, <2>1, RootAbove DEF AttachCaptured, Capturing
  <2> HIDE DEF d, root, Dispatcher
  <2>6. disp' \in [Paths -> Dispatcher]
    BY <1>1, <2>1, <2>2, <2>3, <2>4, <2>5
  <2> QED BY <1>1, <1>4, <2>6 DEF AttachCaptured, TypeOK
<1>5. ASSUME NEW a \in Adaptors, NEW p \in Paths, NEW capture \in BOOLEAN,
             AttachRoot(a, p, capture)
      PROVE  TypeOK'
  <2>1. Added(NewDispatcher(capture, capture, NoPath), a) \in Dispatcher
    BY NewDispatcherFields, AddedFields
  <2>2. \A x \in BOOLEAN : (IF x THEN "subpath" ELSE "single") \in QtNode
    BY DEF QtNode
  <2> QED BY <1>1, <1>5, <2>1, <2>2 DEF AttachRoot, TypeOK
<1>6. ASSUME NEW a \in Adaptors, Detach(a) PROVE TypeOK'
  <2> DEFINE p == at[a]
             left == Without(disp[p].adaptors, a)
             dying == IF left = <<>> THEN Dying(p) ELSE {}
  <2>1. p \in Paths
    BY <1>1, <1>6 DEF Detach
  <2>2. left \in Seq(Adaptors)
    BY <1>1, <2>1, ListWithout DEF Dispatcher
  <2>3. disp' = [q \in Paths |-> DetachedTo(p, left, dying, q)]
    BY <1>6 DEF Detach, DetachedTo
  <2>4. \A q \in Paths : DetachedTo(p, left, dying, q) \in Dispatcher
    BY <2>1, <2>2, DetachedFields
  <2>5. qt' \in [Paths -> QtNode]
    BY <1>1, <1>6 DEF Detach, QtNode
  <2>6. at' \in [Adaptors -> Paths \cup {NoPath}] /\ refused' = refused
    BY <1>1, <1>6 DEF Detach
  <2> HIDE DEF left, dying, p
  <2>7. disp' \in [Paths -> Dispatcher]
    BY <2>3, <2>4
  <2> QED BY <1>1, <2>5, <2>6, <2>7 DEF TypeOK
<1>7. ASSUME NEW a \in Adaptors, DestroyRefused(a) PROVE TypeOK'
  BY <1>1, <1>7 DEF DestroyRefused, TypeOK
<1>8. CASE Application
  BY <1>1, <1>8 DEF Application, ApplicationRegisters, ApplicationUnregisters, TypeOK, QtNode
<1>9. CASE UNCHANGED vars
  BY <1>9 DEF vars, TypeOK
<1> QED BY <1>2, <1>3, <1>4, <1>5, <1>6, <1>7, <1>8, <1>9
        DEF Next, Attach, AttachMismatched, AttachRejected

\* The table of dispatchers, QtDBus's tree and the adaptors keep their types.
THEOREM TypeCorrect == Spec => []TypeOK
BY TypeInit, TypeNext, PTL DEF Spec

-----------------------------------------------------------------------------
(* The inductive invariant.                                                *)

\* A dispatcher that is gone left nothing behind; a captured one does not
\* capture; only a capturing one has children; a living one is needed; and the
\* root that captured one lies above it.
DispatcherInv(p) ==
    /\ ~disp[p].exists => disp[p].adaptors = <<>> /\ ~disp[p].captures
    /\ disp[p].captures => disp[p].capturedBy = NoPath
    /\ disp[p].children # {} => disp[p].captures
    /\ disp[p].exists => disp[p].adaptors # <<>> \/ disp[p].children # {}
    /\ disp[p].exists /\ disp[p].capturedBy # NoPath => IsAbove(disp[p].capturedBy, p)

\* The lists of the dispatchers are where the adaptors are attached.
ListsInv(p) ==
    /\ Distinct(disp[p].adaptors)
    /\ \A a \in Adaptors : at[a] = p <=> a \in Range(disp[p].adaptors)

\* QtDBus holds the roots, as SubPath if they capture.
TreeInv(p) ==
    /\ qt[p] \in {"single", "subpath"} <=> disp[p].exists /\ disp[p].capturedBy = NoPath
    /\ qt[p] = "subpath" <=> Capturing(p)

\* QtDBus registers nothing beneath a SubPath object, if it looks everywhere.
SubpathAlone ==
    \A p, q \in Paths : qt[q] = "subpath" /\ IsAbove(q, p) => qt[p] = "free"

IInv == /\ \A p \in Paths : DispatcherInv(p)
        /\ \A p \in Paths : ListsInv(p)
        /\ \A p \in Paths : TreeInv(p)
        /\ CaptureAgrees
        /\ LooksDeep => SubpathAlone

LEMMA IInvInit == Init => IInv
<1> SUFFICES ASSUME Init PROVE IInv
  OBVIOUS
<1>1. \A p \in Paths : disp[p] = NoDispatcher /\ qt[p] = "free" /\ Range(disp[p].adaptors) = {}
  BY NoDispatcherFields DEF Init, Range
<1>2. \A p \in Paths : DispatcherInv(p) /\ TreeInv(p)
  BY <1>1, NoDispatcherFields DEF DispatcherInv, TreeInv, Capturing
<1>3. \A p \in Paths : ListsInv(p)
  BY <1>1, NoDispatcherFields, PathsAssumption DEF ListsInv, Distinct, Init
<1>4. CaptureAgrees /\ SubpathAlone
  BY <1>1, NoDispatcherFields DEF CaptureAgrees, SubpathAlone, Capturing
<1> QED BY <1>2, <1>3, <1>4 DEF IInv

\* What the types of the tables say of one path.
LEMMA FieldTypes ==
    ASSUME TypeOK, NEW p \in Paths
    PROVE  /\ disp[p] \in Dispatcher /\ qt[p] \in QtNode
           /\ disp[p].adaptors \in Seq(Adaptors)
           /\ disp[p].exists \in BOOLEAN /\ disp[p].captures \in BOOLEAN
           /\ disp[p].capturedBy \in Paths \cup {NoPath} /\ NoPath \notin Paths
           /\ disp[p].children \in SUBSET Paths
BY PathsAssumption DEF TypeOK, Dispatcher

\* An adaptor joins the list of a path.
LEMMA ListsAfterAttach ==
    ASSUME TypeOK, IInv, NEW a \in Adaptors, NEW p \in Paths, at[a] = NoPath,
           at' = [at EXCEPT ![a] = p],
           disp'[p].adaptors = Append(disp[p].adaptors, a),
           \A q \in Paths : q # p => disp'[q].adaptors = disp[q].adaptors
    PROVE  \A q \in Paths : ListsInv(q)'
<1> SUFFICES ASSUME NEW q \in Paths PROVE ListsInv(q)'
  OBVIOUS
<1>1. at \in [Adaptors -> Paths \cup {NoPath}] /\ ListsInv(q) /\ disp[q].adaptors \in Seq(Adaptors)
  BY FieldTypes DEF TypeOK, IInv
<1>2. \A b \in Adaptors : at'[b] = IF b = a THEN p ELSE at[b]
  BY <1>1
<1>3. CASE q = p
  <2>1. a \notin Range(disp[p].adaptors)
    BY <1>1, <1>3, PathsAssumption DEF ListsInv
  <2>2. Distinct(disp'[p].adaptors) /\ Range(disp'[p].adaptors) = Range(disp[p].adaptors) \cup {a}
    BY <1>1, <1>3, <2>1, ListAppend DEF ListsInv
  <2> QED BY <1>1, <1>2, <1>3, <2>2 DEF ListsInv
<1>4. CASE q # p
  BY <1>1, <1>2, <1>4, PathsAssumption DEF ListsInv
<1> QED BY <1>3, <1>4

LEMMA IInvAttachShared ==
    ASSUME TypeOK, IInv, NEW a \in Adaptors, NEW p \in Paths, NEW capture \in BOOLEAN,
           AttachShared(a, p, capture)
    PROVE  IInv'
<1>1. /\ disp'[p] = Added(disp[p], a) /\ \A q \in Paths : q # p => disp'[q] = disp[q]
      /\ at[a] = NoPath /\ at' = [at EXCEPT ![a] = p] /\ qt' = qt
  BY DEF AttachShared, Unattached, TypeOK
<1>2. /\ disp'[p].adaptors = Append(disp[p].adaptors, a) /\ disp'[p].adaptors # <<>>
      /\ disp[p].exists
      /\ \A q \in Paths : /\ disp'[q].exists <=> disp[q].exists
                          /\ disp'[q].captures <=> disp[q].captures
                          /\ disp'[q].capturedBy = disp[q].capturedBy
                          /\ disp'[q].children = disp[q].children
                          /\ q # p => disp'[q].adaptors = disp[q].adaptors
  BY <1>1, AddedFields, FieldTypes, ListAppend DEF AttachShared
<1>3. ASSUME NEW q \in Paths
      PROVE  DispatcherInv(q)' /\ TreeInv(q)' /\ (Capturing(q)' <=> Capturing(q))
  <2>1. DispatcherInv(q) /\ TreeInv(q)
    BY DEF IInv
  <2>2. CASE q = p
    <3>1. /\ disp'[q].adaptors # <<>> /\ disp[q].exists /\ disp'[q].exists
          /\ disp'[q].captures <=> disp[q].captures
          /\ disp'[q].capturedBy = disp[q].capturedBy
          /\ disp'[q].children = disp[q].children
          /\ qt'[q] = qt[q]
      BY <1>1, <1>2, <2>2
    <3> QED BY <2>1, <3>1 DEF DispatcherInv, TreeInv, Capturing, IsAbove
  <2>3. CASE q # p
    <3>1. disp'[q] = disp[q] /\ qt'[q] = qt[q]
      BY <1>1, <2>3
    <3>2. DispatcherInv(q)'
      BY <2>1, <3>1 DEF DispatcherInv, IsAbove
    <3>3. Capturing(q)' <=> Capturing(q)
      BY <3>1 DEF Capturing
    <3> QED BY <2>1, <3>1, <3>2, <3>3 DEF TreeInv
  <2> QED BY <2>2, <2>3
<1>4. \A q \in Paths : ListsInv(q)'
  <2>1. /\ at[a] = NoPath /\ at' = [at EXCEPT ![a] = p]
        /\ disp'[p].adaptors = Append(disp[p].adaptors, a)
        /\ \A q \in Paths : q # p => disp'[q].adaptors = disp[q].adaptors
    BY <1>1, <1>2
  <2> QED BY <2>1, ListsAfterAttach
<1>6. CaptureAgrees'
  <2> SUFFICES ASSUME NEW q \in Paths, NEW u \in Paths
               PROVE  (disp'[q].exists /\ disp'[q].capturedBy = u)
                          <=> (Capturing(u)' /\ q \in disp'[u].children)
    BY DEF CaptureAgrees
  <2>1. (disp[q].exists /\ disp[q].capturedBy = u) <=> (Capturing(u) /\ q \in disp[u].children)
    BY DEF IInv, CaptureAgrees
  <2> QED BY <1>2, <1>3, <2>1
<1>7. SubpathAlone => SubpathAlone'
  BY <1>1 DEF SubpathAlone, IsAbove
<1> QED BY <1>3, <1>4, <1>6, <1>7 DEF IInv

LEMMA IInvAttachCaptured ==
    ASSUME TypeOK, IInv, NEW a \in Adaptors, NEW p \in Paths, NEW capture \in BOOLEAN,
           AttachCaptured(a, p, capture)
    PROVE  IInv'
<1> PICK root \in Paths : root = CapturingRoot(p)
  BY RootAbove DEF AttachCaptured
<1> DEFINE d == Added(NewDispatcher(capture, FALSE, root), a)
           r == [disp[root] EXCEPT !.children = @ \cup {p}]
<1>1. ~disp[p].exists /\ Capturing(root) /\ IsAbove(root, p) /\ root # p
  BY RootAbove, PathsAssumption DEF AttachCaptured, Capturing
<1>2. /\ d.exists /\ ~d.captures /\ d.capturedBy = root /\ d.children = {}
      /\ d.adaptors = Append(<<>>, a)
  <2> DEFINE n == NewDispatcher(capture, FALSE, root)
  <2>1. n \in Dispatcher /\ n.exists /\ ~n.captures /\ n.capturedBy = root /\ n.children = {}
        /\ n.adaptors = <<>>
    BY DEF NewDispatcher, Dispatcher
  <2> HIDE DEF n
  <2>2. LET e == Added(n, a)
        IN  /\ e.exists /\ ~e.captures /\ e.capturedBy = root /\ e.children = {}
            /\ e.adaptors = Append(<<>>, a)
    BY <2>1, AddedFields
  <2> QED BY <2>2 DEF n
<1>3. /\ r.exists = disp[root].exists /\ r.captures = disp[root].captures
      /\ r.capturedBy = disp[root].capturedBy /\ r.adaptors = disp[root].adaptors
      /\ r.children = disp[root].children \cup {p}
  BY FieldTypes DEF Dispatcher
<1>4. disp' = [disp EXCEPT ![p] = d, ![root].children = @ \cup {p}]
      /\ at[a] = NoPath /\ at' = [at EXCEPT ![a] = p] /\ qt' = qt
  BY DEF AttachCaptured, Unattached
<1>5. disp'[p] = d /\ disp'[root] = r /\ \A q \in Paths \ {p, root} : disp'[q] = disp[q]
  <2> HIDE DEF d
  <2> QED BY <1>1, <1>4 DEF TypeOK
<1> HIDE DEF d, r
<1>6. DispatcherInv(p) /\ disp[p].adaptors = <<>> /\ d.adaptors # <<>>
  BY <1>1, <1>2, ListAppend DEF IInv, DispatcherInv
<1>7. ~Capturing(p) /\ \A q \in Paths : p \notin disp[q].children \/ ~Capturing(q)
  BY <1>1 DEF IInv, CaptureAgrees, Capturing
<1>8. ASSUME NEW q \in Paths PROVE DispatcherInv(q)'
  <2>1. DispatcherInv(q)
    BY DEF IInv
  <2>2. CASE q = p
    BY <1>1, <1>2, <1>5, <1>6, <2>2 DEF DispatcherInv, IsAbove
  <2>3. CASE q = root
    BY <1>1, <1>3, <1>5, <2>1, <2>3 DEF DispatcherInv, IsAbove, Capturing
  <2>4. CASE q # p /\ q # root
    BY <1>5, <2>1, <2>4 DEF DispatcherInv, IsAbove
  <2> QED BY <2>2, <2>3, <2>4
<1>9. \A q \in Paths : ListsInv(q)'
  <2>1. disp'[p].adaptors = Append(disp[p].adaptors, a)
    BY <1>2, <1>5, <1>6
  <2>2. \A q \in Paths : q # p => disp'[q].adaptors = disp[q].adaptors
    BY <1>3, <1>5
  <2>3. at[a] = NoPath /\ at' = [at EXCEPT ![a] = p]
    BY <1>4
  <2> QED BY <2>1, <2>2, <2>3, ListsAfterAttach
<1>10. ASSUME NEW q \in Paths PROVE TreeInv(q)' /\ (Capturing(q)' <=> Capturing(q))
  <2>1. TreeInv(q)
    BY DEF IInv
  <2>2. CASE q = p
    BY <1>1, <1>2, <1>4, <1>5, <2>1, <2>2, PathsAssumption DEF TreeInv, Capturing
  <2>3. CASE q = root
    BY <1>3, <1>4, <1>5, <2>1, <2>3 DEF TreeInv, Capturing
  <2>4. CASE q # p /\ q # root
    BY <1>4, <1>5, <2>1, <2>4 DEF TreeInv, Capturing
  <2> QED BY <2>2, <2>3, <2>4
<1>11. CaptureAgrees'
  <2> SUFFICES ASSUME NEW q \in Paths, NEW u \in Paths
               PROVE  (disp'[q].exists /\ disp'[q].capturedBy = u)
                          <=> (Capturing(u)' /\ q \in disp'[u].children)
    BY DEF CaptureAgrees
  <2>1. (disp[q].exists /\ disp[q].capturedBy = u) <=> (Capturing(u) /\ q \in disp[u].children)
    BY DEF IInv, CaptureAgrees
  <2>2. disp'[u].children = IF u = root THEN disp[u].children \cup {p}
                            ELSE IF u = p THEN {} ELSE disp[u].children
    BY <1>1, <1>2, <1>3, <1>5
  <2>3. CASE q = p
    BY <1>1, <1>2, <1>5, <1>7, <1>10, <2>2, <2>3
  <2>4. CASE q # p
    <3>1. disp'[q].exists = disp[q].exists /\ disp'[q].capturedBy = disp[q].capturedBy
      BY <1>3, <1>5, <2>4
    <3> QED BY <1>7, <1>10, <2>1, <2>2, <2>4, <3>1
  <2> QED BY <2>3, <2>4
<1>12. SubpathAlone => SubpathAlone'
  BY <1>4 DEF SubpathAlone, IsAbove
<1> QED BY <1>8, <1>9, <1>10, <1>11, <1>12 DEF IInv

LEMMA IInvAttachRoot ==
    ASSUME TypeOK, IInv, NEW a \in Adaptors, NEW p \in Paths, NEW capture \in BOOLEAN,
           AttachRoot(a, p, capture)
    PROVE  IInv'
<1> DEFINE d == Added(NewDispatcher(capture, capture, NoPath), a)
<1>1. /\ d.exists /\ (d.captures <=> capture) /\ d.capturedBy = NoPath /\ d.children = {}
      /\ d.adaptors = Append(<<>>, a)
  BY NewDispatcherFields, AddedFields
<1>2. /\ disp'[p] = d /\ \A q \in Paths : q # p => disp'[q] = disp[q]
      /\ at[a] = NoPath /\ at' = [at EXCEPT ![a] = p]
      /\ qt'[p] = (IF capture THEN "subpath" ELSE "single")
      /\ \A q \in Paths : q # p => qt'[q] = qt[q]
      /\ ~disp[p].exists /\ QtAccepts(p, capture)
  <2> HIDE DEF d
  <2> QED BY DEF AttachRoot, Unattached, TypeOK, d
<1> HIDE DEF d
<1>3. DispatcherInv(p) /\ disp[p].adaptors = <<>> /\ d.adaptors # <<>>
  BY <1>1, <1>2, ListAppend DEF IInv, DispatcherInv
<1>4. /\ \A q \in Paths : Capturing(q) => p \notin disp[q].children
      /\ \A q \in Paths : disp[q].exists => disp[q].capturedBy # p
  BY <1>2 DEF IInv, CaptureAgrees, Capturing
<1>5. ASSUME NEW q \in Paths PROVE DispatcherInv(q)'
  <2>1. CASE q = p
    BY <1>1, <1>2, <1>3, <2>1 DEF DispatcherInv
  <2>2. CASE q # p
    <3>1. DispatcherInv(q) /\ disp'[q] = disp[q]
      BY <1>2, <2>2 DEF IInv
    <3> QED BY <3>1 DEF DispatcherInv, IsAbove
  <2> QED BY <2>1, <2>2
<1>6. \A q \in Paths : ListsInv(q)'
  <2>1. /\ at[a] = NoPath /\ at' = [at EXCEPT ![a] = p]
        /\ disp'[p].adaptors = Append(disp[p].adaptors, a)
        /\ \A q \in Paths : q # p => disp'[q].adaptors = disp[q].adaptors
    BY <1>1, <1>2, <1>3
  <2> QED BY <2>1, ListsAfterAttach
<1>7. ASSUME NEW q \in Paths PROVE TreeInv(q)'
  <2>1. CASE q = p
    BY <1>1, <1>2, <2>1 DEF TreeInv, Capturing
  <2>2. CASE q # p
    BY <1>2, <2>2 DEF IInv, TreeInv, Capturing
  <2> QED BY <2>1, <2>2
<1>8. CaptureAgrees'
  <2> SUFFICES ASSUME NEW q \in Paths, NEW u \in Paths
               PROVE  (disp'[q].exists /\ disp'[q].capturedBy = u)
                          <=> (Capturing(u)' /\ q \in disp'[u].children)
    BY DEF CaptureAgrees
  <2>1. (disp[q].exists /\ disp[q].capturedBy = u) <=> (Capturing(u) /\ q \in disp[u].children)
    BY DEF IInv, CaptureAgrees
  <2>2. CASE q = p
    BY <1>1, <1>2, <1>4, <2>2, PathsAssumption DEF Capturing
  <2>3. CASE q # p /\ u = p
    BY <1>1, <1>2, <1>4, <2>3
  <2>4. CASE q # p /\ u # p
    BY <1>2, <2>1, <2>4 DEF Capturing
  <2> QED BY <2>2, <2>3, <2>4
<1>9. ASSUME LooksDeep, SubpathAlone PROVE SubpathAlone'
  <2> SUFFICES ASSUME NEW q \in Paths, NEW u \in Paths, qt'[u] = "subpath", IsAbove(u, q)
               PROVE  qt'[q] = "free"
    BY DEF SubpathAlone, IsAbove
  <2>1. q # p \/ qt[u] # "subpath"
    BY <1>2 DEF QtAccepts, IsAbove
  <2>2. ~IsAbove(p, p)
    BY Tree
  <2>3. CASE u = p
    <3>1. capture /\ q \in Beneath(p) /\ q # p
      BY <1>2, <2>2, <2>3 DEF Beneath
    <3> QED BY <1>2, <1>9, <3>1 DEF QtAccepts
  <2>4. CASE u # p
    BY <1>2, <1>9, <2>1, <2>4 DEF SubpathAlone
  <2> QED BY <2>3, <2>4
<1> QED BY <1>5, <1>6, <1>7, <1>8, <1>9 DEF IInv

\* detach: what goes with the last adaptor of p is p, if nothing beneath needs
\* it, and the root that captured p, if nothing else is left of that.
LEMMA IInvDetach ==
    ASSUME TypeOK, IInv, NEW a \in Adaptors, Detach(a)
    PROVE  IInv'
<1> PICK p \in Paths : p = at[a]
  BY DEF Detach, TypeOK
<1> DEFINE left == Without(disp[p].adaptors, a)
           root == disp[p].capturedBy
           dying == IF left = <<>> THEN Dying(p) ELSE {}
<1>1. /\ disp' = [q \in Paths |-> DetachedTo(p, left, dying, q)]
      /\ qt' = [q \in Paths |->
                   IF q \in dying /\ disp[q].capturedBy = NoPath THEN "free" ELSE qt[q]]
      /\ at' = [at EXCEPT ![a] = NoPath]
  BY DEF Detach, DetachedTo
<1>2. /\ DispatcherInv(p) /\ ListsInv(p) /\ disp[p].adaptors \in Seq(Adaptors)
      /\ a \in Range(disp[p].adaptors) /\ disp[p].exists
      /\ left \in Seq(Adaptors) /\ Distinct(left) /\ Range(left) = Range(disp[p].adaptors) \ {a}
      /\ (left = <<>> <=> Range(left) = {})
  <2>1. DispatcherInv(p) /\ ListsInv(p) /\ disp[p].adaptors \in Seq(Adaptors)
    BY FieldTypes DEF IInv
  <2>2. a \in Range(disp[p].adaptors)
    BY <2>1 DEF ListsInv
  <2>3. disp[p].exists
    BY <2>1, <2>2, EmptyList DEF DispatcherInv
  <2> QED BY <2>1, <2>2, <2>3, ListWithout, EmptyList DEF ListsInv
<1>3. root # NoPath => /\ root \in Paths /\ root # p /\ Capturing(root) /\ p \in disp[root].children
                       /\ disp[root].capturedBy = NoPath /\ disp[p].children = {}
  <2> SUFFICES ASSUME root # NoPath
               PROVE  /\ root \in Paths /\ root # p /\ Capturing(root) /\ p \in disp[root].children
                      /\ disp[root].capturedBy = NoPath /\ disp[p].children = {}
    OBVIOUS
  <2>1. root \in Paths
    BY FieldTypes
  <2>2. Capturing(root) /\ p \in disp[root].children
    BY <1>2, <2>1 DEF IInv, CaptureAgrees
  <2>3. disp[root].capturedBy = NoPath
    BY <2>1, <2>2 DEF IInv, DispatcherInv, Capturing
  <2> QED BY <1>2, <2>1, <2>2, <2>3 DEF DispatcherInv
\* Which dispatchers die, and why.
<1>4. /\ dying \in SUBSET Paths
      /\ p \in dying => left = <<>> /\ disp[p].children = {}
      /\ \A q \in dying : q # p => /\ q = root /\ root # NoPath /\ p \in dying
                                   /\ disp[root].adaptors = <<>> /\ disp[root].children = {p}
      /\ left = <<>> /\ p \notin dying => disp[p].children # {}
      /\ root # NoPath /\ p \in dying /\ root \notin dying =>
            disp[root].adaptors # <<>> \/ disp[root].children # {p}
  <2>1. CASE left # <<>>
    BY <2>1
  <2>2. CASE left = <<>> /\ root # NoPath
    <3>1. dying = IF disp[root].adaptors = <<>> /\ disp[root].children = {p} THEN {p, root} ELSE {p}
      BY <2>2 DEF Dying
    <3> HIDE DEF dying, root, left
    <3> QED BY <1>3, <2>2, <3>1
  <2>3. CASE left = <<>> /\ root = NoPath
    <3>1. dying = IF disp[p].children # {} THEN {} ELSE {p}
      BY <2>3 DEF Dying
    <3> HIDE DEF dying, root, left
    <3> QED BY <2>3, <3>1
  <2> QED BY <2>1, <2>2, <2>3
<1> HIDE DEF dying, left
<1>5. ASSUME NEW q \in Paths
      PROVE  /\ q \in dying => disp'[q] = NoDispatcher
             /\ q \notin dying =>
                   /\ disp'[q].exists <=> disp[q].exists
                   /\ disp'[q].captures <=> disp[q].captures
                   /\ disp'[q].capturedBy = disp[q].capturedBy
                   /\ disp'[q].adaptors = IF q = p THEN left ELSE disp[q].adaptors
                   /\ disp'[q].children = IF q # p /\ q = root
                                          THEN disp[q].children \ dying ELSE disp[q].children
  <2>1. disp'[q] = DetachedTo(p, left, dying, q)
    BY <1>1
  <2>2. left \in Seq(Adaptors)
    BY <1>2
  <2>3. q \in dying => disp'[q] = NoDispatcher
    BY <2>1, <2>2, DetachedFields
  <2>4. q \notin dying => disp'[q].exists = disp[q].exists /\ disp'[q].captures = disp[q].captures
    BY <2>1, <2>2, DetachedFields
  <2>5. q \notin dying => disp'[q].capturedBy = disp[q].capturedBy
    BY <2>1, <2>2, DetachedFields
  <2>6. q \notin dying => disp'[q].adaptors = (IF q = p THEN left ELSE disp[q].adaptors)
    BY <2>1, <2>2, DetachedFields
  <2>7. q \notin dying => disp'[q].children = IF q # p /\ q = root
                                              THEN disp[q].children \ dying ELSE disp[q].children
    <3>1. CASE q # p /\ q = root
      <4>1. q \notin dying => disp'[q].children = disp[q].children \ dying
        BY <2>1, <2>2, <3>1, DetachedFields
      <4> QED BY <3>1, <4>1
    <3>2. CASE ~(q # p /\ q = root)
      <4>1. q \notin dying => disp'[q].children = disp[q].children
        BY <2>1, <2>2, <3>2, DetachedFields
      <4> QED BY <3>2, <4>1
    <3> QED BY <3>1, <3>2
  <2>8. q \notin dying => (disp'[q].exists <=> disp[q].exists) /\ (disp'[q].captures <=> disp[q].captures)
    BY <2>4
  <2> QED BY <2>3, <2>5, <2>6, <2>7, <2>8
\* Nothing that dies is needed by what stays.
<1>6. ASSUME NEW q \in Paths, NEW u \in Paths, q \notin dying, u \in dying
      PROVE  ~(Capturing(u) /\ q \in disp[u].children)
  <2>1. CASE u = p
    BY <1>4, <1>6, <2>1
  <2>2. CASE u # p
    BY <1>4, <1>6, <2>2
  <2> QED BY <2>1, <2>2
<1>7. ASSUME NEW q \in Paths PROVE DispatcherInv(q)'
  <2>1. DispatcherInv(q)
    BY DEF IInv
  <2>2. CASE q \in dying
    BY <1>5, <2>2, NoDispatcherFields DEF DispatcherInv
  <2>3. CASE q \notin dying /\ q = p
    BY <1>2, <1>4, <1>5, <2>1, <2>3 DEF DispatcherInv, IsAbove
  <2>4. CASE q \notin dying /\ q # p /\ q = root
    <3>1. root # NoPath /\ p \in disp[root].children
      BY <1>3, <2>4, PathsAssumption
    <3>2. p \in dying => disp[root].adaptors # <<>> \/ disp[root].children \ dying # {}
      BY <1>4, <2>4, <3>1
    <3>3. p \notin dying => disp[root].children \ dying # {}
      BY <3>1
    <3> QED BY <1>5, <2>1, <2>4, <3>2, <3>3 DEF DispatcherInv, IsAbove
  <2>5. CASE q \notin dying /\ q # p /\ q # root
    BY <1>5, <2>1, <2>5 DEF DispatcherInv, IsAbove
  <2> QED BY <2>2, <2>3, <2>4, <2>5
<1>8. ASSUME NEW q \in Paths PROVE ListsInv(q)'
  <2>1. ListsInv(q) /\ \A b \in Adaptors : at'[b] = IF b = a THEN NoPath ELSE at[b]
    BY <1>1 DEF IInv, TypeOK
  <2>2. CASE q \in dying
    <3>1. disp'[q].adaptors = <<>> /\ Range(disp'[q].adaptors) = {} /\ Distinct(disp'[q].adaptors)
      <4>1. disp'[q].adaptors = <<>>
        BY <1>5, <2>2, NoDispatcherFields
      <4>2. Range(<<>>) = {} /\ Distinct(<<>>)
        BY DEF Range, Distinct
      <4> QED BY <4>1, <4>2
    <3>2. \A b \in Adaptors : at'[b] # q
      <4>1. CASE q = p
        <5>1. Range(disp[p].adaptors) \ {a} = {}
          BY <1>2, <1>4, <2>2, <4>1
        <5> QED BY <1>2, <2>1, <4>1, <5>1, PathsAssumption DEF ListsInv
      <4>2. CASE q # p
        <5>1. disp[q].adaptors = <<>>
          BY <1>4, <2>2, <4>2
        <5>2. Range(disp[q].adaptors) = {}
          BY <5>1 DEF Range
        <5> QED BY <2>1, <5>2, PathsAssumption DEF ListsInv
      <4> QED BY <4>1, <4>2
    <3> QED BY <3>1, <3>2 DEF ListsInv
  <2>3. CASE q \notin dying /\ q = p
    <3>1. disp'[q].adaptors = left
      BY <1>5, <2>3
    <3>2. \A b \in Adaptors : b \in Range(left) <=> at[b] = q /\ b # a
      BY <1>2, <2>1, <2>3 DEF ListsInv
    <3>3. \A b \in Adaptors : at'[b] = q <=> b \in Range(disp'[q].adaptors)
      BY <2>1, <3>1, <3>2, PathsAssumption
    <3> QED BY <1>2, <3>1, <3>3 DEF ListsInv
  <2>4. CASE q \notin dying /\ q # p
    <3>1. disp'[q].adaptors = disp[q].adaptors
      BY <1>5, <2>4
    <3>2. a \notin Range(disp[q].adaptors)
      BY <2>1, <2>4 DEF ListsInv
    <3>3. \A b \in Adaptors : at'[b] = q <=> b \in Range(disp'[q].adaptors)
      BY <2>1, <3>1, <3>2, PathsAssumption DEF ListsInv
    <3> QED BY <2>1, <3>1, <3>3 DEF ListsInv
  <2> QED BY <2>2, <2>3, <2>4
<1>9. ASSUME NEW q \in Paths PROVE TreeInv(q)' /\ qt'[q] \in {"free", qt[q]}
  <2>1. TreeInv(q) /\ qt'[q] = IF q \in dying /\ disp[q].capturedBy = NoPath THEN "free" ELSE qt[q]
    BY <1>1 DEF IInv
  <2>2. CASE q \in dying
    <3>1. ~disp'[q].exists /\ ~disp'[q].captures
      BY <1>5, <2>2, NoDispatcherFields
    <3>2. qt'[q] \notin {"single", "subpath"}
      BY <2>1, <2>2 DEF TreeInv
    <3> QED BY <2>1, <3>1, <3>2 DEF TreeInv, Capturing
  <2>3. CASE q \notin dying
    BY <1>5, <2>1, <2>3 DEF TreeInv, Capturing
  <2> QED BY <2>2, <2>3
<1>10. CaptureAgrees'
  <2> SUFFICES ASSUME NEW q \in Paths, NEW u \in Paths
               PROVE  (disp'[q].exists /\ disp'[q].capturedBy = u)
                          <=> (Capturing(u)' /\ q \in disp'[u].children)
    BY DEF CaptureAgrees
  <2>1. (disp[q].exists /\ disp[q].capturedBy = u) <=> (Capturing(u) /\ q \in disp[u].children)
    BY DEF IInv, CaptureAgrees
  <2>2. u \in dying => ~Capturing(u)'
    BY <1>5, NoDispatcherFields DEF Capturing
  <2>3. u \notin dying => (Capturing(u)' <=> Capturing(u))
    BY <1>5 DEF Capturing
  <2>4. CASE q \in dying
    <3>1. ~disp'[q].exists
      BY <1>5, <2>4, NoDispatcherFields
    <3>2. ASSUME u \notin dying, Capturing(u), q \in disp'[u].children PROVE FALSE
      <4>1. q \in disp[u].children /\ disp[q].capturedBy = u
        BY <1>5, <2>1, <3>2
      <4>2. q = p
        <5>1. CASE q # p
          BY <1>3, <1>4, <2>4, <4>1, <5>1, PathsAssumption
        <5> QED BY <5>1
      <4>3. u = root /\ u # p
        BY <1>3, <4>1, <4>2, PathsAssumption
      <4> QED BY <1>5, <2>4, <3>2, <4>3
    <3> QED BY <2>2, <2>3, <3>1, <3>2
  <2>5. CASE q \notin dying /\ u \in dying
    BY <1>5, <1>6, <2>1, <2>2, <2>5
  <2>6. CASE q \notin dying /\ u \notin dying
    <3>1. q \in disp'[u].children <=> q \in disp[u].children
      BY <1>5, <2>6
    <3> QED BY <1>5, <2>1, <2>3, <2>6, <3>1
  <2> QED BY <2>4, <2>5, <2>6
<1>11. SubpathAlone => SubpathAlone'
  <2> SUFFICES ASSUME SubpathAlone, NEW q \in Paths, NEW u \in Paths,
                      qt'[u] = "subpath", IsAbove(u, q)
               PROVE  qt'[q] = "free"
    BY DEF SubpathAlone, IsAbove
  <2>1. qt[u] = "subpath"
    BY <1>9
  <2> QED BY <1>9, <2>1 DEF SubpathAlone
<1> QED BY <1>7, <1>8, <1>9, <1>10, <1>11 DEF IInv

\* The application registers and unregisters objects in paths that are free.
LEMMA IInvApplication == TypeOK /\ IInv /\ Application => IInv'
<1> SUFFICES ASSUME TypeOK, IInv, NEW p \in Paths,
                    ApplicationRegisters(p) \/ ApplicationUnregisters(p)
             PROVE  IInv'
  BY DEF Application
<1>1. UNCHANGED <<disp, at>> /\ \A q \in Paths : q # p => qt'[q] = qt[q]
  BY DEF ApplicationRegisters, ApplicationUnregisters, TypeOK
<1>2. qt[p] \in {"free", "application"} /\ qt'[p] \in {"free", "application"}
  BY DEF ApplicationRegisters, ApplicationUnregisters, QtAccepts, TypeOK
<1>3. \A q \in Paths : DispatcherInv(q)' /\ ListsInv(q)'
  BY <1>1 DEF IInv, DispatcherInv, ListsInv, IsAbove
<1>4. ASSUME NEW q \in Paths PROVE TreeInv(q)'
  <2>1. CASE q = p
    BY <1>1, <1>2, <2>1 DEF IInv, TreeInv, Capturing
  <2>2. CASE q # p
    BY <1>1, <2>2 DEF IInv, TreeInv, Capturing
  <2> QED BY <2>1, <2>2
<1>5. CaptureAgrees'
  BY <1>1 DEF IInv, CaptureAgrees, Capturing
<1>6. SubpathAlone => SubpathAlone'
  <2> SUFFICES ASSUME SubpathAlone, NEW q \in Paths, NEW u \in Paths,
                      qt'[u] = "subpath", IsAbove(u, q)
               PROVE  qt'[q] = "free"
    BY DEF SubpathAlone, IsAbove
  <2>1. u # p /\ qt[u] = "subpath"
    BY <1>1, <1>2
  <2>2. CASE q # p
    BY <1>1, <2>1, <2>2 DEF SubpathAlone
  <2>3. CASE q = p /\ ApplicationRegisters(p)
    BY <2>1, <2>3 DEF ApplicationRegisters, QtAccepts, IsAbove
  <2>4. CASE q = p /\ ApplicationUnregisters(p)
    BY <2>4 DEF ApplicationUnregisters, TypeOK
  <2> QED BY <2>2, <2>3, <2>4
<1> QED BY <1>3, <1>4, <1>5, <1>6 DEF IInv

LEMMA IInvNext == TypeOK /\ IInv /\ [Next]_vars => IInv'
<1> SUFFICES ASSUME TypeOK, IInv, [Next]_vars PROVE IInv'
  OBVIOUS
<1>1. ASSUME UNCHANGED <<disp, qt, at>> PROVE IInv'
  <2>1. \A q \in Paths : DispatcherInv(q)' /\ ListsInv(q)' /\ TreeInv(q)'
    BY <1>1 DEF IInv, DispatcherInv, ListsInv, TreeInv, Capturing, IsAbove
  <2>2. CaptureAgrees' /\ (SubpathAlone => SubpathAlone')
    BY <1>1 DEF IInv, CaptureAgrees, Capturing, SubpathAlone, IsAbove
  <2> QED BY <2>1, <2>2 DEF IInv
<1>2. ASSUME NEW a \in Adaptors, DestroyRefused(a) \/ Refuse(a) PROVE IInv'
  BY <1>1, <1>2 DEF DestroyRefused, Refuse
<1>3. CASE Attach
  BY <1>2, <1>3, IInvAttachShared, IInvAttachCaptured, IInvAttachRoot
     DEF Attach, AttachMismatched, AttachRejected
<1>4. CASE UNCHANGED vars
  BY <1>1, <1>4 DEF vars
<1> QED BY <1>2, <1>3, <1>4, IInvDetach, IInvApplication DEF Next

LEMMA Invariant == Spec => [](TypeOK /\ IInv)
BY TypeInit, TypeNext, IInvInit, IInvNext, PTL DEF Spec

-----------------------------------------------------------------------------
(* What the tables promise.                                                *)

\* A captured dispatcher's root is alive, captures and lists it, and a root
\* lists only what it captured.
THEOREM CaptureAgreed == Spec => []CaptureAgrees
<1>1. TypeOK /\ IInv => CaptureAgrees
  BY DEF IInv
<1> QED BY <1>1, Invariant, PTL

\* A path has adaptors exactly when its dispatcher's list has some.
LEMMA Served ==
    ASSUME TypeOK, IInv, NEW p \in Paths
    PROVE  /\ Range(disp[p].adaptors) = {a \in Adaptors : at[a] = p}
           /\ (\E a \in Adaptors : at[a] = p) <=> disp[p].adaptors # <<>>
           /\ disp[p].adaptors # <<>> => disp[p].exists
<1>1. DispatcherInv(p) /\ ListsInv(p) /\ disp[p].adaptors \in Seq(Adaptors)
  BY FieldTypes DEF IInv
<1>2. Range(disp[p].adaptors) \in SUBSET Adaptors
  BY <1>1, RangeOfSeq
<1>3. Range(disp[p].adaptors) = {a \in Adaptors : at[a] = p}
  BY <1>1, <1>2 DEF ListsInv
<1>4. disp[p].adaptors = <<>> <=> Range(disp[p].adaptors) = {}
  BY <1>1, EmptyList
<1> QED BY <1>1, <1>3, <1>4 DEF DispatcherInv

\* A dispatcher lives exactly as long as an adaptor or a captured child needs
\* it, and QtDBus holds exactly the live roots.
THEOREM NoLeak == Spec => []NothingLeaks
<1>1. TypeOK /\ IInv => NothingLeaks
  <2> SUFFICES ASSUME TypeOK, IInv, NEW p \in Paths
               PROVE  /\ disp[p].exists <=> (\E a \in Adaptors : at[a] = p) \/ disp[p].children # {}
                      /\ qt[p] \in {"single", "subpath"} <=>
                             disp[p].exists /\ disp[p].capturedBy = NoPath
    BY DEF NothingLeaks
  <2>1. DispatcherInv(p) /\ TreeInv(p)
    BY DEF IInv
  <2>2. disp[p].exists <=> disp[p].adaptors # <<>> \/ disp[p].children # {}
    BY <2>1 DEF DispatcherInv
  <2> QED BY <2>1, <2>2, Served DEF TreeInv
<1> QED BY <1>1, Invariant, PTL

\* A root above the path of each dispatcher it captured: introspection, which
\* names the children of each node on the way, finds them all.
THEOREM AllDiscoverable == Spec => []Discoverable
<1>1. TypeOK /\ IInv => Discoverable
  <2> SUFFICES ASSUME TypeOK, IInv, NEW r \in Paths, Capturing(r), NEW c \in disp[r].children,
                      NEW q \in {c} \cup {x \in Range(Above[c]) : IsAbove(r, x)}
               PROVE  q \in NodesBeneath(r, Above[q][1])
    BY DEF Discoverable
  <2>1. c \in Paths /\ disp[c].exists /\ disp[c].capturedBy = r
    BY FieldTypes DEF IInv, CaptureAgrees
  <2>2. IsAbove(r, c)
    BY <2>1, FieldTypes DEF IInv, DispatcherInv
  <2>3. q \in Paths /\ IsAbove(r, q) /\ (c = q \/ IsAbove(q, c))
    BY <2>1, <2>2, Tree DEF IsAbove
  <2>4. Above[q] # <<>>
    BY <2>3 DEF IsAbove, Range
  <2> QED BY <2>3, <2>4 DEF NodesBeneath, Children
<1> QED BY <1>1, Invariant, PTL

-----------------------------------------------------------------------------
(* What calls get back, if QtDBus looks everywhere before it registers a   *)
(* SubPath object.                                                         *)

\* A call to a served path reaches its dispatcher, or the root that captured
\* it: no other object is in the way.
LEMMA ReceiverOfServed ==
    ASSUME LooksDeep, TypeOK, IInv, NEW p \in Paths, disp[p].exists
    PROVE  /\ disp[p].capturedBy = NoPath => Receiver(p) = p /\ qt[p] \in {"single", "subpath"}
           /\ disp[p].capturedBy # NoPath =>
                 LET r == disp[p].capturedBy
                 IN  Receiver(p) = r /\ qt[r] = "subpath" /\ p # r /\ p \in disp[r].children
<1> DEFINE subpaths == {q \in Range(Above[p]) : qt[q] = "subpath"}
<1>1. SubpathAlone /\ TreeInv(p) /\ DispatcherInv(p)
  BY DEF IInv
<1>2. \A q \in subpaths : q \in Paths /\ IsAbove(q, p) /\ qt[q] = "subpath"
  BY Tree DEF IsAbove
<1>3. CASE disp[p].capturedBy = NoPath
  <2>1. qt[p] \in {"single", "subpath"}
    BY <1>1, <1>3 DEF TreeInv
  <2>2. subpaths = {}
    BY <1>1, <1>2, <2>1 DEF SubpathAlone
  <2> QED BY <1>3, <2>1, <2>2 DEF Receiver
<1>4. CASE disp[p].capturedBy # NoPath
  <2> PICK r \in Paths : r = disp[p].capturedBy
    BY <1>4, FieldTypes
  <2>1. IsAbove(r, p) /\ Capturing(r) /\ p \in disp[r].children
    BY <1>1, <1>4 DEF DispatcherInv, IInv, CaptureAgrees
  <2>2. qt[r] = "subpath" /\ p # r
    BY <2>1, Tree DEF IInv, TreeInv
  <2>3. r \in subpaths
    BY <2>1, <2>2 DEF IsAbove
  <2>4. \A q \in subpaths : q = r
    <3> SUFFICES ASSUME NEW q \in subpaths PROVE q = r
      OBVIOUS
    <3>1. q = r \/ IsAbove(q, r) \/ IsAbove(r, q)
      BY <1>2, <2>1, Tree
    <3> QED BY <1>1, <1>2, <2>2, <3>1 DEF SubpathAlone
  <2>5. subpaths = {r} /\ ~IsAbove(r, r)
    BY <2>3, <2>4, Tree
  <2>6. Receiver(p) = r
    <3> HIDE DEF subpaths
    <3>1. (CHOOSE q \in subpaths : \A x \in subpaths : ~IsAbove(x, q)) = r
      BY <2>5
    <3> QED BY <2>3, <3>1 DEF Receiver, subpaths
  <2> QED BY <1>4, <2>1, <2>2, <2>6
<1> QED BY <1>3, <1>4

\* What the adaptors at a path say, and QtDBus if they decline.
PlainAnswer(s, m) == LET answer == RouteToAdaptors(s, m)
                     IN  IF answer = Declined THEN QtExactPath(m) ELSE answer

LEMMA AnswerOfServed ==
    ASSUME LooksDeep, TypeOK, IInv, NEW p \in Paths, disp[p].exists, NEW m
    PROVE  Answer(p, m) = PlainAnswer(disp[p].adaptors, m)
<1>1. CASE disp[p].capturedBy = NoPath
  <2>1. Receiver(p) = p /\ qt[p] # "application" /\ p # NoPath
    BY <1>1, ReceiverOfServed, PathsAssumption
  <2>2. Answer(p, m) = DispatcherAnswer(p, p, m)
    BY <2>1 DEF Answer
  <2> QED BY <2>2 DEF DispatcherAnswer, PlainAnswer
<1>2. CASE disp[p].capturedBy # NoPath
  <2> PICK r \in Paths : r = disp[p].capturedBy
    BY <1>2, FieldTypes
  <2>1. Receiver(p) = r /\ qt[r] # "application" /\ r # NoPath /\ p # r /\ p \in disp[r].children
    BY <1>2, ReceiverOfServed, PathsAssumption
  <2>2. Answer(p, m) = DispatcherAnswer(r, p, m)
    BY <2>1 DEF Answer
  <2>3. ChildFallback(m) = QtExactPath(m)
    BY DEF ChildFallback, QtExactPath
  <2> QED BY <2>1, <2>2, <2>3 DEF DispatcherAnswer, PlainAnswer
<1> QED BY <1>1, <1>2

\* What a call to a served path gets back depends on the adaptors attached
\* there alone, captured or not.
THEOREM CapturedAnswersAsPlain == ASSUME LooksDeep PROVE Spec => []AnswersAsPlain
<1>1. TypeOK /\ IInv => AnswersAsPlain
  BY Served, AnswerOfServed DEF AnswersAsPlain, PlainAnswer
<1> QED BY <1>1, Invariant, PTL

\* No adaptor takes the place of the interfaces the library answers itself.
OwnInterfaces == \A a \in Adaptors : Iface[a] \notin {Introspectable, Properties, AnyIface}

\* A call of an advertised interface is answered by the first adaptor that
\* serves it, which introspection describes, or refused for want of the member.
THEOREM AdvertisedServed == ASSUME LooksDeep, OwnInterfaces PROVE Spec => []AdvertisedIsServed
<1>1. TypeOK /\ IInv => AdvertisedIsServed
  <2> SUFFICES ASSUME TypeOK, IInv, NEW p \in Paths, NEW m \in Calls,
                      NEW a \in Advertised(disp[p].adaptors), Iface[a] = m.iface
               PROVE  Answer(p, m) \in {By(a, "reply"), Error("UnknownMethod")}
    BY DEF AdvertisedIsServed
  <2> DEFINE s == disp[p].adaptors
  <2>1. s \in Seq(Adaptors) /\ DOMAIN s = 1 .. Len(s) /\ Len(s) \in Nat
        /\ \A i \in 1 .. Len(s) : s[i] \in Adaptors
    BY FieldTypes, LenProperties
  <2> HIDE DEF s
  <2>2. PICK j \in DOMAIN s : s[j] = a /\ \A k \in 1 .. j - 1 : Iface[s[k]] # Iface[a]
    BY DEF Advertised, s
  <2>3. disp[p].exists
    <3>1. s # <<>>
      BY <2>1, <2>2
    <3> QED BY <3>1, Served DEF s
  <2>4. FirstServing(s, m.iface) # {} /\ s[FirstOf(FirstServing(s, m.iface))] = a
    <3> DEFINE hits == FirstServing(s, m.iface)
    <3>1. hits \in SUBSET Nat /\ j \in hits /\ \A i \in hits : i \in DOMAIN s /\ Iface[s[i]] = Iface[a]
      BY <2>1, <2>2 DEF FirstServing
    <3> HIDE DEF hits
    <3>2. FirstOf(hits) \in hits /\ FirstOf(hits) <= j
      BY <3>1, FirstOfIsLeast
    <3>3. FirstOf(hits) = j
      <4> PICK i \in hits : i = FirstOf(hits)
        BY <3>2
      <4>1. i \in 1 .. Len(s) /\ j \in 1 .. Len(s) /\ i <= j /\ Iface[s[i]] = Iface[a]
        BY <2>1, <2>2, <3>1, <3>2
      <4>2. CASE i < j
        <5>1. i \in 1 .. j - 1
          BY <2>1, <4>1, <4>2
        <5> QED BY <2>2, <4>1, <5>1
      <4> QED BY <2>1, <4>1, <4>2
    <3> QED BY <2>2, <3>1, <3>3 DEF hits
  <2>5. m.iface \notin {Introspectable, Properties, AnyIface}
    BY <2>1, <2>2 DEF OwnInterfaces
  <2>6. AdaptorAnswer(a, m) \in {By(a, "reply"), Declined}
    BY <2>5 DEF AdaptorAnswer
  <2>7. RouteToAdaptors(s, m) = IF AdaptorAnswer(a, m) = Declined THEN Error("UnknownMethod")
                                ELSE AdaptorAnswer(a, m)
    BY <2>4, <2>5 DEF RouteToAdaptors
  <2>8. Error("UnknownMethod") # Declined
    BY DEF Error, Declined
  <2>9. PlainAnswer(s, m) \in {By(a, "reply"), Error("UnknownMethod")}
    BY <2>6, <2>7, <2>8 DEF PlainAnswer
  <2> QED BY <2>3, <2>9, AnswerOfServed DEF s
<1> QED BY <1>1, Invariant, PTL
=============================================================================
