--------------------------- MODULE EntriesProofs ---------------------------
(***************************************************************************)
(* What EntriesAt computes, for every queue and every choice of entries,   *)
(* and how many entries of a kind a queue has.                             *)
(***************************************************************************)
EXTENDS Entries, SequenceTheorems, FiniteSetTheorems, FunctionTheorems, TLAPS

\* f maps the entries of t to the hits in s they come from, one to one and in
\* order.
Traces(f, t, s, hits) ==
    /\ f \in [DOMAIN t -> hits]
    /\ \A j, k \in DOMAIN t : j < k => f[j] < f[k]
    /\ \A j \in DOMAIN t : t[j] = s[f[j]]
    /\ \A i \in hits : \E j \in DOMAIN t : f[j] = i

\* What is left of a queue is a queue of the same kind, and each entry that
\* was to be kept is in it, in the order of before.
LEMMA EntriesKept ==
    ASSUME NEW S, NEW s \in Seq(S), NEW hits \in SUBSET DOMAIN s
    PROVE  /\ EntriesAt(s, hits) \in Seq(S)
           /\ \E f : Traces(f, EntriesAt(s, hits), s, hits)
<1> DEFINE upto(i) == {j \in hits : j <= i}
           rank(i) == Cardinality(upto(i))
           n == Cardinality(hits)
           t == EntriesAt(s, hits)
           f == [k \in 1 .. n |-> CHOOSE i \in hits : rank(i) = k]
<1>1. /\ DOMAIN s = 1 .. Len(s) /\ Len(s) \in Nat /\ \A i \in DOMAIN s : s[i] \in S
      /\ hits \in SUBSET Nat
  BY LenProperties
<1>2. IsFiniteSet(hits) /\ n \in Nat
  <2>1. IsFiniteSet(1 .. Len(s))
    BY <1>1, FS_Interval
  <2> QED BY <1>1, <2>1, FS_Subset, FS_CardinalityType
<1>3. ASSUME NEW i \in hits
      PROVE  IsFiniteSet(upto(i)) /\ rank(i) \in 1 .. n
  <2>1. upto(i) \in SUBSET hits /\ i \in upto(i)
    BY <1>1
  <2>2. IsFiniteSet(upto(i)) /\ rank(i) <= n /\ rank(i) \in Nat
    BY <1>2, <2>1, FS_Subset, FS_CardinalityType
  <2>3. rank(i) # 0
    BY <2>1, <2>2, FS_EmptySet
  <2> HIDE DEF rank, n, upto
  <2> QED BY <1>2, <2>2, <2>3
<1>4. ASSUME NEW i \in hits, NEW k \in hits, i < k
      PROVE  rank(i) < rank(k)
  <2>1. upto(i) \in SUBSET upto(k) /\ k \in upto(k) /\ k \notin upto(i)
    BY <1>1, <1>4
  <2>2. rank(i) <= rank(k) /\ rank(i) # rank(k)
    BY <1>3, <2>1, FS_Subset
  <2>3. rank(i) \in 1 .. n /\ rank(k) \in 1 .. n
    BY <1>3
  <2> HIDE DEF rank, upto, n
  <2> QED BY <1>2, <2>2, <2>3
\* The ranks are all the numbers up to n, each once.
<1>5. \A k \in 1 .. n : \E i \in hits : rank(i) = k
  <2> DEFINE g == [i \in hits |-> rank(i)]
  <2>1. g \in [hits -> 1 .. n]
    BY <1>3
  <2>2. ASSUME NEW i \in hits, NEW k \in hits, g[i] = g[k] PROVE i = k
    <3>1. rank(i) = rank(k) /\ rank(i) \in 1 .. n
      BY <1>3, <2>2
    <3>2. i < k \/ k < i \/ i = k
      BY <1>1
    <3> HIDE DEF rank, n
    <3> QED BY <1>4, <3>1, <3>2
  <2>3. g \in Injection(hits, 1 .. n)
    BY <2>1, <2>2 DEF Injection, IsInjective
  <2>4. IsFiniteSet(1 .. n) /\ Cardinality(1 .. n) = n
    <3>1. 1 \in Int /\ n \in Int /\ (IF 1 > n THEN 0 ELSE n - 1 + 1) = n
      BY <1>2
    <3> QED BY <3>1, FS_Interval
  <2>5. g \in Surjection(hits, 1 .. n)
    BY <2>3, <2>4, FS_Injection
  <2> QED BY <2>5 DEF Surjection
<1>6. \A k \in 1 .. n : f[k] \in hits /\ rank(f[k]) = k
  <2> HIDE DEF rank, n
  <2> QED BY <1>5
<1>7. t = [k \in 1 .. n |-> s[f[k]]]
  BY DEF EntriesAt
<1> HIDE DEF t, f, rank, n, upto
<1>8. t \in Seq(S)
  <2>1. t \in [1 .. n -> S]
    BY <1>1, <1>6, <1>7
  <2> QED BY <1>2, <2>1
<1>9. DOMAIN t = 1 .. n
  BY <1>7
<1>10. ASSUME NEW j \in 1 .. n, NEW k \in 1 .. n, j < k PROVE f[j] < f[k]
  <2>1. f[j] \in hits /\ f[k] \in hits /\ rank(f[j]) = j /\ rank(f[k]) = k
    BY <1>6
  <2>2. f[j] < f[k] \/ f[k] < f[j] \/ f[j] = f[k]
    BY <1>1, <2>1
  <2>3. f[k] < f[j] => k < j
    BY <1>4, <2>1
  <2> QED BY <1>2, <1>10, <2>1, <2>2, <2>3
<1>11. ASSUME NEW i \in hits PROVE \E j \in 1 .. n : f[j] = i
  <2>1. rank(i) \in 1 .. n
    BY <1>3
  <2>2. f[rank(i)] \in hits /\ rank(f[rank(i)]) = rank(i)
    BY <1>6, <2>1
  <2>3. f[rank(i)] < i \/ i < f[rank(i)] \/ f[rank(i)] = i
    BY <1>1, <2>2
  <2>4. f[rank(i)] = i
    BY <1>2, <1>4, <2>1, <2>2, <2>3
  <2> QED BY <2>1, <2>4
<1>12. f \in [DOMAIN t -> hits]
  BY <1>6, <1>9 DEF f
<1>13. Traces(f, t, s, hits)
  BY <1>7, <1>9, <1>10, <1>11, <1>12 DEF Traces
<1> QED BY <1>8, <1>13 DEF t

-----------------------------------------------------------------------------
(* How many entries of a queue are of a kind.                              *)

Hits(q, S) == {i \in DOMAIN q : q[i] \in S}
CountOf(q, S) == Cardinality(Hits(q, S))

\* A count is a number, and none means that there is no such entry.
LEMMA CountType ==
    ASSUME NEW T, NEW q \in Seq(T), NEW S
    PROVE  /\ IsFiniteSet(Hits(q, S)) /\ Hits(q, S) \in SUBSET (1 .. Len(q))
           /\ CountOf(q, S) \in Nat
           /\ CountOf(q, S) = 0 <=> \A i \in DOMAIN q : q[i] \notin S
<1>1. Len(q) \in Nat /\ DOMAIN q = 1 .. Len(q)
  BY LenProperties
<1>2. Hits(q, S) \in SUBSET (1 .. Len(q)) /\ IsFiniteSet(1 .. Len(q))
  BY <1>1, FS_Interval DEF Hits
<1>3. IsFiniteSet(Hits(q, S)) /\ CountOf(q, S) \in Nat
  BY <1>2, FS_Subset, FS_CardinalityType DEF CountOf
<1>4. CountOf(q, S) = 0 <=> Hits(q, S) = {}
  BY <1>3, FS_EmptySet DEF CountOf
<1> QED BY <1>2, <1>3, <1>4 DEF Hits

\* What two queues have together.
LEMMA CountConcat ==
    ASSUME NEW T, NEW q \in Seq(T), NEW r \in Seq(T), NEW S
    PROVE  CountOf(q \o r, S) = CountOf(q, S) + CountOf(r, S)
<1> DEFINE m == Len(q)
           A == Hits(q, S)
           B == Hits(r, S)
           C == {i \in (m + 1) .. (m + Len(r)) : r[i - m] \in S}
           g == [i \in B |-> i + m]
<1>1. m \in Nat /\ Len(r) \in Nat /\ DOMAIN q = 1 .. m /\ DOMAIN r = 1 .. Len(r)
  BY LenProperties
<1>2. /\ DOMAIN (q \o r) = 1 .. (m + Len(r))
      /\ \A i \in 1 .. (m + Len(r)) : (q \o r)[i] = IF i <= m THEN q[i] ELSE r[i - m]
  BY ConcatProperties, LenProperties
<1>3. /\ IsFiniteSet(A) /\ IsFiniteSet(B) /\ A \in SUBSET (1 .. m) /\ B \in SUBSET (1 .. Len(r))
      /\ Cardinality(A) \in Nat /\ Cardinality(B) \in Nat
  BY <1>1, CountType DEF CountOf
<1>4. Hits(q \o r, S) = A \cup C
  BY <1>1, <1>2 DEF Hits
<1>5. A \cap C = {}
  BY <1>1, <1>3
<1>6. IsFiniteSet(C) /\ Cardinality(C) = Cardinality(B)
  <2>1. \A i \in B : g[i] \in C
    BY <1>1, <1>3 DEF Hits
  <2>2. \A i, j \in B : g[i] = g[j] => i = j
    BY <1>1, <1>3
  <2>3. ASSUME NEW c \in C PROVE \E i \in B : g[i] = c
    <3>1. c - m \in B /\ (c - m) + m = c
      BY <1>1 DEF Hits
    <3> QED BY <3>1
  <2> HIDE DEF B, C
  <2>4. g \in [B -> C]
    BY <2>1
  <2> HIDE DEF g
  <2>5. g \in Bijection(B, C)
    BY <2>2, <2>3, <2>4 DEF Bijection, Injection, Surjection, IsInjective
  <2> QED BY <1>3, <2>5, FS_Bijection DEF ExistsBijection
<1> HIDE DEF A, B, C
<1>7. Cardinality(A \cup C) = Cardinality(A) + Cardinality(B)
  <2>1. Cardinality(A \cup C) = Cardinality(A) + Cardinality(C) - Cardinality(A \cap C)
    BY <1>3, <1>6, FS_Union
  <2>2. Cardinality(A \cap C) = 0
    BY <1>5, FS_EmptySet
  <2> QED BY <1>3, <1>6, <2>1, <2>2
<1> QED BY <1>4, <1>7 DEF CountOf, A, B

LEMMA CountOne ==
    ASSUME NEW e, NEW S PROVE CountOf(<<e>>, S) = IF e \in S THEN 1 ELSE 0
<1>1. DOMAIN <<e>> = {1} /\ <<e>>[1] = e
  OBVIOUS
<1>2. Hits(<<e>>, S) = IF e \in S THEN {1} ELSE {}
  BY <1>1 DEF Hits
<1> QED BY <1>2, FS_EmptySet, FS_Singleton DEF CountOf

LEMMA CountNone == ASSUME NEW S PROVE CountOf(<<>>, S) = 0
BY FS_EmptySet DEF CountOf, Hits

LEMMA CountAppend ==
    ASSUME NEW T, NEW q \in Seq(T), NEW e \in T, NEW S
    PROVE  CountOf(Append(q, e), S) = CountOf(q, S) + IF e \in S THEN 1 ELSE 0
<1>1. Append(q, e) = q \o <<e>> /\ <<e>> \in Seq(T)
  BY AppendIsConcat
<1>2. CountOf(q \o <<e>>, S) = CountOf(q, S) + CountOf(<<e>>, S)
  BY <1>1, CountConcat
<1>3. CountOf(<<e>>, S) = IF e \in S THEN 1 ELSE 0
  BY CountOne
<1> QED BY <1>1, <1>2, <1>3

LEMMA CountTail ==
    ASSUME NEW T, NEW q \in Seq(T), q # <<>>, NEW S
    PROVE  CountOf(q, S) = CountOf(Tail(q), S) + IF Head(q) \in S THEN 1 ELSE 0
<1>1. Head(q) \in T /\ Tail(q) \in Seq(T) /\ <<Head(q)>> \in Seq(T)
  BY HeadTailProperties
<1>2. <<Head(q)>> \o Tail(q) = q
  OBVIOUS
<1>3. CountOf(Tail(q), S) \in Nat
  BY <1>1, CountType
<1>4. CountOf(<<Head(q)>> \o Tail(q), S) = CountOf(<<Head(q)>>, S) + CountOf(Tail(q), S)
  BY <1>1, CountConcat
<1>5. CountOf(<<Head(q)>>, S) = IF Head(q) \in S THEN 1 ELSE 0
  BY CountOne
<1>6. CountOf(q, S) = CountOf(<<Head(q)>>, S) + CountOf(Tail(q), S)
  BY <1>2, <1>4
<1>7. CASE Head(q) \in S
  BY <1>3, <1>5, <1>6, <1>7
<1>8. CASE Head(q) \notin S
  BY <1>3, <1>5, <1>6, <1>8
<1> QED BY <1>7, <1>8

\* RemoveAt(q, k) of the community modules.
LEMMA CountWithout ==
    ASSUME NEW T, NEW q \in Seq(T), NEW k \in DOMAIN q, NEW S
    PROVE  LET r == SubSeq(q, 1, k - 1) \o SubSeq(q, k + 1, Len(q))
           IN  /\ r \in Seq(T)
               /\ CountOf(q, S) = CountOf(r, S) + IF q[k] \in S THEN 1 ELSE 0
<1> DEFINE a == SubSeq(q, 1, k - 1)
           b == SubSeq(q, k, Len(q))
           c == SubSeq(q, k + 1, Len(q))
<1>1. Len(q) \in Nat /\ k \in 1 .. Len(q) /\ \A i \in 1 .. Len(q) : q[i] \in T
  BY LenProperties, ElementOfSeq
<1>2. k \in Int /\ k - 1 \in Int /\ k + 1 \in Int /\ 1 \in Int /\ Len(q) \in Int
  BY <1>1
<1>3. a \in Seq(T)
  <2>1. \A i \in 1 .. (k - 1) : q[i] \in T
    BY <1>1
  <2> QED BY <1>2, <2>1, SubSeqProperties
<1>4. b \in Seq(T)
  <2>1. \A i \in k .. Len(q) : q[i] \in T
    BY <1>1
  <2> QED BY <1>2, <2>1, SubSeqProperties
<1>5. c \in Seq(T)
  <2>1. \A i \in (k + 1) .. Len(q) : q[i] \in T
    BY <1>1
  <2> QED BY <1>2, <2>1, SubSeqProperties
<1>6. b = <<q[k]>> \o c
  <2>1. k \in 1 .. Len(q) /\ Len(q) \in k .. Len(q)
    BY <1>1
  <2> QED BY <2>1, SubSeqRecursiveFirst
<1>7. a \o b = q
  <2>1. 1 \in 1 .. (Len(q) + 1) /\ k - 1 \in (1 - 1) .. Len(q) /\ Len(q) \in (k - 1) .. Len(q)
    BY <1>1
  <2>2. SubSeq(q, 1, k - 1) \o SubSeq(q, (k - 1) + 1, Len(q)) = SubSeq(q, 1, Len(q))
    BY <2>1, ConcatAdjacentSubSeq
  <2>3. (k - 1) + 1 = k /\ SubSeq(q, 1, Len(q)) = q
    BY <1>1, SubSeqFull
  <2> QED BY <2>2, <2>3
<1> HIDE DEF a, b, c
<1>8. a \o c \in Seq(T)
  BY <1>3, <1>5, ConcatProperties
<1>9. CountOf(q, S) = CountOf(a, S) + CountOf(b, S)
  BY <1>3, <1>4, <1>7, CountConcat
<1>10. CountOf(b, S) = (IF q[k] \in S THEN 1 ELSE 0) + CountOf(c, S)
  <2>1. <<q[k]>> \in Seq(T)
    BY <1>1
  <2>2. CountOf(<<q[k]>> \o c, S) = CountOf(<<q[k]>>, S) + CountOf(c, S)
    BY <1>5, <2>1, CountConcat
  <2>3. CountOf(<<q[k]>>, S) = IF q[k] \in S THEN 1 ELSE 0
    BY CountOne
  <2> QED BY <1>6, <2>2, <2>3
<1>11. CountOf(a \o c, S) = CountOf(a, S) + CountOf(c, S)
  BY <1>3, <1>5, CountConcat
<1>12. CountOf(a, S) \in Nat /\ CountOf(c, S) \in Nat
  BY <1>3, <1>5, CountType
<1>13. CountOf(q, S) = CountOf(a \o c, S) + IF q[k] \in S THEN 1 ELSE 0
  BY <1>9, <1>10, <1>11, <1>12
<1> QED BY <1>8, <1>13 DEF a, c

\* What becomes of the entries that were kept, one for one.
LEMMA CountTraced ==
    ASSUME NEW T, NEW s \in Seq(T), NEW hits \in SUBSET DOMAIN s, NEW t, NEW f, Traces(f, t, s, hits),
           NEW u, DOMAIN u = DOMAIN t, NEW S, NEW R,
           \A i \in DOMAIN s : s[i] \in S => i \in hits,
           \A j \in DOMAIN t : u[j] \in R <=> t[j] \in S,
           DOMAIN t \in SUBSET Nat
    PROVE  CountOf(u, R) = CountOf(s, S)
<1> DEFINE A == Hits(u, R)
           B == Hits(s, S)
           g == [j \in A |-> f[j]]
<1>1. /\ f \in [DOMAIN t -> hits]
      /\ \A j, k \in DOMAIN t : j < k => f[j] < f[k]
      /\ \A j \in DOMAIN t : t[j] = s[f[j]]
      /\ \A i \in hits : \E j \in DOMAIN t : f[j] = i
  BY DEF Traces
<1>2. A \in SUBSET DOMAIN t /\ B \in SUBSET hits /\ IsFiniteSet(B) /\ hits \in SUBSET Nat
  <2>1. DOMAIN s \in SUBSET Nat
    BY LenProperties
  <2> QED BY <2>1, CountType DEF Hits
<1>3. \A j \in A : g[j] \in B
  BY <1>1, <1>2 DEF Hits
<1>4. ASSUME NEW j \in A, NEW k \in A, g[j] = g[k] PROVE j = k
  <2>1. j \in Nat /\ k \in Nat /\ f[j] = f[k] /\ f[j] \in Nat
    BY <1>1, <1>2, <1>4
  <2>2. ~(j < k) /\ ~(k < j)
    BY <1>1, <1>2, <2>1
  <2> QED BY <2>1, <2>2
<1>5. ASSUME NEW i \in B PROVE \E j \in A : g[j] = i
  <2>1. PICK j \in DOMAIN t : f[j] = i
    BY <1>1, <1>2
  <2>2. j \in A
    BY <1>1, <1>5, <2>1 DEF Hits
  <2> QED BY <2>1, <2>2
<1> HIDE DEF A, B
<1>6. g \in [A -> B]
  BY <1>3
<1> HIDE DEF g
<1>7. g \in Injection(A, B) /\ g \in Surjection(A, B)
  BY <1>4, <1>5, <1>6 DEF Injection, Surjection, IsInjective
<1>8. Cardinality(A) = Cardinality(B)
  BY <1>2, <1>7, FS_Injection
<1> QED BY <1>8 DEF CountOf, A, B
=============================================================================
