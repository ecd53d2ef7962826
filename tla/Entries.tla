------------------------------ MODULE Entries ------------------------------
(***************************************************************************)
(* Taking some entries out of a queue: what is left keeps its order.       *)
(***************************************************************************)
EXTENDS Naturals, Sequences, FiniteSets

\* The entries of s at the indices in hits, in their order: the k-th is the
\* one that has k hits up to it.
EntriesAt(s, hits) ==
    LET rank(i) == Cardinality({j \in hits : j <= i})
    IN  [k \in 1 .. Cardinality(hits) |-> s[CHOOSE i \in hits : rank(i) = k]]
=============================================================================
