--------------------------- MODULE MCServiceClaim ---------------------------
(* Instances of ServiceClaim for TLC. *)
EXTENDS ServiceClaim, TLC

Queueing == [allow |-> TRUE, replace |-> FALSE, queue |-> TRUE]
Replacing == [allow |-> FALSE, replace |-> TRUE, queue |-> FALSE]
MCFlagSets == {Plain, Queueing, Replacing}
MCFlagged == {Queueing, Replacing}
Symm == Permutations(Adaptors)
=============================================================================
