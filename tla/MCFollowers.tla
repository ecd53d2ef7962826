---------------------------- MODULE MCFollowers -----------------------------
(* Instances of Followers for TLC. *)
EXTENDS Followers

Mix(moves, changes, refusals, deaths) ==
    [moves |-> moves, changes |-> changes, refusals |-> refusals, deaths |-> deaths]

\* The probes of a proxy never rest, which makes its state space the larger.
MCBudgets ==
    [k \in Kinds |-> IF k \in {"Presence", "OwnerTracker"}
                     THEN {Mix(2, 1, 1, 0), Mix(1, 2, 1, 0), Mix(1, 1, 0, 1), Mix(3, 0, 0, 1)}
                     ELSE {Mix(2, 2, 1, 0), Mix(3, 1, 0, 0), Mix(2, 1, 0, 1)}]
=============================================================================
