------------------------------ MODULE OneReply ------------------------------
(* What a method caller is promised (docs/PARITY.md, section 5): one reply  *)
(* for each call that asks for one, and none for a call that asks for none. *)

CONSTANT Calls

VARIABLE caller     \* what each caller has got so far

Caller == {"idle", "waiting", "answered", "oneway"}

Init == caller = [c \in Calls |-> "idle"]

Ask(c) == /\ caller[c] = "idle"
          /\ \E asked \in {"waiting", "answered", "oneway"} :
                caller' = [caller EXCEPT ![c] = asked]

\* One event may answer several callers: an adaptor that goes errors them all.
Answer(cs) == /\ cs # {}
              /\ \A c \in cs : caller[c] = "waiting"
              /\ caller' = [c \in Calls |-> IF c \in cs THEN "answered" ELSE caller[c]]

Next == (\E c \in Calls : Ask(c)) \/ (\E cs \in SUBSET Calls : Answer(cs))

Spec == Init /\ [][Next]_caller
=============================================================================
