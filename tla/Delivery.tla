------------------------------ MODULE Delivery -------------------------------
(***************************************************************************)
(* A delivery to an adaptor: which member it is for (ServedNames), what is *)
(* done with its data (WireData) and how it is answered (HeldReplies).     *)
(* The three meet in "nobody answers to that name", "a body that does not  *)
(* decode" and "a refused option" of HeldReplies and share nothing else,   *)
(* so a behaviour is of one of them.                                       *)
(***************************************************************************)
EXTENDS HeldReplies, WireData, ServedNames

DeliveryInit ==
    /\ Init
    /\ \/ JobInit /\ served = NotServed
       \/ job = Idle /\ ServedInit
DeliveryNext == \/ job = Idle /\ served = NotServed /\ Next /\ UNCHANGED <<job, served>>
                \/ JobNext /\ UNCHANGED <<vars, served>>
                \/ served # NotServed /\ ServedNext /\ UNCHANGED <<vars, job>>
DeliverySpec == DeliveryInit /\ [][DeliveryNext]_<<vars, job, served>> /\ Fairness
=============================================================================
