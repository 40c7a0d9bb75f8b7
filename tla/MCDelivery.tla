------------------------------ MODULE MCDelivery ------------------------------
(***************************************************************************)
(* Instances of Delivery for TLC.                                          *)
(***************************************************************************)
EXTENDS DeliveryProps

CONSTANTS t1, t2, d1, d2

\* The worktrees are interchangeable: t1 has d1.
InitUpToDirs == Init /\ slug[t1] = d1

FairSpecUpToDirs == InitUpToDirs /\ [][Next]_vars /\ Fairness

=============================================================================
