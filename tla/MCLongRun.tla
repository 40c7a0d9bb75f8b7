------------------------------ MODULE MCLongRun ------------------------------
(***************************************************************************)
(* Instances of LongRun for TLC.                                           *)
(***************************************************************************)
EXTENDS LongRunProps

CONSTANTS m1, b1, c1, d

\* The ids sanitize to one name, as "auto-1" and "auto-1_" do.
OneDir == [t \in Tasks |-> d]

=============================================================================
