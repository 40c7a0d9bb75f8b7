-------------------------- MODULE MCSessionEventHub --------------------------
(***************************************************************************)
(* Instances of SessionEventHub for TLC.                                   *)
(***************************************************************************)
EXTENDS SessionEventHubProps

CONSTANTS c1, r1

=============================================================================
