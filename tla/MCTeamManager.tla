--------------------------- MODULE MCTeamManager -----------------------------
(***************************************************************************)
(* Instances of TeamManager for TLC.                                       *)
(***************************************************************************)
EXTENDS TeamManagerProps

CONSTANT a1

=============================================================================
