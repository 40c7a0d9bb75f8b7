----------------------------- MODULE MCAgentTurn -----------------------------
(***************************************************************************)
(* Instances of AgentTurn for TLC.                                         *)
(***************************************************************************)
EXTENDS AgentTurnProps

=============================================================================
