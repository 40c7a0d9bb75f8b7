----------------------------- MODULE MCChatTurns -----------------------------
(***************************************************************************)
(* Instances of ChatTurns for TLC.                                         *)
(***************************************************************************)
EXTENDS ChatTurnsProps

CONSTANTS t1, t2

=============================================================================
