------------------------------ MODULE MCGateway ------------------------------
(* The instances of Gateway that TLC checks.                                 *)
EXTENDS GatewayProps

CONSTANTS m1, m2, m3

OneMessage == {m1}
ThreeMessages == {m1, m2, m3}
NoCommand == {}
OneCommand == {m3}

=============================================================================
