--------------------------- MODULE MCWorkflowEngine ---------------------------
(***************************************************************************)
(* Instances of WorkflowEngine for TLC: a join behind two branches of an   *)
(* entry node, an approval that is an entry node beside another, and a     *)
(* cycle.                                                                  *)
(***************************************************************************)
EXTENDS WorkflowEngineProps

CONSTANTS n1, n2, n3, n4, r1, r2

Diamond == {<<n1, n2>>, <<n1, n3>>, <<n2, n4>>, <<n3, n4>>}
Join == {<<n1, n2>>, <<n2, n4>>, <<n3, n4>>}
Cycle == {<<n1, n2>>, <<n2, n3>>, <<n3, n2>>, <<n3, n4>>}
SomeGraphs == {Diamond, Join, Cycle}

=============================================================================
