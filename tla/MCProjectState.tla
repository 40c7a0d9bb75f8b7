--------------------------- MODULE MCProjectState ----------------------------
(***************************************************************************)
(* Instances of ProjectState for TLC: the sessions of two agents, and two  *)
(* or three features, the second building on the first.                    *)
(***************************************************************************)
EXTENDS ProjectStateProps, TLC

CONSTANTS f1, f2, f3, s1, s2

Chain == (f1 :> {}) @@ (f2 :> {f1})
ChainAndOne == Chain @@ (f3 :> {})
Order == (f1 :> 1) @@ (f2 :> 2)
OrderOfThree == Order @@ (f3 :> 3)

=============================================================================
