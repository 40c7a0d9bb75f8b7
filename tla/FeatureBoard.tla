---------------------------- MODULE FeatureBoard -----------------------------
(***************************************************************************)
(* What the project state promises of the list of features, as if every    *)
(* tool took effect in one step: at most one feature is in progress, it    *)
(* starts only after its dependencies are committed, and it moves one      *)
(* stage at a time until somebody writes the list anew.                    *)
(***************************************************************************)
CONSTANTS Features, DependsOn

VARIABLE board

\* A new list of features, all of them pending.
Rewrite == board' \in [Features -> {"pending", "absent"}]

Start(f) ==
    /\ board[f] = "pending"
    /\ \A g \in Features : board[g] # "in_progress"
    /\ \A d \in DependsOn[f] : board[d] = "committed"
    /\ board' = [board EXCEPT ![f] = "in_progress"]

Verify(f) ==
    /\ board[f] = "in_progress"
    /\ board' = [board EXCEPT ![f] = "verified"]

Commit(f) ==
    /\ board[f] = "verified"
    /\ board' = [board EXCEPT ![f] = "committed"]

Init == board = [f \in Features |-> "absent"]

Next ==
    \/ Rewrite
    \/ \E f \in Features : Start(f) \/ Verify(f) \/ Commit(f)

Spec == Init /\ [][Next]_board

=============================================================================
