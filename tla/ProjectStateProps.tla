-------------------------- MODULE ProjectStateProps --------------------------
(***************************************************************************)
(* What ProjectState must satisfy, and its reading as a FeatureBoard.      *)
(***************************************************************************)
EXTENDS ProjectState

\* Whatever sessions interleave or die, the list on disk never shows two
\* features in progress: feature_select refuses to start one beside another.
OneInProgress ==
    \A f, g \in Features :
        list[f] = "in_progress" /\ list[g] = "in_progress" => f = g

\* A feature that was started stands on committed dependencies, in the list on
\* disk and not just when it was selected.
DepsCommitted ==
    \A f \in Features :
        list[f] \in {"in_progress", "verified", "committed"} => deps_committed(f)

\* A committed feature has its snapshot: the archive is written first, so a
\* crash never leaves a commit without evidence.
CommittedHasArchive ==
    \A f \in Features : list[f] = "committed" => f \in archive

\* The list on disk moves like a FeatureBoard.
Board == INSTANCE FeatureBoard WITH board <- list
ImplementsBoard == Board!Spec

\* The tools of the feature loop finish a verified feature: somebody who keeps
\* calling feature_complete succeeds, unless a session died between the writes of
\* a tool, which may leave the feature its snapshot without the commit, or the
\* list is written anew beside the snapshots of the old one.
VerifiedIsFinished ==
    \A f \in Features :
       list[f] = "verified" ~> list[f] # "verified" \/ crashes > 0 \/ inits > 1

=============================================================================
