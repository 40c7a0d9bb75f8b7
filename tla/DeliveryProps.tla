---------------------------- MODULE DeliveryProps ----------------------------
(***************************************************************************)
(* What Delivery must satisfy.                                             *)
(***************************************************************************)
EXTENDS Delivery

\* A task that has its worktree for itself is completed only when every stage
\* left its artifacts, however often it was interrupted, retried and resumed.
CompletedIsBuilt ==
    \A t \in Tasks : registry[t] = "completed" /\ ~Shared(t) => built[t] = Stages

\* Over all pipelines of a task that has its worktree for itself, a stage is begun
\* no more often than its retries allow, and once more for every death or exception:
\* one between the validation and the write of the plan loses a failed try.
RetriesAreBounded ==
    \A t \in Tasks : ~Shared(t) => \A s \in Stages : tries[t][s] <= MaxRetries + faults

\* Work that the plan shows as done is not done again, until the plan is lost.
DoneStaysDone ==
    [][\A t \in Tasks : ~Shared(t) => \A s \in Stages :
          plan[slug[t]] # NoPlan /\ plan'[slug[t]] # NoPlan
             /\ plan[slug[t]].status[s] = "completed"
             => plan'[slug[t]].status[s] = "completed"]_vars

\* A record that says running is right about it: the pipeline runs or will be
\* created, unless a fault hit the task or a resume came while it was ending.
RunningIsTrue ==
    \A t \in Tasks : registry[t] = "running" =>
       \/ pipeline[t] \notin {"none", "over"}
       \/ t \in struck \cup stale

\* A resume of a task that awaits the user, whose pipeline has ended, has the stage tried
\* again.
ResumeTriesAgain ==
    \A t \in Tasks : (request = <<"resume", t>> /\ registry[t] = "awaiting_user" /\ pipeline[t] = "none") ~> pipeline[t] = "build"

=============================================================================
