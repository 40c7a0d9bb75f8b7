---------------------------- MODULE LongRunProps -----------------------------
(***************************************************************************)
(* What LongRun must satisfy, and its reading as a TaskLifecycle.          *)
(***************************************************************************)
EXTENDS LongRun

Final == {"done", "failed"}

Limited == MaxAttempts > 0 /\ MaxContinuations > 0

-----------------------------------------------------------------------------
(* Safety.                                                                  *)

\* At most one runner awaits submit_fn for a task, and only while its entry is
\* RUNNING: polls, retries, stall recovery and restarts never start a second
\* execution beside one that is still unwinding (_tick, _dispatch, _run).
OneRunner ==
    \A t \in Tasks : /\ active[t] <= 1
                     /\ active[t] = 1 => entry[t] = "running"

\* Until stop() is called, every entry that is not final has somebody who will
\* move it on: a dispatch task, a runner, or a sleeping retry.  An entry without
\* one would keep its id blocked (_tick skips ids in _entries) forever.
Owned ==
    stops = 0 =>
        \A t \in Tasks :
            /\ entry[t] = "pending" => t \in dispatching
            /\ entry[t] = "running" => active[t] = 1
            /\ entry[t] = "retry_queued" => t \in sleeping

\* The attempt number snapshot() reports, failure_count + continuation_rounds
\* + 1, is the number of the execution in progress, and counts the next one
\* while a retry is queued.
AttemptNumber ==
    \A t \in Tasks :
        /\ entry[t] = "running" => runs[t] = failures[t] + rounds[t] + 1
        /\ entry[t] = "retry_queued" => runs[t] = failures[t] + rounds[t]

\* With both limits of TaskRetryPolicy set, a task is executed at most
\* MaxAttempts + MaxContinuations times however failures, stalls and
\* continuations mix.
ExecutionBudget ==
    Limited => \A t \in Tasks : runs[t] <= MaxAttempts + MaxContinuations

\* cancel() is only ever pending on a runner whose own execution outlasted the
\* stall threshold: what an earlier execution left in the detector never hits
\* the run that follows it (_dispatch touches the clock before the runner).
CancelHitsOverdueRun == \A t \in cancelReq : active[t] = 1 /\ t \in overdue

\* A directory that was handed to submit_fn is gone while submit_fn runs only if
\* another task is done whose id sanitizes to the same name: no failure, stall,
\* retry, stop or restart, of this or any other task, takes it away.
WorkspacePresent ==
    \A t \in Tasks : active[t] > 0 =>
       Dir[t] \in dirs \/ \E u \in Tasks \ {t} : Dir[u] = Dir[t] /\ entry[u] = "done"

\* A row accepted over HTTP is in the queue or in the fetch under way until it has
\* an entry, unless it was fetched beside an id that sanitizes to nothing or by a
\* fetch that stop() cut: no other poll, restart or duplicate of it loses it.
RowsAreKept == owed \subseteq queue \cup batch

\* The history of a task is never rewritten: a DONE or FAILED entry keeps its
\* state and is not executed again, whatever is enqueued, polled or restarted.
FinalIsFinal ==
    [][\A t \in Tasks : entry[t] \in Final =>
          entry'[t] = entry[t] /\ runs'[t] = runs[t]]_vars

-----------------------------------------------------------------------------
(* Liveness, under FairSpec.                                                *)

\* Every enqueued task is eventually DONE or FAILED even if its submit_fn hangs
\* every time: the stall detector, the cancel and the bounded retries see to it,
\* as long as stop() is not called and the row is not lost beside a bad id.
Resolved ==
    \A t \in ManualTasks \ BadIds :
       t \in queue ~> \/ entry[t] \in Final
                       \/ stops > 0
                       \/ (entry[t] = "none" /\ t \notin owed)

\* An automation row that is due again after a completed run is dispatched
\* again.
RecurringRuns ==
    \A t \in CronTasks : t \in due /\ entry[t] = "done" ~> entry[t] # "done"

-----------------------------------------------------------------------------
(* Refinement.                                                              *)

phaseOf(t) ==
    CASE entry[t] = "none" -> "unknown"
      [] entry[t] \in {"pending", "retry_queued"} -> "waiting"
      [] entry[t] = "running" -> "executing"
      [] OTHER -> entry[t]

Lifecycle == INSTANCE TaskLifecycle WITH
    Budget <- MaxAttempts + MaxContinuations,
    phase <- [t \in Tasks |-> phaseOf(t)],
    executions <- runs,
    reported <- marked

\* The orchestrator implements TaskLifecycle when both retry limits are set.
ImplementsLifecycle == Lifecycle!Spec

=============================================================================
