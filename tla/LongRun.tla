------------------------------- MODULE LongRun -------------------------------
(***************************************************************************)
(* The long-run orchestrator, agenticx/longrun/orchestrator.py, with the   *)
(* task sources it polls (sources/), the per-task workspaces it hands out  *)
(* (task_workspace.py), the stall detector and the retry policy.           *)
(*                                                                         *)
(* Everything runs on one asyncio event loop: a step below is the code     *)
(* between two awaits that can suspend.  The bodies under the              *)
(* orchestrator's asyncio.Lock never await, so the lock is never contended *)
(* and taking it never suspends.                                           *)
(*                                                                         *)
(* stop() sets an event and ends the poll loop; start_background() clears  *)
(* the event and starts a loop.  The event is set exactly while no loop    *)
(* exists, so the model has one variable for both (before the first start  *)
(* there are no entries and nobody reads the event).                       *)
(***************************************************************************)
EXTENDS Naturals, FiniteSets

CONSTANTS
    Tasks,            \* task ids, after strip()
    CronTasks,        \* ids "auto-<id>" of automation rows (CronSource)
    LinearTasks,      \* ids "linear-<id>" of issues (LinearTaskSource)
    BadIds,           \* ids that sanitize to nothing: TaskWorkspace(id) raises
    Dirs, Dir,        \* Dir[t]: the directory the sanitized id of t names
    MaxAttempts,      \* TaskRetryPolicy.max_attempts, 0 means unlimited
    MaxContinuations, \* TaskRetryPolicy.max_continuations, 0 means unlimited
    CounterCap,       \* bound: faults and continuations explored per task
    MaxStops          \* bound: how often stop() is called

ManualTasks == Tasks \ (CronTasks \cup LinearTasks)

ASSUME TasksAssumption ==
    /\ CronTasks \subseteq Tasks
    /\ LinearTasks \subseteq Tasks
    /\ BadIds \subseteq ManualTasks
    /\ Dir \in [Tasks -> Dirs]

ASSUME PolicyAssumption ==
    /\ MaxAttempts \in Nat
    /\ MaxContinuations \in Nat
    /\ CounterCap \in Nat
    /\ MaxStops \in Nat

VARIABLES
    queue,       \* ManualSource._pending
    due,         \* CronSource: rows that _is_due accepts
    marked,      \* ids passed to mark_task_done
    owed,        \* history: ids accepted over HTTP that are owed an entry
    loop,        \* _loop_task: "off", "idle" (before a tick), "fetching"
    batch,       \* ids _tick has fetched and not yet admitted
    entry,       \* _entries: TaskState per id, "none" without an entry
    failures,    \* TaskEntry.failure_count
    rounds,      \* TaskEntry.continuation_rounds
    flag,        \* entries with _cancel_schedule_failure_on_exit
    dispatching, \* ids with a longrun-dispatch-<id> task that has not run
    sleeping,    \* _retry_tasks: ids with a live longrun-retry-<id> task
    active,      \* number of longrun-run-<id> tasks awaiting submit_fn
    cancelReq,   \* ids whose runner has a cancel() it has not answered
    stale,       \* ids whose _last_activity is older than the threshold
    overdue,     \* history: the current run itself outlasted the threshold
    dirs,        \* workspace directories that exist
    hook,        \* history: last task_workspace hook phase fired per id
    runs,        \* history: number of times the entry was dispatched
    stops        \* number of stop() calls so far

srcVars  == <<queue, due, marked, owed>>
loopVars == <<loop, batch, stops>>
runVars  == <<dispatching, sleeping, active, cancelReq>>
ctrVars  == <<failures, rounds, runs>>
vars == <<srcVars, loopVars, entry, ctrVars, flag, runVars, stale, overdue,
          dirs, hook>>

States == {"none", "pending", "running", "retry_queued", "done", "failed"}
Phases == {"none", "after_create", "before_run", "after_run", "before_remove"}

TypeOK ==
    /\ queue \subseteq ManualTasks
    /\ due \subseteq CronTasks
    /\ marked \subseteq Tasks
    /\ owed \subseteq ManualTasks
    /\ loop \in {"off", "idle", "fetching"}
    /\ batch \subseteq Tasks
    /\ stops \in 0..MaxStops
    /\ entry \in [Tasks -> States]
    /\ failures \in [Tasks -> Nat]
    /\ rounds \in [Tasks -> Nat]
    /\ runs \in [Tasks -> Nat]
    /\ flag \subseteq Tasks
    /\ dispatching \subseteq Tasks
    /\ sleeping \subseteq Tasks
    /\ active \in [Tasks -> Nat]
    /\ cancelReq \subseteq Tasks
    /\ stale \subseteq Tasks
    /\ overdue \subseteq Tasks
    /\ dirs \subseteq Dirs
    /\ hook \in [Tasks -> Phases]

Init ==
    /\ queue = {} /\ due \in SUBSET CronTasks /\ marked = {} /\ owed = {}
    /\ loop = "off" /\ batch = {} /\ stops = 0
    /\ entry = [t \in Tasks |-> "none"]
    /\ failures = [t \in Tasks |-> 0]
    /\ rounds = [t \in Tasks |-> 0]
    /\ runs = [t \in Tasks |-> 0]
    /\ flag = {} /\ dispatching = {} /\ sleeping = {}
    /\ active = [t \in Tasks |-> 0]
    /\ cancelReq = {} /\ stale = {} /\ overdue = {}
    /\ dirs = {}
    /\ hook = [t \in Tasks |-> "none"]

-----------------------------------------------------------------------------
(* TaskRetryPolicy.  Delays are left to the scheduler: a sleeping retry may *)
(* wake at any time.                                                        *)

\* Seeded fault: one failure too many is retried.
should_give_up_late(attempt) == MaxAttempts > 0 /\ attempt > MaxAttempts + 1

should_give_up(attempt) == MaxAttempts > 0 /\ attempt > MaxAttempts

should_stop_continuation(n) == MaxContinuations > 0 /\ n >= MaxContinuations

\* The exploration bound: the environment injects no fault and asks for no
\* continuation once the counter of the task has reached CounterCap.
MayFail(t) == failures[t] < CounterCap
MayContinue(t) == rounds[t] < CounterCap

-----------------------------------------------------------------------------
(* TaskStallDetector: what touch and forget leave of `stale'.               *)

\* Seeded fault: a dispatch does not restart the clock.
touch_lost(t) == stale

touch(t) == stale \ {t}

forget(t) == stale \ {t}

-----------------------------------------------------------------------------
(* Steps shared by several handlers.                                        *)

\* Seeded fault: the retry is registered before the old one is cancelled.
ScheduleFailureSwapped(t, asleep) ==
    /\ failures' = [failures EXCEPT ![t] = @ + 1]
    /\ entry' = [entry EXCEPT ![t] = IF should_give_up(failures[t] + 1)
                                     THEN "failed" ELSE "retry_queued"]
    /\ sleeping' = asleep \ {t}
    /\ UNCHANGED stale

\* _schedule_retry(kind="failure"): the entry fails for good or queues a
\* sleeping retry; `asleep' is the set of retry tasks the handler left alive.
ScheduleFailure(t, asleep) ==
    /\ failures' = [failures EXCEPT ![t] = @ + 1]
    /\ \/ /\ should_give_up(failures[t] + 1)
          /\ entry' = [entry EXCEPT ![t] = "failed"]
          /\ stale' = forget(t)
          /\ sleeping' = asleep
       \/ /\ ~should_give_up(failures[t] + 1)
          /\ entry' = [entry EXCEPT ![t] = "retry_queued"]
          /\ sleeping' = asleep \cup {t}
          /\ UNCHANGED stale

\* _finalize_success: workspace.remove(), then mark_task_done on every source
\* (CronSource stamps lastRunAt, so the row is no longer due).
FinalizeSuccess(t) ==
    /\ entry' = [entry EXCEPT ![t] = "done"]
    /\ stale' = forget(t)
    /\ dirs' = dirs \ {Dir[t]}
    /\ hook' = [hook EXCEPT ![t] = "before_remove"]
    /\ marked' = marked \cup {t}
    /\ due' = due \ {t}

\* The finally clause of _run: cleanup_after_run fires after_run only when the
\* directory still exists.
CleanupAfterRun(t) ==
    /\ hook' = IF Dir[t] \in dirs THEN [hook EXCEPT ![t] = "after_run"] ELSE hook
    /\ UNCHANGED dirs

\* The runner of t ends: an unanswered cancel() dies with it.
RunnerEnds(t) ==
    /\ active[t] > 0
    /\ active' = [active EXCEPT ![t] = @ - 1]
    /\ cancelReq' = cancelReq \ {t}
    /\ overdue' = overdue \ {t}

\* _dispatch: the entry turns RUNNING; the stall clock restarts and a runner is
\* created, or preparing the workspace fails (an OSError of exists() or mkdir).
RunEntry(t) ==
    /\ runs' = [runs EXCEPT ![t] = @ + 1]
    /\ \/ /\ entry' = [entry EXCEPT ![t] = "running"]
          /\ sleeping' = sleeping \ {t}
          /\ dirs' = dirs \cup {Dir[t]}
          /\ hook' = [hook EXCEPT ![t] = "before_run"]
          /\ stale' = touch(t)
          /\ active' = [active EXCEPT ![t] = @ + 1]
          /\ UNCHANGED failures
       \/ /\ MayFail(t)
          /\ ScheduleFailure(t, sleeping \ {t})
          /\ UNCHANGED <<dirs, hook, active>>
    /\ UNCHANGED <<rounds, cancelReq, overdue, flag, srcVars, loopVars>>

-----------------------------------------------------------------------------
(* The task sources.                                                        *)

\* POST /api/longrun/tasks or the webhook: ManualSource.enqueue.
Enqueue(t) ==
    /\ t \in ManualTasks \ queue
    /\ queue' = queue \cup {t}
    /\ owed' = IF entry[t] = "none" THEN owed \cup {t} ELSE owed
    /\ UNCHANGED <<due, marked, loopVars, entry, ctrVars, flag, runVars,
                   stale, overdue, dirs, hook>>

\* The gap since lastRunAt of an automation row has passed.
BecomesDue(t) ==
    /\ t \in CronTasks \ due
    /\ due' = due \cup {t}
    /\ UNCHANGED <<queue, marked, owed, loopVars, entry, ctrVars, flag, runVars,
                   stale, overdue, dirs, hook>>

-----------------------------------------------------------------------------
(* The poll loop.                                                           *)

start_background ==
    /\ loop = "off"
    /\ loop' = "idle"
    /\ UNCHANGED <<srcVars, batch, stops, entry, ctrVars, flag, runVars,
                   stale, overdue, dirs, hook>>

\* Runners and created dispatches are left alone.  A fetch that is cut short takes
\* the rows that it has with it.
stop ==
    /\ loop # "off"
    /\ stops < MaxStops
    /\ stops' = stops + 1
    /\ loop' = "off"
    /\ batch' = {}
    /\ sleeping' = {}
    /\ owed' = owed \cap queue
    /\ UNCHANGED <<queue, due, marked, entry, ctrVars, flag, dispatching, active,
                   cancelReq, stale, overdue, dirs, hook>>

\* Seeded fault: an entry that is still flagged is not examined again.
StalledUnlessFlagged ==
    {t \in Tasks : entry[t] = "running" /\ t \in stale /\ t \notin flag}

\* _reconcile_stalls sees these entries as stalled.
Stalled == {t \in Tasks : entry[t] = "running" /\ t \in stale}

\* Seeded fault: the workspace of a stalled entry is reclaimed at once.
TickBeginReclaims ==
    /\ loop = "idle"
    /\ loop' = "fetching"
    /\ flag' = flag \cup Stalled
    /\ cancelReq' = cancelReq \cup {t \in Stalled : active[t] > 0}
    /\ dirs' = dirs \ {Dir[t] : t \in Stalled}
    /\ \E open \in SUBSET LinearTasks : batch' = (queue \ marked) \cup due \cup open
    /\ queue' = {}
    /\ owed' = IF batch' \cap BadIds = {} THEN owed ELSE owed \ batch'
    /\ UNCHANGED <<due, marked, stops, entry, ctrVars, dispatching, sleeping,
                   active, stale, overdue, hook>>

\* _tick up to the await of the Linear request: stalled entries are flagged and
\* their runners cancelled; ManualSource gives up its queue, CronSource its due
\* rows, Linear the issues it answers with, none if the request fails.  Without
\* Linear the fetch does not suspend and TickFinish follows at once.  (Rows fetched
\* beside a bad id may be lost: nothing is owed to them any more.)
TickBegin ==
    /\ loop = "idle"
    /\ loop' = "fetching"
    /\ flag' = flag \cup Stalled
    /\ cancelReq' = cancelReq \cup {t \in Stalled : active[t] > 0}
    /\ \E open \in SUBSET LinearTasks : batch' = (queue \ marked) \cup due \cup open
    /\ queue' = {}
    /\ owed' = IF batch' \cap BadIds = {} THEN owed ELSE owed \ batch'
    /\ UNCHANGED <<due, marked, stops, entry, ctrVars, dispatching, sleeping,
                   active, stale, overdue, dirs, hook>>

\* Seeded fault: `tid in self._entries' is not tested.
FreshAny == batch

\* The ids of the batch that _tick admits: those without an entry.  A bad id
\* raises out of the loop; the rows after it, in queue order and then those of
\* Cron and Linear, are dropped with the batch.
Fresh == {t \in batch : entry[t] = "none"}

\* Seeded fault: a tick takes one row and forgets the others.
AdmittedOne == {S \in SUBSET Fresh : Cardinality(S) <= 1}

Admitted ==
    IF Fresh \cap BadIds = {}
    THEN {Fresh}
    ELSE SUBSET ((Fresh \cap ManualTasks) \ BadIds)

TickFinish ==
    /\ loop = "fetching"
    /\ loop' = "idle"
    /\ batch' = {}
    /\ \E adm \in Admitted :
        /\ entry' = [t \in Tasks |-> IF t \in adm THEN "pending" ELSE entry[t]]
        /\ dispatching' = dispatching \cup adm
        /\ dirs' = dirs \cup {Dir[t] : t \in adm}
        /\ hook' = [t \in Tasks |-> IF t \in adm /\ Dir[t] \notin dirs
                                    THEN "after_create" ELSE hook[t]]
        /\ owed' = owed \ adm
    /\ UNCHANGED <<queue, due, marked, stops, ctrVars, flag, sleeping, active, cancelReq,
                   stale, overdue>>

-----------------------------------------------------------------------------
(* Dispatch and retry.                                                      *)

\* The longrun-dispatch task _tick created for a new entry.
Dispatch(t) ==
    /\ t \in dispatching
    /\ dispatching' = dispatching \ {t}
    /\ RunEntry(t)

\* _sleep_dispatch wakes; after a stop it returns without a dispatch.
WakeRetry(t) ==
    /\ t \in sleeping
    /\ UNCHANGED dispatching
    /\ \/ /\ loop # "off"
          /\ entry[t] = "retry_queued"
          /\ RunEntry(t)
       \/ /\ ~(loop # "off" /\ entry[t] = "retry_queued")
          /\ sleeping' = sleeping \ {t}
          /\ UNCHANGED <<srcVars, loopVars, entry, ctrVars, flag, active,
                         cancelReq, stale, overdue, dirs, hook>>

-----------------------------------------------------------------------------
(* A runner (_run) and the submit_fn it awaits.                             *)

\* The stall clock of a task whose submit_fn has not answered runs out.
TimePasses(t) ==
    /\ active[t] > 0
    /\ MayFail(t)
    /\ t \notin overdue
    /\ stale' = stale \cup {t}
    /\ overdue' = overdue \cup {t}
    /\ UNCHANGED <<srcVars, loopVars, entry, ctrVars, flag, runVars, dirs, hook>>

\* submit_fn returns, possibly swallowing a cancel() that came too late.
SubmitReturns(t, wants) ==
    /\ RunnerEnds(t)
    /\ IF wants
       THEN /\ MayContinue(t)
            /\ rounds' = [rounds EXCEPT ![t] = @ + 1]
       ELSE UNCHANGED rounds
    /\ \/ /\ wants /\ ~should_stop_continuation(rounds[t] + 1)
          /\ entry' = [entry EXCEPT ![t] = "retry_queued"]
          /\ sleeping' = sleeping \cup {t}
          /\ CleanupAfterRun(t)
          /\ UNCHANGED <<marked, due, stale>>
       \/ /\ ~wants \/ should_stop_continuation(rounds[t] + 1)
          /\ FinalizeSuccess(t)
          /\ UNCHANGED sleeping
    /\ UNCHANGED <<queue, owed, loopVars, failures, runs, flag, dispatching>>

\* submit_fn raises: the sub-agent failed, or the session was not available.
SubmitRaises(t) ==
    /\ RunnerEnds(t)
    /\ MayFail(t)
    /\ ScheduleFailure(t, sleeping)
    /\ CleanupAfterRun(t)
    /\ UNCHANGED <<srcVars, loopVars, rounds, runs, flag, dispatching>>

\* submit_fn raises CancelledError: the runner was cancelled for a stall, or
\* somebody cancelled the sub-agent.
SubmitCancelled(t) ==
    /\ RunnerEnds(t)
    /\ CleanupAfterRun(t)
    /\ \/ /\ loop = "off"
          /\ UNCHANGED <<entry, failures, flag, sleeping, stale>>
       \/ /\ loop # "off" /\ t \in flag
          /\ MayFail(t)
          /\ flag' = flag \ {t}
          /\ ScheduleFailure(t, sleeping)
       \/ /\ loop # "off" /\ t \notin flag
          /\ entry' = [entry EXCEPT ![t] = "failed"]
          /\ stale' = forget(t)
          /\ UNCHANGED <<failures, flag, sleeping>>
    /\ UNCHANGED <<srcVars, loopVars, rounds, runs, dispatching>>

-----------------------------------------------------------------------------
SubmitAnswers(t) ==
    \/ \E wants \in BOOLEAN : SubmitReturns(t, wants)
    \/ SubmitRaises(t)
    \/ SubmitCancelled(t)

Next ==
    \/ start_background \/ stop \/ TickBegin \/ TickFinish
    \/ \E t \in Tasks :
        \/ Enqueue(t) \/ BecomesDue(t)
        \/ Dispatch(t) \/ WakeRetry(t)
        \/ TimePasses(t) \/ SubmitAnswers(t)

Spec == Init /\ [][Next]_vars

\* The event loop is fair to every ready task, timers expire, time passes, and
\* a cancelled submit_fn answers.  Nothing is assumed of a submit_fn that has
\* not been cancelled: it may hang.
CancelAnswered(t) == t \in cancelReq /\ SubmitAnswers(t)

Fairness ==
    /\ WF_vars(TickBegin) /\ WF_vars(TickFinish) /\ WF_vars(start_background)
    /\ \A t \in Tasks :
        /\ WF_vars(Dispatch(t)) /\ WF_vars(WakeRetry(t))
        /\ WF_vars(TimePasses(t)) /\ WF_vars(CancelAnswered(t))

FairSpec == Spec /\ Fairness

=============================================================================
