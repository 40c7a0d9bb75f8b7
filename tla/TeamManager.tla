---------------------------- MODULE TeamManager ------------------------------
(***************************************************************************)
(* AgentTeamManager, agenticx/runtime/team_manager.py: a pool of           *)
(* sub-agents, each a context with a status and the asyncio tasks that     *)
(* run it.                                                                 *)
(*                                                                         *)
(* A run decides the agent's status when its turn ends, then awaits its    *)
(* heartbeat task, and only then leaves _tasks, drops the cancel flag and  *)
(* escalates a failure.  Follow-ups, retries, cancels and spawns that      *)
(* arrive during that await see the new status and the old task.           *)
(*                                                                         *)
(* The event loop runs one handler at a time up to its next await, so each *)
(* such stretch is one action.  A call that is refused changes nothing and *)
(* is not a step: the limits on depth, children and resources, which only  *)
(* refuse more spawns, are left out.  Contexts have cleanup="keep", so     *)
(* _agents keeps them, and are looked up by id.                            *)
(***************************************************************************)
EXTENDS Naturals, FiniteSets

CONSTANTS
    Agents,         \* agent ids, each used by one spawn
    MaxConcurrent,  \* SpawnConfig.max_concurrent
    MaxEscalation,  \* _resolve_max_escalation
    MaxAsked        \* bound: follow-ups and retries of one agent

ASSUME LimitsAssumption ==
    /\ MaxConcurrent \in Nat \ {0}
    /\ MaxEscalation \in Nat \ {0}
    /\ MaxAsked \in Nat

VARIABLES
    status,     \* context.status, "none" before the spawn
    stage,      \* the runs of each agent, in the order they were created
    launched,   \* number of runs created
    tracked,    \* _tasks: the run cancel_subagent can reach, 0 for none
    toCancel,   \* runs whose task.cancel() is pending
    flagged,    \* _cancelled
    failures,   \* failure_count
    level,      \* escalation_level
    asked,      \* history: follow-ups and retries that were accepted
    owner,      \* history: what the owner last said, and whether a turn that
                \* raised after a cancel has overruled it
    submit,     \* submit_for_longrun of the agent: where it is, what it answers
    awaited,    \* the run it awaits, 0 for none
    down        \* shutdown or shutdown_now was called

taskVars == <<stage, launched, tracked, toCancel, flagged>>
escalationVars == <<failures, level, asked, owner>>
submitVars == <<submit, awaited>>
vars == <<status, taskVars, escalationVars, submitVars, down>>

Statuses == {"none", "running", "paused", "completed", "failed", "cancelled"}
Stages == {"none", "created", "working", "ending", "over", "dropped", "raised"}
Done == {"over", "dropped", "raised"}
Answers == {"none", "spawned", "waiting", "ok", "error"}
Wishes == {"wanted", "cancelled", "overruled"}
Runs == 1 .. (1 + MaxAsked + MaxEscalation)

TypeOK ==
    /\ status \in [Agents -> Statuses]
    /\ stage \in [Agents -> [Runs -> Stages]]
    /\ launched \in [Agents -> Nat]
    /\ tracked \in [Agents -> Runs \cup {0}]
    /\ toCancel \in [Agents -> SUBSET Runs]
    /\ flagged \subseteq Agents
    /\ failures \in [Agents -> Nat]
    /\ level \in [Agents -> Nat]
    /\ asked \in [Agents -> 0..MaxAsked]
    /\ owner \in [Agents -> Wishes]
    /\ submit \in [Agents -> Answers]
    /\ awaited \in [Agents -> Runs \cup {0}]
    /\ down \in BOOLEAN

Init ==
    /\ status = [a \in Agents |-> "none"]
    /\ stage = [a \in Agents |-> [i \in Runs |-> "none"]]
    /\ launched = [a \in Agents |-> 0]
    /\ tracked = [a \in Agents |-> 0]
    /\ toCancel = [a \in Agents |-> {}]
    /\ flagged = {}
    /\ failures = [a \in Agents |-> 0]
    /\ level = [a \in Agents |-> 0]
    /\ asked = [a \in Agents |-> 0]
    /\ owner = [a \in Agents |-> "wanted"]
    /\ submit = [a \in Agents |-> "none"]
    /\ awaited = [a \in Agents |-> 0]
    /\ down = FALSE

-----------------------------------------------------------------------------
active_running_count == Cardinality({a \in Agents : status[a] = "running"})

\* Run i of a will still execute its turn, or is executing it.
Live(a, i) ==
    \/ stage[a][i] = "working"
    \/ stage[a][i] = "created" /\ i \notin toCancel[a]

\* asyncio.create_task(_run_subagent(...)), registered in _tasks; st is the
\* stages of the agent's runs at that moment.
CreateRun(a, st) ==
    LET i == launched[a] + 1
    IN  /\ stage' = [stage EXCEPT ![a] = [st EXCEPT ![i] = "created"]]
        /\ launched' = [launched EXCEPT ![a] = i]
        /\ tracked' = [tracked EXCEPT ![a] = i]
        /\ status' = [status EXCEPT ![a] = "running"]

-----------------------------------------------------------------------------
(* The operations of the manager.                                           *)

\* spawn_subagent, for a chat or for submit_for_longrun.
spawn_subagent(a, longrun) ==
    /\ ~down
    /\ status[a] = "none"
    /\ active_running_count < MaxConcurrent
    /\ CreateRun(a, stage[a])
    /\ submit' = IF longrun THEN [submit EXCEPT ![a] = "spawned"] ELSE submit
    /\ UNCHANGED <<toCancel, flagged, escalationVars, awaited, down>>

\* Seeded fault: the status is left to the run that is being cancelled.
cancel_silently(a) ==
    /\ ~down
    /\ status[a] # "none"
    /\ flagged' = flagged \cup {a}
    /\ owner' = [owner EXCEPT ![a] = "cancelled"]
    /\ toCancel' = [toCancel EXCEPT ![a] = @ \cup ({tracked[a]} \ {0})]
    /\ UNCHANGED <<status, stage, launched, tracked, failures, level, asked,
                   submitVars, down>>

\* cancel_subagent accepts an agent in any status.  The cancel of a task that is
\* done has no effect, and run 0 stands for no task.
cancel_subagent(a) ==
    /\ ~down
    /\ status[a] # "none"
    /\ status' = [status EXCEPT ![a] = "cancelled"]
    /\ flagged' = flagged \cup {a}
    /\ owner' = [owner EXCEPT ![a] = "cancelled"]
    /\ toCancel' = [toCancel EXCEPT
          ![a] = @ \cup {i \in Runs : i = tracked[a] /\ stage[a][i] \notin Done}]
    /\ UNCHANGED <<stage, launched, tracked, failures, level, asked,
                   submitVars, down>>

Asked(a) ==
    /\ asked' = [asked EXCEPT ![a] = @ + 1]
    /\ owner' = [owner EXCEPT ![a] = "wanted"]

\* send_message_to_subagent to an agent that is not running resumes it, without
\* a look at the limits, the old task or the cancel flag.  A message to a running
\* agent only joins its conversation.
send_message_to_subagent(a) ==
    /\ ~down
    /\ status[a] \notin {"none", "running"}
    /\ asked[a] < MaxAsked
    /\ Asked(a)
    /\ CreateRun(a, stage[a])
    /\ UNCHANGED <<toCancel, flagged, failures, level, submitVars, down>>

retry_subagent(a) ==
    /\ ~down
    /\ status[a] \notin {"none", "running"}
    /\ active_running_count < MaxConcurrent
    /\ asked[a] < MaxAsked
    /\ Asked(a)
    /\ CreateRun(a, stage[a])
    /\ flagged' = flagged \ {a}
    /\ UNCHANGED <<toCancel, failures, level, submitVars, down>>

\* shutdown and shutdown_now cancel the tasks in _tasks and forget everything.
shutdown ==
    /\ ~down
    /\ down' = TRUE
    /\ toCancel' = [a \in Agents |->
          toCancel[a] \cup {i \in Runs : i = tracked[a] /\ stage[a][i] \notin Done}]
    /\ tracked' = [a \in Agents |-> 0]
    /\ flagged' = {}
    /\ UNCHANGED <<status, stage, launched, escalationVars, submitVars>>

-----------------------------------------------------------------------------
(* _run_subagent.                                                           *)

MoveTo(a, i, place) == stage' = [stage EXCEPT ![a][i] = place]

\* A task cancelled before its first step never enters the coroutine.
CancelledUnstarted(a, i) ==
    /\ stage[a][i] = "created" /\ i \in toCancel[a]
    /\ MoveTo(a, i, "dropped")
    /\ UNCHANGED <<status, launched, tracked, toCancel, flagged, escalationVars,
                   submitVars, down>>

Starts(a, i) ==
    /\ stage[a][i] = "created" /\ i \notin toCancel[a]
    /\ MoveTo(a, i, "working")
    /\ UNCHANGED <<status, launched, tracked, toCancel, flagged, escalationVars,
                   submitVars, down>>

\* The model provider cannot be resolved: the coroutine raises before its try,
\* so neither the handlers nor the finally clause run.
SetupFails(a, i) ==
    /\ stage[a][i] = "created" /\ i \notin toCancel[a]
    /\ MoveTo(a, i, "raised")
    /\ UNCHANGED <<status, launched, tracked, toCancel, flagged, escalationVars,
                   submitVars, down>>

\* Seeded fault: the end of a turn at a limit is not recorded.
TurnEndsUndecided(a, i) ==
    /\ stage[a][i] = "working"
    /\ \E verdict \in {"completed", "failed", status[a]} :
          status' = [status EXCEPT ![a] = verdict]
    /\ MoveTo(a, i, "ending")
    /\ UNCHANGED <<launched, tracked, toCancel, flagged, escalationVars,
                   submitVars, down>>

\* Seeded fault: the end of a turn does not look for a cancel.
TurnEndsOverCancel(a, i) ==
    /\ stage[a][i] = "working"
    /\ \E verdict \in {"completed", "failed", "paused"}
                        \cup (IF a \in flagged THEN {"cancelled"} ELSE {}) :
          status' = [status EXCEPT ![a] = verdict]
    /\ MoveTo(a, i, "ending")
    /\ UNCHANGED <<launched, tracked, toCancel, flagged, escalationVars,
                   submitVars, down>>

\* The turn ends: cancelled agents stay cancelled, a flag seen by should_stop
\* cancels, a timeout or an error fails, a limit pauses, and the rest completes.
TurnEnds(a, i) ==
    /\ stage[a][i] = "working"
    /\ \E verdict \in {"completed", "failed", "paused"}
                        \cup (IF a \in flagged THEN {"cancelled"} ELSE {}) :
          status' = [status EXCEPT ![a] = IF @ = "cancelled" THEN @ ELSE verdict]
    /\ MoveTo(a, i, "ending")
    /\ UNCHANGED <<launched, tracked, toCancel, flagged, escalationVars,
                   submitVars, down>>

\* run_turn raises: the agent has failed, whatever its status was and whether or
\* not a cancel is on its way.
TurnRaises(a, i) ==
    /\ stage[a][i] = "working"
    /\ status' = [status EXCEPT ![a] = "failed"]
    /\ owner' = [owner EXCEPT ![a] = IF @ = "cancelled" THEN "overruled" ELSE @]
    /\ MoveTo(a, i, "ending")
    /\ UNCHANGED <<launched, tracked, toCancel, flagged, failures, level, asked,
                   submitVars, down>>

\* task.cancel() reaches the turn.
TurnCancelled(a, i) ==
    /\ stage[a][i] = "working" /\ i \in toCancel[a]
    /\ status' = [status EXCEPT ![a] = "cancelled"]
    /\ MoveTo(a, i, "ending")
    /\ toCancel' = [toCancel EXCEPT ![a] = @ \ {i}]
    /\ UNCHANGED <<launched, tracked, flagged, escalationVars, submitVars, down>>

\* Seeded fault: a failure that is retried is not counted.
UncountedFailure(a, st) ==
    \/ /\ failures[a] >= MaxEscalation
       /\ stage' = [stage EXCEPT ![a] = st]
       /\ status' = [status EXCEPT ![a] = "failed"]
       /\ tracked' = [tracked EXCEPT ![a] = 0]
       /\ UNCHANGED <<launched, escalationVars>>
    \/ /\ failures[a] < MaxEscalation
       /\ level' = [level EXCEPT ![a] = @ + 1]
       /\ CreateRun(a, st)
       /\ UNCHANGED <<failures, asked, owner>>

\* _auto_escalate: start again until the circuit breaker trips.  Nothing looks
\* at the limits again.
auto_escalate(a, st) ==
    /\ failures' = [failures EXCEPT ![a] = @ + 1]
    /\ \/ /\ failures[a] >= MaxEscalation
          /\ stage' = [stage EXCEPT ![a] = st]
          /\ status' = [status EXCEPT ![a] = "failed"]
          /\ tracked' = [tracked EXCEPT ![a] = 0]
          /\ UNCHANGED <<launched, level, asked, owner>>
       \/ /\ failures[a] < MaxEscalation
          /\ level' = [level EXCEPT ![a] = @ + 1]
          /\ CreateRun(a, st)
          /\ UNCHANGED <<asked, owner>>

\* The finally clause after the heartbeat: a completed agent without the files
\* it promised has failed; the agent leaves _tasks and _cancelled whoever put it
\* there; a failure escalates.
Finally(a, i) ==
    /\ stage[a][i] = "ending"
    /\ toCancel' = [toCancel EXCEPT ![a] = @ \ {i}]
    /\ flagged' = flagged \ {a}
    /\ LET st == [stage[a] EXCEPT ![i] = "over"]
       IN  \/ /\ status[a] \in {"failed", "completed"}
              /\ auto_escalate(a, st)
           \/ /\ status[a] # "failed"
              /\ stage' = [stage EXCEPT ![a] = st]
              /\ tracked' = [tracked EXCEPT ![a] = 0]
              /\ UNCHANGED <<status, launched, escalationVars>>
    /\ UNCHANGED <<submitVars, down>>

-----------------------------------------------------------------------------
(* submit_for_longrun.                                                      *)

\* After the spawn it awaits the task that is in _tasks now.
SubmitAwaits(a) ==
    /\ submit[a] = "spawned"
    /\ submit' = [submit EXCEPT ![a] = "waiting"]
    /\ awaited' = [awaited EXCEPT ![a] = tracked[a]]
    /\ UNCHANGED <<status, taskVars, escalationVars, down>>

\* The orchestrator cancels a stalled submit: the cancel goes to the awaited
\* task.
SubmitStalled(a) ==
    /\ submit[a] = "waiting" /\ awaited[a] # 0
    /\ stage[a][awaited[a]] \in {"working", "ending"}
    /\ toCancel' = [toCancel EXCEPT ![a] = @ \cup {awaited[a]}]
    /\ UNCHANGED <<status, stage, launched, tracked, flagged, escalationVars,
                   submitVars, down>>

\* The awaited task is done.  What it raised is raised again; otherwise the
\* status of the agent decides, and anything but failed and cancelled is a
\* success.
SubmitAnswers(a) ==
    /\ submit[a] = "waiting"
    /\ awaited[a] # 0 => stage[a][awaited[a]] \in Done
    /\ LET raised == awaited[a] # 0 /\ stage[a][awaited[a]] # "over"
       IN  submit' = [submit EXCEPT
              ![a] = IF raised \/ status[a] \in {"failed", "cancelled"}
                     THEN "error" ELSE "ok"]
    /\ UNCHANGED <<status, taskVars, escalationVars, awaited, down>>

-----------------------------------------------------------------------------
RunSteps(a, i) ==
    \/ CancelledUnstarted(a, i) \/ Starts(a, i) \/ SetupFails(a, i)
    \/ TurnEnds(a, i) \/ TurnRaises(a, i) \/ TurnCancelled(a, i) \/ Finally(a, i)

Next ==
    \/ \E a \in Agents, longrun \in BOOLEAN : spawn_subagent(a, longrun)
    \/ \E a \in Agents :
          \/ cancel_subagent(a)
          \/ send_message_to_subagent(a) \/ retry_subagent(a)
          \/ SubmitAwaits(a) \/ SubmitStalled(a) \/ SubmitAnswers(a)
    \/ \E a \in Agents, i \in Runs : RunSteps(a, i)
    \/ shutdown

Spec == Init /\ [][Next]_vars

\* The event loop runs what is ready, and a turn has a timeout.
Fairness == \A a \in Agents, i \in Runs : WF_vars(RunSteps(a, i))

FairSpec == Spec /\ Fairness

=============================================================================
