# Formal models of AgenticX

AgenticX is a Python framework for building and serving LLM agents. Most of it is
adapters: model providers, tools, memory stores, HTTP. Its own control logic, the part
where an order of events nobody wrote a test for can lose work, repeat it or stop it for
ever, is in the machinery that keeps agents working, with or without a person watching:

    IM message --> Gateway --> device client --+
                                               v
    browser ----------------------> studio turn (ChatTurns) --> SessionEventHub --> streams
                                               |
                                               v
    task sources --> LongRunOrchestrator --> AgentTeamManager --> agent turn (AgentTurn)
                                                                      |
                                                         project tools on disk
                                                         (.agx/project/)

    delivery orchestrator: stages over a worktree      workflow engine: nodes of a graph

This directory models these nine parts, checks them with TLC and proves with TLAPS every
safety property that a passing run checks of them. Paths below are relative to `agenticx/`.

## 1. Inventory

Each line of `PROJECT.json` "components" is one part of the program. This section
describes the nine that are modelled and the candidates for the next modules.

### Long-run orchestrator (`longrun/`): modelled

*State.* `_entries` (one `TaskEntry` per id: state, failure and continuation counters,
workspace, runner), `_retry_tasks`, the stop event, the poll loop's task, the stall
detector's clock per id; each source's own queue or "done" set; the workspace directories.

*Operations.* enqueue over HTTP, the poll tick (reconcile stalls, fetch, admit),
dispatch, the runner around `submit_fn`, failure and continuation retries, the sleeping
retry, `start_background`, `stop`.

*Interaction.* The tick awaits the source; the runner awaits `submit_fn`, which in the
studio is `AgentTeamManager.submit_for_longrun`; hooks fire around the workspace.

*Hard behaviours.* A stall cancel aimed at a runner that is just finishing; a source
that returns the same rows at every poll; two kinds of retries under two limits with
different comparisons; stop and restart in the middle of anything; an error in one row of
a batch.

*Correct when* a task is executed once at a time, a bounded number of times, by whoever
owns it; it ends; what has ended stays ended; a cancel hits only the run it was meant for;
its directory exists while it runs; a good row is not lost.

### Project state, the feature loop (`project_state/`): modelled

*State.* Four kinds of files under `.agx/project/`: `feature_list.json`, `status.json`,
`verify.yaml`, `archive/feature_<id>.json`, and a lock file. In memory, only what one tool
call has read.

*Operations.* `project_init`, `feature_select` (by id or automatic), `verify_run`,
`feature_complete`; `project_status` only reads.

*Interaction.* Tools of several sessions run in worker threads, and several processes may
open one project; they meet in the files and in the lock alone.

*Hard behaviours.* A death between two file replacements; tests made before the lock is
taken; verification that runs for minutes outside the lock.

*Correct when* at most one feature is in progress, work starts only on committed
dependencies, a commit has its archive, work is not thrown away, verified work can be
finished.

### Sub-agent team manager (`runtime/team_manager.py`): modelled in part

*State.* `_agents` (a context per agent: status, failure count, escalation level),
`_tasks` (one asyncio task per agent id), `_cancelled`, the agent's session.

*Operations.* spawn, cancel, send a message (which resumes an idle agent), retry,
`submit_for_longrun`, shutdown; `_run_subagent` with its long `finally`, in which a failed
run escalates itself.

*Interaction.* Called by a chat's meta agent, by the studio's HTTP routes and by the
orchestrator; the orchestrator's stall cancel reaches the run through the awaited task.

*Hard behaviours.* `_tasks` and `_cancelled` are keyed by agent and not by run, so the end
of an old run acts on the new one; the `finally` clause awaits the heartbeat before it
cleans up; failures restart themselves.

*Correct when* what is shown as running runs, restarts are bounded and asked for, every
run ends, and an answer to the orchestrator is given when the work is over.

### Session event hub (`studio/session_event_hub.py`): modelled

*State.* One hub per session while a turn runs: a ring of the last events with their
sequence numbers, a bounded queue per subscriber, two flags (runtime done, closed).

*Operations.* publish, publish the end mark, subscribe (refused when full or closed),
unsubscribe, replay, close; the two HTTP streams of `studio/server.py` that read a hub.

*Interaction.* The runtime task publishes; the stream of the chat request and any number
of reattached clients consume, each at its own pace, and leave when they like.

*Hard behaviours.* A queue that is full drops its subscriber without a word; a client
that reattaches while events are published; a cursor older than the ring; the end mark
that a dropped subscriber never receives.

*Correct when* each client is shown an in-order part of the log without repetition, what
is missing is missing for a reason the protocol states, places are given back, and every
stream ends.

### Studio turns (`studio/server.py`, `session_manager.py`, `continuation.py`): modelled in part

*State.* Per session: its execution state, its interrupt flag, its hub. Per turn: the
runtime task, the stream, how the run ended, whether it was saved.

*Operations.* chat, continue, interrupt, failures set by the supervisor; a run that
answers, fails or is cancelled; finalization and persistence; a client that leaves.

*Interaction.* Two turns of one session share its state, its interrupt flag and its hub.

*Hard behaviours.* Nothing refuses a second turn; each end of a turn closes the hub that
is there; with and without live reattach another party finalizes; a cancelled task that
had not begun runs no `finally`.

*Correct when* a session is shown as running only while a turn can end that, and not for
ever, a client that reattaches is given a hub only while a turn publishes to it, and work
whose client has left is saved.

### Agent turn (`runtime/agent_runtime.py`, `runtime/compactor.py`): modelled in part

*State.* `session.agent_messages`, which survives turns and which others append to; the
turn's own `messages`; a count of rows taken over; latches for what is tried once.

*Operations.* a round: take over rows, call the model, handle a timeout, an error, a
truncated, rejected or empty answer, a batch of tool calls with refusals, loop reminders
and halts; compaction at the start of a turn and within it; sanitizing.

*Interaction.* Parents and users append rows while the turn awaits the model or a tool.

*Hard behaviours.* The model's API wants every call answered right after it; every way
out of a batch must keep this; compaction replaces lists that others append to.

*Correct when* the model is called with rows in which every call has its result, sees the
results it asked for, nothing of others is lost or given twice, and a turn ends.

### Delivery (`delivery/`): modelled

*State.* `tasks.json` with a record per task, `plan.mdc` per worktree, a thread per
running task, the artifacts of the stages.

*Operations.* start, resume; the pipeline: read the plan, skip, build, retry, park,
finish, each with its writes.

*Interaction.* Requests on the event loop, pipelines in threads, and whoever restarts the
process meet in the two kinds of files.

*Hard behaviours.* A death in the middle of a write; a resume while a pipeline is ending;
two project names with one slug.

*Correct when* what is recorded as completed was built, the tries of a stage are bounded
over all restarts, running means running, and finished stages stay finished.

### Workflow engine (`core/workflow_engine.py`): modelled in part

*State.* An execution context (status, results, error events, a record per node) and the
registry of active executions.

*Operations.* run, validate, the recursion over successors with a semaphore per gather,
nodes that complete, fail or ask for approval; pause, resume, cancel, and the cancellation
of the task that awaits `run`.

*Interaction.* Branches of one execution run concurrently, and callers change its status
or run it again by its id.

*Hard behaviours.* A node that joins branches is executed once per path and shares one
record; failures of one branch beside success of another; statuses that overwrite each
other; a `CancelledError`, which no handler of the engine catches and its gathers swallow.

*Correct when* completed means that nothing is at work, that no node failed and that every
started node has a result or still shows what became of it, records settle, an execution is
registered as long as it goes on, and `run` returns.

### IM gateway (`gateway/`): modelled in part

*State.* The connected device and its queue of pending messages, reply waiters; the
client's connection and its one-at-a-time executor.

*Operations.* route a message (online or offline), POST a command, register, drain,
resolve replies, unregister; the client connects, receives, executes, answers.

*Interaction.* Router, websocket handlers and client share the registry across awaits and
a network that may break at any moment.

*Hard behaviours.* An old connection that ends while its successor registers; messages in
flight when a connection breaks; a send that raised but arrived.

*Correct when* the registered connection is the live one, a message waits only for a
device that is not there, and none is executed twice without a failed send.

### Parts with hazards of their own, not modelled

| Part | Why it is hard | Property it owes |
|---|---|---|
| `core/execution_lane.py` | cancellation between two acquisitions (`:88`), reset during use (`:138`) | no lane is blocked for ever; one holder per session |
| `sessions/write_lock.py` | a lock file outlives its process (`:40`) | a dead writer does not block the session |
| `server/task_queue.py`, `core/background.py` | a flag, a pool task and a status per job; an id is written after the job may have deleted it (`:192`) | a finished job is finished in every table |
| `runtime/task_scheduler.py` | cancel against completion (`:109`) | a cancelled task stays cancelled |
| `runtime/confirm.py`, `clarify.py` | answer against timeout | each request is decided once, and its caller told so |
| `llms/failover.py` | a counter and a cooldown shared by concurrent calls (`:111`) | the cooldown is not lifted by an older call |
| `studio/blocking_io.py` | two workers persist one session | an older snapshot is not written over a newer one |

They are small, and no modelled path goes through the first four; they come next. The
rest (providers, memory, knowledge, tools, CLI, embodiment, observability, vendored
integrations) is I/O, data or text: `PROJECT.json` gives the reason part by part. That
is most of the repository's lines, which is why the share of lines the models cover is
small although the control logic of the parts above is covered.

## 2. Plan

In order of importance. Done: 1 to 8.

1. **LongRun** under the abstract **TaskLifecycle**: the promise a user of the API relies on.
2. **ProjectState** under the abstract **FeatureBoard**: the persistent state machine.
3. **TeamManager**: what actually executes.
4. **SessionEventHub** under the abstract **EventStream**: what a client is shown.
5. **ChatTurns**: who finalizes a session, and when.
6. **AgentTurn** over **ContextMessages**: what the model is shown.
7. **Delivery** with crashes.
8. **WorkflowEngine** and **Gateway**.
9. **LongRunTeam**: compose 1 and 3 through `submit_fn`, so that the orchestrator's stall
   cancel, the team's escalation and the workspace's removal meet in one model.
10. A two-agent instance of TeamManager for the pool limit: spawn, resume and escalation
    against `max_concurrent`.
11. **ExecutionLane** and **SessionWriteLock** with one abstract mutual exclusion;
    **AsyncTaskQueue** and **TaskScheduler** with one abstract job lifecycle.
12. **FeatureLoop**: ProjectFeatureSource x LongRun x ProjectState, once that source is
    wired up; the confirmation gates.

Theorems still worth proving: that TeamManager's `submit` implements what LongRun
assumes of `submit_fn`; the safety of 9 from the theorems of 1 and 3.

## 3. The modules

| Module | Content |
|---|---|
| `LongRun` | orchestrator, sources, workspaces, stall detector, retry policy |
| `TaskLifecycle` | abstract: accepted once, bounded executions, final is final, only done tasks are reported |
| `LongRunProps`, `LongRunProofs`, `MCLongRun` | properties and refinement mapping, proofs, instances |
| `ProjectState` | the tools over the project's files |
| `FeatureBoard` | abstract: the list moves one legal feature at a time, as if every tool were atomic |
| `ProjectStateProps`, `ProjectStateProofs`, `MCProjectState` | properties and mapping, proofs, instances |
| `TeamManager` | the pool of sub-agents and their runs |
| `TeamManagerProps`, `TeamManagerProofs`, `MCTeamManager` | properties, proofs, instances |
| `SessionEventHub` | a hub, its subscribers and the two kinds of streams |
| `EventStream` | abstract: each client sees consecutive events of a log, each once |
| `ChatTurns` | the turns of one studio session: requests, runs, streams, finalization |
| `ContextMessages` | the rows of a conversation, sanitizing and compaction: operators only |
| `AgentTurn` | `run_turn` over ContextMessages |
| `Delivery` | requests, pipelines, registry and plans |
| `WorkflowEngine` | one execution of a graph and its callers |
| `Gateway` | router, registry, websocket handlers, network and client of one device |

`SessionEventHub`, `ChatTurns`, `AgentTurn`, `Delivery`, `WorkflowEngine` and `Gateway`
have `...Props` (properties, and the refinement mapping of the hub), `MC...` (instances)
and `...Proofs`; the proofs of ChatTurns and AgentTurn, the two halves of a turn, are one
module, `TurnProofs`.

### LongRun and the code

Everything runs on one asyncio event loop, so an action is the code between two awaits
that can suspend. The bodies under the orchestrator's `asyncio.Lock` never await: the lock
is never contended and is not a variable.

| Model | Code |
|---|---|
| `queue`, `due`, `marked` | `ManualSource._pending`, rows `_is_due` accepts, `mark_task_done` |
| `loop`, `batch` | `_loop_task` and where `_tick` is; the rows it fetched |
| `entry`, `failures`, `rounds`, `flag` | `TaskEntry` fields |
| `dispatching`, `sleeping`, `active`, `cancelReq` | the asyncio tasks `longrun-dispatch-*`, `-retry-*`, `-run-*`, and a pending cancel |
| `stale`, `overdue` | `_last_activity` older than the threshold; the same for the run itself (history) |
| `dirs`, `hook`, `runs` | the directories, the last hook fired, the dispatches so far (history) |
| `TickBegin`, `TickFinish` | `_tick` up to the fetch (with `_reconcile_stalls`) and after it |
| `Dispatch`, `WakeRetry` | `_dispatch` from the tick and from `_sleep_dispatch` |
| `SubmitReturns`, `SubmitRaises`, `SubmitCancelled` | the three ways `_run` goes on, each with everything up to the end of its `finally` |

Abstractions: a delay is "some time later"; `prepare_for_run` fails only by an `OSError` of
its file operations, and `create` of an id that has a directory succeeds; the stop event is
set exactly while no loop exists, so one variable stands for both; a tick always has its
two steps, although only the Linear source really suspends in the fetch; the runner's first
step is joined to its creation; bad ids come only from the manual source, the others prefix
theirs; a hook's failure is logged and changes nothing. Both retry limits are constants:
the policy the studio ships (`studio_routes.py:90`) leaves `max_attempts` at 0, no limit,
so that what speaks of `Limited` (the budget of `ImplementsLifecycle`, `Resolved`) is about
an orchestrator that is configured with limits; the other properties and theorems are not.
`CounterCap` bounds the faults and continuations per task that are explored, `MaxStops` the
calls of `stop`.

### ProjectState and the code

A tool call is a sequence of steps: take the lock, read, decide (one action, because the
lock is held and the reads change nothing), then one action per file that is replaced,
and the lock is returned with the last. `Crash` may strike before any write; the kernel
drops the `flock` with the process. `at[s]` is the next write of session `s`, `nextList`
and `nextStatus` what it will write. `project_init` has a step before the lock (the test
`is_initialized`), and so has `verify_run` (the steps of `verify.yaml`). `GiveUp` is the
lock's timeout. A call that is refused writes nothing and is no step.

`Given` holds the statuses a caller may write into the features it passes to
`project_init`: the code does not reject them, the tool's schema has none. All runs and
theorems take `{"pending"}`. Left out: `progress.md`, the logs and verify counters (nothing
reads them back); duplicate ids and ids whose archive names collide (see section 7).

### TeamManager and the code

Runs of one agent are numbered; `stage[a][i]` is where run `i` is: `created`, `working`
(in the turn), `ending` (status decided, awaiting the heartbeat), `over`, `dropped`
(cancelled before its first step, so that no handler ran) or `raised` (its setup raised
before the `try`). `tracked` is `_tasks`, by agent as in the code. `Finally` is the whole
`finally` clause including the escalation. `submit` and `awaited` follow
`submit_for_longrun`, and `SubmitStalled` is the orchestrator's cancel arriving there.

Abstractions: a turn of the agent is one step with any outcome the code can decide on;
limits on depth, children and resources only refuse a spawn; contexts have
`cleanup="keep"`; a shutdown is one step after which nothing is modelled.
`MaxAsked` bounds the follow-ups and retries of one agent. One agent is enough for the
properties: agents meet only in `max_concurrent`, of which no property speaks yet.

### SessionEventHub and the code

Events are their sequence numbers, so the ring is an interval (`Oldest..seq`) and a
client is characterised by the number it was shown last and how many it was shown. The
hub's lock is never held across an await, so `publish` with its fan-out is one action; a
stream is suspended at every event it yields and every wait on its queue. `Deliver`,
`Timeout`, `Disconnect` are the loop of the chat stream and of the live half of
`reattach_session_stream`; `StartReader`, `GapWritten`, `Replay`, `ReplayOver` are its
replay. A restart of the session makes a new hub, which is a new instance; a cursor from
an earlier one is an arbitrary `since`.

### ChatTurns and the code

A turn is its request (`none`, `settling` and `resuming` for a continuation, `posted`,
`open`, `left`, `over`) and its runtime task (`working`, `persisting`, `over`, or
`stillborn` when it was cancelled before its first step). A hub bears the name of the
turn that made it; of its events only the end mark is kept (`told`). `finalize` is
`_finalize_chat_runtime`, run by the task with live reattach and by the stream without.
`HandlerRaises` is an exception between the running state and the stream's `try`, or a
body that is given up before it starts. `stranded` is a history variable: such a turn, or
one whose task was cancelled before its first step, has left the session running, and no
state was set since. Saving is one step of the I/O pool.

### AgentTurn and the code

`pc` is where `run_turn` is suspended; an action is the code up to the next await. A turn
starts with the compaction that a code-dev phase may have asked for
(`_code_dev_phase_compact_pending`, `phase`) or that the length of the rows asks for, and
then waits for its hooks (`begun`) before it counts the rows it has. A row
keeps its role, the calls it makes, the call it answers, and whether it has text, which
is all `_sanitize_context_messages` and the compactor look at. The loop detector, the
guards, the budget and the hooks may each report at any time. Tool calls run one after
the other: `AGX_PARALLEL_TOOLS` only logs a partition. Rows the loop puts between a batch
and the next model call are left out, because they split no batch. `shown` and `lost` are
history: results no reminder precedes, and rows a compaction took.

`sanitize` is the list of the rows that stay, by their positions: `staying` is the set of
positions the code's loop copies, `nth` the position with a given number, `Kept` the row
as copied. The loop's own order of work (a block at a time) is abstracted; being without
recursion, the definition can be proved about.

### Delivery and the code

`request` is the request the event loop handles, and its task, up to its next await;
`pipeline[t]` is where the thread of `t` is, between two writes; `local[t]` is the plan
it works on. That the artifacts of a stage were made and found valid or not
(`MakeAndValidate`) is a step before the one that writes it to the plan. `Crash` stops the
process at any point, `Raises` and `RequestRaises` are an exception in a pipeline or a
request. Each may empty the file being written, which `write_text` truncates first:
the registry is then read as empty, the plan as absent. `Shared(t)`: another task has the
same worktree. Writes of different files are different actions. `tries` is history: how
often a stage was begun.

### WorkflowEngine and the code

An activation is one entry of a node: the `run()` it belongs to and its path from an entry
node; an activation whose successors are at work is not kept, it is over when none below
it is left. `Holders` is who has a slot of the semaphore of the same gather. Conditions of
edges and outcomes of components are choices: `NodeCompletes`, `NodeFails` (also of a
condition, which is evaluated when the result is stored) and `NodeVanishes`, a
`CancelledError` that `except Exception` lets pass and `gather(return_exceptions=True)`
swallows. `CancelRun` is the cancellation of the task that awaits `run()`: what waits for a
slot ends, a component may complete, fail or vanish, and what a component that swallowed
it has as successors is started as ever; `ReturnsCancelled` is the `finally` of that run.
`gone` (the activations that vanished) and `resumed` are history. `MaxControls` bounds
pauses, resumes and cancels of both kinds. Triggers only call `run()`.

### Gateway and the code

One device, one client. A connection is numbered; `handler[c]` is where its websocket
handler is, `broken` the connections that are gone, `toDevice` and `toServer` the frames
under way. A frame is live (someone waits for its reply) or drained. `Break` and
`DeviceStops` are the environment; the last of `MaxConns` connections does not break.
Authentication, bindings, the status and new-chat commands and the platform adapters are
left out; so is a restart of the gateway.

## 4. What the runs check

| Run | Instance | What it shows |
|---|---|---|
| `longrun_safety` | a manual and a recurring task with one directory between them, an id that sanitizes to nothing (no Linear row), 1 attempt beyond the first, 2 continuations, a stop; 522,586 states | `OneRunner`, `Owned`, `CancelHitsOverdueRun`, `WorkspacePresent`, `RowsAreKept`; LongRun implements TaskLifecycle, which bounds executions and makes final states final; every enqueued task that is not lost beside the bad id ends although `submit_fn` may hang every time (`Resolved`) |
| `longrun_recurring` | one automation row | *violated*: a row due again is never run again |
| `project_safety` | 2 sessions, 3 features (a chain of two and a free one), 2 `project_init` calls with or without overwrite, 1 crash; 331,537 states | the list on disk moves like FeatureBoard, whose guards say one in progress and on committed dependencies; `CommittedHasArchive`; a verified feature gets committed unless a process died or the list was rewritten (`VerifiedIsFinished`) |
| `team_safety` | 1 agent, 1 escalation, 2 requests; 343,021 states | `RunningIsLive`, `RunBudget`, `CancelIsFinal`, `RunsEnd` |
| `hub_safety` | a chat stream and a reader, a ring of 2, queues of 2, room for 1 subscriber, 5 events; 82,527 states | the hub implements EventStream; `SubscribersAreServed`, `ReplayFromCursor`, `Truncated`, `StreamsEnd` |
| `chat_safety` | 2 turns, 1 outside change, with and without live reattach; 76,393 states | `RunningHasTurn`, `HubIsServed`, `RunningEnds`, `DetachedRunIsSaved` |
| `turn_safety` | 2 turns of 2 rounds, batches of 2, 3 calls in all, 1 foreign row, 2 rows kept by a compaction, 1 timeout; answers with calls have no text; 808,924 states | `PairsStayTogether`, `BatchIsAnswered`, `ResultsAreShown`, `RowsOfOthers`, `TurnAdvances` |
| `delivery_safety` | 2 tasks in one or two worktrees, 2 stages, 2 retries, 1 resume, 1 fault; 1,412,995 states | `CompletedIsBuilt`, `RetriesAreBounded`, `RunningIsTrue`, `DoneStaysDone` |
| `delivery_resume` | 1 task, no fault | *violated*: a resumed task parks again untried |
| `workflow_safety` | a diamond, an approval beside another entry node and a refused cycle on 4 nodes, 2 `run()` calls, 1 slot, 2 controls; 569,035 states | `CompletedIsWhole`, `RecordsSettle`, `ActiveIsGoingOn`, `RunsReturn` |
| `gateway_safety` | 3 messages (one an HTTP command), a queue of 1, 2 connections; 295,700 states | `ServingIsRegistered`, `WaitsOnlyForReconnect`, `TwiceOnlyIfFailed`; what a reconnect drained is executed unless that connection goes (`DrainedIsRun`) |
| `gateway_queue` | 1 message, 2 connections, the client always reconnects | *violated*: a message said to be queued is never run |

The violated properties are quoted from documents, comments and replies in `PROJECT.json`
"findings", and the counterexample of the run is the scenario to look at. `TypeOK` of each
module (`TurnTypeOK` of AgentTurn) is proved rather than listed in the runs.

*Why the bounds are enough.* In LongRun tasks share only the batch and, if their ids
sanitize to one name, the directory: two tasks in one directory, fetched beside an id that
cannot have one, show every interference there is, one failure beyond the limit and two
continuations exercise both comparisons of the retry policy on both sides, and the start
after the stop meets what it left behind (the theorems have no bound on stops). In
ProjectState a third session would only wait for the lock; one crash reaches every point
between two writes, and two inits cover both a race and a rewrite. In TeamManager two
requests and an escalation give up to four runs of one agent at once, more than the two it
takes to confuse `_tasks`. In the hub five events pass a ring of two with room for a gap, a
full queue and an end mark behind it, and one place makes the second stream meet a full
table. In ChatTurns two turns and an interrupt give every overlap of two; a third turn is
another second one. AgentTurn's second turn meets what any end of the first left, a batch
of two has a first and a last call, and the three calls with two kept rows let a compaction
fall inside a batch; a second foreign row would only be another one. In Delivery two stages
have a before and an after, two tasks share a worktree or not. In WorkflowEngine the
diamond is the smallest graph in which two paths meet, one slot the tightest bound; a path
is two edges deep, so that a node that waited for its successors while holding their slot
would stop it. In the gateway two connections are an old and a new one, and two messages
overflow the queue of one. The theorems below have none of these bounds.

*Fairness.* LongRun: the event loop runs every ready task, timers fire and time passes; a
cancelled `submit_fn` answers; nothing is assumed of one that has not been cancelled, nor
of who enqueues. ProjectState: a session in the middle of its writes continues; lock waits
and verification steps have timeouts in the code; and the agents of the loop keep calling
`feature_complete` on what is verified and are not starved by the polled lock (strong
fairness, an assumption on the users of the tools and on `flock`). TeamManager: the event
loop runs what is ready, and a turn ends, because `_should_stop` tests the run's timeout
and model calls have one of their own. SessionEventHub: a stream whose wait is over or
timed out is resumed; nobody need publish or leave. ChatTurns: the event loop resumes what
can go on and a run ends, which `TurnAdvances` and the timeouts of the model justify;
nobody need interrupt or leave. AgentTurn states no fairness: `TurnAdvances` is a variant,
every step of a turn lowers it. Delivery (used by `delivery_resume`): threads run on, the
event loop ends what it has begun. WorkflowEngine: as in ChatTurns, and components end,
since the engine has no timeout for one. Gateway: the event loops go on, sends return and
the client's turns end; a reconnect is assumed only in `gateway_queue`, where `run_forever`
is not told to stop.

*Deadlock* is checked for LongRun, whose loop never stops of itself. It is not for the
others: tools, sessions, streams, turns, deliveries, executions and senders act when
called, and with the bounds used up nobody calls.

## 5. What is proved

All theorems hold for every value of the constants under the named assumptions of the
modules, which TLC evaluates in the runs.

**LongRun** (`LongRunProofs`). Type correctness, `OneRunner`, `Owned`, `AttemptNumber`,
`ExecutionBudget`, `CancelHitsOverdueRun`, `FinalIsFinal`, `RowsAreKept`,
`WorkspacePresent`, and that it implements `TaskLifecycle` when both limits are set. The
properties are not inductive one by one. That no second runner starts needs to know that a
dispatch task exists only for a `pending` entry and a sleeping retry only for a
`retry_queued` one (`WaiterInv`). That a cancel is deserved needs that a task whose clock
is stale, and that runs, is itself overdue (`ClockInv`). The budget needs an account of
executions by state (`CountInv`: a running entry has used one execution per counted failure
and continuation, plus one). `Owned` speaks of times without a stop and needs that nothing
is admitted before the first start (`StartInv`). `IInv` is their conjunction; there is a
lemma per action. `Refinement` maps the entry's state to a phase and dispatches to
executions; where a step spends an execution, the budget lemma `TriesWithinBudget` gives
the abstract guard. `WorkspaceStays` and `RowsKept` assume nothing of the ids: any may
share a directory or have none. The first uses that DONE entries stay done, for a lost
directory must have a done task behind it; the second that what is owed an entry has none
and is not marked, so that `ManualSource` does not filter it out, and that a fetch without
a bad id admits all it has (`RowsInv`).

**ProjectState** (`ProjectStateProofs`). Type correctness, `OneInProgress`,
`DepsCommitted`, `CommittedHasArchive` and the refinement of `FeatureBoard`, for every
dependency graph and every number of sessions, inits and crashes, assuming that callers pass
only pending features (`OnlyPending`). A session computes its new list under the lock and
saves it steps later, so the invariant must say that only the holder of the lock is at
a write (`Exclusive`) and that what it carries is still one legal move from the list on
disk (`Planned`), which for a commit includes that the archive is written.

**TeamManager** (`TeamManagerProofs`). Type correctness, `RunningIsLive`, `RunBudget`,
`CancelIsFinal`. The invariant adds that nothing is known of runs not yet created
(`Future`), that every run is the spawn, a request or an escalation (`Counted`), and that
escalations follow counted failures (`Breaker`). For `CancelIsFinal` it adds that a cancel
that stands shows in the status (`CancelInv`): the history variable `owner` says what the
owner last asked, and turns to "overruled" when a turn raises after a cancel, because that
turn's failure is then escalated by the code without a request.

**SessionEventHub** (`SessionEventHubProofs`). Type correctness, `SubscribersAreServed`,
`ReplayFromCursor`, `Truncated` and the refinement of `EventStream`, for any numbers of
streams and any sizes. The invariant is what a queue holds: the events after the last one
the client was shown or, before it was shown a live one, after its subscription, without a
hole, and up to the newest for a subscriber (`Queued`); and where a replay has left the
client relative to it (`Cursor`).

**ChatTurns** (`TurnProofs`). Type correctness, `RunningHasTurn` and `HubIsServed`
for any number of overlapping turns. The first needs to know which turn keeps the session
running: one that publishes to the session's hub, or one whose stream will finalize it
(`StillRuns`); the second that every step that ends a hub takes it from the session, and
that the hub of a new turn is new (`HubOpen`, `Unposted`).
`DetachedIsKept` is the safety half of `DetachedRunIsSaved`: with live reattach the run
of a client that left is not cancelled and is persisted by the time it is over, since
nothing but the end of a stream cancels a run and a stream that was left has no end
(`Attached`). TLC checked it on the instance of `chat_safety`.

**AgentTurn** (`TurnProofs`). Type correctness, `PairsStayTogether`, `BatchIsAnswered`,
`ResultsAreShown`, `RowsOfOthers` and the action property `TurnAdvances`, for any number of
turns, rounds, calls, timeouts and rows of others.

*The operators first.* What `sanitize` returns is described by the map from the new
positions to the old (`Origin`): it is increasing, keeps exactly the rows that stay, and
never moves a row up. From it: the result is well-formed whatever the rows were
(`SanitizedWellFormed`), a well-formed list is returned unchanged, so that repairing is
idempotent (`RepairIsStable`), no call that its block answers and no row of others is
dropped (`SanitizedLists`). A suffix of a well-formed list that does not begin with a tool
row is well-formed (`SuffixWellFormed`), and `split_at` finds such a suffix (`Split`),
hence a compaction parts no call from its results (`Compaction`). `Joined` says the same of
appending rows.

*Then the invariants.* `Shape` is the types and three facts the types need: the batch is
within its bound and not empty while one runs, a compaction that waits holds a well-formed
list it can split, and so is the list a round calls the model with. `TurnAdvances` follows
from it. On `Shape` rest four invariants, independent of each other:
`BatchInv`, that while a batch is under way only the calls it is left with are without a
result, and that only results and reminders follow its row (for `PairsStayTogether`, whose
halting call gets the rows as the batch left them);
`CallsInv`, that a call of this turn without a result is one the batch is left with, and no
call number is used again (for `BatchIsAnswered`); `ShownInv`, that the results to be
shown stand in the block of their call, and that nothing but results and reminders
follows the row of the batch (for `ResultsAreShown`, because a repair drops a result
behind a reminder); `NotesInv`, that each row of others is once in a list, and
that the turn has none of the rows beyond its count `synced` once it is set (for
`RowsOfOthers`: it is
this that a compaction within the turn can break, which is why the property excepts it).
TLC checked the five on the instance of `turn_safety` before they were proved.

**Delivery** (`DeliveryProofs`). Type correctness, `CompletedIsBuilt`,
`RetriesAreBounded`, `RunningIsTrue`, `DoneStaysDone`, over any number of crashes and
resumes. What a completed record promises is carried by the plan: it shows the stages that
were built (`Shown`), a working pipeline has in memory what is in
the file, and a new plan is written only for a task that nothing was done for (`Fresh`).
`RetriesAreBounded` is an account of tries (`Counted`): a stage was begun as often as its
plan counts retries, once more while it is tried or when it completed, and once more for
every fault, because a death or an exception between the validation and the write of the
plan loses a failed try. `MaxRetries + faults` is what the code keeps; `max_stage_retries`
alone is what it keeps without faults. Both are for a worktree of its own.

**WorkflowEngine** (`WorkflowEngineProofs`). Type correctness, `CompletedIsWhole`,
`RecordsSettle`, `ActiveIsGoingOn`, for every graph and any number of runs
and slots. Every activation belongs to a `run()` in progress (`Own`), a node being executed
is shown so unless another activation of it ended (`Marked`), and every node that
was started has a result, is shown as running or is at work (`Whole`), as long as the
execution may still be completed (`Completing`). `CompletedIsWhole` is about executions with
one `run()`, and its part about failures and results about those that were not resumed:
these are the two ways the code breaks it (section 7). `ActiveIsGoingOn` is about
executions nobody interfered with.

**Gateway** (`GatewayProofs`). Type correctness, `ServingIsRegistered`,
`WaitsOnlyForReconnect` and `TwiceOnlyIfFailed`, for any messages and number of
connections. Connections are made in order and only one handler at a time waits for the one
it replaces (`OneCloses`), and whoever is queued was told so (`QueuedIsTold`).
`TwiceOnlyIfFailed` is an account of copies. A copy can be in one of four kinds of places:
the queue of the device, what a handler drained, the network, the client's jobs (`Held`).
`Counted` says that executions so far, plus one for a live frame still under way, plus one
for a queued copy still under way, never exceed what the sender was told: none before a
decision, two after a failed send, one otherwise. It needs that no copy is in two places
(`Once`), which a lemma shows of each way a copy can move: appended, dropped from the
front, handed on, or poured from one queue into another.

## 6. What is only model-checked

The liveness properties (`Resolved`, `VerifiedIsFinished`, `RunsEnd`, `StreamsEnd`,
`RunningEnds`, `DetachedRunIsSaved`, `RunsReturn`, `DrainedIsRun`): TLAPS does not
reason about fairness and `ENABLED` (for `DetachedRunIsSaved` only the end's coming is
left to TLC). Every other property of a passing run is a theorem.
That the code's loops compute `sanitize` and `split_at`, which the model defines by what
they return, is a matter of reading: a proof about the loops themselves would need
induction over data, which the provers at hand cannot do. And the properties the code
violates.

## 7. Seen while modelling, without a run

* `longrun/task_workspace.py:53`: two ids that differ only in replaced characters share a
  directory, although line 35 promises one directory per logical task id, and finishing
  one removes the other's workspace while it runs.
* `longrun/orchestrator.py:236`: the flag set for a stall stays when `submit_fn` swallows
  the cancel; harmless as long as nobody else cancels runners.
* `longrun/orchestrator.py:90`: after `stop` and a new start, entries that were queued for
  a retry, or whose runner was cancelled while stopped, keep their state for ever, and
  their ids are blocked. `Owned` therefore speaks of `stops = 0`. And a stop that arrives
  during the request to Linear drops the manual rows the same fetch has already taken.
* `longrun/orchestrator.py:267`: a successful task's `before_remove` hook fires before,
  and so without, its `after_run` (`tests/test_smoke_longrun_primitives.py:89` pairs them).
  `orchestrator.py:135`: an id that sanitizes to nothing raises out of the batch loop, and
  the rows behind it are lost, the manual queue having been cleared.
* `longrun/sources/project_feature_source.py`: its payload has neither task nor prompt,
  which `submit_for_longrun` requires; nothing constructs it yet.
* `project_state/store.py:273`: after a death between archive and list, every later
  `feature_complete` of the feature fails. `tools.py:153`: of two inits without
  `overwrite` the second throws away the work begun after the first.
* `project_state/store.py:272`: after a rewrite with `overwrite=true` a feature whose id
  was committed before can never be completed again; `verify.py:129`: a pass of a single
  step promotes the feature; `tools.py:391`: a verification begun before the feature was
  selected verifies it; `tools.py:341`: completing one feature clears the cursor of
  another; `feature_list.py:49`: duplicate ids of one init are saved, and no load accepts
  them; `store.py:267`: ids with one slug share an archive name; `store.py:101`: a dead
  holder's sentinel file blocks the lock on Windows.
* `runtime/team_manager.py:1252`: a provider that cannot be resolved raises before the
  `try`, and the agent is RUNNING for ever; `:921`: `submit_for_longrun` awaits the first
  run only and answers while an escalation goes on; `:699` and `:1585`: resumes and
  escalations do not test `max_concurrent`; `:637`: cancelling an agent that has ended
  leaves a flag that swallows its next turn; `:1427`: an exception in a cancelled turn
  makes it FAILED, and the manager escalates it; `:1566`: failures are called consecutive
  but the count is never reset; `:1074`: `shutdown` does not wait for runs that escalation
  starts meanwhile.
* `studio/server.py:3372`: a cursor from an earlier hub of the session is larger than any
  number of the new one; the replay is empty and no `replay_gap` is written
  (`ReplayFromCursor` excepts it). `:2254`: an interrupt closes the hub without an end
  mark, and open streams poll until their clients leave. `:3126`: when the hub refuses the
  subscription, the task just created is cancelled before its first step, and the session
  stays running; so it does when the handler raises between `:2773` and the stream's `try`
  (both `Orphaned`). `session_manager.py:552`: the end of a turn closes the session's hub
  even when another turn publishes to it, whose events are lost from then on; the model
  has this step and no property forbids it. `studio/continuation.py:241`: a continuation
  waits two seconds and goes on; the new turn clears the stop request the old one has not
  seen, and both run, although line 230 says that it waits until the session settles. The
  model has this too: what the properties say, they say of turns that overlap.
* `runtime/agent_runtime.py:3885`: a loop reminder is put before the result it warns of,
  which sanitizing then drops from the model's view; `:3953`: the summary of a halted loop
  is asked for with that reminder inside the batch, where a comment promises well-formed
  messages; `:2680` and `:1937`: a compaction overwrites rows appended while it waited;
  `:3025`: a rejected answer is appended to both lists without moving the count and is
  shown to the model a second time; `:3053` and `:3902`: the count is set to the length of
  the list, so a row that came just before is not given in this turn (it is in the next).
* `delivery/store.py:76`: project names with one slug share worktree and plan, and the
  pipelines write over each other; the theorems are about tasks with a worktree of their
  own. `store.py:69`: a registry torn by a death is read as empty, and all tasks are
  forgotten. `orchestrator.py:198`: a failed try is counted only with the next write of the
  plan, so that a stage interrupted again and again is tried without limit.
  `orchestrator.py:140`: a resume while a pipeline is ending marks the record
  running and starts nothing; `:157`: an exception in a pipeline is retrieved by nobody,
  the record stays running, and a file that was being written stays empty; `:145`:
  nothing resumes after a restart.
* `core/workflow_engine.py:660`: `max_concurrent_nodes` bounds each gather, not the
  execution as a whole; `:788`: an approval sets
  PAUSED over FAILED, and a resume ends in COMPLETED; `:670`: a component that ends with a
  `CancelledError` has no result, its record says RUNNING for ever and the execution is
  COMPLETED; `:593`: a cancelled `run()` leaves the registry with status RUNNING;
  `:617`: a resume starts nothing;
  `:527`: a second `run()` by id removes the first from the registry when it returns;
  `:621`: a node that fails after a cancel sets FAILED over CANCELLED.
* `gateway/app.py:256`: the reply waiter is registered after the send, so an early reply
  is lost and the sender times out; `device_manager.py:69`: a full queue drops its oldest
  message, whose sender was told that it is queued; the answer to a drained message has
  nobody to go to; a live message may overtake drained ones; a restart of the gateway
  forgets the queue; two clients with one id close each other's connection in turns.

## 8. How to run

    tlc -workers 2 -config MCLongRun_safety.cfg MCLongRun     # seconds to two minutes each
    tlapm LongRunProofs.tla                                   # a minute or two each, TurnProofs four
