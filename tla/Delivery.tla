------------------------------ MODULE Delivery ------------------------------
(***************************************************************************)
(* The delivery workflow: delivery/orchestrator.py with the task registry  *)
(* (store.py, one JSON file) and the plans (plan_mdc.py, one file in the   *)
(* worktree of a project).                                                 *)
(*                                                                         *)
(* A task is started or resumed by a request, which runs on the event      *)
(* loop, and worked off by a pipeline, which runs in a thread: it takes    *)
(* the stages in order, a failed one again until its retries are used up,  *)
(* and writes the plan after every change.  A restart of the process       *)
(* leaves the files, and a write that is cut short, by a restart or an     *)
(* exception, may have emptied its file (write_text truncates it first).   *)
(* Tasks whose project names give the same slug share worktree and plan.   *)
(*                                                                         *)
(* One action is the code up to the next write of a file, or the next      *)
(* point where the event loop may go on to another request.                *)
(***************************************************************************)
EXTENDS Naturals, FiniteSets

CONSTANTS
    Tasks, Dirs,  \* tasks, and worktrees they may have
    NStages,      \* Len(STAGE_ORDER)
    MaxRetries,   \* max_stage_retries
    MaxResumes,   \* bound: resume requests
    MaxFaults,    \* bound: crashes of the process or exceptions in a pipeline
    NoRequest,    \* no request is being handled
    NoPlan        \* plan.mdc is not there, or cannot be parsed

Requests == {"start", "resume"} \X Tasks

ASSUME BoundsAssumption ==
    /\ NStages \in Nat /\ MaxRetries \in Nat \ {0}
    /\ MaxResumes \in Nat /\ MaxFaults \in Nat
    /\ NoRequest \notin Requests

VARIABLES
    slug,      \* the worktree of each task
    registry,  \* tasks.json: the status of each task
    plan,      \* plan.mdc of each worktree
    pipeline,  \* _running, and where each pipeline is
    local,     \* the plan a pipeline works on
    stage,     \* its stage_index, from 1
    request,   \* the request the event loop is handling, and its task
    built,     \* the stages whose artifacts are in the task's output_dir
    tries,     \* history: how often each stage was begun
    resumes,   \* number of resume requests so far
    faults,    \* number of faults so far
    struck,    \* history: tasks that a fault hit
    stale      \* history: tasks marked running after their pipeline had ended

fileVars == <<registry, plan>>
threadVars == <<pipeline, local, stage>>
workVars == <<built, tries>>
faultVars == <<resumes, faults, struck, stale>>
vars == <<slug, fileVars, threadVars, request, workVars, faultVars>>

Stages == 1..NStages
StageStatus == {"pending", "running", "failed", "awaiting_user", "completed"}
Plan == [status : [Stages -> StageStatus], retries : [Stages -> 0..MaxRetries]]

ASSUME NoPlanAssumption == NoPlan \notin Plan

\* The pipeline of a task: there is none; it was created; it is at the loop;
\* it builds; it found what it built valid or not; it has to write the record as
\* awaiting_user or as completed; it has returned.
Places == {"none", "created", "loop", "build", "valid", "invalid", "park", "finish", "over"}

default_plan ==
    [status |-> [s \in Stages |-> "pending"], retries |-> [s \in Stages |-> 0]]

TypeOK ==
    /\ slug \in [Tasks -> Dirs]
    /\ registry \in [Tasks -> {"none", "running", "awaiting_user", "completed"}]
    /\ plan \in [Dirs -> Plan \cup {NoPlan}]
    /\ pipeline \in [Tasks -> Places]
    /\ local \in [Tasks -> Plan]
    /\ stage \in [Tasks -> 1..(NStages + 1)]
    /\ request \in Requests \cup {NoRequest}
    /\ built \in [Tasks -> SUBSET Stages]
    /\ tries \in [Tasks -> [Stages -> Nat]]
    /\ resumes \in 0..MaxResumes /\ faults \in 0..MaxFaults
    /\ struck \subseteq Tasks /\ stale \subseteq Tasks

Init ==
    /\ slug \in [Tasks -> Dirs]
    /\ registry = [t \in Tasks |-> "none"]
    /\ plan = [d \in Dirs |-> NoPlan]
    /\ pipeline = [t \in Tasks |-> "none"]
    /\ local = [t \in Tasks |-> default_plan]
    /\ stage = [t \in Tasks |-> 1]
    /\ request = NoRequest
    /\ built = [t \in Tasks |-> {}]
    /\ tries = [t \in Tasks |-> [s \in Stages |-> 0]]
    /\ resumes = 0 /\ faults = 0
    /\ struck = {} /\ stale = {}

-----------------------------------------------------------------------------
(* Requests.                                                                *)

Live(t) == pipeline[t] # "none"

\* _schedule_background: not beside a pipeline of the task that is not done.
schedule(t) ==
    /\ pipeline' = IF Live(t) THEN pipeline ELSE [pipeline EXCEPT ![t] = "created"]
    /\ UNCHANGED <<local, stage>>

\* start_delivery writes the plan into the worktree, which it may find there,
StartPlans(t) ==
    /\ request = NoRequest
    /\ registry[t] = "none" /\ ~Live(t) /\ t \notin struck
    /\ plan' = [plan EXCEPT ![slug[t]] = default_plan]
    /\ request' = <<"start", t>>
    /\ UNCHANGED <<slug, registry, threadVars, workVars, faultVars>>

\* ... then the record.
StartRecords(t) ==
    /\ request = <<"start", t>>
    /\ registry' = [registry EXCEPT ![t] = "running"]
    /\ schedule(t)
    /\ request' = NoRequest
    /\ UNCHANGED <<slug, plan, workVars, faultVars>>

\* resume_delivery reads the record,
ResumeReads(t) ==
    /\ request = NoRequest /\ resumes < MaxResumes
    /\ registry[t] \in {"running", "awaiting_user"}
    /\ resumes' = resumes + 1
    /\ request' = <<"resume", t>>
    /\ UNCHANGED <<slug, fileVars, threadVars, workVars, faults, struck, stale>>

\* ... and writes it as running, whatever it is now.
ResumeRecords(t) ==
    /\ request = <<"resume", t>>
    /\ registry' = [registry EXCEPT ![t] = "running"]
    /\ schedule(t)
    /\ stale' = IF pipeline[t] = "over" THEN stale \cup {t} ELSE stale \ {t}
    /\ request' = NoRequest
    /\ UNCHANGED <<slug, plan, workVars, resumes, faults, struck>>

\* The event loop sees that the thread has returned.
TaskDone(t) ==
    /\ request = NoRequest
    /\ pipeline[t] = "over"
    /\ pipeline' = [pipeline EXCEPT ![t] = "none"]
    /\ UNCHANGED <<slug, fileVars, local, stage, request, workVars, faultVars>>

-----------------------------------------------------------------------------
(* The pipeline of a task, _run_pipeline_sync.                              *)

goto(t, p) == pipeline' = [pipeline EXCEPT ![t] = p]

\* Seeded fault: the retries are not counted.
update_stage_only(t, st, n) ==
    [status |-> [local[t].status EXCEPT ![stage[t]] = st], retries |-> local[t].retries]

\* The plan with a new status of the pipeline's stage, and n more retries
update_stage(t, st, n) ==
    [status |-> [local[t].status EXCEPT ![stage[t]] = st],
     retries |-> [local[t].retries EXCEPT ![stage[t]] = @ + n]]

write_plan(t, p) ==
    /\ local' = [local EXCEPT ![t] = p]
    /\ plan' = [plan EXCEPT ![slug[t]] = p]

\* Seeded fault: the pipeline ends without the record.
upsert_nothing(t, status) == goto(t, "over") /\ UNCHANGED registry

upsert(t, status) ==
    /\ registry' = [registry EXCEPT ![t] = status]
    /\ goto(t, "over")

Shared(t) == \E u \in Tasks \ {t} : slug[u] = slug[t]

\* The plan is read, if it can be: not when it is lost, nor while the pipeline
\* of another task is writing it.
PipelineReads(t) ==
    /\ pipeline[t] = "created"
    /\ \/ /\ registry[t] # "none" /\ plan[slug[t]] # NoPlan
          /\ local' = [local EXCEPT ![t] = plan[slug[t]]]
          /\ stage' = [stage EXCEPT ![t] = 1]
          /\ goto(t, "loop")
          /\ UNCHANGED struck
       \/ /\ \/ registry[t] = "none"
             \/ plan[slug[t]] = NoPlan
             \/ \E u \in Tasks \ {t} : slug[u] = slug[t] /\ (Live(u) \/ request = <<"start", u>>)
          /\ goto(t, "over")
          /\ struck' = struck \cup {t}
          /\ UNCHANGED <<local, stage>>
    /\ UNCHANGED <<slug, fileVars, request, workVars, resumes, faults, stale>>

\* A completed stage is passed over.
SkipStage(t) ==
    /\ pipeline[t] = "loop" /\ stage[t] <= NStages
    /\ local[t].status[stage[t]] = "completed"
    /\ stage' = [stage EXCEPT ![t] = @ + 1]
    /\ UNCHANGED <<slug, fileVars, pipeline, local, request, workVars, faultVars>>

\* A stage that awaits the user ends the pipeline.
StageAwaits(t) ==
    /\ pipeline[t] = "loop" /\ stage[t] <= NStages
    /\ local[t].status[stage[t]] = "awaiting_user"
    /\ write_plan(t, local[t])
    /\ goto(t, "park")
    /\ UNCHANGED <<slug, registry, stage, request, workVars, faultVars>>

\* Seeded fault: a completed stage may be begun again.
BeginStageAgain(t) ==
    /\ pipeline[t] = "loop" /\ stage[t] <= NStages
    /\ local[t].status[stage[t]] # "awaiting_user"
    /\ write_plan(t, update_stage(t, "running", 0))
    /\ tries' = [tries EXCEPT ![t][stage[t]] = @ + 1]
    /\ goto(t, "build")
    /\ UNCHANGED <<slug, registry, stage, request, built, faultVars>>

BeginStage(t) ==
    /\ pipeline[t] = "loop" /\ stage[t] <= NStages
    /\ local[t].status[stage[t]] \notin {"completed", "awaiting_user"}
    /\ write_plan(t, update_stage(t, "running", 0))
    /\ tries' = [tries EXCEPT ![t][stage[t]] = @ + 1]
    /\ goto(t, "build")
    /\ UNCHANGED <<slug, registry, stage, request, built, faultVars>>

\* Seeded fault: the stage is valid whatever its artifacts are.
ValidateNothing(t) ==
    /\ pipeline[t] = "build"
    /\ goto(t, "valid")
    /\ UNCHANGED <<slug, fileVars, local, stage, request, workVars, faultVars>>

\* The artifacts are made, and are there and valid or not.
MakeAndValidate(t) ==
    /\ pipeline[t] = "build"
    /\ \/ goto(t, "valid") /\ built' = [built EXCEPT ![t] = @ \cup {stage[t]}]
       \/ goto(t, "invalid") /\ UNCHANGED built
    /\ UNCHANGED <<slug, fileVars, local, stage, request, tries, faultVars>>

StageSucceeds(t) ==
    /\ pipeline[t] = "valid"
    /\ write_plan(t, update_stage(t, "completed", 0))
    /\ stage' = [stage EXCEPT ![t] = @ + 1]
    /\ goto(t, "loop")
    /\ UNCHANGED <<slug, registry, request, workVars, faultVars>>

\* The retries of the stage are used up with this failure.
spent(t) == local[t].retries[stage[t]] + 1 >= MaxRetries

\* The stage is failed, or awaits the user when its retries are used up.
StageFails(t) ==
    /\ pipeline[t] = "invalid"
    /\ write_plan(t, update_stage(t, IF spent(t) THEN "awaiting_user" ELSE "failed", 1))
    /\ goto(t, IF spent(t) THEN "park" ELSE "loop")
    /\ UNCHANGED <<slug, registry, stage, request, workVars, faultVars>>

AllStagesOver(t) ==
    /\ pipeline[t] = "loop" /\ stage[t] > NStages
    /\ write_plan(t, local[t])
    /\ goto(t, "finish")
    /\ UNCHANGED <<slug, registry, stage, request, workVars, faultVars>>

\* The record is written last.
Park(t) ==
    /\ pipeline[t] = "park"
    /\ upsert(t, "awaiting_user")
    /\ UNCHANGED <<slug, plan, local, stage, request, workVars, faultVars>>

Finish(t) ==
    /\ pipeline[t] = "finish"
    /\ upsert(t, "completed")
    /\ UNCHANGED <<slug, plan, local, stage, request, workVars, faultVars>>

-----------------------------------------------------------------------------
(* Faults.                                                                  *)

PlanWriters == {"loop", "valid", "invalid"}
RecordWriters == {"park", "finish"}

\* The plans and the registry that a write cut short has emptied
lose(torn, lost) ==
    /\ plan' = [d \in Dirs |-> IF d \in torn THEN NoPlan ELSE plan[d]]
    /\ registry' = IF lost THEN [t \in Tasks |-> "none"] ELSE registry

\* The tasks that lose their records with the registry
Losing(lost) == {t \in Tasks : lost /\ registry[t] # "none"}

\* The pipeline raises, and nobody looks at its exception.  If a write raised,
\* its file may be empty.
Raises(t) ==
    /\ faults < MaxFaults
    /\ faults' = faults + 1
    /\ pipeline[t] \notin {"none", "over"}
    /\ \E torn \in IF pipeline[t] \in PlanWriters THEN {{}, {slug[t]}} ELSE {{}},
          lost \in IF pipeline[t] \in RecordWriters THEN BOOLEAN ELSE {FALSE} :
          /\ lose(torn, lost)
          /\ struck' = struck \cup {t} \cup Losing(lost)
    /\ goto(t, "over")
    /\ UNCHANGED <<slug, local, stage, request, workVars, resumes, stale>>

\* A write of a request raises: the request fails.
RequestRaises(t) ==
    /\ faults < MaxFaults
    /\ faults' = faults + 1
    /\ request \in {<<"start", t>>, <<"resume", t>>}
    /\ \E torn \in IF request = <<"start", t>> THEN {{}, {slug[t]}} ELSE {{}}, lost \in BOOLEAN :
          /\ lose(torn, lost)
          /\ struck' = struck \cup {t} \cup Losing(lost)
    /\ request' = NoRequest
    /\ UNCHANGED <<slug, threadVars, workVars, resumes, stale>>

\* The process ends.
Writing(d) ==
    \E t \in Tasks : slug[t] = d /\ (pipeline[t] \in PlanWriters \/ request = <<"start", t>>)
Recording == request # NoRequest \/ \E t \in Tasks : pipeline[t] \in RecordWriters

Crash ==
    /\ faults < MaxFaults
    /\ faults' = faults + 1
    /\ \E torn \in SUBSET {d \in Dirs : Writing(d)}, lost \in IF Recording THEN BOOLEAN ELSE {FALSE} :
          lose(torn, lost)
    /\ pipeline' = [t \in Tasks |-> "none"]
    /\ local' = [t \in Tasks |-> default_plan]
    /\ stage' = [t \in Tasks |-> 1]
    /\ request' = NoRequest
    /\ struck' = struck \cup {t \in Tasks : request = <<"start", t>> \/ Live(t) \/ registry[t] # "none"}
    /\ UNCHANGED <<slug, workVars, resumes, stale>>

-----------------------------------------------------------------------------
Pipeline(t) ==
    \/ PipelineReads(t) \/ SkipStage(t) \/ StageAwaits(t) \/ BeginStage(t)
    \/ MakeAndValidate(t) \/ StageSucceeds(t) \/ StageFails(t) \/ AllStagesOver(t) \/ Park(t) \/ Finish(t)

Request(t) == StartPlans(t) \/ StartRecords(t) \/ ResumeReads(t) \/ ResumeRecords(t) \/ TaskDone(t)

Next ==
    \/ \E t \in Tasks : Pipeline(t) \/ Request(t) \/ Raises(t) \/ RequestRaises(t)
    \/ Crash

Spec == Init /\ [][Next]_vars

\* Threads run on; the event loop ends what it has begun.
Fairness ==
    \A t \in Tasks :
       /\ WF_vars(Pipeline(t))
       /\ WF_vars(StartRecords(t) \/ ResumeRecords(t))
       /\ WF_vars(TaskDone(t))

FairSpec == Spec /\ Fairness

=============================================================================
