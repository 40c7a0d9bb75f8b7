--------------------------- MODULE DeliveryProofs ----------------------------
(***************************************************************************)
(* Proofs of the safety properties of Delivery, for every set of tasks and *)
(* every number of stages, retries, resumes and faults.                    *)
(*                                                                         *)
(* What a completed record promises is carried by the plan: it shows the   *)
(* built stages (Shown) and counts the tries of its task, but for those a  *)
(* fault cut short (Counted), the pipeline works on what is in the file,   *)
(* and a new plan is only written for a task that nothing was done for     *)
(* (Fresh).                                                                *)
(***************************************************************************)
EXTENDS DeliveryProps, TLAPS

\* A stage that has used up its retries awaits the user.
PlanOK(p) == \A s \in Stages : p.retries[s] < MaxRetries \/ p.status[s] = "awaiting_user"

PlansOK ==
    /\ \A d \in Dirs : plan[d] # NoPlan => PlanOK(plan[d])
    /\ \A t \in Tasks : PlanOK(local[t])

\* A stage is being tried from its mark in the plan to the write of its result,
Trying == {"build", "valid", "invalid"}

\* ... and is marked as running then.
AtBuild ==
    \A t \in Tasks : pipeline[t] \in Trying =>
       stage[t] \in Stages /\ local[t].status[stage[t]] = "running"

\* Nothing was done for a task without a record.
Fresh ==
    \A t \in Tasks : registry[t] = "none" /\ t \notin struck =>
       pipeline[t] = "none" /\ built[t] = {} /\ \A s \in Stages : tries[t][s] = 0

Starting == \A t \in Tasks : request = <<"start", t>> => registry[t] = "none" /\ t \notin struck

Working(t) == pipeline[t] \in {"loop", "park", "finish"} \cup Trying

\* The try of a stage that its retries do not count: the one that is going on or
\* that completed it.
LastTry(t, s) ==
    IF plan[slug[t]].status[s] = "completed" \/ (pipeline[t] \in Trying /\ stage[t] = s) THEN 1 ELSE 0

\* The plan of a task that has its worktree for itself
Shown(t) ==
    /\ Working(t) => plan[slug[t]] = local[t]
    /\ plan[slug[t]] # NoPlan => \A s \in Stages :
          plan[slug[t]].status[s] = "completed" => s \in built[t]
    /\ pipeline[t] \in {"loop"} \cup Trying => \A s \in Stages : s < stage[t] => s \in built[t]
    /\ pipeline[t] = "valid" => stage[t] \in built[t]
    /\ pipeline[t] = "finish" => built[t] = Stages

\* Tries that a fault cut short are missing in its count.
Counted(t) ==
    plan[slug[t]] # NoPlan => \A s \in Stages :
       tries[t][s] <= plan[slug[t]].retries[s] + LastTry(t, s) + faults

Own(t) ==
    /\ Shown(t) /\ Counted(t)
    /\ registry[t] = "completed" => built[t] = Stages
    /\ \A s \in Stages : tries[t][s] <= MaxRetries + faults

OwnInv == \A t \in Tasks : ~Shared(t) => Own(t)

TInv == TypeOK /\ PlansOK /\ AtBuild
IInv == TInv /\ Fresh /\ Starting /\ OwnInv

-----------------------------------------------------------------------------
(* What the writes do.                                                      *)

\* write_plan changes the plan of one worktree and what one pipeline works on.
LEMMA WritePlan ==
    ASSUME TypeOK, NEW t \in Tasks, NEW p \in Plan, write_plan(t, p)
    PROVE  /\ local' \in [Tasks -> Plan] /\ plan' \in [Dirs -> Plan \cup {NoPlan}]
           /\ slug[t] \in Dirs
           /\ local'[t] = p /\ \A u \in Tasks \ {t} : local'[u] = local[u]
           /\ plan'[slug[t]] = p /\ \A d \in Dirs \ {slug[t]} : plan'[d] = plan[d]
BY DEF TypeOK, write_plan

\* Marking the stage of a pipeline, and counting a failure of it.
LEMMA Mark ==
    ASSUME TypeOK, NEW t \in Tasks, NEW st \in StageStatus, NEW n \in {0, 1},
           stage[t] \in Stages, local[t].retries[stage[t]] + n \in 0..MaxRetries
    PROVE  LET q == update_stage(t, st, n)
           IN  /\ q \in Plan
               /\ q.status[stage[t]] = st
               /\ q.retries[stage[t]] = local[t].retries[stage[t]] + n
               /\ \A i \in Stages \ {stage[t]} :
                     q.status[i] = local[t].status[i] /\ q.retries[i] = local[t].retries[i]
<1>1. local[t] \in Plan
  BY DEF TypeOK
<1>2. local[t].status \in [Stages -> StageStatus] /\ local[t].retries \in [Stages -> 0..MaxRetries]
  BY <1>1 DEF Plan
<1> QED BY <1>2 DEF update_stage, Plan

\* A new plan.
LEMMA DefaultPlan ==
    /\ default_plan \in Plan /\ PlanOK(default_plan)
    /\ \A s \in Stages : default_plan.retries[s] = 0 /\ default_plan.status[s] = "pending"
BY BoundsAssumption DEF default_plan, Plan, PlanOK, StageStatus

\* The stage of a pipeline has retries left when it is built.
LEMMA RetriesLeft ==
    ASSUME TInv, NEW t \in Tasks, stage[t] \in Stages,
           local[t].status[stage[t]] # "awaiting_user"
    PROVE  /\ local[t].retries[stage[t]] \in Nat /\ MaxRetries \in Nat
           /\ local[t].retries[stage[t]] < MaxRetries
<1>1. local[t] \in Plan /\ PlanOK(local[t])
  BY DEF TInv, TypeOK, PlansOK
<1>2. local[t].retries[stage[t]] \in 0..MaxRetries
  BY <1>1 DEF Plan
<1> QED BY <1>1, <1>2, BoundsAssumption DEF PlanOK

\* What a marking step leaves: types, plans, and the stages of the others.
LEMMA MarkedPlans ==
    ASSUME TInv, NEW t \in Tasks, NEW p \in Plan, PlanOK(p), write_plan(t, p)
    PROVE  /\ local' \in [Tasks -> Plan] /\ plan' \in [Dirs -> Plan \cup {NoPlan}]
           /\ PlansOK'
           /\ local'[t] = p /\ \A u \in Tasks \ {t} : local'[u] = local[u]
           /\ plan'[slug[t]] = p /\ \A d \in Dirs \ {slug[t]} : plan'[d] = plan[d]
<1>1. /\ local' \in [Tasks -> Plan] /\ plan' \in [Dirs -> Plan \cup {NoPlan}]
      /\ slug[t] \in Dirs
      /\ local'[t] = p /\ \A u \in Tasks \ {t} : local'[u] = local[u]
      /\ plan'[slug[t]] = p /\ \A d \in Dirs \ {slug[t]} : plan'[d] = plan[d]
  BY WritePlan DEF TInv
<1>2. (\A d \in Dirs : plan'[d] # NoPlan => PlanOK(plan'[d])) /\ \A u \in Tasks : PlanOK(local'[u])
  BY <1>1 DEF TInv, PlansOK
<1> QED BY <1>1, <1>2 DEF PlansOK, PlanOK

\* A marked plan keeps the retries it may have.
LEMMA MarkedIsOK ==
    ASSUME TInv, NEW t \in Tasks, NEW st \in StageStatus, stage[t] \in Stages,
           local[t].status[stage[t]] # "awaiting_user", NEW n \in {0, 1},
           st # "awaiting_user" => n = 0 \/ ~spent(t)
    PROVE  /\ PlanOK(update_stage(t, st, n)) /\ update_stage(t, st, n) \in Plan
           /\ update_stage(t, st, n).status[stage[t]] = st
           /\ update_stage(t, st, n).retries[stage[t]] = local[t].retries[stage[t]] + n
           /\ \A i \in Stages \ {stage[t]} :
                 /\ update_stage(t, st, n).status[i] = local[t].status[i]
                 /\ update_stage(t, st, n).retries[i] = local[t].retries[i]
<1>1. /\ local[t].retries[stage[t]] \in Nat /\ MaxRetries \in Nat
      /\ local[t].retries[stage[t]] < MaxRetries
  BY RetriesLeft
<1>2. local[t].retries[stage[t]] + n \in 0..MaxRetries
  BY <1>1
<1> DEFINE q == update_stage(t, st, n)
<1>3. /\ q \in Plan /\ q.status[stage[t]] = st
      /\ q.retries[stage[t]] = local[t].retries[stage[t]] + n
      /\ \A i \in Stages \ {stage[t]} :
            q.status[i] = local[t].status[i] /\ q.retries[i] = local[t].retries[i]
  BY <1>2, Mark DEF TInv
<1>4. PlanOK(local[t])
  BY DEF TInv, PlansOK
<1>5. ASSUME NEW s \in Stages PROVE q.retries[s] < MaxRetries \/ q.status[s] = "awaiting_user"
  <2> HIDE DEF q
  <2>1. CASE s # stage[t]
    BY <1>3, <1>4, <2>1 DEF PlanOK
  <2>2. CASE s = stage[t] /\ st # "awaiting_user"
    <3>1. q.retries[s] = local[t].retries[stage[t]] + n
      BY <1>3, <2>2
    <3>2. n = 0 \/ ~(local[t].retries[stage[t]] + 1 >= MaxRetries)
      BY <2>2 DEF spent
    <3> QED BY <1>1, <3>1, <3>2
  <2> QED BY <1>3, <2>1, <2>2
<1> QED BY <1>3, <1>5 DEF PlanOK

-----------------------------------------------------------------------------
(* Types and plans.                                                         *)

\* A step of a pipeline keeps the types and the retries of the plans.
LEMMA PipelineTInv == ASSUME TInv, NEW t \in Tasks, Pipeline(t) PROVE TInv'
<1> USE DEF StageStatus, Places
<1>1. CASE PipelineReads(t)
  <2>1. plan[slug[t]] \in Plan \cup {NoPlan} /\ 1 \in 1..(NStages + 1)
    BY BoundsAssumption DEF TInv, TypeOK
  <2>2. /\ local' \in [Tasks -> Plan] /\ stage' \in [Tasks -> 1..(NStages + 1)]
        /\ struck' \subseteq Tasks
    BY <1>1, <2>1 DEF TInv, TypeOK, PipelineReads
  <2>3. pipeline' \in [Tasks -> Places]
    BY <1>1 DEF TInv, TypeOK, PipelineReads, goto
  <2>4. TypeOK'
    BY <1>1, <2>2, <2>3 DEF TInv, TypeOK, PipelineReads, fileVars, workVars
  <2>5. PlansOK'
    <3>1. /\ plan' = plan /\ slug[t] \in Dirs
          /\ plan[slug[t]] # NoPlan => PlanOK(plan[slug[t]])
      BY <1>1 DEF TInv, TypeOK, PlansOK, PipelineReads, fileVars
    <3>2. \A u \in Tasks : local'[u] = local[u] \/ (local'[u] = plan[slug[t]] /\ plan[slug[t]] # NoPlan)
      BY <1>1 DEF TInv, TypeOK, PipelineReads
    <3>3. ASSUME NEW u \in Tasks PROVE PlanOK(local'[u])
      BY <3>1, <3>2 DEF TInv, PlansOK
    <3>4. ASSUME NEW d \in Dirs, plan'[d] # NoPlan PROVE PlanOK(plan'[d])
      BY <3>1, <3>4 DEF TInv, PlansOK
    <3> QED BY <3>3, <3>4 DEF PlansOK, PlanOK
  <2>6. AtBuild'
    BY <1>1 DEF TInv, TypeOK, AtBuild, PipelineReads, goto, Trying
  <2> QED BY <2>4, <2>5, <2>6 DEF TInv
<1>2. CASE SkipStage(t)
  <2>1. TypeOK'
    BY <1>2, BoundsAssumption DEF TInv, TypeOK, SkipStage, fileVars, workVars, faultVars
  <2>2. PlansOK' /\ AtBuild'
    BY <1>2 DEF TInv, TypeOK, PlansOK, PlanOK, AtBuild, SkipStage, fileVars
  <2> QED BY <2>1, <2>2 DEF TInv
<1>3. CASE StageAwaits(t) \/ AllStagesOver(t)
  <2>1. local[t] \in Plan /\ PlanOK(local[t])
    BY DEF TInv, TypeOK, PlansOK
  <2>2. /\ local' \in [Tasks -> Plan] /\ plan' \in [Dirs -> Plan \cup {NoPlan}] /\ PlansOK'
        /\ local' = local
    BY <1>3, <2>1, MarkedPlans DEF StageAwaits, AllStagesOver, TInv, TypeOK, write_plan
  <2>3. TypeOK'
    BY <1>3, <2>2 DEF TInv, TypeOK, StageAwaits, AllStagesOver, goto, workVars, faultVars
  <2>4. AtBuild'
    BY <1>3, <2>2 DEF TInv, TypeOK, AtBuild, StageAwaits, AllStagesOver, goto, Trying
  <2> QED BY <2>2, <2>3, <2>4 DEF TInv
<1>4. CASE BeginStage(t)
  <2>1. stage[t] \in Stages /\ local[t].status[stage[t]] # "awaiting_user"
    BY <1>4, BoundsAssumption DEF BeginStage, TInv, TypeOK, Stages
  <2> DEFINE q == update_stage(t, "running", 0)
  <2>2. q \in Plan /\ PlanOK(q) /\ q.status[stage[t]] = "running"
    BY <2>1, MarkedIsOK
  <2>3. /\ local' \in [Tasks -> Plan] /\ plan' \in [Dirs -> Plan \cup {NoPlan}] /\ PlansOK'
        /\ local'[t] = q /\ \A u \in Tasks \ {t} : local'[u] = local[u]
    BY <1>4, <2>2, MarkedPlans DEF BeginStage
  <2>4. TypeOK'
    <3>1. tries' \in [Tasks -> [Stages -> Nat]]
      BY <1>4, <2>1 DEF TInv, TypeOK, BeginStage
    <3> QED BY <1>4, <2>3, <3>1 DEF TInv, TypeOK, BeginStage, goto, faultVars
  <2>5. AtBuild'
    <3> HIDE DEF q
    <3> QED BY <1>4, <2>1, <2>2, <2>3 DEF TInv, TypeOK, AtBuild, BeginStage, goto
  <2> QED BY <2>3, <2>4, <2>5 DEF TInv
<1>8. CASE MakeAndValidate(t)
  <2>1. stage[t] \in Stages
    BY <1>8 DEF MakeAndValidate, TInv, AtBuild, Trying
  <2>2. built' \in [Tasks -> SUBSET Stages]
    BY <1>8, <2>1 DEF TInv, TypeOK, MakeAndValidate
  <2>3. TypeOK'
    BY <1>8, <2>2 DEF TInv, TypeOK, MakeAndValidate, goto, fileVars, faultVars
  <2>4. PlansOK'
    BY <1>8 DEF TInv, PlansOK, PlanOK, MakeAndValidate, fileVars
  <2>5. \A u \in Tasks : pipeline'[u] \in Trying => pipeline[u] \in Trying
    BY <1>8 DEF TInv, TypeOK, MakeAndValidate, goto, Trying
  <2>6. AtBuild'
    BY <1>8, <2>5 DEF TInv, AtBuild, MakeAndValidate
  <2> QED BY <2>3, <2>4, <2>6 DEF TInv
<1>5. CASE StageSucceeds(t)
  <2>1. stage[t] \in Stages /\ local[t].status[stage[t]] # "awaiting_user"
    BY <1>5 DEF StageSucceeds, TInv, AtBuild, Trying
  <2> DEFINE q == update_stage(t, "completed", 0)
  <2>2. q \in Plan /\ PlanOK(q)
    BY <2>1, MarkedIsOK
  <2>3. /\ local' \in [Tasks -> Plan] /\ plan' \in [Dirs -> Plan \cup {NoPlan}] /\ PlansOK'
        /\ \A u \in Tasks \ {t} : local'[u] = local[u]
    BY <1>5, <2>2, MarkedPlans DEF StageSucceeds
  <2>4. TypeOK'
    <3>1. stage[t] + 1 \in 1..(NStages + 1)
      BY <2>1, BoundsAssumption DEF Stages
    <3>2. stage' \in [Tasks -> 1..(NStages + 1)]
      BY <1>5, <3>1 DEF TInv, TypeOK, StageSucceeds
    <3> QED BY <1>5, <2>3, <3>2 DEF TInv, TypeOK, StageSucceeds, goto, workVars, faultVars
  <2>5. AtBuild'
    BY <1>5, <2>3 DEF TInv, TypeOK, AtBuild, StageSucceeds, goto, Trying
  <2> QED BY <2>3, <2>4, <2>5 DEF TInv
<1>6. CASE StageFails(t)
  <2>1. stage[t] \in Stages /\ local[t].status[stage[t]] # "awaiting_user"
    BY <1>6 DEF StageFails, TInv, AtBuild, Trying
  <2> DEFINE st == IF spent(t) THEN "awaiting_user" ELSE "failed"
             q == update_stage(t, st, 1)
  <2>2. q \in Plan /\ PlanOK(q)
    BY <2>1, MarkedIsOK
  <2>3. /\ local' \in [Tasks -> Plan] /\ plan' \in [Dirs -> Plan \cup {NoPlan}] /\ PlansOK'
        /\ \A u \in Tasks \ {t} : local'[u] = local[u]
    BY <1>6, <2>2, MarkedPlans DEF StageFails
  <2>4. TypeOK'
    BY <1>6, <2>3 DEF TInv, TypeOK, StageFails, goto, workVars, faultVars
  <2>5. AtBuild'
    BY <1>6, <2>3 DEF TInv, TypeOK, AtBuild, StageFails, goto, Trying
  <2> QED BY <2>3, <2>4, <2>5 DEF TInv
<1>7. CASE Park(t) \/ Finish(t)
  <2>1. TypeOK'
    BY <1>7 DEF TInv, TypeOK, Park, Finish, upsert, goto, workVars, faultVars
  <2>2. PlansOK' /\ AtBuild'
    BY <1>7 DEF TInv, TypeOK, PlansOK, PlanOK, AtBuild, Park, Finish, upsert, goto, Trying
  <2> QED BY <2>1, <2>2 DEF TInv
<1> QED BY <1>1, <1>2, <1>3, <1>4, <1>5, <1>6, <1>7, <1>8 DEF Pipeline

\* So do the requests,
LEMMA RequestTInv == ASSUME TInv, NEW t \in Tasks, Request(t) PROVE TInv'
<1> USE DEF StageStatus, Places
<1>1. CASE StartPlans(t)
  <2>1. slug[t] \in Dirs /\ plan' = [plan EXCEPT ![slug[t]] = default_plan]
    BY <1>1 DEF TInv, TypeOK, StartPlans
  <2>2. TypeOK'
    BY <1>1, <2>1, DefaultPlan DEF TInv, TypeOK, StartPlans, Requests, threadVars, workVars, faultVars
  <2>3. \A d \in Dirs : plan'[d] # NoPlan => PlanOK(plan'[d])
    BY <2>1, DefaultPlan DEF TInv, TypeOK, PlansOK
  <2>4. PlansOK' /\ AtBuild'
    BY <1>1, <2>3 DEF TInv, PlansOK, PlanOK, AtBuild, StartPlans, threadVars
  <2> QED BY <2>2, <2>4 DEF TInv
<1>2. CASE StartRecords(t) \/ ResumeReads(t) \/ ResumeRecords(t) \/ TaskDone(t)
  <2>1. TypeOK'
    <3>1. CASE StartRecords(t) \/ ResumeRecords(t)
      <4>1. pipeline' \in [Tasks -> Places] /\ UNCHANGED <<local, stage>>
        BY <3>1 DEF TInv, TypeOK, StartRecords, ResumeRecords, schedule
      <4>2. registry' \in [Tasks -> {"none", "running", "awaiting_user", "completed"}]
        BY <3>1 DEF TInv, TypeOK, StartRecords, ResumeRecords
      <4>3. stale' \subseteq Tasks /\ request' \in Requests \cup {NoRequest}
        BY <3>1 DEF TInv, TypeOK, StartRecords, ResumeRecords, faultVars
      <4> QED BY <3>1, <4>1, <4>2, <4>3 DEF TInv, TypeOK, StartRecords, ResumeRecords,
                 workVars, faultVars
    <3>2. CASE ResumeReads(t)
      <4>1. resumes' \in 0..MaxResumes /\ request' \in Requests \cup {NoRequest}
        BY <3>2, BoundsAssumption DEF TInv, TypeOK, ResumeReads, Requests
      <4> QED BY <3>2, <4>1 DEF TInv, TypeOK, ResumeReads, fileVars, threadVars, workVars
    <3>3. CASE TaskDone(t)
      BY <3>3 DEF TInv, TypeOK, TaskDone, fileVars, workVars, faultVars
    <3> QED BY <1>2, <3>1, <3>2, <3>3
  <2>2. PlansOK' /\ AtBuild'
    BY <1>2 DEF TInv, TypeOK, PlansOK, PlanOK, AtBuild, StartRecords, ResumeReads, ResumeRecords, TaskDone,
       schedule, fileVars, threadVars, Trying
  <2> QED BY <2>1, <2>2 DEF TInv
<1> QED BY <1>1, <1>2 DEF Request

\* ... and the faults: a write that is cut short empties files.
LEMMA Lose ==
    ASSUME TypeOK, NEW torn, NEW lost \in BOOLEAN, lose(torn, lost)
    PROVE  /\ plan' \in [Dirs -> Plan \cup {NoPlan}]
           /\ \A d \in Dirs : plan'[d] = NoPlan \/ plan'[d] = plan[d]
           /\ \A d \in Dirs : d \notin torn => plan'[d] = plan[d]
           /\ registry' \in [Tasks -> {"none", "running", "awaiting_user", "completed"}]
           /\ \A u \in Tasks : registry'[u] = registry[u] \/ (registry'[u] = "none" /\ u \in Losing(lost))
<1>1. /\ plan' = [d \in Dirs |-> IF d \in torn THEN NoPlan ELSE plan[d]]
      /\ registry' = IF lost THEN [t \in Tasks |-> "none"] ELSE registry
  BY DEF lose
<1>2. ASSUME NEW u \in Tasks
      PROVE  registry'[u] = registry[u] \/ (registry'[u] = "none" /\ u \in Losing(lost))
  BY <1>1 DEF Losing
<1> QED BY <1>1, <1>2 DEF TypeOK

Fault == Crash \/ \E t \in Tasks : Raises(t) \/ RequestRaises(t)

\* A fault ends a pipeline, or leaves it with its plan.
Spared(u) ==
    \/ pipeline'[u] \in {"none", "over"}
    \/ /\ pipeline'[u] = pipeline[u] /\ local'[u] = local[u] /\ stage'[u] = stage[u]
       /\ plan'[slug[u]] = plan[slug[u]] \/ Shared(u) \/ request = <<"start", u>>

\* What a fault changes.
LEMMA FaultStep ==
    ASSUME TypeOK, Fault
    PROVE  /\ UNCHANGED <<slug, workVars, resumes, stale>>
           /\ faults' = faults + 1 /\ faults' \in 0..MaxFaults
           /\ struck \subseteq struck' /\ struck' \subseteq Tasks
           /\ plan' \in [Dirs -> Plan \cup {NoPlan}]
           /\ \A d \in Dirs : plan'[d] = NoPlan \/ plan'[d] = plan[d]
           /\ registry' \in [Tasks -> {"none", "running", "awaiting_user", "completed"}]
           /\ \A u \in Tasks : registry'[u] = registry[u] \/ (registry'[u] = "none" /\ u \in struck')
           /\ \A u \in Tasks : Spared(u)
<1>1. /\ UNCHANGED <<slug, workVars, resumes, stale>>
      /\ faults' = faults + 1 /\ faults' \in 0..MaxFaults
  <2>1. /\ UNCHANGED <<slug, workVars, resumes, stale>>
        /\ faults < MaxFaults /\ faults' = faults + 1
    BY DEF Fault, Crash, Raises, RequestRaises
  <2>2. faults \in 0..MaxFaults
    BY DEF TypeOK
  <2> QED BY <2>1, <2>2, BoundsAssumption
<1>2. ASSUME NEW t \in Tasks, Raises(t)
      PROVE  \E torn \in {{}, {slug[t]}}, lost \in BOOLEAN :
                lose(torn, lost) /\ struck' = struck \cup {t} \cup Losing(lost)
  BY <1>2 DEF Raises
<1>3. ASSUME NEW t \in Tasks, RequestRaises(t)
      PROVE  \E torn \in {{}, {slug[t]}}, lost \in BOOLEAN :
                /\ lose(torn, lost) /\ struck' = struck \cup {t} \cup Losing(lost)
                /\ request # <<"start", t>> => torn = {}
  BY <1>3 DEF RequestRaises
<1>4. CASE Crash
  <2>1. \E torn : \E lost \in BOOLEAN : lose(torn, lost)
    <3>1. PICK torn \in SUBSET {d \in Dirs : Writing(d)}, lost \in IF Recording THEN BOOLEAN ELSE {FALSE} :
             lose(torn, lost)
      BY <1>4 DEF Crash
    <3>2. lost \in BOOLEAN
      OBVIOUS
    <3> QED BY <3>1, <3>2
  <2>2. \A u \in Tasks : registry[u] # "none" => u \in struck'
    BY <1>4 DEF Crash
  <2>3. \A u \in Tasks : Spared(u)
    BY <1>4 DEF Crash, Spared
  <2>4. struck \subseteq struck' /\ struck' \subseteq Tasks
    BY <1>4 DEF Crash, TypeOK
  <2> QED BY <1>1, <2>1, <2>2, <2>3, <2>4, Lose DEF Losing
<1>5. ASSUME NEW t \in Tasks, Raises(t) \/ RequestRaises(t),
             NEW torn \in {{}, {slug[t]}}, NEW lost \in BOOLEAN, lose(torn, lost),
             struck' = struck \cup {t} \cup Losing(lost),
             Raises(t) \/ (RequestRaises(t) /\ (request # <<"start", t>> => torn = {})),
             NEW u \in Tasks
      PROVE  Spared(u)
  <2>1. \A d \in Dirs : d \notin torn => plan'[d] = plan[d]
    BY <1>5, Lose
  <2>2. slug[u] \in Dirs
    BY DEF TypeOK
  <2>3. CASE u = t /\ Raises(t)
    BY <2>3 DEF Raises, goto, TypeOK, Spared
  <2>4. CASE u # t
    <3>1. Shared(u) \/ slug[u] \notin torn
      BY <2>4, <1>5 DEF Shared
    <3>2. pipeline'[u] = pipeline[u] /\ local'[u] = local[u] /\ stage'[u] = stage[u]
      BY <1>5, <2>4 DEF Raises, RequestRaises, goto, threadVars, TypeOK
    <3> QED BY <2>1, <2>2, <3>1, <3>2 DEF Spared
  <2>5. CASE u = t /\ ~Raises(t)
    <3>1. pipeline'[u] = pipeline[u] /\ local'[u] = local[u] /\ stage'[u] = stage[u]
      BY <1>5, <2>5 DEF RequestRaises, threadVars
    <3>2. request # <<"start", t>> => slug[u] \notin torn
      BY <1>5, <2>5
    <3> QED BY <2>1, <2>2, <2>5, <3>1, <3>2 DEF Spared
  <2> QED BY <2>3, <2>4, <2>5
<1>6. CASE \E t \in Tasks : Raises(t) \/ RequestRaises(t)
  <2>1. PICK t \in Tasks : Raises(t) \/ RequestRaises(t)
    BY <1>6
  <2>2. PICK torn \in {{}, {slug[t]}}, lost \in BOOLEAN :
           /\ lose(torn, lost) /\ struck' = struck \cup {t} \cup Losing(lost)
           /\ Raises(t) \/ (RequestRaises(t) /\ (request # <<"start", t>> => torn = {}))
    BY <1>2, <1>3, <2>1
  <2>3. \A u \in Tasks : Spared(u)
    BY <1>5, <2>1, <2>2
  <2>4. struck \subseteq struck' /\ struck' \subseteq Tasks /\ Losing(lost) \subseteq struck'
    BY <2>2 DEF TypeOK, Losing
  <2> QED BY <1>1, <2>2, <2>3, <2>4, Lose
<1> QED BY <1>4, <1>6 DEF Fault

LEMMA FaultTInv == ASSUME TInv, Fault PROVE TInv'
<1>1. TypeOK /\ (\A u \in Tasks : PlanOK(local[u])) /\ \A d \in Dirs : plan[d] # NoPlan => PlanOK(plan[d])
  BY DEF TInv, PlansOK
<1>2. /\ pipeline' \in [Tasks -> Places] /\ local' \in [Tasks -> Plan]
      /\ stage' \in [Tasks -> 1..(NStages + 1)] /\ request' \in Requests \cup {NoRequest}
      /\ \A u \in Tasks : PlanOK(local'[u])
  <2>1. CASE Crash
    BY <2>1, DefaultPlan, BoundsAssumption DEF Crash, Places
  <2>2. CASE \E t \in Tasks : Raises(t) \/ RequestRaises(t)
    BY <1>1, <2>2 DEF Raises, RequestRaises, goto, threadVars, TypeOK, Places
  <2> QED BY <2>1, <2>2 DEF Fault
<1>3. TypeOK'
  BY <1>1, <1>2, FaultStep DEF TypeOK, workVars
<1>4. PlansOK'
  <2>1. ASSUME NEW d \in Dirs, plan'[d] # NoPlan PROVE PlanOK(plan'[d])
    BY <1>1, <2>1, FaultStep
  <2> QED BY <1>2, <2>1 DEF PlansOK, PlanOK
<1>5. AtBuild'
  <2>1. \A u \in Tasks : Spared(u)
    BY <1>1, FaultStep
  <2> QED BY <2>1 DEF TInv, AtBuild, Spared, Trying
<1> QED BY <1>3, <1>4, <1>5 DEF TInv

\* The types and the retries of the plans are invariant.
LEMMA NextTInv == TInv /\ [Next]_vars => TInv'
<1>1. ASSUME TInv, UNCHANGED vars PROVE TInv'
  BY <1>1 DEF TInv, TypeOK, PlansOK, PlanOK, AtBuild, vars, fileVars, threadVars, workVars, faultVars
<1> QED BY <1>1, PipelineTInv, RequestTInv, FaultTInv DEF Next, Fault

-----------------------------------------------------------------------------
(* The plan of a task with a worktree of its own.                           *)

\* A step that leaves a task alone
Untouched(u) ==
    /\ slug' = slug /\ plan'[slug[u]] = plan[slug[u]]
    /\ pipeline'[u] = pipeline[u] /\ local'[u] = local[u] /\ stage'[u] = stage[u]
    /\ registry'[u] = registry[u] /\ built'[u] = built[u] /\ tries'[u] = tries[u]
    /\ faults' = faults

LEMMA UntouchedOwn == ASSUME NEW u \in Tasks, Own(u), Untouched(u) PROVE Own(u)'
BY DEF Own, Shown, Counted, LastTry, Working, Untouched

\* A step that marks the stage of a pipeline leaves the other tasks alone, if they have
\* worktrees of their own, and the record of its own.
LEMMA MarkedOwn ==
    ASSUME TInv, OwnInv, NEW t \in Tasks, NEW p \in Plan, PlanOK(p), write_plan(t, p),
           slug' = slug, registry' = registry, faults' = faults,
           \A u \in Tasks \ {t} : /\ pipeline'[u] = pipeline[u] /\ stage'[u] = stage[u]
                                  /\ built'[u] = built[u] /\ tries'[u] = tries[u],
           ~Shared(t) => Own(t)'
    PROVE  OwnInv'
<1>1. /\ \A u \in Tasks \ {t} : local'[u] = local[u]
      /\ \A d \in Dirs \ {slug[t]} : plan'[d] = plan[d]
  BY MarkedPlans
<1>2. ASSUME NEW u \in Tasks \ {t}, ~Shared(u) PROVE Own(u)'
  <2>1. slug[u] \in Dirs \ {slug[t]}
    BY <1>2 DEF Shared, TInv, TypeOK
  <2>2. Untouched(u)
    BY <1>1, <2>1 DEF Untouched
  <2> QED BY <1>2, <2>2, UntouchedOwn DEF OwnInv
<1> QED BY <1>2 DEF OwnInv, Shared

\* Numbers of tries
LEMMA Numbers ==
    ASSUME TInv, NEW t \in Tasks, NEW s \in Stages
    PROVE  /\ tries[t][s] \in Nat /\ faults \in Nat /\ MaxRetries \in Nat
           /\ plan[slug[t]] # NoPlan => plan[slug[t]].retries[s] \in Nat
<1>1. plan[slug[t]] \in Plan \cup {NoPlan}
  BY DEF TInv, TypeOK
<1> QED BY <1>1, BoundsAssumption DEF TInv, TypeOK, Plan

\* A step of a pipeline keeps what its plan shows and counts.
LEMMA PipelineOwn == ASSUME TInv, OwnInv, NEW t \in Tasks, Pipeline(t) PROVE OwnInv'
<1>1. CASE PipelineReads(t)
  <2>1. ASSUME NEW u \in Tasks, ~Shared(u) PROVE Own(u)'
    <3>1. Own(u) /\ slug' = slug /\ plan' = plan /\ registry' = registry
          /\ built' = built /\ tries' = tries /\ faults' = faults
      BY <1>1, <2>1 DEF OwnInv, PipelineReads, fileVars, workVars
    <3>2. CASE u # t
      BY <1>1, <3>1, <3>2, UntouchedOwn DEF TInv, TypeOK, PipelineReads, goto, Untouched
    <3>3. ASSUME u = t PROVE LastTry(t, 1)' = LastTry(t, 1) /\ \A s \in Stages : LastTry(t, s)' = LastTry(t, s)
      BY <1>1, <3>1 DEF PipelineReads, goto, TInv, TypeOK, LastTry, Trying
    <3>4. u = t => Counted(t)'
      BY <3>1, <3>3 DEF Own, Counted
    <3>5. CASE u = t /\ pipeline'[t] = "loop"
      <4>1. local'[t] = plan[slug[t]] /\ stage'[t] = 1
        BY <1>1, <3>5 DEF PipelineReads, goto, TInv, TypeOK
      <4>2. \A s \in Stages : ~(s < 1)
        BY DEF Stages
      <4> QED BY <3>1, <3>4, <3>5, <4>1, <4>2 DEF Own, Shown, Working
    <3>6. CASE u = t /\ pipeline'[t] # "loop"
      <4>1. pipeline'[t] = "over"
        BY <1>1, <3>6 DEF PipelineReads, goto, TInv, TypeOK
      <4> QED BY <3>1, <3>4, <3>6, <4>1 DEF Own, Shown, Working, Trying
    <3> QED BY <3>2, <3>5, <3>6
  <2> QED BY <1>1, <2>1 DEF OwnInv, Shared, PipelineReads
<1>2. CASE SkipStage(t)
  <2>1. ASSUME NEW u \in Tasks, ~Shared(u) PROVE Own(u)'
    <3>1. /\ Own(u) /\ slug' = slug /\ plan' = plan /\ registry' = registry /\ faults' = faults
          /\ built' = built /\ tries' = tries /\ pipeline' = pipeline /\ local' = local
      BY <1>2, <2>1 DEF OwnInv, SkipStage, fileVars, workVars, faultVars
    <3>2. CASE u # t
      BY <1>2, <3>1, <3>2, UntouchedOwn DEF TInv, TypeOK, SkipStage, Untouched
    <3>3. CASE u = t
      <4>1. /\ pipeline[t] = "loop" /\ stage'[t] = stage[t] + 1 /\ stage[t] \in Stages
            /\ local[t].status[stage[t]] = "completed"
        BY <1>2, BoundsAssumption DEF SkipStage, TInv, TypeOK, Stages
      <4>2. plan[slug[t]] = local[t] /\ local[t] # NoPlan
        BY <3>1, <3>3, <4>1, NoPlanAssumption DEF Own, Shown, Working, TInv, TypeOK
      <4>3. stage[t] \in built[t] /\ \A s \in Stages : s < stage[t] => s \in built[t]
        BY <3>1, <3>3, <4>1, <4>2 DEF Own, Shown
      <4>4. \A s \in Stages : s < stage[t] + 1 => s \in built[t]
        BY <4>1, <4>3 DEF Stages
      <4>5. \A s \in Stages : LastTry(t, s)' = LastTry(t, s)
        BY <3>1, <4>1 DEF LastTry, Trying
      <4>6. Counted(t)'
        BY <3>1, <3>3, <4>5 DEF Own, Counted
      <4> QED BY <3>1, <3>3, <4>1, <4>4, <4>6 DEF Own, Shown, Working, Trying
    <3> QED BY <3>2, <3>3
  <2> QED BY <1>2, <2>1 DEF OwnInv, Shared, SkipStage
<1>3. CASE StageAwaits(t) \/ AllStagesOver(t)
  <2>1. local[t] \in Plan /\ PlanOK(local[t])
    BY DEF TInv, TypeOK, PlansOK
  <2>2. /\ write_plan(t, local[t]) /\ slug' = slug /\ registry' = registry
        /\ stage' = stage /\ built' = built /\ tries' = tries /\ faults' = faults
        /\ pipeline[t] = "loop"
        /\ \A u \in Tasks \ {t} : pipeline'[u] = pipeline[u]
        /\ pipeline'[t] = "park" \/ (pipeline'[t] = "finish" /\ stage[t] > NStages)
    BY <1>3 DEF StageAwaits, AllStagesOver, goto, workVars, faultVars, TInv, TypeOK
  <2>3. local'[t] = local[t] /\ plan'[slug[t]] = local[t]
    BY <2>1, <2>2, MarkedPlans
  <2>4. ASSUME ~Shared(t) PROVE Own(t)'
    <3>1. Own(t)
      BY <2>4 DEF OwnInv
    <3>2. plan[slug[t]] = local[t]
      BY <2>2, <3>1 DEF Own, Shown, Working
    <3>3. pipeline'[t] = "finish" => built[t] = Stages
      <4>1. ASSUME pipeline'[t] = "finish" PROVE \A s \in Stages : s \in built[t]
        <5>1. stage[t] > NStages /\ \A s \in Stages : s < stage[t]
          BY <2>2, <4>1, BoundsAssumption DEF Stages, TInv, TypeOK
        <5> QED BY <2>2, <3>1, <5>1 DEF Own, Shown
      <4>2. built[t] \subseteq Stages
        BY DEF TInv, TypeOK
      <4> QED BY <4>1, <4>2
    <3>4. \A s \in Stages : LastTry(t, s)' = LastTry(t, s)
      BY <2>2, <2>3, <3>2 DEF LastTry, Trying
    <3>5. Counted(t)'
      BY <2>2, <2>3, <3>1, <3>2, <3>4 DEF Own, Counted
    <3> QED BY <2>2, <2>3, <3>1, <3>2, <3>3, <3>5 DEF Own, Shown, Working, Trying
  <2> QED BY <2>1, <2>2, <2>4, MarkedOwn
<1>4. CASE BeginStage(t)
  <2>1. /\ stage[t] \in Stages /\ local[t].status[stage[t]] # "awaiting_user"
        /\ local[t].status[stage[t]] # "completed"
    BY <1>4, BoundsAssumption DEF BeginStage, TInv, TypeOK, Stages
  <2> DEFINE q == update_stage(t, "running", 0)
  <2>2. /\ q \in Plan /\ PlanOK(q) /\ q.status[stage[t]] = "running"
        /\ q.retries[stage[t]] = local[t].retries[stage[t]] + 0
        /\ \A i \in Stages \ {stage[t]} :
              q.status[i] = local[t].status[i] /\ q.retries[i] = local[t].retries[i]
    BY <2>1, MarkedIsOK DEF StageStatus
  <2>3. /\ write_plan(t, q) /\ slug' = slug /\ registry' = registry
        /\ stage' = stage /\ built' = built /\ faults' = faults
        /\ pipeline[t] = "loop" /\ pipeline'[t] = "build"
        /\ tries'[t][stage[t]] = tries[t][stage[t]] + 1
        /\ \A i \in Stages \ {stage[t]} : tries'[t][i] = tries[t][i]
        /\ \A u \in Tasks \ {t} : pipeline'[u] = pipeline[u] /\ tries'[u] = tries[u]
    BY <1>4, <2>1 DEF BeginStage, goto, faultVars, TInv, TypeOK
  <2> HIDE DEF q
  <2>4. local'[t] = q /\ plan'[slug[t]] = q
    BY <2>2, <2>3, MarkedPlans
  <2>5. /\ local[t].retries[stage[t]] \in Nat /\ MaxRetries \in Nat
        /\ local[t].retries[stage[t]] < MaxRetries
    BY <2>1, RetriesLeft
  <2>6. ASSUME ~Shared(t) PROVE Own(t)'
    <3>1. Own(t) /\ local[t] # NoPlan /\ plan[slug[t]] = local[t]
      BY <2>3, <2>6, NoPlanAssumption DEF OwnInv, Own, Shown, Working, TInv, TypeOK
    <3>2. \A s \in Stages : q.status[s] = "completed" => s \in built[t]
      BY <2>1, <2>2, <3>1 DEF Own, Shown
    <3>3. ASSUME NEW s \in Stages
          PROVE  /\ tries'[t][s] <= q.retries[s] + LastTry(t, s)' + faults
                 /\ tries'[t][s] <= MaxRetries + faults
      <4>1. /\ tries[t][s] <= local[t].retries[s] + LastTry(t, s) + faults
            /\ tries[t][s] <= MaxRetries + faults
        BY <3>1 DEF Own, Counted
      <4>2. tries[t][s] \in Nat /\ faults \in Nat /\ local[t].retries[s] \in Nat
        BY <3>1, Numbers
      <4>3. CASE s = stage[t]
        <5>1. LastTry(t, s) = 0 /\ LastTry(t, s)' = 1
          BY <2>1, <2>3, <3>1, <4>3 DEF LastTry, Trying
        <5> QED BY <2>2, <2>3, <2>5, <4>1, <4>2, <4>3, <5>1
      <4>4. CASE s # stage[t]
        <5>1. LastTry(t, s)' = LastTry(t, s) /\ tries'[t][s] = tries[t][s] /\ q.retries[s] = local[t].retries[s]
          BY <2>2, <2>3, <2>4, <3>1, <4>4 DEF LastTry, Trying
        <5> QED BY <4>1, <5>1
      <4> QED BY <4>3, <4>4
    <3>4. Shown(t)'
      BY <2>3, <2>4, <3>1, <3>2 DEF Own, Shown, Working, Trying
    <3>5. Counted(t)'
      BY <2>3, <2>4, <3>3 DEF Counted
    <3> QED BY <2>3, <3>1, <3>3, <3>4, <3>5 DEF Own
  <2> QED BY <2>2, <2>3, <2>6, MarkedOwn
<1>8. CASE MakeAndValidate(t)
  <2>1. /\ stage[t] \in Stages /\ slug' = slug /\ plan' = plan /\ registry' = registry /\ faults' = faults
        /\ stage' = stage /\ local' = local /\ tries' = tries
        /\ pipeline[t] = "build" /\ pipeline'[t] \in {"valid", "invalid"}
        /\ built[t] \subseteq built'[t] /\ built'[t] \subseteq Stages
        /\ pipeline'[t] = "valid" => stage[t] \in built'[t]
        /\ \A u \in Tasks \ {t} : pipeline'[u] = pipeline[u] /\ built'[u] = built[u]
    BY <1>8 DEF MakeAndValidate, goto, fileVars, faultVars, TInv, TypeOK, AtBuild, Trying
  <2>2. ASSUME NEW u \in Tasks, ~Shared(u) PROVE Own(u)'
    <3>1. Own(u)
      BY <2>2 DEF OwnInv
    <3>2. CASE u # t
      BY <2>1, <3>1, <3>2, UntouchedOwn DEF Untouched
    <3>3. CASE u = t
      <4>1. \A s \in Stages : LastTry(t, s)' = LastTry(t, s)
        BY <2>1 DEF LastTry, Trying
      <4>2. Counted(t)'
        BY <2>1, <3>1, <3>3, <4>1 DEF Own, Counted
      <4>3. Shown(t)'
        BY <2>1, <3>1, <3>3 DEF Own, Shown, Working, Trying
      <4> QED BY <2>1, <3>1, <3>3, <4>2, <4>3 DEF Own
    <3> QED BY <3>2, <3>3
  <2> QED BY <2>1, <2>2 DEF OwnInv, Shared
<1>5. CASE StageSucceeds(t)
  <2>1. stage[t] \in Stages /\ local[t].status[stage[t]] # "awaiting_user"
    BY <1>5 DEF StageSucceeds, TInv, AtBuild, Trying
  <2> DEFINE q == update_stage(t, "completed", 0)
  <2>2. /\ q \in Plan /\ PlanOK(q) /\ q.status[stage[t]] = "completed"
        /\ q.retries[stage[t]] = local[t].retries[stage[t]] + 0
        /\ \A i \in Stages \ {stage[t]} :
              q.status[i] = local[t].status[i] /\ q.retries[i] = local[t].retries[i]
    BY <2>1, MarkedIsOK DEF StageStatus
  <2>3. /\ write_plan(t, q) /\ slug' = slug /\ registry' = registry /\ tries' = tries
        /\ built' = built /\ faults' = faults
        /\ pipeline[t] = "valid" /\ pipeline'[t] = "loop"
        /\ stage'[t] = stage[t] + 1
        /\ \A u \in Tasks \ {t} : pipeline'[u] = pipeline[u] /\ stage'[u] = stage[u]
    BY <1>5 DEF StageSucceeds, goto, workVars, faultVars, TInv, TypeOK
  <2> HIDE DEF q
  <2>4. local'[t] = q /\ plan'[slug[t]] = q
    BY <2>2, <2>3, MarkedPlans
  <2>5. local[t].retries[stage[t]] \in Nat
    BY <2>1, RetriesLeft
  <2>6. ASSUME ~Shared(t) PROVE Own(t)'
    <3>1. Own(t) /\ local[t] # NoPlan /\ plan[slug[t]] = local[t]
      BY <2>3, <2>6, NoPlanAssumption DEF OwnInv, Own, Shown, Working, Trying, TInv, TypeOK
    <3>2. stage[t] \in built[t]
      BY <2>3, <3>1 DEF Own, Shown
    <3>3. \A s \in Stages : q.status[s] = "completed" => s \in built[t]
      BY <2>2, <3>1, <3>2 DEF Own, Shown
    <3>4. \A s \in Stages : s < stage'[t] => s \in built[t]
      BY <2>1, <2>3, <3>1, <3>2 DEF Own, Shown, Stages, Trying
    <3>5. ASSUME NEW s \in Stages PROVE q.retries[s] = local[t].retries[s] /\ LastTry(t, s)' = LastTry(t, s)
      <4>1. CASE s = stage[t]
        BY <2>2, <2>3, <2>4, <2>5, <4>1 DEF LastTry, Trying
      <4>2. CASE s # stage[t]
        BY <2>2, <2>3, <2>4, <3>1, <4>2 DEF LastTry, Trying
      <4> QED BY <4>1, <4>2
    <3>6. Counted(t)'
      BY <2>3, <2>4, <3>1, <3>5 DEF Own, Counted
    <3>7. Shown(t)'
      BY <2>3, <2>4, <3>3, <3>4 DEF Shown, Working, Trying
    <3> QED BY <2>3, <3>1, <3>6, <3>7 DEF Own
  <2> QED BY <2>2, <2>3, <2>6, MarkedOwn
<1>6. CASE StageFails(t)
  <2>1. stage[t] \in Stages /\ local[t].status[stage[t]] # "awaiting_user"
    BY <1>6 DEF StageFails, TInv, AtBuild, Trying
  <2> DEFINE st == IF spent(t) THEN "awaiting_user" ELSE "failed"
             q == update_stage(t, st, 1)
  <2>2. /\ q \in Plan /\ PlanOK(q) /\ q.status[stage[t]] = st
        /\ q.retries[stage[t]] = local[t].retries[stage[t]] + 1
        /\ \A i \in Stages \ {stage[t]} :
              q.status[i] = local[t].status[i] /\ q.retries[i] = local[t].retries[i]
    BY <2>1, MarkedIsOK DEF StageStatus
  <2>3. /\ write_plan(t, q) /\ slug' = slug /\ registry' = registry
        /\ stage' = stage /\ built' = built /\ tries' = tries /\ faults' = faults
        /\ pipeline[t] = "invalid" /\ pipeline'[t] \in {"park", "loop"}
        /\ \A u \in Tasks \ {t} : pipeline'[u] = pipeline[u]
    BY <1>6 DEF StageFails, goto, workVars, faultVars, TInv, TypeOK
  <2>4. st # "completed"
    OBVIOUS
  <2> HIDE DEF q, st
  <2>5. local'[t] = q /\ plan'[slug[t]] = q
    BY <2>2, <2>3, MarkedPlans
  <2>6. ASSUME ~Shared(t) PROVE Own(t)'
    <3>1. Own(t) /\ local[t] # NoPlan /\ plan[slug[t]] = local[t]
      BY <2>3, <2>6, NoPlanAssumption DEF OwnInv, Own, Shown, Working, Trying, TInv, TypeOK
    <3>2. \A s \in Stages : q.status[s] = "completed" => s \in built[t]
      BY <2>1, <2>2, <2>4, <3>1 DEF Own, Shown
    <3>3. ASSUME NEW s \in Stages PROVE tries[t][s] <= q.retries[s] + LastTry(t, s)' + faults
      <4>1. tries[t][s] <= local[t].retries[s] + LastTry(t, s) + faults
        BY <3>1 DEF Own, Counted
      <4>2. tries[t][s] \in Nat /\ faults \in Nat /\ local[t].retries[s] \in Nat
        BY <3>1, Numbers
      <4>3. CASE s = stage[t]
        <5>1. LastTry(t, s) = 1 /\ LastTry(t, s)' = 0
          BY <2>2, <2>3, <2>4, <2>5, <4>3 DEF LastTry, Trying
        <5> QED BY <2>2, <4>1, <4>2, <4>3, <5>1
      <4>4. CASE s # stage[t]
        <5>1. LastTry(t, s)' = LastTry(t, s) /\ q.retries[s] = local[t].retries[s]
          BY <2>2, <2>3, <2>5, <3>1, <4>4 DEF LastTry, Trying
        <5> QED BY <4>1, <5>1
      <4> QED BY <4>3, <4>4
    <3>4. Counted(t)'
      BY <2>3, <2>5, <3>3 DEF Counted
    <3>5. Shown(t)'
      BY <2>3, <2>5, <3>1, <3>2 DEF Own, Shown, Working, Trying
    <3> QED BY <2>3, <3>1, <3>4, <3>5 DEF Own
  <2> QED BY <2>2, <2>3, <2>6, MarkedOwn
<1>7. CASE Park(t) \/ Finish(t)
  <2>1. ASSUME NEW u \in Tasks, ~Shared(u) PROVE Own(u)'
    <3>1. /\ Own(u) /\ slug' = slug /\ plan' = plan /\ local' = local /\ stage' = stage
          /\ built' = built /\ tries' = tries /\ faults' = faults
      BY <1>7, <2>1 DEF OwnInv, Park, Finish, workVars, faultVars
    <3>2. CASE u # t
      BY <1>7, <3>1, <3>2, UntouchedOwn DEF TInv, TypeOK, Park, Finish, upsert, goto, Untouched
    <3>3. CASE u = t
      <4>1. /\ pipeline'[t] = "over"
            /\ registry'[t] = "completed" => pipeline[t] = "finish"
        BY <1>7 DEF Park, Finish, upsert, goto, TInv, TypeOK
      <4>2. pipeline[t] \notin Trying /\ pipeline'[t] \notin Trying
        BY <1>7, <4>1 DEF Park, Finish, Trying
      <4>3. \A s \in Stages : LastTry(t, s)' = LastTry(t, s)
        BY <3>1, <4>2 DEF LastTry
      <4>4. Counted(t)'
        BY <3>1, <3>3, <4>3 DEF Own, Counted
      <4> QED BY <3>1, <3>3, <4>1, <4>4 DEF Own, Shown, Working, Trying
    <3> QED BY <3>2, <3>3
  <2> QED BY <1>7, <2>1 DEF OwnInv, Shared, Park, Finish
<1> QED BY <1>1, <1>2, <1>3, <1>4, <1>5, <1>6, <1>7, <1>8 DEF Pipeline

\* A new plan is only written for a task that nothing was done for.
LEMMA RequestOwn ==
    ASSUME TInv, Fresh, Starting, OwnInv, NEW t \in Tasks, Request(t) PROVE OwnInv'
<1>1. CASE StartPlans(t)
  <2>1. ASSUME NEW u \in Tasks, ~Shared(u) PROVE Own(u)'
    <3>1. /\ Own(u) /\ slug' = slug /\ plan' = [plan EXCEPT ![slug[t]] = default_plan]
          /\ pipeline' = pipeline /\ local' = local /\ stage' = stage
          /\ registry' = registry /\ built' = built /\ tries' = tries /\ faults' = faults
          /\ slug \in [Tasks -> Dirs] /\ plan \in [Dirs -> Plan \cup {NoPlan}]
      BY <1>1, <2>1 DEF OwnInv, StartPlans, threadVars, workVars, faultVars, TInv, TypeOK
    <3>2. CASE u # t
      <4>1. slug[u] # slug[t]
        BY <2>1, <3>2 DEF Shared
      <4> QED BY <3>1, <4>1, UntouchedOwn DEF Untouched
    <3>3. CASE u = t
      <4>1. pipeline[t] = "none" /\ \A s \in Stages : tries[t][s] = 0
        BY <1>1 DEF StartPlans, Fresh
      <4>2. plan'[slug[t]] = default_plan
        BY <3>1
      <4>3. Counted(t)'
        <5>1. ASSUME NEW s \in Stages PROVE LastTry(t, s)' = 0 /\ faults \in Nat
          BY <3>1, <4>1, <4>2, DefaultPlan, Numbers DEF LastTry, Trying
        <5> QED BY <3>1, <4>1, <4>2, <5>1, DefaultPlan DEF Counted
      <4> QED BY <3>1, <3>3, <4>1, <4>2, <4>3, DefaultPlan DEF Own, Shown, Working, Trying
    <3> QED BY <3>2, <3>3
  <2> QED BY <1>1, <2>1 DEF OwnInv, Shared, StartPlans
<1>2. CASE StartRecords(t) \/ ResumeReads(t) \/ ResumeRecords(t) \/ TaskDone(t)
  <2>1. ASSUME NEW u \in Tasks, ~Shared(u) PROVE Own(u)'
    <3>1. /\ Own(u) /\ slug' = slug /\ plan' = plan /\ local' = local /\ stage' = stage
          /\ built' = built /\ tries' = tries /\ faults' = faults
      BY <1>2, <2>1 DEF OwnInv, StartRecords, ResumeReads, ResumeRecords, TaskDone, schedule,
         fileVars, threadVars, workVars, faultVars
    <3>2. /\ pipeline'[u] = pipeline[u]
             \/ (pipeline[u] \in {"none", "over"} /\ pipeline'[u] \in {"created", "none"})
          /\ registry'[u] = "completed" => registry[u] = "completed"
      BY <1>2 DEF TInv, TypeOK, StartRecords, ResumeReads, ResumeRecords, TaskDone, schedule, Live,
         fileVars, threadVars
    <3>3. \A s \in Stages : LastTry(u, s)' = LastTry(u, s)
      BY <3>1, <3>2 DEF LastTry, Trying
    <3>4. Counted(u)'
      BY <3>1, <3>3 DEF Own, Counted
    <3> QED BY <3>1, <3>2, <3>4 DEF Own, Shown, Working, Trying
  <2>2. slug' = slug
    BY <1>2 DEF StartRecords, ResumeReads, ResumeRecords, TaskDone
  <2> QED BY <2>1, <2>2 DEF OwnInv, Shared
<1> QED BY <1>1, <1>2 DEF Request

\* A fault loses plans and records, and writes none; the try it cuts short is the one
\* that it is counted for.
LEMMA FaultOwn ==
    ASSUME TInv, Fresh, Starting, OwnInv, Fault PROVE OwnInv'
<1>1. TypeOK
  BY DEF TInv
<1>2. slug' = slug /\ built' = built /\ tries' = tries /\ faults' = faults + 1
  BY <1>1, FaultStep DEF workVars
<1>3. ASSUME NEW u \in Tasks, ~Shared(u) PROVE Own(u)'
  <2>1. Own(u) /\ slug[u] \in Dirs
    BY <1>1, <1>3 DEF OwnInv, TypeOK
  <2>2. /\ plan'[slug[u]] = NoPlan \/ plan'[slug[u]] = plan[slug[u]]
        /\ registry'[u] = "completed" => registry[u] = "completed"
        /\ Spared(u)
    BY <1>1, <2>1, FaultStep
  <2>3. request = <<"start", u>> => pipeline[u] = "none"
    BY DEF Fresh, Starting
  <2>4. \/ pipeline'[u] \in {"none", "over"}
        \/ /\ pipeline'[u] = pipeline[u] /\ local'[u] = local[u] /\ stage'[u] = stage[u]
           /\ plan'[slug[u]] = plan[slug[u]]
    BY <1>3, <2>2, <2>3 DEF Spared
  <2>5. Shown(u)'
    BY <1>2, <2>1, <2>2, <2>4 DEF Own, Shown, Working, Trying
  <2>6. ASSUME NEW s \in Stages
        PROVE  /\ tries'[u][s] <= MaxRetries + faults'
               /\ plan'[slug[u]] # NoPlan =>
                     tries'[u][s] <= plan'[slug[u]].retries[s] + LastTry(u, s)' + faults'
    <3>1. /\ tries[u][s] \in Nat /\ faults \in Nat /\ MaxRetries \in Nat
          /\ plan[slug[u]] # NoPlan => plan[slug[u]].retries[s] \in Nat
      BY Numbers
    <3>2. /\ tries[u][s] <= MaxRetries + faults
          /\ plan[slug[u]] # NoPlan => tries[u][s] <= plan[slug[u]].retries[s] + LastTry(u, s) + faults
      BY <2>1 DEF Own, Counted
    <3>3. LastTry(u, s) \in {0, 1} /\ LastTry(u, s)' \in {0, 1}
      BY DEF LastTry
    <3> HIDE DEF LastTry
    <3>4. tries'[u][s] <= MaxRetries + faults'
      BY <1>2, <3>1, <3>2
    <3>5. ASSUME plan'[slug[u]] # NoPlan
          PROVE  tries'[u][s] <= plan'[slug[u]].retries[s] + LastTry(u, s)' + faults'
      <4>1. plan'[slug[u]] = plan[slug[u]]
        BY <2>2, <3>5
      <4> QED BY <1>2, <3>1, <3>2, <3>3, <3>5, <4>1
    <3> QED BY <3>4, <3>5
  <2>7. Counted(u)'
    BY <1>2, <2>6 DEF Counted
  <2> QED BY <1>2, <2>1, <2>2, <2>5, <2>6, <2>7 DEF Own
<1> QED BY <1>2, <1>3 DEF OwnInv, Shared

\* Who is started has no record yet and was not hit by a fault.
LEMMA NextFresh ==
    ASSUME TInv, Fresh, Starting, Next PROVE Fresh' /\ Starting'
<1>1. ASSUME NEW t \in Tasks, Pipeline(t) PROVE Fresh' /\ Starting'
  <2>1. pipeline[t] # "none" /\ (registry[t] # "none" \/ t \in struck)
    BY <1>1 DEF Fresh, Pipeline, PipelineReads, SkipStage, StageAwaits, BeginStage, MakeAndValidate,
       StageSucceeds, StageFails, AllStagesOver, Park, Finish
  <2>2. /\ request' = request /\ \A u \in Tasks \ {t} : registry'[u] = registry[u]
        /\ registry'[t] = "none" => registry[t] = "none"
        /\ struck \subseteq struck' /\ struck' \subseteq struck \cup {t}
        /\ \A u \in Tasks \ {t} : /\ pipeline'[u] = pipeline[u] /\ built'[u] = built[u]
                                  /\ tries'[u] = tries[u]
    <3>1. CASE PipelineReads(t) \/ SkipStage(t) \/ StageAwaits(t) \/ BeginStage(t)
      BY <3>1 DEF PipelineReads, SkipStage, StageAwaits, BeginStage, goto, fileVars, workVars,
         faultVars, TInv, TypeOK
    <3>2. CASE MakeAndValidate(t) \/ StageSucceeds(t) \/ StageFails(t) \/ AllStagesOver(t)
      BY <3>2 DEF MakeAndValidate, StageSucceeds, StageFails, AllStagesOver, goto, fileVars, workVars,
         faultVars, TInv, TypeOK
    <3>3. CASE Park(t) \/ Finish(t)
      BY <3>3 DEF Park, Finish, upsert, goto, workVars, faultVars, TInv, TypeOK
    <3> QED BY <1>1, <3>1, <3>2, <3>3 DEF Pipeline
  <2>3. request # <<"start", t>>
    BY <2>1 DEF Starting, Fresh
  <2> QED BY <2>1, <2>2, <2>3 DEF Fresh, Starting
<1>2. ASSUME NEW t \in Tasks, Request(t) PROVE Fresh' /\ Starting'
  <2>1. CASE StartPlans(t)
    BY <2>1 DEF StartPlans, Fresh, Starting, threadVars, workVars, faultVars
  <2>2. CASE StartRecords(t) \/ ResumeRecords(t)
    <3>1. \A u \in Tasks : request' # <<"start", u>>
      BY <2>2, BoundsAssumption DEF StartRecords, ResumeRecords, Requests
    <3>2. /\ \A u \in Tasks \ {t} : pipeline'[u] = pipeline[u] /\ registry'[u] = registry[u]
          /\ registry'[t] = "running" /\ UNCHANGED <<built, tries, struck>>
      BY <2>2 DEF StartRecords, ResumeRecords, schedule, workVars, faultVars, TInv, TypeOK
    <3> QED BY <3>1, <3>2 DEF Fresh, Starting
  <2>3. CASE ResumeReads(t)
    <3>1. \A u \in Tasks : request' # <<"start", u>>
      BY <2>3 DEF ResumeReads
    <3> QED BY <2>3, <3>1 DEF ResumeReads, Fresh, Starting, fileVars, threadVars, workVars
  <2>4. CASE TaskDone(t)
    BY <2>4 DEF TaskDone, Fresh, Starting, fileVars, workVars, faultVars, TInv, TypeOK
  <2> QED BY <1>2, <2>1, <2>2, <2>3, <2>4 DEF Request
<1>3. CASE Fault
  <2>1. TypeOK
    BY DEF TInv
  <2>2. \A u \in Tasks : /\ registry'[u] = registry[u] \/ (registry'[u] = "none" /\ u \in struck')
                         /\ u \notin struck' => u \notin struck
                         /\ built'[u] = built[u] /\ tries'[u] = tries[u]
                         /\ Spared(u)
    BY <1>3, <2>1, FaultStep DEF workVars
  <2>3. \A u \in Tasks : pipeline'[u] = "over" => pipeline[u] # "none"
    BY <1>3, <2>1 DEF Fault, Crash, Raises, RequestRaises, goto, threadVars, TypeOK
  <2>4. Fresh'
    <3>1. ASSUME NEW u \in Tasks, registry'[u] = "none", u \notin struck'
          PROVE  pipeline'[u] = "none" /\ built'[u] = {} /\ \A s \in Stages : tries'[u][s] = 0
      <4>1. registry[u] = "none" /\ u \notin struck
        BY <2>2, <3>1
      <4>2. pipeline[u] = "none" /\ built[u] = {} /\ \A s \in Stages : tries[u][s] = 0
        BY <4>1 DEF Fresh
      <4>3. pipeline'[u] = "none"
        BY <2>2, <2>3, <4>2 DEF Spared
      <4> QED BY <2>2, <4>2, <4>3
    <3> QED BY <3>1 DEF Fresh
  <2>5. ASSUME NEW u \in Tasks, request' = <<"start", u>> PROVE registry'[u] = "none" /\ u \notin struck'
    <3>0. request' # NoRequest
      BY <2>5, BoundsAssumption DEF Requests
    <3>1. PICK t \in Tasks : Raises(t)
      BY <1>3, <3>0 DEF Fault, Crash, RequestRaises
    <3>2. request = <<"start", u>> /\ registry[u] = "none" /\ u \notin struck /\ pipeline[u] = "none"
      BY <2>5, <3>1 DEF Raises, Starting, Fresh
    <3>3. u # t
      BY <3>1, <3>2 DEF Raises
    <3>4. registry'[u] = "none"
      BY <2>2, <3>2
    <3>5. u \notin struck'
      BY <3>1, <3>2, <3>3 DEF Raises, Losing
    <3> QED BY <3>4, <3>5
  <2> QED BY <2>4, <2>5 DEF Starting
<1> QED BY <1>1, <1>2, <1>3 DEF Next, Fault

-----------------------------------------------------------------------------
(* The invariant.                                                           *)

LEMMA InitInv == Init => IInv
<1> SUFFICES ASSUME Init PROVE IInv
  OBVIOUS
<1>1. TypeOK
  BY DefaultPlan, BoundsAssumption DEF Init, TypeOK, Places
<1>2. PlansOK /\ AtBuild /\ Fresh /\ Starting
  BY DefaultPlan, BoundsAssumption DEF Init, PlansOK, AtBuild, Fresh, Starting, Trying, Requests
<1>3. OwnInv
  BY BoundsAssumption DEF Init, OwnInv, Own, Shown, Counted, Working, Trying, TypeOK
<1> QED BY <1>1, <1>2, <1>3 DEF IInv, TInv

LEMMA NextInv == IInv /\ [Next]_vars => IInv'
<1> SUFFICES ASSUME IInv, [Next]_vars PROVE IInv'
  OBVIOUS
<1>1. TInv'
  BY NextTInv DEF IInv
<1>2. CASE Next
  <2>1. OwnInv'
    BY <1>2, PipelineOwn, RequestOwn, FaultOwn DEF IInv, Next, Fault
  <2> QED BY <1>1, <1>2, <2>1, NextFresh DEF IInv
<1>3. CASE UNCHANGED vars
  BY <1>1, <1>3 DEF IInv, Fresh, Starting, OwnInv, Own, Shown, Counted, LastTry, Working, Shared, vars, fileVars,
     threadVars, workVars, faultVars
<1> QED BY <1>2, <1>3

LEMMA Invariance == Spec => []IInv
BY InitInv, NextInv, PTL DEF Spec

\* Every variable keeps its type; no plan counts more retries than there are.
THEOREM TypeCorrect == Spec => []TypeOK
<1>1. IInv => TypeOK
  BY DEF IInv, TInv
<1> QED BY <1>1, Invariance, PTL

\* A task with a worktree of its own is completed only with all its artifacts.
THEOREM CompletedCorrect == Spec => []CompletedIsBuilt
<1>1. IInv => CompletedIsBuilt
  BY DEF IInv, OwnInv, Own, CompletedIsBuilt
<1> QED BY <1>1, Invariance, PTL

\* All pipelines of such a task together begin a stage MaxRetries times at most, and
\* once more for every fault.
THEOREM RetriesCorrect == Spec => []RetriesAreBounded
<1>1. IInv => RetriesAreBounded
  BY DEF IInv, OwnInv, Own, RetriesAreBounded
<1> QED BY <1>1, Invariance, PTL

\* Only what hits a pipeline leaves its record running.
LEMMA NextRunning ==
    ASSUME IInv, RunningIsTrue, [Next]_vars PROVE RunningIsTrue'
<1>1. TypeOK /\ Fresh
  BY DEF IInv, TInv
<1>2. ASSUME NEW t \in Tasks, Pipeline(t) PROVE RunningIsTrue'
  <2>1. CASE PipelineReads(t)
    BY <1>1, <2>1 DEF PipelineReads, goto, fileVars, RunningIsTrue, TypeOK
  <2>2. CASE Park(t) \/ Finish(t)
    BY <1>1, <2>2 DEF Park, Finish, upsert, goto, faultVars, RunningIsTrue, TypeOK
  <2>3. CASE SkipStage(t) \/ StageAwaits(t) \/ BeginStage(t)
    BY <1>1, <2>3 DEF SkipStage, StageAwaits, BeginStage, goto, fileVars, faultVars, RunningIsTrue, TypeOK
  <2>4. CASE MakeAndValidate(t) \/ StageSucceeds(t) \/ StageFails(t) \/ AllStagesOver(t)
    BY <1>1, <2>4 DEF MakeAndValidate, StageSucceeds, StageFails, AllStagesOver, goto, fileVars, faultVars,
       RunningIsTrue, TypeOK
  <2> QED BY <1>2, <2>1, <2>2, <2>3, <2>4 DEF Pipeline
<1>3. ASSUME NEW t \in Tasks, Request(t) PROVE RunningIsTrue'
  <2>1. CASE StartPlans(t) \/ ResumeReads(t) \/ TaskDone(t)
    BY <1>1, <2>1 DEF StartPlans, ResumeReads, TaskDone, fileVars, threadVars, faultVars, RunningIsTrue, TypeOK
  <2>2. CASE StartRecords(t)
    <3>1. pipeline[t] = "none" \/ t \in struck
      BY <2>2 DEF StartRecords, IInv, Fresh, Starting
    <3>2. /\ registry' = [registry EXCEPT ![t] = "running"] /\ UNCHANGED <<struck, stale>>
          /\ pipeline' = IF Live(t) THEN pipeline ELSE [pipeline EXCEPT ![t] = "created"]
      BY <2>2 DEF StartRecords, schedule, faultVars
    <3> QED BY <1>1, <3>1, <3>2 DEF RunningIsTrue, TypeOK, Live
  <2>3. CASE ResumeRecords(t)
    <3>1. /\ registry' = [registry EXCEPT ![t] = "running"] /\ struck' = struck
          /\ pipeline' = IF Live(t) THEN pipeline ELSE [pipeline EXCEPT ![t] = "created"]
          /\ stale' = IF pipeline[t] = "over" THEN stale \cup {t} ELSE stale \ {t}
      BY <2>3 DEF ResumeRecords, schedule
    <3> QED BY <1>1, <3>1 DEF RunningIsTrue, TypeOK, Live
  <2> QED BY <1>3, <2>1, <2>2, <2>3 DEF Request
<1>4. CASE Fault
  <2>1. ASSUME NEW u \in Tasks, registry'[u] = "running" PROVE pipeline'[u] \notin {"none", "over"} \/ u \in struck' \cup stale'
    <3>1. /\ registry[u] = "running" /\ Spared(u) /\ struck \subseteq struck' /\ stale' = stale
      BY <1>1, <1>4, <2>1, FaultStep
    <3>2. u \in struck' \/ pipeline'[u] = pipeline[u]
      BY <1>1, <1>4, <3>1 DEF Fault, Crash, Raises, RequestRaises, goto, threadVars, TypeOK
    <3> QED BY <3>1, <3>2 DEF RunningIsTrue
  <2> QED BY <2>1 DEF RunningIsTrue
<1>6. CASE UNCHANGED vars
  BY <1>6 DEF RunningIsTrue, vars, fileVars, threadVars, faultVars
<1> QED BY <1>2, <1>3, <1>4, <1>6 DEF Next, Fault

\* Unless a fault hit the task, or a resume came while its pipeline was ending, a
\* record that says running has a pipeline.
THEOREM RunningCorrect == Spec => []RunningIsTrue
<1>1. Init => RunningIsTrue
  BY DEF Init, RunningIsTrue
<1>2. IInv /\ RunningIsTrue /\ [Next]_vars => RunningIsTrue'
  BY NextRunning
<1> QED BY <1>1, <1>2, Invariance, PTL DEF Spec

\* What is shown as completed is never shown as anything else.
LEMMA StepKeepsDone ==
    ASSUME IInv, Next, NEW u \in Tasks, ~Shared(u), NEW s \in Stages,
           plan[slug[u]] # NoPlan, plan'[slug[u]] # NoPlan,
           plan[slug[u]].status[s] = "completed"
    PROVE  plan'[slug[u]].status[s] = "completed"
<1>1. /\ Own(u) /\ s \in built[u] /\ slug \in [Tasks -> Dirs] /\ plan \in [Dirs -> Plan \cup {NoPlan}]
      /\ TInv
  BY DEF IInv, OwnInv, Own, Shown, TInv, TypeOK
<1>2. ASSUME NEW t \in Tasks \ {u} PROVE slug[t] # slug[u]
  BY <1>2 DEF Shared
<1>3. ASSUME NEW t \in Tasks, NEW p, write_plan(t, p), t # u PROVE plan'[slug[u]] = plan[slug[u]]
  BY <1>1, <1>2, <1>3 DEF write_plan
<1>4. ASSUME NEW t \in Tasks, Pipeline(t) PROVE plan'[slug[u]].status[s] = "completed"
  <2>1. CASE PipelineReads(t) \/ SkipStage(t) \/ MakeAndValidate(t) \/ Park(t) \/ Finish(t)
    BY <2>1 DEF PipelineReads, SkipStage, MakeAndValidate, Park, Finish, fileVars
  <2>2. CASE t # u
    BY <1>3, <1>4, <2>1, <2>2 DEF Pipeline, StageAwaits, BeginStage, StageSucceeds, StageFails, AllStagesOver
  <2>3. CASE t = u /\ ~(PipelineReads(t) \/ SkipStage(t) \/ MakeAndValidate(t) \/ Park(t) \/ Finish(t))
    <3>1. /\ plan[slug[u]] = local[u]
      BY <1>1, <1>4, <2>3 DEF Own, Shown, Working, Trying, Pipeline, StageAwaits, BeginStage, StageSucceeds,
         StageFails, AllStagesOver
    <3>2. CASE StageAwaits(t) \/ AllStagesOver(t)
      BY <1>1, <2>3, <3>1, <3>2 DEF StageAwaits, AllStagesOver, write_plan
    <3>3. CASE BeginStage(t)
      <4>1. /\ plan'[slug[u]] = update_stage(u, "running", 0) /\ stage[u] # s
            /\ stage[u] \in Stages /\ local[u].status[stage[u]] # "awaiting_user"
        BY <1>1, <2>3, <3>1, <3>3, BoundsAssumption DEF BeginStage, write_plan, TInv, TypeOK, Stages
      <4> QED BY <1>1, <3>1, <4>1, MarkedIsOK DEF StageStatus
    <3>4. CASE StageSucceeds(t)
      <4>1. /\ plan'[slug[u]] = update_stage(u, "completed", 0)
            /\ stage[u] \in Stages /\ local[u].status[stage[u]] # "awaiting_user"
        BY <1>1, <2>3, <3>4 DEF StageSucceeds, write_plan, TInv, AtBuild, Trying
      <4> QED BY <1>1, <3>1, <4>1, MarkedIsOK DEF StageStatus
    <3>5. CASE StageFails(t)
      <4> DEFINE st == IF spent(u) THEN "awaiting_user" ELSE "failed"
      <4>1. /\ plan'[slug[u]] = update_stage(u, st, 1) /\ stage[u] # s
            /\ stage[u] \in Stages /\ local[u].status[stage[u]] # "awaiting_user"
        BY <1>1, <2>3, <3>1, <3>5 DEF StageFails, write_plan, TInv, AtBuild, Trying
      <4> QED BY <1>1, <3>1, <4>1, MarkedIsOK DEF StageStatus
    <3> QED BY <1>4, <2>3, <3>2, <3>3, <3>4, <3>5 DEF Pipeline
  <2> QED BY <2>1, <2>2, <2>3
<1>5. ASSUME NEW t \in Tasks, Request(t) PROVE plan'[slug[u]].status[s] = "completed"
  <2>1. CASE StartPlans(t)
    <3>1. t # u
      BY <1>1, <2>1 DEF StartPlans, IInv, Fresh
    <3> QED BY <1>1, <1>2, <2>1, <3>1 DEF StartPlans
  <2>2. CASE ~StartPlans(t)
    BY <1>5, <2>2 DEF Request, StartRecords, ResumeReads, ResumeRecords, TaskDone, fileVars
  <2> QED BY <2>1, <2>2
<1>6. CASE Fault
  BY <1>1, <1>6, FaultStep DEF TInv, TypeOK
<1> QED BY <1>4, <1>5, <1>6 DEF Next, Fault

LEMMA SlugFixed == Next => slug' = slug
BY DEF Next, Pipeline, Request, PipelineReads, SkipStage, StageAwaits, BeginStage, StageSucceeds,
   MakeAndValidate, StageFails, AllStagesOver, Park, Finish, StartPlans, StartRecords, ResumeReads,
   ResumeRecords, TaskDone, Raises, RequestRaises, Crash

\* Work that the plan of a task shows as done is never done again.
THEOREM DoneCorrect == Spec => DoneStaysDone
<1>1. IInv /\ [Next]_vars =>
        [\A t \in Tasks : ~Shared(t) => \A s \in Stages :
          plan[slug[t]] # NoPlan /\ plan'[slug[t]] # NoPlan
             /\ plan[slug[t]].status[s] = "completed"
             => plan'[slug[t]].status[s] = "completed"]_vars
  BY StepKeepsDone, SlugFixed
<1> QED BY <1>1, Invariance, PTL DEF Spec, DoneStaysDone

=============================================================================
