---------------------------- MODULE LongRunProofs ----------------------------
(***************************************************************************)
(* Machine-checked proofs about LongRun, for every set of tasks, every     *)
(* retry policy and every number of restarts.                              *)
(***************************************************************************)
EXTENDS LongRunProps, TLAPS

-----------------------------------------------------------------------------
(* The inductive invariant.                                                 *)

\* A pending cancel() has a runner that is overdue, and a runner the detector
\* calls stalled is itself overdue: the clock was restarted when it began.
ClockInv ==
    \A t \in Tasks :
        /\ t \in cancelReq => active[t] = 1 /\ t \in overdue
        /\ t \in stale /\ active[t] = 1 => t \in overdue

\* Dispatch and retry tasks exist only in the state that waits for them, so a
\* dispatch never meets a live runner.
WaiterInv ==
    \A t \in Tasks :
        /\ t \in dispatching => entry[t] = "pending"
        /\ t \in sleeping => entry[t] = "retry_queued"

\* Executions are accounted for by failures and continuations, state by state.
CountInv ==
    \A t \in Tasks :
        /\ entry[t] \in {"none", "pending"} =>
              runs[t] = 0 /\ failures[t] = 0 /\ rounds[t] = 0
        /\ entry[t] \in {"running", "retry_queued"} =>
              /\ MaxAttempts > 0 => failures[t] <= MaxAttempts
              /\ MaxContinuations > 0 => rounds[t] < MaxContinuations

\* Nothing has been admitted before the first start.
StartInv == loop = "off" /\ stops = 0 => \A t \in Tasks : entry[t] = "none"

IInv ==
    /\ TypeOK
    /\ OneRunner
    /\ ClockInv
    /\ WaiterInv
    /\ CountInv
    /\ AttemptNumber
    /\ ExecutionBudget
    /\ StartInv
    /\ Owned

-----------------------------------------------------------------------------
(* The initial state and the steps.                                         *)

\* The invariant holds before anything has been enqueued.
LEMMA InitIInv == Init => IInv
BY TasksAssumption, PolicyAssumption
   DEF Init, IInv, TypeOK, OneRunner, ClockInv, WaiterInv, CountInv,
       AttemptNumber, ExecutionBudget, StartInv, Owned, States, Phases, Limited

\* An enqueued row touches no entry.
LEMMA EnqueueStep ==
    ASSUME IInv, NEW t \in Tasks, Enqueue(t)
    PROVE  IInv'
<1> USE TasksAssumption, PolicyAssumption
    DEF IInv, Enqueue, ManualTasks, srcVars, loopVars, runVars, ctrVars
<1>1. TypeOK'
  BY DEF TypeOK, States, Phases
<1>2. OneRunner'
  BY DEF TypeOK, OneRunner, WaiterInv
<1>3. ClockInv'
  BY DEF TypeOK, OneRunner, ClockInv, WaiterInv
<1>4. WaiterInv'
  BY DEF TypeOK, OneRunner, WaiterInv
<1>5. CountInv'
  BY DEF TypeOK, OneRunner, WaiterInv, CountInv, MayFail, MayContinue
<1>6. AttemptNumber'
  BY DEF TypeOK, OneRunner, WaiterInv, CountInv, AttemptNumber
<1>7. ExecutionBudget'
  BY DEF TypeOK, OneRunner, WaiterInv, CountInv, AttemptNumber,
         ExecutionBudget, Limited
<1>8. StartInv'
  BY DEF TypeOK, OneRunner, WaiterInv, StartInv
<1>9. Owned'
  BY DEF TypeOK, OneRunner, WaiterInv, StartInv, Owned
<1> QED
  BY <1>1, <1>2, <1>3, <1>4, <1>5, <1>6, <1>7, <1>8, <1>9

\* A row that falls due touches no entry.
LEMMA BecomesDueStep ==
    ASSUME IInv, NEW t \in Tasks, BecomesDue(t)
    PROVE  IInv'
<1> USE TasksAssumption, PolicyAssumption
    DEF IInv, BecomesDue, srcVars, loopVars, runVars, ctrVars
<1>1. TypeOK'
  BY DEF TypeOK, States, Phases
<1>2. OneRunner'
  BY DEF TypeOK, OneRunner, WaiterInv
<1>3. ClockInv'
  BY DEF TypeOK, OneRunner, ClockInv, WaiterInv
<1>4. WaiterInv'
  BY DEF TypeOK, OneRunner, WaiterInv
<1>5. CountInv'
  BY DEF TypeOK, OneRunner, WaiterInv, CountInv, MayFail, MayContinue
<1>6. AttemptNumber'
  BY DEF TypeOK, OneRunner, WaiterInv, CountInv, AttemptNumber
<1>7. ExecutionBudget'
  BY DEF TypeOK, OneRunner, WaiterInv, CountInv, AttemptNumber,
         ExecutionBudget, Limited
<1>8. StartInv'
  BY DEF TypeOK, OneRunner, WaiterInv, StartInv
<1>9. Owned'
  BY DEF TypeOK, OneRunner, WaiterInv, StartInv, Owned
<1> QED
  BY <1>1, <1>2, <1>3, <1>4, <1>5, <1>6, <1>7, <1>8, <1>9

\* Starting the loop revives nothing by itself.
LEMMA StartStep ==
    ASSUME IInv, start_background
    PROVE  IInv'
<1> USE TasksAssumption, PolicyAssumption
    DEF IInv, start_background, srcVars, loopVars, runVars, ctrVars
<1>1. TypeOK'
  BY DEF TypeOK, States, Phases
<1>2. OneRunner'
  BY DEF TypeOK, OneRunner, WaiterInv
<1>3. ClockInv'
  BY DEF TypeOK, OneRunner, ClockInv, WaiterInv
<1>4. WaiterInv'
  BY DEF TypeOK, OneRunner, WaiterInv
<1>5. CountInv'
  BY DEF TypeOK, OneRunner, WaiterInv, CountInv, MayFail, MayContinue
<1>6. AttemptNumber'
  BY DEF TypeOK, OneRunner, WaiterInv, CountInv, AttemptNumber
<1>7. ExecutionBudget'
  BY DEF TypeOK, OneRunner, WaiterInv, CountInv, AttemptNumber,
         ExecutionBudget, Limited
<1>8. StartInv'
  BY DEF TypeOK, OneRunner, WaiterInv, StartInv
<1>9. Owned'
  BY DEF TypeOK, OneRunner, WaiterInv, StartInv, Owned
<1> QED
  BY <1>1, <1>2, <1>3, <1>4, <1>5, <1>6, <1>7, <1>8, <1>9

\* stop() takes the sleeping retries away and starts no runner.
LEMMA StopStep ==
    ASSUME IInv, stop
    PROVE  IInv'
<1> USE TasksAssumption, PolicyAssumption
    DEF IInv, stop, srcVars, loopVars, runVars, ctrVars
<1>1. TypeOK'
  BY DEF TypeOK, States, Phases
<1>2. OneRunner'
  BY DEF TypeOK, OneRunner, WaiterInv
<1>3. ClockInv'
  BY DEF TypeOK, OneRunner, ClockInv, WaiterInv
<1>4. WaiterInv'
  BY DEF TypeOK, OneRunner, WaiterInv
<1>5. CountInv'
  BY DEF TypeOK, OneRunner, WaiterInv, CountInv, MayFail, MayContinue
<1>6. AttemptNumber'
  BY DEF TypeOK, OneRunner, WaiterInv, CountInv, AttemptNumber
<1>7. ExecutionBudget'
  BY DEF TypeOK, OneRunner, WaiterInv, CountInv, AttemptNumber,
         ExecutionBudget, Limited
<1>8. StartInv'
  BY DEF TypeOK, OneRunner, WaiterInv, StartInv
<1>9. Owned'
  BY DEF TypeOK, OneRunner, WaiterInv, StartInv, Owned
<1> QED
  BY <1>1, <1>2, <1>3, <1>4, <1>5, <1>6, <1>7, <1>8, <1>9

\* A stall pass cancels only runners the detector calls stalled.
LEMMA TickBeginStep ==
    ASSUME IInv, TickBegin
    PROVE  IInv'
<1> USE TasksAssumption, PolicyAssumption
    DEF IInv, TickBegin, Stalled, ManualTasks, srcVars, loopVars, runVars, ctrVars
<1>1. TypeOK'
  BY DEF TypeOK, States, Phases
<1>2. OneRunner'
  BY DEF TypeOK, OneRunner, WaiterInv
<1>3. ClockInv'
  BY DEF TypeOK, OneRunner, ClockInv, WaiterInv
<1>4. WaiterInv'
  BY DEF TypeOK, OneRunner, WaiterInv
<1>5. CountInv'
  BY DEF TypeOK, OneRunner, WaiterInv, CountInv, MayFail, MayContinue
<1>6. AttemptNumber'
  BY DEF TypeOK, OneRunner, WaiterInv, CountInv, AttemptNumber
<1>7. ExecutionBudget'
  BY DEF TypeOK, OneRunner, WaiterInv, CountInv, AttemptNumber,
         ExecutionBudget, Limited
<1>8. StartInv'
  BY DEF TypeOK, OneRunner, WaiterInv, StartInv
<1>9. Owned'
  BY DEF TypeOK, OneRunner, WaiterInv, StartInv, Owned
<1> QED
  BY <1>1, <1>2, <1>3, <1>4, <1>5, <1>6, <1>7, <1>8, <1>9

\* Admission gives an entry only to an id without one.
LEMMA TickFinishStep ==
    ASSUME IInv, TickFinish
    PROVE  IInv'
<1> USE TasksAssumption, PolicyAssumption
    DEF IInv, TickFinish, Admitted, Fresh, ManualTasks, srcVars, loopVars, runVars, ctrVars
<1>1. TypeOK'
  BY DEF TypeOK, States, Phases
<1>2. OneRunner'
  BY DEF TypeOK, OneRunner, WaiterInv
<1>3. ClockInv'
  BY DEF TypeOK, OneRunner, ClockInv, WaiterInv
<1>4. WaiterInv'
  BY DEF TypeOK, OneRunner, WaiterInv
<1>5. CountInv'
  BY DEF TypeOK, OneRunner, WaiterInv, CountInv, MayFail, MayContinue
<1>6. AttemptNumber'
  BY DEF TypeOK, OneRunner, WaiterInv, CountInv, AttemptNumber
<1>7. ExecutionBudget'
  BY DEF TypeOK, OneRunner, WaiterInv, CountInv, AttemptNumber,
         ExecutionBudget, Limited
<1>8. StartInv'
  BY DEF TypeOK, OneRunner, WaiterInv, StartInv
<1>9. Owned'
  BY DEF TypeOK, OneRunner, WaiterInv, StartInv, Owned
<1> QED
  BY <1>1, <1>2, <1>3, <1>4, <1>5, <1>6, <1>7, <1>8, <1>9

\* A first dispatch.
LEMMA DispatchStep ==
    ASSUME IInv, NEW t \in Tasks, Dispatch(t)
    PROVE  IInv'
<1> USE TasksAssumption, PolicyAssumption
    DEF IInv, Dispatch, RunEntry, ScheduleFailure, should_give_up, touch,
        forget, srcVars, loopVars, runVars, ctrVars
<1>1. TypeOK'
  <2>1. Dir[t] \in Dirs /\ entry' \in [Tasks -> States] /\ hook' \in [Tasks -> Phases]
    BY DEF TypeOK, States, Phases
  <2>2. failures' \in [Tasks -> Nat] /\ runs' \in [Tasks -> Nat]
    BY DEF TypeOK
  <2>3. active' \in [Tasks -> Nat] /\ sleeping' \subseteq Tasks /\ dirs' \subseteq Dirs
    BY <2>1 DEF TypeOK
  <2>4. stale' \subseteq Tasks /\ dispatching' \subseteq Tasks
    BY DEF TypeOK
  <2> QED
    BY <2>1, <2>2, <2>3, <2>4 DEF TypeOK
<1>2. OneRunner'
  BY DEF TypeOK, OneRunner, WaiterInv
<1>3. ClockInv'
  BY DEF TypeOK, OneRunner, ClockInv, WaiterInv
<1>4. WaiterInv'
  BY DEF TypeOK, OneRunner, WaiterInv
<1>5. CountInv'
  BY DEF TypeOK, OneRunner, WaiterInv, CountInv, MayFail, MayContinue
<1>6. AttemptNumber'
  BY DEF TypeOK, OneRunner, WaiterInv, CountInv, AttemptNumber
<1>7. ExecutionBudget'
  BY DEF TypeOK, OneRunner, WaiterInv, CountInv, AttemptNumber,
         ExecutionBudget, Limited
<1>8. StartInv'
  BY DEF TypeOK, OneRunner, WaiterInv, StartInv
<1>9. Owned'
  BY DEF TypeOK, OneRunner, WaiterInv, StartInv, Owned
<1> QED
  BY <1>1, <1>2, <1>3, <1>4, <1>5, <1>6, <1>7, <1>8, <1>9

\* A retry wakes.
LEMMA WakeRetryStep ==
    ASSUME IInv, NEW t \in Tasks, WakeRetry(t)
    PROVE  IInv'
<1> USE TasksAssumption, PolicyAssumption
    DEF IInv, WakeRetry, RunEntry, ScheduleFailure, should_give_up, touch,
        forget, srcVars, loopVars, runVars, ctrVars
<1>1. TypeOK'
  BY DEF TypeOK, States, Phases
<1>2. OneRunner'
  BY DEF TypeOK, OneRunner, WaiterInv
<1>3. ClockInv'
  BY DEF TypeOK, OneRunner, ClockInv, WaiterInv
<1>4. WaiterInv'
  BY DEF TypeOK, OneRunner, WaiterInv
<1>5. CountInv'
  BY DEF TypeOK, OneRunner, WaiterInv, CountInv, MayFail, MayContinue
<1>6. AttemptNumber'
  <2>1. CASE UNCHANGED <<entry, runs, failures, rounds>>
    BY <2>1 DEF AttemptNumber
  <2>2. CASE entry[t] = "retry_queued" /\ RunEntry(t)
    <3>1. runs[t] = failures[t] + rounds[t]
      BY <2>2 DEF AttemptNumber
    <3>2. runs' = [runs EXCEPT ![t] = @ + 1] /\ rounds' = rounds
      BY <2>2
    <3> QED
      BY <2>2, <3>1, <3>2 DEF TypeOK, AttemptNumber
  <2> QED
    BY <2>1, <2>2
<1>7. ExecutionBudget'
  BY DEF TypeOK, OneRunner, WaiterInv, CountInv, AttemptNumber,
         ExecutionBudget, Limited
<1>8. StartInv'
  BY DEF TypeOK, OneRunner, WaiterInv, StartInv
<1>9. Owned'
  BY DEF TypeOK, OneRunner, WaiterInv, StartInv, Owned
<1> QED
  BY <1>1, <1>2, <1>3, <1>4, <1>5, <1>6, <1>7, <1>8, <1>9

\* A runner outlasts the stall threshold.
LEMMA TimePassesStep ==
    ASSUME IInv, NEW t \in Tasks, TimePasses(t)
    PROVE  IInv'
<1> USE TasksAssumption, PolicyAssumption
    DEF IInv, TimePasses, srcVars, loopVars, runVars, ctrVars
<1>1. TypeOK'
  BY DEF TypeOK, States, Phases
<1>2. OneRunner'
  BY DEF TypeOK, OneRunner, WaiterInv
<1>3. ClockInv'
  BY DEF TypeOK, OneRunner, ClockInv, WaiterInv
<1>4. WaiterInv'
  BY DEF TypeOK, OneRunner, WaiterInv
<1>5. CountInv'
  BY DEF TypeOK, OneRunner, WaiterInv, CountInv, MayFail, MayContinue
<1>6. AttemptNumber'
  BY DEF TypeOK, OneRunner, WaiterInv, CountInv, AttemptNumber
<1>7. ExecutionBudget'
  BY DEF TypeOK, OneRunner, WaiterInv, CountInv, AttemptNumber,
         ExecutionBudget, Limited
<1>8. StartInv'
  BY DEF TypeOK, OneRunner, WaiterInv, StartInv
<1>9. Owned'
  BY DEF TypeOK, OneRunner, WaiterInv, StartInv, Owned
<1> QED
  BY <1>1, <1>2, <1>3, <1>4, <1>5, <1>6, <1>7, <1>8, <1>9

\* submit_fn returns.
LEMMA ReturnsStep ==
    ASSUME IInv, NEW t \in Tasks, NEW wants \in BOOLEAN, SubmitReturns(t, wants)
    PROVE  IInv'
<1> USE TasksAssumption, PolicyAssumption
    DEF IInv, SubmitReturns, RunnerEnds, FinalizeSuccess, CleanupAfterRun,
        should_stop_continuation, forget, srcVars, loopVars, runVars, ctrVars
<1>1. TypeOK'
  BY DEF TypeOK, States, Phases
<1>2. OneRunner'
  BY DEF TypeOK, OneRunner, WaiterInv
<1>3. ClockInv'
  BY DEF TypeOK, OneRunner, ClockInv, WaiterInv
<1>4. WaiterInv'
  BY DEF TypeOK, OneRunner, WaiterInv
<1>5. CountInv'
  BY DEF TypeOK, OneRunner, WaiterInv, CountInv, MayFail, MayContinue
<1>6. AttemptNumber'
  BY DEF TypeOK, OneRunner, WaiterInv, CountInv, AttemptNumber
<1>7. ExecutionBudget'
  BY DEF TypeOK, OneRunner, WaiterInv, CountInv, AttemptNumber,
         ExecutionBudget, Limited
<1>8. StartInv'
  BY DEF TypeOK, OneRunner, WaiterInv, StartInv
<1>9. Owned'
  BY DEF TypeOK, OneRunner, WaiterInv, StartInv, Owned
<1> QED
  BY <1>1, <1>2, <1>3, <1>4, <1>5, <1>6, <1>7, <1>8, <1>9

\* submit_fn raises.
LEMMA RaisesStep ==
    ASSUME IInv, NEW t \in Tasks, SubmitRaises(t)
    PROVE  IInv'
<1> USE TasksAssumption, PolicyAssumption
    DEF IInv, SubmitRaises, RunnerEnds, ScheduleFailure, CleanupAfterRun,
        should_give_up, forget, srcVars, loopVars, runVars, ctrVars
<1>1. TypeOK'
  BY DEF TypeOK, States, Phases
<1>2. OneRunner'
  BY DEF TypeOK, OneRunner, WaiterInv
<1>3. ClockInv'
  BY DEF TypeOK, OneRunner, ClockInv, WaiterInv
<1>4. WaiterInv'
  BY DEF TypeOK, OneRunner, WaiterInv
<1>5. CountInv'
  BY DEF TypeOK, OneRunner, WaiterInv, CountInv, MayFail, MayContinue
<1>6. AttemptNumber'
  BY DEF TypeOK, OneRunner, WaiterInv, CountInv, AttemptNumber
<1>7. ExecutionBudget'
  BY DEF TypeOK, OneRunner, WaiterInv, CountInv, AttemptNumber,
         ExecutionBudget, Limited
<1>8. StartInv'
  BY DEF TypeOK, OneRunner, WaiterInv, StartInv
<1>9. Owned'
  BY DEF TypeOK, OneRunner, WaiterInv, StartInv, Owned
<1> QED
  BY <1>1, <1>2, <1>3, <1>4, <1>5, <1>6, <1>7, <1>8, <1>9

\* submit_fn is cancelled.
LEMMA CancelledStep ==
    ASSUME IInv, NEW t \in Tasks, SubmitCancelled(t)
    PROVE  IInv'
<1> USE TasksAssumption, PolicyAssumption
    DEF IInv, SubmitCancelled, RunnerEnds, ScheduleFailure, CleanupAfterRun,
        should_give_up, forget, srcVars, loopVars, runVars, ctrVars
<1>1. TypeOK'
  BY DEF TypeOK, States, Phases
<1>2. OneRunner'
  BY DEF TypeOK, OneRunner, WaiterInv
<1>3. ClockInv'
  BY DEF TypeOK, OneRunner, ClockInv, WaiterInv
<1>4. WaiterInv'
  BY DEF TypeOK, OneRunner, WaiterInv
<1>5. CountInv'
  BY DEF TypeOK, OneRunner, WaiterInv, CountInv, MayFail, MayContinue
<1>6. AttemptNumber'
  BY DEF TypeOK, OneRunner, WaiterInv, CountInv, AttemptNumber
<1>7. ExecutionBudget'
  BY DEF TypeOK, OneRunner, WaiterInv, CountInv, AttemptNumber,
         ExecutionBudget, Limited
<1>8. StartInv'
  BY DEF TypeOK, OneRunner, WaiterInv, StartInv
<1>9. Owned'
  BY DEF TypeOK, OneRunner, WaiterInv, StartInv, Owned
<1> QED
  BY <1>1, <1>2, <1>3, <1>4, <1>5, <1>6, <1>7, <1>8, <1>9

\* Every step of the orchestrator preserves the invariant.
LEMMA NextIInv == IInv /\ [Next]_vars => IInv'
<1> SUFFICES ASSUME IInv, [Next]_vars
             PROVE  IInv'
  OBVIOUS
<1>1. CASE start_background
  BY <1>1, StartStep
<1>2. CASE stop
  BY <1>2, StopStep
<1>3. CASE TickBegin
  BY <1>3, TickBeginStep
<1>4. CASE TickFinish
  BY <1>4, TickFinishStep
<1>5. ASSUME NEW t \in Tasks, Enqueue(t) \/ BecomesDue(t)
      PROVE  IInv'
  BY <1>5, EnqueueStep, BecomesDueStep
<1>6. ASSUME NEW t \in Tasks, Dispatch(t) \/ WakeRetry(t)
      PROVE  IInv'
  BY <1>6, DispatchStep, WakeRetryStep
<1>7. ASSUME NEW t \in Tasks, TimePasses(t) \/ SubmitAnswers(t)
      PROVE  IInv'
  BY <1>7, TimePassesStep, ReturnsStep, RaisesStep, CancelledStep
     DEF SubmitAnswers
<1>8. CASE UNCHANGED vars
  BY <1>8 DEF vars, srcVars, loopVars, runVars, ctrVars, IInv, TypeOK,
     OneRunner, ClockInv, WaiterInv, CountInv, AttemptNumber, ExecutionBudget,
     StartInv, Owned
<1> QED
  BY <1>1, <1>2, <1>3, <1>4, <1>5, <1>6, <1>7, <1>8 DEF Next

-----------------------------------------------------------------------------
(* The theorems.                                                            *)

\* IInv holds in every reachable state of the orchestrator.
THEOREM Invariance == Spec => []IInv
<1>1. Init => IInv
  BY InitIInv
<1>2. IInv /\ [Next]_vars => IInv'
  BY NextIInv
<1> QED
  BY <1>1, <1>2, PTL DEF Spec

\* Every variable keeps its type.
THEOREM TypeCorrect == Spec => []TypeOK
<1>1. IInv => TypeOK
  BY DEF IInv
<1> QED
  BY <1>1, Invariance, PTL

\* No task ever has two executions, across any number of restarts.
THEOREM AtMostOneRunner == Spec => []OneRunner
<1>1. IInv => OneRunner
  BY DEF IInv
<1> QED
  BY <1>1, Invariance, PTL

\* As long as stop() is not called, no entry is stranded.
THEOREM EntriesAreOwned == Spec => []Owned
<1>1. IInv => Owned
  BY DEF IInv
<1> QED
  BY <1>1, Invariance, PTL

\* The reported attempt number is the number of the execution.
THEOREM AttemptNumberExact == Spec => []AttemptNumber
<1>1. IInv => AttemptNumber
  BY DEF IInv
<1> QED
  BY <1>1, Invariance, PTL

\* With both limits set, executions are bounded by their sum.
THEOREM BudgetKept == Spec => []ExecutionBudget
<1>1. IInv => ExecutionBudget
  BY DEF IInv
<1> QED
  BY <1>1, Invariance, PTL

\* A cancel() never reaches a run that has not itself outlasted the threshold.
THEOREM CancelsAreDeserved == Spec => []CancelHitsOverdueRun
<1>1. IInv => CancelHitsOverdueRun
  BY DEF IInv, TypeOK, ClockInv, CancelHitsOverdueRun
<1> QED
  BY <1>1, Invariance, PTL

-----------------------------------------------------------------------------
(* Final states.                                                            *)

\* The body of FinalIsFinal, as an action.
KeepsFinal ==
    \A t \in Tasks : entry[t] \in Final =>
        entry'[t] = entry[t] /\ runs'[t] = runs[t]

\* An action leaves final entries alone because every handler that writes an
\* entry starts from one that is not final: admission from "none", a dispatch
\* from "pending" or "retry_queued", a runner's end from "running".
LEMMA StepKeepsFinal == IInv /\ [Next]_vars => KeepsFinal
<1> SUFFICES ASSUME IInv, [Next]_vars
             PROVE  KeepsFinal
  OBVIOUS
<1> USE DEF IInv, KeepsFinal, Final
<1>1. CASE UNCHANGED <<entry, runs>>
  BY <1>1
<1>2. CASE TickFinish
  BY <1>2 DEF TickFinish, Admitted, Fresh, ctrVars, TypeOK
<1>3. ASSUME NEW t \in Tasks, Dispatch(t) \/ WakeRetry(t)
      PROVE  KeepsFinal
  BY <1>3 DEF Dispatch, WakeRetry, RunEntry, ScheduleFailure, WaiterInv,
     TypeOK, ctrVars
<1>4. ASSUME NEW t \in Tasks, SubmitAnswers(t)
      PROVE  KeepsFinal
  <2>1. active[t] = 1 /\ entry[t] = "running"
    BY <1>4 DEF SubmitAnswers, SubmitReturns, SubmitRaises, SubmitCancelled,
       RunnerEnds, OneRunner, TypeOK
  <2>2. runs' = runs
    BY <1>4 DEF SubmitAnswers, SubmitReturns, SubmitRaises, SubmitCancelled
  <2>3. \E s \in States : entry' = [entry EXCEPT ![t] = s]
    BY <1>4 DEF SubmitAnswers, SubmitReturns, SubmitRaises, SubmitCancelled,
       ScheduleFailure, FinalizeSuccess, TypeOK, States
  <2> QED
    BY <2>1, <2>2, <2>3 DEF TypeOK
<1>5. ASSUME NEW t \in Tasks, Enqueue(t) \/ BecomesDue(t) \/ TimePasses(t)
      PROVE  UNCHANGED <<entry, runs>>
  BY <1>5 DEF Enqueue, BecomesDue, TimePasses, ctrVars
<1>6. ASSUME start_background \/ stop \/ TickBegin \/ UNCHANGED vars
      PROVE  UNCHANGED <<entry, runs>>
  BY <1>6 DEF start_background, stop, TickBegin, vars, ctrVars
<1> QED
  BY <1>1, <1>2, <1>3, <1>4, <1>5, <1>6 DEF Next

\* DONE and FAILED are final whatever is enqueued, polled or restarted.
THEOREM FinalStatesAreFinal == Spec => FinalIsFinal
<1>1. IInv /\ [Next]_vars => [KeepsFinal]_vars
  BY StepKeepsFinal
<1>2. [][KeepsFinal]_vars => FinalIsFinal
  BY PTL DEF FinalIsFinal, KeepsFinal
<1> QED
  BY <1>1, <1>2, Invariance, PTL DEF Spec

-----------------------------------------------------------------------------
(* Rows on their way to an entry.                                           *)

\* What is owed is in the queue, or in a fetch that admits all it has; a marked
\* id has a final entry, so ManualSource never filters out what is owed.
RowsInv ==
    /\ RowsAreKept
    /\ loop # "fetching" => batch = {}
    /\ batch \cap BadIds # {} => owed \subseteq queue
    /\ \A t \in owed : entry[t] = "none"
    /\ \A t \in marked : entry[t] = "done"

\* A tick puts what is owed into its fetch, or owes it no longer beside a bad id.
LEMMA FetchKeepsRows ==
    ASSUME IInv, RowsInv, TickBegin
    PROVE  RowsInv'
<1> USE DEF RowsInv, RowsAreKept
<1>1. queue' = {} /\ marked' = marked /\ entry' = entry /\ loop' = "fetching"
  BY DEF TickBegin
<1>2. owed \subseteq queue /\ owed \cap marked = {}
  BY DEF TickBegin
<1>3. owed \subseteq batch'
  BY <1>2 DEF TickBegin
<1>4. CASE batch' \cap BadIds = {}
  BY <1>1, <1>3, <1>4 DEF TickBegin
<1>5. CASE batch' \cap BadIds # {}
  <2>1. owed' = {}
    BY <1>3, <1>5 DEF TickBegin
  <2> QED
    BY <1>1, <2>1
<1> QED
  BY <1>4, <1>5

\* Without a bad id in the fetch every row of it that is owed an entry gets one.
LEMMA AdmissionKeepsRows ==
    ASSUME IInv, RowsInv, TickFinish
    PROVE  RowsInv'
<1> USE DEF RowsInv, RowsAreKept
<1>1. PICK adm \in Admitted :
        /\ entry' = [t \in Tasks |-> IF t \in adm THEN "pending" ELSE entry[t]]
        /\ owed' = owed \ adm
  BY DEF TickFinish
<1>2. batch' = {} /\ queue' = queue /\ marked' = marked /\ loop' = "idle"
  BY DEF TickFinish
<1>3. adm \subseteq Fresh
  BY <1>1 DEF Admitted
<1>4. owed' \subseteq queue'
  <2>1. CASE batch \cap BadIds # {}
    BY <1>1, <1>2, <2>1
  <2>2. CASE batch \cap BadIds = {}
    <3>1. adm = Fresh
      BY <1>1, <2>2 DEF Admitted, Fresh
    <3> QED
      BY <1>1, <1>2, <3>1 DEF Fresh
  <2> QED
    BY <2>1, <2>2
<1>5. \A t \in owed' : entry'[t] = "none"
  BY <1>1 DEF IInv, TypeOK, ManualTasks
<1>6. \A t \in marked' : entry'[t] = "done"
  BY <1>1, <1>2, <1>3 DEF IInv, TypeOK, Fresh
<1> QED
  BY <1>2, <1>4, <1>5, <1>6

\* The handlers of an entry never start from one that is owed or marked.
LEMMA HandlersKeepRows ==
    ASSUME IInv, RowsInv, NEW t \in Tasks,
           Dispatch(t) \/ WakeRetry(t) \/ SubmitAnswers(t)
    PROVE  RowsInv'
<1> USE DEF RowsInv, RowsAreKept
<1>1. UNCHANGED <<queue, owed, loop, batch>>
  BY DEF Dispatch, WakeRetry, RunEntry, SubmitAnswers, SubmitReturns, SubmitRaises,
     SubmitCancelled, FinalizeSuccess, srcVars, loopVars
<1>2. CASE UNCHANGED <<entry, marked>>
  BY <1>1, <1>2
<1>3. CASE /\ entry[t] \notin {"none", "done"}
           /\ \E s \in States : entry' = [entry EXCEPT ![t] = s] /\ marked' = marked
  BY <1>1, <1>3 DEF IInv, TypeOK, ManualTasks
<1>4. CASE /\ entry[t] \notin {"none", "done"}
           /\ entry' = [entry EXCEPT ![t] = "done"] /\ marked' = marked \cup {t}
  BY <1>1, <1>4 DEF IInv, TypeOK, ManualTasks
<1>5. CASE Dispatch(t) \/ WakeRetry(t)
  BY <1>2, <1>3, <1>5 DEF Dispatch, WakeRetry, RunEntry, ScheduleFailure, IInv,
     WaiterInv, States, srcVars
<1>6. CASE SubmitAnswers(t)
  <2>1. entry[t] = "running"
    BY <1>6 DEF SubmitAnswers, SubmitReturns, SubmitRaises, SubmitCancelled,
       RunnerEnds, IInv, OneRunner, TypeOK
  <2>2. \/ UNCHANGED <<entry, marked>>
        \/ \E s \in States : entry' = [entry EXCEPT ![t] = s] /\ marked' = marked
        \/ entry' = [entry EXCEPT ![t] = "done"] /\ marked' = marked \cup {t}
    BY <1>6 DEF SubmitAnswers, SubmitReturns, SubmitRaises, SubmitCancelled,
       ScheduleFailure, FinalizeSuccess, States, srcVars
  <2> QED
    BY <1>2, <1>3, <1>4, <2>1, <2>2
<1> QED
  BY <1>5, <1>6

\* Every step keeps the rows.
LEMMA StepKeepsRows == IInv /\ RowsInv /\ [Next]_vars => RowsInv'
<1> SUFFICES ASSUME IInv, RowsInv, [Next]_vars
             PROVE  RowsInv'
  OBVIOUS
<1>1. CASE TickBegin
  BY <1>1, FetchKeepsRows
<1>2. CASE TickFinish
  BY <1>2, AdmissionKeepsRows
<1>3. CASE stop \/ start_background
  BY <1>3 DEF stop, start_background, RowsInv, RowsAreKept, srcVars
<1>4. ASSUME NEW t \in Tasks, Enqueue(t)
      PROVE  RowsInv'
  BY <1>4 DEF Enqueue, RowsInv, RowsAreKept, loopVars
<1>5. ASSUME NEW t \in Tasks, BecomesDue(t) \/ TimePasses(t)
      PROVE  RowsInv'
  BY <1>5 DEF BecomesDue, TimePasses, RowsInv, RowsAreKept, srcVars, loopVars
<1>6. ASSUME NEW t \in Tasks, Dispatch(t) \/ WakeRetry(t) \/ SubmitAnswers(t)
      PROVE  RowsInv'
  BY <1>6, HandlersKeepRows
<1>7. CASE UNCHANGED vars
  BY <1>7 DEF vars, RowsInv, RowsAreKept, srcVars, loopVars
<1> QED
  BY <1>1, <1>2, <1>3, <1>4, <1>5, <1>6, <1>7 DEF Next

\* An accepted row is lost by nothing but a bad id in its fetch or a stop() of it.
THEOREM RowsKept == Spec => []RowsAreKept
<1>1. Init => RowsInv
  BY DEF Init, RowsInv, RowsAreKept
<1>2. IInv /\ RowsInv /\ [Next]_vars => RowsInv'
  BY StepKeepsRows
<1>3. RowsInv => RowsAreKept
  BY DEF RowsInv
<1> QED
  BY <1>1, <1>2, <1>3, Invariance, PTL DEF Spec

-----------------------------------------------------------------------------
(* Workspaces.                                                              *)

\* Only a finalisation removes a directory: the runner of its own task is gone by
\* then, and a run of another id in that directory has it as the done one.
LEMMA StepKeepsWorkspace ==
    ASSUME IInv, WorkspacePresent, [Next]_vars
    PROVE  WorkspacePresent'
<1> USE DEF WorkspacePresent
<1>0. \A u \in Tasks : entry[u] = "done" => entry'[u] = "done"
  BY StepKeepsFinal DEF KeepsFinal, Final
<1>1. CASE UNCHANGED <<active, dirs>>
  BY <1>0, <1>1
<1>2. CASE TickFinish
  BY <1>0, <1>2 DEF TickFinish
<1>3. ASSUME NEW t \in Tasks, Dispatch(t) \/ WakeRetry(t)
      PROVE  WorkspacePresent'
  BY <1>0, <1>3 DEF Dispatch, WakeRetry, RunEntry, IInv, TypeOK
<1>4. ASSUME NEW t \in Tasks, SubmitAnswers(t)
      PROVE  WorkspacePresent'
  <2>1. active' = [active EXCEPT ![t] = 0]
    BY <1>4 DEF SubmitAnswers, SubmitReturns, SubmitRaises, SubmitCancelled,
       RunnerEnds, IInv, OneRunner, TypeOK
  <2>2. dirs' = dirs \/ (dirs' = dirs \ {Dir[t]} /\ entry'[t] = "done")
    BY <1>4 DEF SubmitAnswers, SubmitReturns, SubmitRaises, SubmitCancelled,
       CleanupAfterRun, FinalizeSuccess, IInv, TypeOK
  <2>3. SUFFICES ASSUME NEW u \in Tasks, active'[u] > 0
                 PROVE  \/ Dir[u] \in dirs'
                        \/ \E v \in Tasks \ {u} : Dir[v] = Dir[u] /\ entry'[v] = "done"
    OBVIOUS
  <2>4. u # t /\ active[u] > 0
    BY <2>1, <2>3 DEF IInv, TypeOK
  <2> QED
    BY <1>0, <2>2, <2>4
<1>5. ASSUME NEW t \in Tasks, Enqueue(t) \/ BecomesDue(t) \/ TimePasses(t)
      PROVE  UNCHANGED <<active, dirs>>
  BY <1>5 DEF Enqueue, BecomesDue, TimePasses, runVars
<1>6. ASSUME start_background \/ stop \/ TickBegin \/ UNCHANGED vars
      PROVE  UNCHANGED <<active, dirs>>
  BY <1>6 DEF start_background, stop, TickBegin, vars, runVars
<1> QED
  BY <1>1, <1>2, <1>3, <1>4, <1>5, <1>6 DEF Next

\* However ids sanitize, only the success of a task with the same directory name
\* takes the workspace of a running task away.
THEOREM WorkspaceStays == Spec => []WorkspacePresent
<1>1. Init => WorkspacePresent
  BY DEF Init, WorkspacePresent
<1>2. IInv /\ WorkspacePresent /\ [Next]_vars => WorkspacePresent'
  BY StepKeepsWorkspace
<1> QED
  BY <1>1, <1>2, Invariance, PTL DEF Spec

-----------------------------------------------------------------------------
(* Refinement.                                                              *)

\* The initial state of the orchestrator is one of the lifecycle.
LEMMA InitRefines == Init => Lifecycle!Init
BY DEF Init, Lifecycle!Init, phaseOf

\* Rewriting the entry of one task rewrites its phase and no other.
LEMMA PhaseOfOne ==
    ASSUME TypeOK, NEW t \in Tasks, NEW s \in States,
           entry' = [entry EXCEPT ![t] = s], NEW p,
           p = CASE s = "none" -> "unknown"
                 [] s \in {"pending", "retry_queued"} -> "waiting"
                 [] s = "running" -> "executing"
                 [] OTHER -> s
    PROVE  [u \in Tasks |-> phaseOf(u)]' =
              [[u \in Tasks |-> phaseOf(u)] EXCEPT ![t] = p]
BY DEF TypeOK, States, phaseOf

\* An attempt is made only while the budget lasts.
LEMMA TriesWithinBudget ==
    ASSUME Limited, IInv, NEW t \in Tasks,
           entry[t] \in {"pending", "retry_queued"}, RunEntry(t)
    PROVE  Lifecycle!Try(t)
<1>1. runs[t] < MaxAttempts + MaxContinuations
  BY PolicyAssumption
     DEF IInv, TypeOK, CountInv, AttemptNumber, Limited
<1>2. PICK s \in {"running", "retry_queued", "failed"} :
        entry' = [entry EXCEPT ![t] = s]
  BY DEF RunEntry, ScheduleFailure
<1> DEFINE p == CASE s = "running" -> "executing"
                  [] s = "retry_queued" -> "waiting"
                  [] OTHER -> "failed"
<1>3. [u \in Tasks |-> phaseOf(u)]' =
        [[u \in Tasks |-> phaseOf(u)] EXCEPT ![t] = p]
  BY <1>2, PhaseOfOne DEF IInv, States
<1>4. p \in {"executing", "waiting", "failed"}
  BY <1>2
<1>5. phaseOf(t) = "waiting"
  BY DEF phaseOf
<1>6. runs' = [runs EXCEPT ![t] = @ + 1] /\ marked' = marked
  BY DEF RunEntry, srcVars
<1> QED
  BY <1>1, <1>3, <1>4, <1>5, <1>6 DEF Lifecycle!Try

\* The end of an execution is a yield or a success of the lifecycle, or, when
\* the process is stopping, goes unnoticed by it.
LEMMA AnswersRefine ==
    ASSUME IInv, NEW t \in Tasks, SubmitAnswers(t)
    PROVE  \/ Lifecycle!Yield(t)
           \/ Lifecycle!Succeed(t)
           \/ UNCHANGED <<entry, runs, marked>>
<1>1. phaseOf(t) = "executing" /\ TypeOK
  BY DEF SubmitAnswers, SubmitReturns, SubmitRaises, SubmitCancelled,
     RunnerEnds, IInv, OneRunner, TypeOK, phaseOf
<1>2. runs' = runs
  BY DEF SubmitAnswers, SubmitReturns, SubmitRaises, SubmitCancelled
<1>3. ASSUME marked' = marked, NEW s \in {"retry_queued", "failed"},
             entry' = [entry EXCEPT ![t] = s]
      PROVE  Lifecycle!Yield(t)
  <2> DEFINE p == IF s = "failed" THEN "failed" ELSE "waiting"
  <2>1. [u \in Tasks |-> phaseOf(u)]' =
          [[u \in Tasks |-> phaseOf(u)] EXCEPT ![t] = p]
    BY <1>1, <1>3, PhaseOfOne DEF States
  <2> QED
    BY <1>1, <1>2, <1>3, <2>1 DEF Lifecycle!Yield
<1>4. ASSUME marked' = marked \cup {t}, entry' = [entry EXCEPT ![t] = "done"]
      PROVE  Lifecycle!Succeed(t)
  <2>1. [u \in Tasks |-> phaseOf(u)]' =
          [[u \in Tasks |-> phaseOf(u)] EXCEPT ![t] = "done"]
    BY <1>1, <1>4, PhaseOfOne DEF States
  <2> QED
    BY <1>1, <1>2, <1>4, <2>1 DEF Lifecycle!Succeed
<1>5. ASSUME NEW wants \in BOOLEAN, SubmitReturns(t, wants)
      PROVE  Lifecycle!Yield(t) \/ Lifecycle!Succeed(t)
  BY <1>3, <1>4, <1>5 DEF SubmitReturns, FinalizeSuccess
<1>6. CASE SubmitRaises(t)
  BY <1>3, <1>6 DEF SubmitRaises, ScheduleFailure, srcVars
<1>7. CASE SubmitCancelled(t)
  BY <1>2, <1>3, <1>7 DEF SubmitCancelled, ScheduleFailure, srcVars
<1> QED
  BY <1>5, <1>6, <1>7 DEF SubmitAnswers

\* Every step of the orchestrator is a step of the lifecycle or a stutter.
LEMMA StepRefines ==
    ASSUME Limited, IInv, [Next]_vars
    PROVE  [Lifecycle!Next]_(Lifecycle!vars)
<1>1. CASE UNCHANGED <<entry, runs, marked>>
  BY <1>1 DEF Lifecycle!vars, phaseOf
<1>2. CASE TickFinish
  <2>1. PICK adm \in Admitted :
          entry' = [t \in Tasks |-> IF t \in adm THEN "pending" ELSE entry[t]]
    BY <1>2 DEF TickFinish
  <2>2. adm \in SUBSET Tasks /\ \A t \in adm : entry[t] = "none"
    BY <2>1 DEF Admitted, Fresh, IInv, TypeOK
  <2>3. \A t \in adm : phaseOf(t) = "unknown"
    BY <2>2 DEF phaseOf
  <2>4. [t \in Tasks |-> phaseOf(t)]' =
          [t \in Tasks |-> IF t \in adm THEN "waiting" ELSE phaseOf(t)]
    BY <2>1 DEF phaseOf
  <2>5. UNCHANGED <<runs, marked>>
    BY <1>2 DEF TickFinish, srcVars, ctrVars
  <2>6. Lifecycle!Accept(adm)
    BY <2>2, <2>3, <2>4, <2>5 DEF Lifecycle!Accept
  <2> QED
    BY <2>2, <2>6 DEF Lifecycle!Next
<1>3. ASSUME NEW t \in Tasks, Dispatch(t)
      PROVE  Lifecycle!Next
  BY <1>3, TriesWithinBudget
     DEF Dispatch, IInv, WaiterInv, Lifecycle!Next
<1>4. ASSUME NEW t \in Tasks, WakeRetry(t)
      PROVE  Lifecycle!Next \/ UNCHANGED <<entry, runs, marked>>
  BY <1>4, TriesWithinBudget DEF WakeRetry, srcVars, ctrVars, Lifecycle!Next
<1>5. ASSUME NEW t \in Tasks, SubmitAnswers(t)
      PROVE  Lifecycle!Next \/ UNCHANGED <<entry, runs, marked>>
  BY <1>5, AnswersRefine DEF Lifecycle!Next
<1>6. ASSUME NEW t \in Tasks, Enqueue(t) \/ BecomesDue(t) \/ TimePasses(t)
      PROVE  UNCHANGED <<entry, runs, marked>>
  BY <1>6 DEF Enqueue, BecomesDue, TimePasses, ctrVars, srcVars
<1>7. ASSUME start_background \/ stop \/ TickBegin \/ UNCHANGED vars
      PROVE  UNCHANGED <<entry, runs, marked>>
  BY <1>7 DEF start_background, stop, TickBegin, vars, ctrVars, srcVars
<1> QED
  BY <1>1, <1>2, <1>3, <1>4, <1>5, <1>6, <1>7 DEF Next

\* With both retry limits set, the orchestrator implements TaskLifecycle.
THEOREM Refinement ==
    ASSUME Limited
    PROVE  Spec => ImplementsLifecycle
<1>1. Init => Lifecycle!Init
  BY InitRefines
<1>2. IInv /\ [Next]_vars => [Lifecycle!Next]_(Lifecycle!vars)
  BY StepRefines
<1> QED
  BY <1>1, <1>2, Invariance, PTL DEF Spec, ImplementsLifecycle, Lifecycle!Spec

=============================================================================
