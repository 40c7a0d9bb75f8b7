---------------------------- MODULE TaskLifecycle ----------------------------
(***************************************************************************)
(* What the long-run orchestrator promises about a task, with none of its  *)
(* machinery: a task is accepted once, executes a bounded number of times, *)
(* ends done or failed and stays there, and only a task that is done is    *)
(* reported to the source it came from.                                    *)
(***************************************************************************)
EXTENDS Naturals

CONSTANTS
    Tasks,
    Budget      \* the largest number of executions of one task

VARIABLES
    phase,      \* what an observer sees of each task
    executions, \* how often its execution has been started
    reported    \* the tasks reported back to their source

vars == <<phase, executions, reported>>

Init ==
    /\ phase = [t \in Tasks |-> "unknown"]
    /\ executions = [t \in Tasks |-> 0]
    /\ reported = {}

\* One poll accepts any number of tasks it has never seen.
Accept(S) ==
    /\ \A t \in S : phase[t] = "unknown"
    /\ phase' = [t \in Tasks |-> IF t \in S THEN "waiting" ELSE phase[t]]
    /\ UNCHANGED <<executions, reported>>

\* A waiting task is tried; the attempt may fail before it executes.
Try(t) ==
    /\ phase[t] = "waiting"
    /\ executions[t] < Budget
    /\ executions' = [executions EXCEPT ![t] = @ + 1]
    /\ \E p \in {"executing", "waiting", "failed"} :
          phase' = [phase EXCEPT ![t] = p]
    /\ UNCHANGED reported

\* An executing task pauses until its next attempt, or is given up.
Yield(t) ==
    /\ phase[t] = "executing"
    /\ \E p \in {"waiting", "failed"} : phase' = [phase EXCEPT ![t] = p]
    /\ UNCHANGED <<executions, reported>>

\* An executing task succeeds, and its source hears of it in the same step.
Succeed(t) ==
    /\ phase[t] = "executing"
    /\ phase' = [phase EXCEPT ![t] = "done"]
    /\ reported' = reported \cup {t}
    /\ UNCHANGED executions

Next ==
    \/ \E S \in SUBSET Tasks : Accept(S)
    \/ \E t \in Tasks : Try(t) \/ Yield(t) \/ Succeed(t)

Spec == Init /\ [][Next]_vars

=============================================================================
