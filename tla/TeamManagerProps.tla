-------------------------- MODULE TeamManagerProps ---------------------------
(***************************************************************************)
(* What TeamManager must satisfy.                                          *)
(***************************************************************************)
EXTENDS TeamManager

\* An agent shown as running has a run that executes its turn or is about to,
\* through every overlap of cancels, resumes, retries and escalations: the end
\* of an old run never leaves the new one's status behind.  The exception is a
\* newest run whose setup raised; a manager that was shut down shows nothing.
RunningIsLive ==
    down \/ \A a \in Agents :
               status[a] = "running" =>
                  \/ Live(a, launched[a])
                  \/ stage[a][launched[a]] = "raised"

\* The circuit breaker: an agent runs once, once more per request of its owner,
\* and at most MaxEscalation times on its own, even when overlapping runs of it
\* fail together.
RunBudget ==
    \A a \in Agents : launched[a] <= 1 + asked[a] + MaxEscalation

\* What its owner has cancelled starts no run until the owner asks for it again,
\* whichever of its runs ends, fails or is taken for the newest meanwhile.  The
\* exception is a turn that raises after the cancel: its failure is escalated.
CancelIsFinal ==
    [][\A a \in Agents :
          owner[a] = "cancelled" /\ launched'[a] > launched[a]
              => asked'[a] > asked[a]]_vars

\* No agent retries for ever: whatever runs comes to an end, unless its setup
\* raised.
RunsEnd ==
    \A a \in Agents :
       (status[a] = "running") ~>
          \/ down \/ status[a] # "running"
          \/ stage[a][launched[a]] = "raised"

=============================================================================
