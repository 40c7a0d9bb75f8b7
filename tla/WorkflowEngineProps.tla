-------------------------- MODULE WorkflowEngineProps -------------------------
(***************************************************************************)
(* What WorkflowEngine must satisfy.                                       *)
(***************************************************************************)
EXTENDS WorkflowEngine

Begun(r) == run[r] # "none"

\* run() was called for the execution again.
again == \E r, s \in Runs : r # s /\ Begun(r) /\ Begun(s)

\* Somebody paused, resumed, cancelled or ran the execution again.
touched == controls > 0 \/ again

\* An execution that run() was called for once is shown as completed only when
\* nothing of it is left at work.  If it was not resumed either, no node of it
\* failed by any path, and every node it started has a result or is still shown
\* as running, because a CancelledError took its component: the gather swallows
\* that.  Pauses, cancels and the cancellation of run() do not weaken this.  A
\* resume does: it makes `running' of a pause that covered a failure.
CompletedIsWhole ==
    status = "completed" /\ ~again =>
       /\ waiting = {} /\ executing = {}
       /\ ~resumed => /\ failed = {}
                      /\ \A n \in scheduled : n \in results \/ rec[n] = "running"

\* A node shown as running is being executed, waits for an approval, or had its
\* component taken by a CancelledError, although the activations of a join share
\* one record and overwrite each other's, and whatever is cancelled.
RecordsSettle ==
    \A n \in Nodes :
       rec[n] = "running" => n \in Approvals \/ recOf[n] \in executing \cup gone

\* An execution nobody interfered with can be looked up, paused and cancelled
\* exactly as long as it goes on or waits for an approval.
ActiveIsGoingOn ==
    ~touched => (active <=> (status = "paused" \/ \E r \in Runs : run[r] = "running"))

\* Every run() returns, cancelled or not, however small the semaphores and deep
\* the graph: a node that waits for its successors holds no slot they need.
RunsReturn ==
    \A r \in Runs : (run[r] \in {"running", "cancelled"}) ~> (run[r] = "over")

=============================================================================
