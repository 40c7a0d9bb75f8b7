---------------------------- MODULE WorkflowEngine ----------------------------
(***************************************************************************)
(* One execution of a workflow graph by WorkflowEngine,                    *)
(* core/workflow_engine.py: run() starts the entry nodes, and every node   *)
(* that completes starts its successors with a gather of its own, under a  *)
(* semaphore of its own, and waits for them.  Callers may pause, resume or *)
(* cancel the execution, cancel the task that awaits run(), and run() the  *)
(* execution again by its id while it is active.                           *)
(*                                                                         *)
(* A node is entered once per way to it.  An activation is such an entry:  *)
(* the run() it belongs to and the path from an entry node.  One action is *)
(* the code up to the next await.  An activation whose successors are at   *)
(* work is not kept: it is over when no activation below it is left.       *)
(***************************************************************************)
EXTENDS Naturals, Sequences, FiniteSets

CONSTANTS
    Nodes,
    Graphs,         \* edge sets, one of which is the graph
    Approvals,      \* nodes of type human_approval
    Runs,           \* calls of run() for this execution
    MaxConcurrent,  \* max_concurrent_nodes
    MaxControls     \* bound: pauses, resumes and cancels

ASSUME WorkflowAssumption ==
    /\ Graphs \subseteq SUBSET (Nodes \X Nodes)
    /\ Approvals \subseteq Nodes
    /\ MaxConcurrent \in Nat \ {0} /\ MaxControls \in Nat

VARIABLES
    graph,      \* the edges
    status,     \* context.status
    active,     \* the id is in active_executions
    run,        \* where each run() is
    waiting,    \* activations that were started and wait for their turn
    executing,  \* activations whose component is being executed
    results,    \* keys of context.node_results
    failed,     \* nodes with an error event in context.event_log
    rec,        \* status of each node's record in node_executions
    recOf,      \* the activation the record was made by
    scheduled,  \* history: nodes that were started
    gone,       \* history: activations a CancelledError took from their component
    resumed,    \* history: resume_execution resumed the execution
    controls    \* pauses, resumes and cancels that found the execution

recVars == <<rec, recOf>>
workVars == <<waiting, executing, scheduled, gone>>
callVars == <<resumed, controls>>
vars == <<graph, status, active, run, workVars, results, failed, recVars, callVars>>

Statuses == {"pending", "running", "paused", "completed", "failed", "cancelled"}
Activations == [run : Runs, path : Seq(Nodes)]
NoActivation == [path |-> <<>>]

TypeOK ==
    /\ graph \in Graphs
    /\ status \in Statuses
    /\ active \in BOOLEAN
    /\ run \in [Runs -> {"none", "running", "cancelled", "over"}]
    /\ waiting \subseteq Activations /\ executing \subseteq Activations
    /\ gone \subseteq Activations /\ resumed \in BOOLEAN
    /\ \A a \in waiting \cup executing : a.path # <<>>
    /\ results \subseteq Nodes /\ failed \subseteq Nodes /\ scheduled \subseteq Nodes
    /\ rec \in [Nodes -> {"none", "running", "completed", "failed"}]
    /\ recOf \in [Nodes -> Activations \cup {NoActivation}]
    /\ controls \in 0..MaxControls

Init ==
    /\ graph \in Graphs
    /\ status = "pending" /\ active = FALSE
    /\ run = [r \in Runs |-> "none"]
    /\ waiting = {} /\ executing = {} /\ scheduled = {} /\ gone = {}
    /\ results = {} /\ failed = {}
    /\ rec = [n \in Nodes |-> "none"]
    /\ recOf = [n \in Nodes |-> NoActivation]
    /\ controls = 0 /\ resumed = FALSE

-----------------------------------------------------------------------------
(* The graph.                                                               *)

get_entry_nodes == {n \in Nodes : \A m \in Nodes : <<m, n>> \notin graph}

Successors(n) == {m \in Nodes : <<n, m>> \in graph}

\* A set of nodes each of which has a successor in it holds a cycle.
has_cycles == \E C \in SUBSET Nodes \ {{}} : \A n \in C : Successors(n) \cap C # {}

validate == ~has_cycles /\ get_entry_nodes # {}

-----------------------------------------------------------------------------
(* The activations.                                                         *)

node(a) == a.path[Len(a.path)]

\* The activations that start when a has completed and lets the edges to S pass.
below(a, S) == {[run |-> a.run, path |-> Append(a.path, n)] : n \in S}

\* Seeded fault: one semaphore for all nodes of a run().
HoldersOfRun(a) ==
    UNION {{SubSeq(b.path, 1, n) : n \in 1..Len(b.path)} :
             b \in {b \in executing \cup waiting : b.run = a.run}}
       \ {b.path : b \in waiting}

\* The activations that hold a slot of the semaphore a waits for: those of the
\* same gather that are being executed or have activations below them.
Holders(a) ==
    LET n == Len(a.path)
    IN  {SubSeq(b.path, 1, n) :
           b \in {b \in executing \cup waiting :
                    /\ b.run = a.run
                    /\ Len(b.path) > n \/ (Len(b.path) = n /\ b \in executing)
                    /\ SubSeq(b.path, 1, n - 1) = SubSeq(a.path, 1, n - 1)}}

\* A waiting activation gets its slot.
Enters(a) ==
    /\ a \in waiting
    /\ Cardinality(Holders(a)) < MaxConcurrent
    /\ waiting' = waiting \ {a}

-----------------------------------------------------------------------------
(* run() and the nodes.                                                     *)

\* run() up to its gather.  A run by id finds the execution while it is active;
\* otherwise it is another execution, under an id of its own.
Begin(r) ==
    /\ run[r] = "none"
    /\ active \/ \A s \in Runs : run[s] = "none"
    /\ IF validate
         THEN /\ status' = "running" /\ active' = TRUE
              /\ run' = [run EXCEPT ![r] = "running"]
              /\ waiting' = waiting \cup {[run |-> r, path |-> <<n>>] : n \in get_entry_nodes}
              /\ scheduled' = scheduled \cup get_entry_nodes
         ELSE /\ status' = "failed" /\ active' = FALSE
              /\ run' = [run EXCEPT ![r] = "over"]
              /\ UNCHANGED <<waiting, scheduled>>
    /\ UNCHANGED <<graph, executing, gone, results, failed, recVars, callVars>>

\* A paused execution passes over the node.
NodeSkips(a) ==
    /\ status = "paused"
    /\ Enters(a)
    /\ UNCHANGED <<graph, status, active, run, executing, scheduled, gone, results, failed,
                   recVars, callVars>>

\* The new record replaces the one of another activation of the node.
Records(a) ==
    /\ rec' = [rec EXCEPT ![node(a)] = "running"]
    /\ recOf' = [recOf EXCEPT ![node(a)] = a]

\* _execute_human_approval: the execution is paused, and nothing follows.
AsksApproval(a) ==
    /\ status # "paused"
    /\ Enters(a)
    /\ node(a) \in Approvals
    /\ status' = "paused"
    /\ Records(a)
    /\ UNCHANGED <<graph, active, run, executing, scheduled, gone, results, failed, callVars>>

NodeStarts(a) ==
    /\ status # "paused"
    /\ Enters(a)
    /\ node(a) \notin Approvals
    /\ executing' = executing \cup {a}
    /\ Records(a)
    /\ UNCHANGED <<graph, status, active, run, scheduled, gone, results, failed, callVars>>

\* The component returned; any of the edges' conditions may hold.
NodeCompletes(a) ==
    /\ a \in executing
    /\ executing' = executing \ {a}
    /\ results' = results \cup {node(a)}
    /\ rec' = IF recOf[node(a)] = a THEN [rec EXCEPT ![node(a)] = "completed"] ELSE rec
    /\ \E S \in SUBSET Successors(node(a)) :
          waiting' = waiting \cup below(a, S) /\ scheduled' = scheduled \cup S
    /\ UNCHANGED <<graph, status, active, run, gone, failed, recOf, callVars>>

\* Seeded faults: the failure is logged and forgotten; its record is kept.
NodeFailsSilently(a) ==
    /\ a \in executing
    /\ executing' = executing \ {a}
    /\ failed' = failed \cup {node(a)}
    /\ rec' = [rec EXCEPT ![node(a)] = "failed"]
    /\ UNCHANGED <<graph, status, active, run, waiting, scheduled, gone, results, recOf,
                   callVars>>
NodeFailsUnrecorded(a) ==
    /\ a \in executing
    /\ executing' = executing \ {a}
    /\ failed' = failed \cup {node(a)}
    /\ status' = "failed"
    /\ UNCHANGED <<graph, active, run, waiting, scheduled, gone, results, recVars, callVars>>

\* It raised, or the condition of an edge did when the result was stored: the
\* node's record, whose ever it is, and the execution fail.
NodeFails(a) ==
    /\ a \in executing
    /\ executing' = executing \ {a}
    /\ failed' = failed \cup {node(a)}
    /\ rec' = [rec EXCEPT ![node(a)] = "failed"]
    /\ results' \in {results, results \cup {node(a)}}
    /\ status' = "failed"
    /\ UNCHANGED <<graph, active, run, waiting, scheduled, gone, recOf, callVars>>

\* It ended with a CancelledError, its own or that of a cancelled run(): `except
\* Exception' lets it pass and the gather above returns it as a result nobody
\* reads.
NodeVanishes(a) ==
    /\ a \in executing
    /\ executing' = executing \ {a}
    /\ gone' = gone \cup {a}
    /\ UNCHANGED <<graph, status, active, run, waiting, scheduled, results, failed, recVars,
                   callVars>>

\* Seeded fault: an execution that failed stays among the active ones.
ReturnsKeepingFailed(r) ==
    /\ run[r] = "running"
    /\ \A a \in waiting \cup executing : a.run # r
    /\ run' = [run EXCEPT ![r] = "over"]
    /\ status' = IF status = "running" THEN "completed" ELSE status
    /\ active' = (active /\ status' \in {"paused", "failed"})
    /\ UNCHANGED <<graph, workVars, results, failed, recVars, callVars>>

\* run() after its gather.
Returns(r) ==
    /\ run[r] = "running"
    /\ \A a \in waiting \cup executing : a.run # r
    /\ run' = [run EXCEPT ![r] = "over"]
    /\ status' = IF status = "running" THEN "completed" ELSE status
    /\ active' = (active /\ status' = "paused")
    /\ UNCHANGED <<graph, workVars, results, failed, recVars, callVars>>

\* The task that awaits run() is cancelled.  An activation that waits for its turn
\* ends; a component gets the CancelledError, and what it makes of it is its own.
CancelRun(r) ==
    /\ run[r] \in {"running", "cancelled"}
    /\ controls < MaxControls
    /\ run' = [run EXCEPT ![r] = "cancelled"]
    /\ waiting' = {a \in waiting : a.run # r}
    /\ controls' = controls + 1
    /\ UNCHANGED <<graph, status, active, executing, scheduled, gone, results, failed, recVars,
                   resumed>>

\* The gather of a cancelled run() raises: only its finally is executed.
ReturnsCancelled(r) ==
    /\ run[r] = "cancelled"
    /\ \A a \in waiting \cup executing : a.run # r
    /\ run' = [run EXCEPT ![r] = "over"]
    /\ active' = (active /\ status = "paused")
    /\ UNCHANGED <<graph, status, workVars, results, failed, recVars, callVars>>

-----------------------------------------------------------------------------
(* pause_execution, resume_execution and cancel_execution set the status of *)
(* an active execution and nothing else.                                    *)
Control(new) ==
    /\ active
    /\ new = "running" => status = "paused"
    /\ controls < MaxControls
    /\ status' = new
    /\ controls' = controls + 1
    /\ resumed' = (resumed \/ new = "running")
    /\ UNCHANGED <<graph, active, run, workVars, results, failed, recVars>>

pause_execution == Control("paused")
resume_execution == Control("running")
cancel_execution == Control("cancelled")

-----------------------------------------------------------------------------
Enter(a) == NodeSkips(a) \/ AsksApproval(a) \/ NodeStarts(a)
Leave(a) == NodeCompletes(a) \/ NodeFails(a) \/ NodeVanishes(a)

Next ==
    \/ \E r \in Runs : Begin(r) \/ Returns(r) \/ CancelRun(r) \/ ReturnsCancelled(r)
    \/ \E a \in waiting : Enter(a)
    \/ \E a \in executing : Leave(a)
    \/ pause_execution \/ resume_execution \/ cancel_execution

Spec == Init /\ [][Next]_vars

\* The event loop goes on with what can go on, and every component ends: the
\* engine has no timeout for one.
FairSpec ==
    /\ Spec
    /\ \A r \in Runs :
          /\ WF_vars(\E a \in waiting : a.run = r /\ Enter(a))
          /\ WF_vars(\E a \in executing : a.run = r /\ Leave(a))
          /\ WF_vars(Returns(r) \/ ReturnsCancelled(r))

=============================================================================
