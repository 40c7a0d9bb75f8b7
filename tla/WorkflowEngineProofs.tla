------------------------- MODULE WorkflowEngineProofs -------------------------
(***************************************************************************)
(* Proofs of the safety properties of WorkflowEngine, for every graph,     *)
(* every number of runs and controls and every size of the semaphores.     *)
(*                                                                         *)
(* They need to know that every activation belongs to a run() in progress  *)
(* (Own), that nothing happened before the first one (Fresh), that a run() *)
(* is cancelled by somebody (Asked), that a node being executed is shown   *)
(* so unless another activation of it ended (Marked), and that every node  *)
(* that was started has a result, is shown as running or is still at work  *)
(* (Whole).                                                                *)
(***************************************************************************)
EXTENDS WorkflowEngineProps, TLAPS

AtWork == waiting \cup executing

GoingOn == {"running", "cancelled"}

Own == \A a \in AtWork : run[a.run] \in GoingOn

Fresh ==
    (\A r \in Runs : run[r] = "none") =>
       /\ ~active /\ failed = {} /\ scheduled = {}
       /\ waiting = {} /\ executing = {}

Asked == \A r \in Runs : run[r] = "cancelled" => controls > 0

Marked ==
    \A a \in executing : rec[node(a)] = "running" \/ node(a) \in results \cup failed

Accounted(n) ==
    n \in results \/ rec[n] = "running" \/ \E a \in AtWork : node(a) = n

\* The execution is completed, or will be when its run() returns.
Completing == status = "completed" \/ (status = "running" /\ \E r \in Runs : run[r] = "running")

Whole ==
    ~again =>
       /\ status = "completed" => \A r \in Runs : run[r] \notin GoingOn
       /\ Completing /\ ~resumed => failed = {} /\ \A n \in scheduled : Accounted(n)

\* A record was made by an activation of its node.
Settled ==
    \A n \in Nodes :
       rec[n] = "running" =>
          n \in Approvals \/ (recOf[n] \in executing \cup gone /\ node(recOf[n]) = n)

IInv ==
    /\ TypeOK /\ Own /\ Fresh /\ Asked /\ Marked /\ Whole /\ Settled
    /\ ActiveIsGoingOn

-----------------------------------------------------------------------------
(* Paths.                                                                   *)

\* The node of an activation is a node.
LEMMA NodeType ==
    ASSUME NEW a \in Activations, a.path # <<>>
    PROVE  node(a) \in Nodes /\ a.run \in Runs
BY DEF node, Activations

\* An activation below another is one of the node it was started for.
LEMMA BelowIs ==
    ASSUME NEW a \in Activations, NEW S \in SUBSET Nodes, NEW b \in below(a, S)
    PROVE  /\ b \in Activations /\ b.path # <<>> /\ b.run = a.run /\ node(b) \in S
<1>1. PICK n \in S : b = [run |-> a.run, path |-> Append(a.path, n)]
  BY DEF below
<1>2. a.run \in Runs /\ a.path \in Seq(Nodes) /\ n \in Nodes
  BY DEF Activations
<1>3. /\ Append(a.path, n) \in Seq(Nodes) /\ Append(a.path, n) # <<>>
      /\ Append(a.path, n)[Len(Append(a.path, n))] = n
  BY <1>2
<1> QED BY <1>1, <1>2, <1>3 DEF Activations, node

\* Every node a completion starts has an activation below it.
LEMMA BelowHas ==
    ASSUME NEW a \in Activations, NEW S \in SUBSET Nodes, NEW n \in S
    PROVE  \E b \in below(a, S) : node(b) = n
<1> DEFINE b == [run |-> a.run, path |-> Append(a.path, n)]
<1>1. b \in below(a, S)
  BY DEF below
<1>2. a.path \in Seq(Nodes) /\ n \in Nodes
  BY DEF Activations
<1>3. Append(a.path, n)[Len(Append(a.path, n))] = n
  BY <1>2
<1>4. node(b) = n
  BY <1>3 DEF node
<1> QED BY <1>1, <1>4

-----------------------------------------------------------------------------
(* run().                                                                   *)

LEMMA BeginInv ==
    ASSUME IInv, NEW r \in Runs, Begin(r)
    PROVE  IInv'
<1>1. /\ TypeOK /\ Own /\ Fresh /\ Asked /\ Marked /\ Settled
      /\ graph' = graph /\ executing' = executing /\ results' = results /\ failed' = failed
      /\ rec' = rec /\ recOf' = recOf /\ gone' = gone /\ controls' = controls
      /\ resumed' = resumed
      /\ run[r] = "none" /\ (active \/ \A s \in Runs : run[s] = "none")
  BY DEF IInv, Begin, recVars, callVars
<1>2. /\ run' \in [Runs -> {"none", "running", "cancelled", "over"}]
      /\ run'[r] \in {"running", "over"}
      /\ \A s \in Runs \ {r} : run'[s] = run[s]
  BY <1>1 DEF Begin, TypeOK
<1> DEFINE E == {[run |-> r, path |-> <<n>>] : n \in get_entry_nodes}
<1>3. get_entry_nodes \subseteq Nodes
  BY DEF get_entry_nodes
<1>4. ASSUME NEW a \in E
      PROVE  a \in Activations /\ a.path # <<>> /\ a.run = r
  <2>1. PICK n \in get_entry_nodes : a = [run |-> r, path |-> <<n>>]
    OBVIOUS
  <2>2. <<n>> \in Seq(Nodes) /\ <<n>> # <<>>
    BY <1>3, <2>1
  <2> QED BY <2>1, <2>2 DEF Activations
<1>5. ASSUME NEW n \in get_entry_nodes
      PROVE  \E a \in E : node(a) = n
  <2>1. <<n>>[Len(<<n>>)] = n
    OBVIOUS
  <2>2. node([run |-> r, path |-> <<n>>]) = n
    BY <2>1 DEF node
  <2> QED BY <2>2
<1> HIDE DEF E
<1>6. Asked'
  BY <1>1, <1>2 DEF Asked
<1>7. Marked' /\ Settled'
  BY <1>1 DEF Marked, Settled
<1>8. ASSUME NEW a \in AtWork
      PROVE  run'[a.run] = run[a.run] /\ run[a.run] \in GoingOn /\ a.run # r
  <2>1. a.run \in Runs /\ run[a.run] \in GoingOn
    BY <1>1 DEF Own, AtWork, TypeOK, Activations
  <2> QED BY <1>1, <1>2, <2>1 DEF GoingOn
<1>9. (\E s \in Runs : run[s] # "none") => again'
  BY <1>1, <1>2 DEF again, Begun
<1>10. CASE validate
  <2>1. /\ status' = "running" /\ active' = TRUE /\ run'[r] = "running"
        /\ waiting' = waiting \cup E /\ scheduled' = scheduled \cup get_entry_nodes
    BY <1>1, <1>10 DEF Begin, E, TypeOK
  <2>2. TypeOK'
    BY <1>1, <1>2, <1>3, <1>4, <2>1 DEF TypeOK, Statuses
  <2>3. Own'
    <3>1. ASSUME NEW a \in AtWork' PROVE run'[a.run] \in GoingOn
      <4>1. CASE a \in E
        BY <1>4, <2>1, <4>1 DEF GoingOn
      <4>2. CASE a \in AtWork
        BY <1>8, <4>2
      <4> QED BY <1>1, <2>1, <3>1, <4>1, <4>2 DEF AtWork
    <3> QED BY <3>1 DEF Own
  <2>4. Fresh'
    BY <2>1 DEF Fresh
  <2>5. ActiveIsGoingOn'
    BY <2>1 DEF ActiveIsGoingOn
  <2>6. Whole'
    <3>1. CASE \A s \in Runs : run[s] = "none"
      <4>1. failed = {} /\ scheduled = {}
        BY <1>1, <3>1 DEF Fresh
      <4>2. \A n \in scheduled' : \E a \in AtWork' : node(a) = n
        BY <1>5, <2>1, <4>1 DEF AtWork
      <4> QED BY <1>1, <2>1, <4>1, <4>2 DEF Whole, Accounted
    <3> QED BY <1>9, <3>1 DEF Whole
  <2> QED BY <1>6, <1>7, <2>2, <2>3, <2>4, <2>5, <2>6 DEF IInv
<1>11. CASE ~validate
  <2>1. /\ status' = "failed" /\ active' = FALSE /\ run'[r] = "over"
        /\ waiting' = waiting /\ scheduled' = scheduled
    BY <1>1, <1>11 DEF Begin, TypeOK
  <2>2. TypeOK'
    BY <1>1, <1>2, <2>1 DEF TypeOK, Statuses
  <2>3. Own'
    BY <1>1, <1>8, <2>1 DEF Own, AtWork
  <2>4. Fresh'
    BY <2>1 DEF Fresh
  <2>5. Whole'
    BY <2>1 DEF Whole, Completing
  <2>6. ActiveIsGoingOn'
    <3>1. CASE \A s \in Runs : run[s] = "none"
      BY <1>2, <2>1, <3>1 DEF ActiveIsGoingOn
    <3> QED BY <1>9, <3>1 DEF ActiveIsGoingOn, touched
  <2> QED BY <1>6, <1>7, <2>2, <2>3, <2>4, <2>5, <2>6 DEF IInv
<1> QED BY <1>10, <1>11

\* run() returns, in its course or cancelled: nothing of it is at work.
LEMMA ReturnsInv ==
    ASSUME IInv, NEW r \in Runs, Returns(r) \/ ReturnsCancelled(r)
    PROVE  IInv'
<1>1. /\ TypeOK /\ Own /\ Fresh /\ Asked /\ Marked /\ Whole /\ Settled /\ ActiveIsGoingOn
      /\ graph' = graph /\ waiting' = waiting /\ executing' = executing
      /\ scheduled' = scheduled /\ results' = results /\ failed' = failed
      /\ rec' = rec /\ recOf' = recOf /\ gone' = gone /\ controls' = controls
      /\ resumed' = resumed
      /\ run[r] \in GoingOn /\ \A a \in AtWork : a.run # r
  BY DEF IInv, Returns, ReturnsCancelled, workVars, recVars, callVars, AtWork, GoingOn
<1>2. /\ run' \in [Runs -> {"none", "running", "cancelled", "over"}] /\ run'[r] = "over"
      /\ \A s \in Runs \ {r} : run'[s] = run[s]
  BY <1>1 DEF Returns, ReturnsCancelled, TypeOK
<1>3. /\ \/ run[r] = "running" /\ status' = IF status = "running" THEN "completed" ELSE status
         \/ run[r] = "cancelled" /\ status' = status
      /\ active' \in BOOLEAN /\ (active' <=> (active /\ status' = "paused"))
  BY DEF Returns, ReturnsCancelled
<1>4. TypeOK'
  <2>1. status' \in Statuses
    BY <1>1, <1>3 DEF TypeOK, Statuses
  <2>2. active' \in BOOLEAN
    BY Zenon DEF Returns, ReturnsCancelled
  <2> QED BY <1>1, <1>2, <2>1, <2>2 DEF TypeOK
<1>5. Own'
  <2>1. ASSUME NEW a \in AtWork' PROVE run'[a.run] \in GoingOn
    <3>1. a.run \in Runs /\ run[a.run] \in GoingOn /\ a.run # r
      BY <1>1, <2>1 DEF Own, AtWork, TypeOK, Activations
    <3> QED BY <1>2, <3>1
  <2> QED BY <2>1 DEF Own
<1>6. Fresh'
  BY <1>2 DEF Fresh
<1>7. Asked' /\ Marked' /\ Settled'
  BY <1>1, <1>2 DEF Asked, Marked, Settled
<1>8. ASSUME ~again' PROVE ~again /\ \A s \in Runs \ {r} : run[s] = "none"
  BY <1>1, <1>2, <1>8 DEF again, Begun, GoingOn
<1>9. Whole'
  <2>1. ASSUME ~again', Completing' PROVE Completing
    <3>1. status' = "completed"
      BY <1>2, <1>8, <2>1 DEF Completing
    <3> QED BY <1>3, <3>1 DEF Completing
  <2>2. ASSUME ~again' PROVE \A s \in Runs : run'[s] \notin GoingOn
    BY <1>2, <1>8, <2>2 DEF GoingOn
  <2>3. (\A n \in scheduled : Accounted(n)) => \A n \in scheduled' : Accounted(n)'
    BY <1>1 DEF Accounted, AtWork
  <2> QED BY <1>1, <1>8, <2>1, <2>2, <2>3 DEF Whole
<1>10. ActiveIsGoingOn'
  <2>1. ASSUME ~touched'
        PROVE  ~touched /\ run[r] = "running" /\ \A s \in Runs \ {r} : run[s] = "none"
    <3>1. ~again' /\ ~(controls > 0)
      BY <1>1, <2>1 DEF touched
    <3> QED BY <1>1, <1>8, <3>1 DEF touched, Asked, GoingOn
  <2>2. ASSUME ~touched' PROVE active' <=> status' = "paused"
    BY <1>1, <1>3, <2>1, <2>2 DEF ActiveIsGoingOn
  <2>3. ASSUME ~touched' PROVE \A s \in Runs : run'[s] # "running"
    BY <1>2, <2>1, <2>3
  <2> QED BY <2>2, <2>3 DEF ActiveIsGoingOn
<1> QED BY <1>4, <1>5, <1>6, <1>7, <1>9, <1>10 DEF IInv

\* Cancelling the task that awaits run() ends what waits in it.
LEMMA CancelInv ==
    ASSUME IInv, NEW r \in Runs, CancelRun(r)
    PROVE  IInv'
<1>1. /\ TypeOK /\ Own /\ Fresh /\ Asked /\ Marked /\ Whole /\ Settled
      /\ graph' = graph /\ status' = status /\ active' = active /\ executing' = executing
      /\ scheduled' = scheduled /\ results' = results /\ failed' = failed
      /\ rec' = rec /\ recOf' = recOf /\ gone' = gone /\ resumed' = resumed
      /\ controls' = controls + 1 /\ controls < MaxControls
      /\ waiting' = {a \in waiting : a.run # r} /\ run[r] \in GoingOn
  BY DEF IInv, CancelRun, recVars, GoingOn
<1>2. /\ run' \in [Runs -> {"none", "running", "cancelled", "over"}]
      /\ run'[r] = "cancelled"
      /\ \A s \in Runs \ {r} : run'[s] = run[s]
  BY <1>1 DEF CancelRun, TypeOK
<1>3. controls' \in 0..MaxControls /\ controls' > 0
  BY <1>1, WorkflowAssumption DEF TypeOK
<1>4. TypeOK'
  BY <1>1, <1>2, <1>3 DEF TypeOK
<1>5. Own'
  <2>1. ASSUME NEW a \in AtWork' PROVE run'[a.run] \in GoingOn
    <3>1. a.run \in Runs /\ run[a.run] \in GoingOn
      BY <1>1, <2>1 DEF Own, AtWork, TypeOK, Activations
    <3> QED BY <1>2, <3>1 DEF GoingOn
  <2> QED BY <2>1 DEF Own
<1>6. Fresh' /\ Asked' /\ Marked' /\ Settled'
  BY <1>1, <1>2, <1>3 DEF Fresh, Asked, Marked, Settled
<1>7. Whole'
  <2>1. ASSUME ~again' PROVE ~again /\ \A s \in Runs \ {r} : run[s] = "none"
    BY <1>1, <1>2, <2>1 DEF again, Begun, GoingOn
  <2>2. ASSUME ~again' PROVE status # "completed" /\ ~Completing'
    <3>1. status # "completed"
      BY <1>1, <2>1, <2>2 DEF Whole
    <3>2. \A s \in Runs : run'[s] # "running"
      BY <1>2, <2>1, <2>2
    <3> QED BY <1>1, <3>1, <3>2 DEF Completing
  <2> QED BY <1>1, <2>2 DEF Whole
<1>8. ActiveIsGoingOn'
  BY <1>3 DEF ActiveIsGoingOn, touched
<1> QED BY <1>4, <1>5, <1>6, <1>7, <1>8 DEF IInv

-----------------------------------------------------------------------------
(* The nodes.                                                               *)

\* What all steps of an activation leave alone, and what they may assume.
LEMMA AtWorkFacts ==
    ASSUME IInv, NEW a \in AtWork
    PROVE  /\ TypeOK /\ Own /\ Asked /\ Marked /\ Whole /\ Settled /\ ActiveIsGoingOn
           /\ a \in Activations /\ a.path # <<>> /\ node(a) \in Nodes
           /\ a.run \in Runs /\ run[a.run] \in GoingOn
           /\ ~again => status # "completed"
           /\ ~touched => active /\ run[a.run] = "running"
<1>1. TypeOK /\ Own /\ Asked /\ Marked /\ Whole /\ Settled /\ ActiveIsGoingOn
  BY DEF IInv
<1>2. a \in Activations /\ a.path # <<>>
  BY <1>1 DEF TypeOK, AtWork
<1>3. node(a) \in Nodes /\ a.run \in Runs
  BY <1>2, NodeType
<1>4. run[a.run] \in GoingOn
  BY <1>1 DEF Own
<1>5. ~again => status # "completed"
  BY <1>1, <1>3, <1>4 DEF Whole
<1>6. ~touched => active /\ run[a.run] = "running"
  <2>1. ~touched => run[a.run] = "running"
    BY <1>1, <1>3, <1>4 DEF touched, Asked, GoingOn
  <2> QED BY <1>1, <1>3, <2>1 DEF ActiveIsGoingOn
<1> QED BY <1>1, <1>2, <1>3, <1>4, <1>5, <1>6

\* What no step of an activation changes keeps what is said of the runs.
LEMMA NodeFrame ==
    ASSUME IInv, run' = run, controls' = controls, active' = active, waiting # {} \/ executing # {}
    PROVE  /\ Fresh' /\ Asked' /\ (touched' <=> touched) /\ (again' <=> again)
           /\ \A s \in Runs : run'[s] = run[s]
<1>1. TypeOK /\ Own /\ Fresh /\ Asked
  BY DEF IInv
<1>2. \E s \in Runs : run[s] # "none"
  BY <1>1 DEF Fresh
<1> QED BY <1>1, <1>2 DEF Fresh, Asked, touched, again, Begun

\* The node is passed over, put to somebody, or started.
LEMMA EnterInv ==
    ASSUME IInv, NEW a \in waiting, Enter(a)
    PROVE  IInv'
<1>1. /\ TypeOK /\ Own /\ Asked /\ Marked /\ Whole /\ Settled /\ ActiveIsGoingOn
      /\ a \in Activations /\ a.path # <<>> /\ node(a) \in Nodes
      /\ a.run \in Runs /\ run[a.run] \in GoingOn
      /\ ~again => status # "completed"
      /\ ~touched => active /\ run[a.run] = "running"
  BY AtWorkFacts DEF AtWork
<1>2. /\ graph' = graph /\ active' = active /\ run' = run /\ scheduled' = scheduled
      /\ gone' = gone /\ results' = results /\ failed' = failed /\ controls' = controls
      /\ resumed' = resumed /\ waiting' = waiting \ {a}
  BY DEF Enter, NodeSkips, AsksApproval, NodeStarts, Enters, recVars, callVars
<1>3. Fresh' /\ Asked' /\ (touched' <=> touched) /\ (again' <=> again)
  BY <1>2, NodeFrame
<1>4. CASE NodeSkips(a)
  <2>1. status' = status /\ executing' = executing /\ rec' = rec /\ recOf' = recOf /\ status = "paused"
    BY <1>4 DEF NodeSkips, recVars
  <2>2. TypeOK'
    BY <1>1, <1>2, <2>1 DEF TypeOK
  <2>3. Own' /\ Marked' /\ Settled'
    BY <1>1, <1>2, <2>1 DEF Own, AtWork, Marked, Settled
  <2>4. Whole'
    BY <2>1 DEF Whole, Completing
  <2>5. ActiveIsGoingOn'
    BY <1>1, <1>2, <1>3, <2>1 DEF ActiveIsGoingOn
  <2> QED BY <1>3, <2>2, <2>3, <2>4, <2>5 DEF IInv
<1>5. CASE AsksApproval(a)
  <2>1. /\ status' = "paused" /\ executing' = executing /\ node(a) \in Approvals
        /\ rec' = [rec EXCEPT ![node(a)] = "running"] /\ recOf' = [recOf EXCEPT ![node(a)] = a]
    BY <1>5 DEF AsksApproval, Records
  <2>2. TypeOK'
    BY <1>1, <1>2, <2>1 DEF TypeOK, Statuses
  <2>3. Own' /\ Whole'
    BY <1>1, <1>2, <2>1 DEF Own, Whole, Completing, AtWork
  <2>4. \A n \in Nodes : rec[n] = "running" => rec'[n] = "running"
    BY <1>1, <2>1 DEF TypeOK
  <2>5. Marked'
    <3>1. \A b \in executing : node(b) \in Nodes
      BY <1>1, NodeType DEF TypeOK
    <3> QED BY <1>1, <1>2, <2>1, <2>4, <3>1 DEF Marked
  <2>6. Settled'
    <3>1. ASSUME NEW n \in Nodes, n # node(a) PROVE rec'[n] = rec[n] /\ recOf'[n] = recOf[n]
      BY <1>1, <2>1, <3>1 DEF TypeOK
    <3> QED BY <1>1, <1>2, <2>1, <3>1 DEF Settled
  <2>7. ActiveIsGoingOn'
    BY <1>1, <1>2, <1>3, <2>1 DEF ActiveIsGoingOn
  <2> QED BY <1>3, <2>2, <2>3, <2>5, <2>6, <2>7 DEF IInv
<1>6. CASE NodeStarts(a)
  <2>1. /\ status' = status /\ executing' = executing \cup {a}
        /\ rec' = [rec EXCEPT ![node(a)] = "running"] /\ recOf' = [recOf EXCEPT ![node(a)] = a]
    BY <1>6 DEF NodeStarts, Records
  <2>2. TypeOK'
    BY <1>1, <1>2, <2>1 DEF TypeOK
  <2>3. AtWork' = AtWork
    BY <1>2, <2>1 DEF AtWork
  <2>4. Own'
    BY <1>1, <1>2, <2>3 DEF Own
  <2>5. /\ rec'[node(a)] = "running" /\ recOf'[node(a)] = a
        /\ \A n \in Nodes : rec[n] = "running" => rec'[n] = "running"
    BY <1>1, <2>1 DEF TypeOK
  <2>6. Marked'
    <3>1. \A b \in executing : node(b) \in Nodes
      BY <1>1, NodeType DEF TypeOK
    <3> QED BY <1>1, <1>2, <2>1, <2>5, <3>1 DEF Marked
  <2>7. Whole'
    <3>1. \A n \in scheduled : Accounted(n) => Accounted(n)'
      BY <1>1, <1>2, <2>3, <2>5 DEF Accounted, TypeOK
    <3>2. Completing' <=> Completing
      BY <1>2, <2>1 DEF Completing
    <3> QED BY <1>1, <1>2, <1>3, <2>1, <3>1, <3>2 DEF Whole
  <2>8. Settled'
    <3>1. ASSUME NEW n \in Nodes, n # node(a) PROVE rec'[n] = rec[n] /\ recOf'[n] = recOf[n]
      BY <1>1, <2>1, <3>1 DEF TypeOK
    <3> QED BY <1>1, <1>2, <2>1, <2>5, <3>1 DEF Settled
  <2>9. ActiveIsGoingOn'
    BY <1>1, <1>2, <1>3, <2>1 DEF ActiveIsGoingOn
  <2> QED BY <1>3, <2>2, <2>4, <2>6, <2>7, <2>8, <2>9 DEF IInv
<1> QED BY <1>4, <1>5, <1>6 DEF Enter

\* The component answered.
LEMMA CompletesInv ==
    ASSUME IInv, NEW a \in executing, NodeCompletes(a)
    PROVE  IInv'
<1>1. /\ TypeOK /\ Own /\ Asked /\ Marked /\ Whole /\ Settled /\ ActiveIsGoingOn
      /\ a \in Activations /\ a.path # <<>> /\ node(a) \in Nodes
      /\ a.run \in Runs /\ run[a.run] \in GoingOn
      /\ ~again => status # "completed"
      /\ ~touched => active /\ run[a.run] = "running"
  BY AtWorkFacts DEF AtWork
<1>2. /\ graph' = graph /\ status' = status /\ active' = active /\ run' = run
      /\ failed' = failed /\ recOf' = recOf /\ gone' = gone /\ controls' = controls
      /\ resumed' = resumed
      /\ executing' = executing \ {a} /\ results' = results \cup {node(a)}
      /\ rec' = IF recOf[node(a)] = a THEN [rec EXCEPT ![node(a)] = "completed"] ELSE rec
  BY DEF NodeCompletes, callVars
<1>3. PICK S \in SUBSET Successors(node(a)) :
         waiting' = waiting \cup below(a, S) /\ scheduled' = scheduled \cup S
  BY DEF NodeCompletes
<1>4. S \in SUBSET Nodes
  BY DEF Successors
<1>5. /\ \A b \in below(a, S) : /\ b \in Activations /\ b.path # <<>>
                                /\ b.run = a.run /\ node(b) \in S
      /\ \A n \in S : \E b \in below(a, S) : node(b) = n
  BY <1>1, <1>4, BelowIs, BelowHas
<1>6. Fresh' /\ Asked' /\ (touched' <=> touched) /\ (again' <=> again)
  BY <1>2, NodeFrame
<1>7. TypeOK'
  BY <1>1, <1>2, <1>3, <1>4, <1>5 DEF TypeOK
<1>8. Own'
  BY <1>1, <1>2, <1>3, <1>5 DEF Own, AtWork
<1>9. \A n \in Nodes : n # node(a) => rec'[n] = rec[n]
  BY <1>1, <1>2 DEF TypeOK
<1>10. Marked'
  <2>1. \A b \in executing : node(b) \in Nodes
    BY <1>1, NodeType DEF TypeOK
  <2> QED BY <1>1, <1>2, <1>9, <2>1 DEF Marked
<1>11. Whole'
  <2>1. ASSUME NEW n \in scheduled', \A m \in scheduled : Accounted(m)
        PROVE  Accounted(n)'
    <3>1. CASE n = node(a)
      BY <1>2, <3>1 DEF Accounted
    <3>2. CASE n \in S
      BY <1>3, <1>5, <3>2 DEF Accounted, AtWork
    <3>3. CASE n \notin S /\ n # node(a)
      <4>1. n \in scheduled /\ n \in Nodes /\ Accounted(n)
        BY <1>1, <1>3, <2>1, <3>3 DEF TypeOK
      <4>2. rec'[n] = rec[n]
        BY <1>9, <3>3, <4>1
      <4>3. \A b \in AtWork : node(b) = n => b \in AtWork'
        BY <1>2, <1>3, <3>3 DEF AtWork
      <4> QED BY <1>2, <4>1, <4>2, <4>3 DEF Accounted
    <3> QED BY <3>1, <3>2, <3>3
  <2>2. Completing' <=> Completing
    BY <1>2 DEF Completing
  <2> QED BY <1>1, <1>2, <1>6, <2>1, <2>2 DEF Whole
<1>12. Settled'
  <2>1. ASSUME NEW n \in Nodes, rec'[n] = "running", n \notin Approvals
        PROVE  recOf[n] \in (executing \ {a}) \cup gone /\ node(recOf[n]) = n
    <3>1. CASE n = node(a)
      <4>1. rec[n] = "running" /\ recOf[n] # a
        BY <1>1, <1>2, <2>1, <3>1 DEF TypeOK
      <4> QED BY <1>1, <2>1, <4>1 DEF Settled
    <3>2. CASE n # node(a)
      <4>1. rec[n] = "running"
        BY <1>9, <2>1, <3>2
      <4> QED BY <1>1, <2>1, <3>2, <4>1 DEF Settled
    <3> QED BY <3>1, <3>2
  <2> QED BY <1>2, <2>1 DEF Settled
<1>13. ActiveIsGoingOn'
  BY <1>1, <1>2, <1>6 DEF ActiveIsGoingOn
<1> QED BY <1>6, <1>7, <1>8, <1>10, <1>11, <1>12, <1>13 DEF IInv

\* The component raised, or the condition of an edge.
LEMMA FailsInv ==
    ASSUME IInv, NEW a \in executing, NodeFails(a)
    PROVE  IInv'
<1>1. /\ TypeOK /\ Own /\ Asked /\ Marked /\ Whole /\ Settled /\ ActiveIsGoingOn
      /\ a \in Activations /\ a.path # <<>> /\ node(a) \in Nodes
      /\ a.run \in Runs /\ run[a.run] \in GoingOn
      /\ ~again => status # "completed"
      /\ ~touched => active /\ run[a.run] = "running"
  BY AtWorkFacts DEF AtWork
<1>2. /\ graph' = graph /\ status' = "failed" /\ active' = active /\ run' = run
      /\ waiting' = waiting /\ scheduled' = scheduled /\ gone' = gone
      /\ failed' = failed \cup {node(a)} /\ recOf' = recOf /\ controls' = controls
      /\ resumed' = resumed /\ executing' = executing \ {a}
      /\ results' \in {results, results \cup {node(a)}}
      /\ rec' = [rec EXCEPT ![node(a)] = "failed"]
  BY DEF NodeFails, callVars
<1>3. Fresh' /\ Asked' /\ (touched' <=> touched) /\ (again' <=> again)
  BY <1>2, NodeFrame
<1>4. TypeOK'
  BY <1>1, <1>2 DEF TypeOK, Statuses
<1>5. Own'
  BY <1>1, <1>2 DEF Own, AtWork
<1>6. \A n \in Nodes : n # node(a) => rec'[n] = rec[n]
  BY <1>1, <1>2 DEF TypeOK
<1>7. Marked'
  <2>1. \A b \in executing : node(b) \in Nodes
    BY <1>1, NodeType DEF TypeOK
  <2> QED BY <1>1, <1>2, <1>6, <2>1 DEF Marked
<1>8. Whole'
  BY <1>2 DEF Whole, Completing
<1>9. Settled'
  <2>1. ASSUME NEW n \in Nodes, rec'[n] = "running" PROVE n # node(a) /\ rec[n] = "running"
    BY <1>1, <1>2, <2>1 DEF TypeOK
  <2> QED BY <1>1, <1>2, <2>1 DEF Settled
<1>10. ActiveIsGoingOn'
  BY <1>1, <1>2, <1>3 DEF ActiveIsGoingOn
<1> QED BY <1>3, <1>4, <1>5, <1>7, <1>8, <1>9, <1>10 DEF IInv

\* A CancelledError took the component: its record goes on saying running.
LEMMA VanishesInv ==
    ASSUME IInv, NEW a \in executing, NodeVanishes(a)
    PROVE  IInv'
<1>1. /\ TypeOK /\ Own /\ Asked /\ Marked /\ Whole /\ Settled /\ ActiveIsGoingOn
      /\ a \in Activations /\ a.path # <<>> /\ node(a) \in Nodes
      /\ a.run \in Runs /\ run[a.run] \in GoingOn
      /\ ~again => status # "completed"
      /\ ~touched => active /\ run[a.run] = "running"
  BY AtWorkFacts DEF AtWork
<1>2. /\ graph' = graph /\ status' = status /\ active' = active /\ run' = run
      /\ waiting' = waiting /\ scheduled' = scheduled /\ gone' = gone \cup {a}
      /\ failed' = failed /\ rec' = rec /\ recOf' = recOf /\ controls' = controls
      /\ resumed' = resumed /\ executing' = executing \ {a} /\ results' = results
  BY DEF NodeVanishes, recVars, callVars
<1>3. Fresh' /\ Asked' /\ (touched' <=> touched) /\ (again' <=> again)
  BY <1>2, NodeFrame
<1>4. TypeOK'
  BY <1>1, <1>2 DEF TypeOK
<1>5. Own' /\ Marked' /\ Settled'
  BY <1>1, <1>2 DEF Own, AtWork, Marked, Settled
<1>6. Whole'
  <2>1. Completing' <=> Completing
    BY <1>2 DEF Completing
  <2>2. ASSUME failed = {}, NEW n \in scheduled, Accounted(n) PROVE Accounted(n)'
    <3>1. rec[node(a)] = "running" \/ node(a) \in results
      BY <1>1, <2>2 DEF Marked
    <3>2. \A b \in AtWork : b = a \/ b \in AtWork'
      BY <1>2 DEF AtWork
    <3> QED BY <1>2, <2>2, <3>1, <3>2 DEF Accounted
  <2> QED BY <1>1, <1>2, <1>3, <2>1, <2>2 DEF Whole
<1>7. ActiveIsGoingOn'
  BY <1>1, <1>2, <1>3 DEF ActiveIsGoingOn
<1> QED BY <1>3, <1>4, <1>5, <1>6, <1>7 DEF IInv

\* pause_execution, resume_execution and cancel_execution.
LEMMA ControlInv ==
    ASSUME IInv, NEW new \in {"paused", "running", "cancelled"}, Control(new)
    PROVE  IInv'
<1>1. /\ TypeOK /\ Own /\ Fresh /\ Asked /\ Marked /\ Whole /\ Settled
      /\ graph' = graph /\ active' = active /\ run' = run /\ active
      /\ waiting' = waiting /\ executing' = executing /\ scheduled' = scheduled
      /\ gone' = gone /\ results' = results /\ failed' = failed
      /\ rec' = rec /\ recOf' = recOf
      /\ status' = new /\ controls' = controls + 1 /\ controls < MaxControls
      /\ resumed' \in BOOLEAN /\ (new = "running" => resumed')
  BY Zenon DEF IInv, Control, workVars, recVars
<1>2. controls' \in 0..MaxControls /\ controls' > 0
  BY <1>1, WorkflowAssumption DEF TypeOK
<1>3. TypeOK'
  <2>1. status' \in Statuses
    BY <1>1 DEF Statuses
  <2> QED BY <1>1, <1>2, <2>1 DEF TypeOK
<1>4. Own' /\ Fresh' /\ Asked' /\ Marked' /\ Settled'
  BY <1>1, <1>2 DEF Own, AtWork, Fresh, Asked, Marked, Settled
<1>5. Whole'
  BY <1>1 DEF Whole, Completing
<1>6. ActiveIsGoingOn'
  BY <1>2 DEF ActiveIsGoingOn, touched
<1> QED BY <1>3, <1>4, <1>5, <1>6 DEF IInv

-----------------------------------------------------------------------------
LEMMA InitInv == ASSUME Init PROVE IInv
<1>1. TypeOK
  <2>1. status \in Statuses
    BY DEF Init, Statuses
  <2>2. active \in BOOLEAN /\ resumed \in BOOLEAN
    BY DEF Init
  <2>3. controls \in 0..MaxControls
    BY WorkflowAssumption DEF Init
  <2>4. /\ rec \in [Nodes -> {"none", "running", "completed", "failed"}]
        /\ recOf \in [Nodes -> Activations \cup {NoActivation}]
        /\ run \in [Runs -> {"none", "running", "cancelled", "over"}]
    BY DEF Init
  <2>5. /\ waiting \subseteq Activations /\ executing \subseteq Activations
        /\ gone \subseteq Activations
        /\ \A a \in waiting \cup executing : a.path # <<>>
        /\ results \subseteq Nodes /\ failed \subseteq Nodes /\ scheduled \subseteq Nodes
    BY DEF Init
  <2> QED BY <2>1, <2>2, <2>3, <2>4, <2>5 DEF Init, TypeOK
<1>2. Own /\ Fresh /\ Asked /\ Marked /\ Settled
  BY DEF Init, Own, AtWork, Fresh, Asked, Marked, Settled
<1>3. Whole /\ ActiveIsGoingOn
  BY DEF Init, Whole, Completing, ActiveIsGoingOn
<1> QED BY <1>1, <1>2, <1>3 DEF IInv

LEMMA NextInv == ASSUME IInv, [Next]_vars PROVE IInv'
<1>1. ASSUME NEW r \in Runs, Begin(r) \/ Returns(r) \/ CancelRun(r) \/ ReturnsCancelled(r)
      PROVE  IInv'
  BY <1>1, BeginInv, ReturnsInv, CancelInv
<1>2. ASSUME NEW a \in waiting, Enter(a) PROVE IInv'
  BY <1>2, EnterInv
<1>3. ASSUME NEW a \in executing, Leave(a) PROVE IInv'
  BY <1>3, CompletesInv, FailsInv, VanishesInv DEF Leave
<1>4. CASE pause_execution \/ resume_execution \/ cancel_execution
  BY <1>4, ControlInv DEF pause_execution, resume_execution, cancel_execution
<1>5. CASE UNCHANGED vars
  <2>1. /\ graph' = graph /\ status' = status /\ active' = active /\ run' = run
        /\ waiting' = waiting /\ executing' = executing /\ scheduled' = scheduled
        /\ gone' = gone /\ results' = results /\ failed' = failed
        /\ rec' = rec /\ recOf' = recOf
        /\ resumed' = resumed /\ controls' = controls
    BY <1>5 DEF vars, workVars, recVars, callVars
  <2>2. TypeOK' /\ Own' /\ Fresh' /\ Asked' /\ Marked' /\ Settled'
    BY <2>1 DEF IInv, TypeOK, Own, AtWork, Fresh, Asked, Marked, Settled
  <2>3. (touched' <=> touched) /\ (again' <=> again)
    BY <2>1 DEF touched, again, Begun
  <2>4. Whole' /\ ActiveIsGoingOn'
    BY <2>1, <2>3 DEF IInv, Whole, Completing, Accounted, AtWork, ActiveIsGoingOn
  <2> QED BY <2>2, <2>4 DEF IInv
<1> QED BY <1>1, <1>2, <1>3, <1>4, <1>5 DEF Next

LEMMA Invariance == Spec => []IInv
BY InitInv, NextInv, PTL DEF Spec

\* Every variable keeps its type.
THEOREM TypeCorrect == Spec => []TypeOK
<1>1. IInv => TypeOK
  BY DEF IInv
<1> QED BY <1>1, Invariance, PTL

\* However an execution of one run() is paused or cancelled and its components
\* end, it is completed only when nothing of it is at work and, unless it was
\* resumed, none of its nodes failed and every node it started has a result or is
\* still shown as running; for every graph.
THEOREM CompletedCorrect == Spec => []CompletedIsWhole
<1>1. ASSUME IInv, status = "completed", ~again
      PROVE  /\ waiting = {} /\ executing = {}
             /\ ~resumed => /\ failed = {}
                            /\ \A n \in scheduled : n \in results \/ rec[n] = "running"
  <2>1. Own /\ Whole /\ TypeOK
    BY <1>1 DEF IInv
  <2>2. \A r \in Runs : run[r] \notin GoingOn
    BY <1>1, <2>1 DEF Whole
  <2>3. AtWork = {}
    <3>1. ASSUME NEW a \in AtWork PROVE FALSE
      <4>1. a.run \in Runs
        BY <2>1, <3>1 DEF AtWork, TypeOK, Activations
      <4> QED BY <2>1, <2>2, <3>1, <4>1 DEF Own
    <3> QED BY <3>1
  <2>4. ~resumed => failed = {} /\ \A n \in scheduled : Accounted(n)
    BY <1>1, <2>1 DEF Whole, Completing
  <2> QED BY <2>3, <2>4 DEF Accounted, AtWork
<1>2. IInv => CompletedIsWhole
  BY <1>1 DEF CompletedIsWhole
<1> QED BY <1>2, Invariance, PTL

\* A node shown as running is being executed, waits for an approval, or lost its
\* component to a CancelledError.
THEOREM RecordsCorrect == Spec => []RecordsSettle
<1>1. IInv => RecordsSettle
  BY DEF IInv, Settled, RecordsSettle
<1> QED BY <1>1, Invariance, PTL

\* An execution nobody interfered with is active exactly as long as it goes on.
THEOREM ActiveCorrect == Spec => []ActiveIsGoingOn
<1>1. IInv => ActiveIsGoingOn
  BY DEF IInv
<1> QED BY <1>1, Invariance, PTL

=============================================================================
