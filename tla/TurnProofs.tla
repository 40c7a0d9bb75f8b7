------------------------------ MODULE TurnProofs ------------------------------
(***************************************************************************)
(* Proofs about the turns of a session: how the studio starts and ends     *)
(* them (ChatTurns), and how the runtime runs one after the other          *)
(* (AgentTurn), for every number of turns, rounds, calls and outside       *)
(* changes.                                                                *)
(*                                                                         *)
(* ChatTurns.  RunningHasTurn needs to know which turn keeps the session   *)
(* running: one that publishes to the session's hub, or one whose stream   *)
(* will finalize it (StillRuns).  HubIsServed needs that every step that   *)
(* ends a hub also takes it from the session, and that a new turn's hub is *)
(* new (HubOpen, Unposted).  A run whose client left is kept because       *)
(* nothing but the end of its stream cancels it (Attached).                *)
(*                                                                         *)
(* AgentTurn.  The rows are lists, so the proofs first say what a repair,  *)
(* a compaction and a concatenation keep of a list: its calls, its         *)
(* results, its blocks and the rows of others.  Shape holds the types and  *)
(* what the waiting compactions and the model are given; on it rest three  *)
(* invariants of their own: the calls that are open are those the batch is *)
(* left with (CallsInv), the results to be shown follow their calls        *)
(* (ShownInv), and the turn has no row of others that it has not taken     *)
(* over (NotesInv).                                                        *)
(***************************************************************************)
EXTENDS ChatTurnsProps, AgentTurnProps,
        SequenceTheorems, FiniteSetTheorems, WellFoundedInduction, TLAPS

-----------------------------------------------------------------------------
(* ChatTurns.                                                               *)

\* The requests that were not posted yet.
Early == {"none", "settling", "resuming"}

\* Before a turn is posted it has no run, and nobody uses its hub.
Unposted ==
    \A t \in Turns :
       /\ request[t] \in Early \cup {"posted"} => run[t] = "none"
       /\ request[t] \in Early =>
             /\ hub # t /\ t \notin doneHubs \cup closedHubs
             /\ \A u \in Turns : hubOf[u] # t

\* Unless a turn was lost, a running session has a turn that will end this: with a
\* hub, one at work on the session's own.
StillRuns ==
    exec = "running" =>
       \/ stranded
       \/ \E t \in Turns : IF reattach THEN hubOf[t] = hub /\ Live(t)
                                       ELSE request[t] \in {"posted", "open", "left"}

\* A session has a hub only while it is shown as running, and no hub that ended.
HubOpen == hub # NoHub => reattach /\ exec = "running" /\ active(hub)

IInv == TypeOK /\ Unposted /\ StillRuns /\ HubOpen

-----------------------------------------------------------------------------
(* The pieces the actions are made of.                                      *)

\* Finalizing a turn leaves the session without a hub and not running.
LEMMA Finalized ==
    ASSUME TypeOK, NEW failure \in BOOLEAN, finalize(failure)
    PROVE  /\ exec' \in {"idle", "interrupted"} /\ intr' = FALSE /\ hub' = NoHub /\ stranded' = FALSE
           /\ closedHubs' = closedHubs \cup ({hub} \ {NoHub})
BY DEF finalize, end_state, set_execution_state, TypeOK

\* So does a state set from outside; the stop request may stay.
LEMMA StateSet ==
    ASSUME NEW s \in ExecStates, set_execution_state(s)
    PROVE  exec' = s /\ hub' = NoHub /\ stranded' = FALSE /\ closedHubs' = closedHubs \cup ({hub} \ {NoHub})
BY DEF set_execution_state

\* The end mark is published on the turn's own hub.
LEMMA Published ==
    ASSUME TypeOK, NEW t \in Turns, publish_done(hubOf[t])
    PROVE  /\ doneHubs' \in {doneHubs, doneHubs \cup {hubOf[t]}} /\ doneHubs' \subseteq Turns
           /\ told' \subseteq Turns
BY DEF publish_done, active, TypeOK

\* A posted turn publishes to the session's hub, which is open.
LEMMA PostInv ==
    ASSUME IInv, NEW t \in Turns, request[t] \in Early, Post(t),
           UNCHANGED <<reattach, doneHubs, closedHubs, runVars, told, histVars>>,
           keep' \subseteq Turns
    PROVE  IInv'
<1>1. /\ TypeOK /\ Unposted /\ StillRuns /\ HubOpen
      /\ reattach' = reattach /\ doneHubs' = doneHubs /\ closedHubs' = closedHubs
      /\ run' = run /\ outcome' = outcome /\ toCancel' = toCancel /\ saved' = saved
      /\ told' = told /\ outside' = outside /\ stranded' = stranded
      /\ intr' = FALSE /\ exec' = "running" /\ request' = [request EXCEPT ![t] = "posted"]
  BY DEF IInv, runVars, histVars, Post
<1>2. \/ reattach /\ active(hub) /\ hub' = hub /\ hubOf' = [hubOf EXCEPT ![t] = hub]
      \/ reattach /\ ~active(hub) /\ hub' = t /\ hubOf' = [hubOf EXCEPT ![t] = t]
      \/ ~reattach /\ hub' = hub /\ hubOf' = hubOf
  BY DEF Post
<1>4. /\ request'[t] = "posted" /\ \A u \in Turns \ {t} : request'[u] = request[u]
      /\ request' \in [Turns -> Requests] /\ run[t] = "none"
  BY <1>1 DEF TypeOK, Requests, Unposted
<1>5. TypeOK'
  <2>1. hub' \in Turns \cup {NoHub} /\ hubOf' \in [Turns -> Turns \cup {NoHub}]
    BY <1>1, <1>2 DEF TypeOK
  <2>2. exec' \in ExecStates /\ intr' \in BOOLEAN
    BY <1>1 DEF ExecStates
  <2> QED BY <1>1, <1>4, <2>1, <2>2 DEF TypeOK
<1>6. /\ reattach => hubOf'[t] = hub'
      /\ \A u \in Turns \ {t} : hubOf'[u] = hubOf[u]
      /\ hub' = hub \/ hub' = t
      /\ hubOf'[t] \in {hubOf[t], hub, t}
  BY <1>1, <1>2 DEF TypeOK
<1>7. Unposted'
  BY <1>1, <1>4, <1>6 DEF Unposted, Early
<1>9. StillRuns'
  BY <1>1, <1>4, <1>6 DEF StillRuns, Live
<1>10. HubOpen'
  <2>1. CASE reattach /\ active(hub) /\ hub' = hub
    BY <1>1, <2>1 DEF HubOpen, active
  <2>2. CASE reattach /\ hub' = t
    <3>1. t # NoHub /\ t \notin doneHubs' \cup closedHubs'
      BY <1>1, NoHubAssumption DEF Unposted
    <3> QED BY <1>1, <2>2, <3>1 DEF HubOpen, active
  <2>3. CASE ~reattach
    BY <1>1, <1>2, <2>3 DEF HubOpen
  <2> QED BY <1>2, <2>1, <2>2, <2>3
<1> QED BY <1>5, <1>7, <1>9, <1>10 DEF IInv

-----------------------------------------------------------------------------
(* The requests.                                                            *)

\* A step that only takes requests along their way to being posted.
LEMMA EarlyInv ==
    ASSUME IInv, NEW t \in Turns, Continue(t) \/ Rejected(t)
    PROVE  IInv'
<1>1. /\ TypeOK /\ Unposted /\ StillRuns /\ HubOpen
      /\ reattach' = reattach /\ exec' = exec /\ hub' = hub /\ doneHubs' = doneHubs
      /\ closedHubs' = closedHubs /\ hubOf' = hubOf /\ run' = run /\ outcome' = outcome
      /\ toCancel' = toCancel /\ saved' = saved /\ told' = told /\ keep' = keep
      /\ outside' = outside /\ stranded' = stranded /\ intr' \in BOOLEAN
      /\ request[t] \in Early
  BY DEF IInv, Continue, Rejected, hubVars, runVars, histVars, Early, TypeOK
<1>2. /\ request'[t] \in {"settling", "resuming", "over"}
      /\ \A u \in Turns \ {t} : request'[u] = request[u]
      /\ request' \in [Turns -> Requests] /\ run[t] = "none"
  BY <1>1 DEF Continue, Rejected, TypeOK, Requests, Unposted
<1>4. TypeOK'
  BY <1>1, <1>2 DEF TypeOK
<1>5. Unposted'
  BY <1>1, <1>2 DEF Unposted, Early
<1>6. StillRuns'
  BY <1>1, <1>2 DEF StillRuns, Live, Early
<1>7. HubOpen'
  BY <1>1 DEF HubOpen, active
<1> QED BY <1>4, <1>5, <1>6, <1>7 DEF IInv

\* A state set by somebody else leaves the session without a hub.
LEMMA OutsideInv ==
    ASSUME IInv, (\E s \in {"interrupted", "failed"} : Outside(s)) \/ (\E t \in Turns : Settled(t))
    PROVE  IInv'
<1>1. PICK s \in {"interrupted", "failed"} : set_execution_state(s)
  BY DEF Outside, Settled
<1>2. /\ exec' = s /\ hub' = NoHub /\ stranded' = FALSE
      /\ closedHubs' = closedHubs \cup ({hub} \ {NoHub})
  BY <1>1, StateSet DEF ExecStates
<1>3. /\ TypeOK /\ Unposted
      /\ reattach' = reattach /\ doneHubs' = doneHubs
      /\ hubOf' = hubOf /\ run' = run /\ outcome' = outcome
      /\ toCancel' = toCancel /\ saved' = saved /\ told' = told /\ keep' = keep
  BY DEF IInv, Outside, Settled, runVars
<1>i. intr' \in BOOLEAN
  <2>1. CASE \E s2 \in {"interrupted", "failed"} : Outside(s2)
    BY <2>1 DEF Outside
  <2>2. CASE \E t \in Turns : Settled(t)
    BY <1>3, <2>2 DEF Settled, TypeOK
  <2> QED BY <2>1, <2>2
<1>o. outside' \in 0..MaxOutside
  BY <1>3, NoHubAssumption DEF Outside, Settled, TypeOK
<1>4. /\ request' \in [Turns -> Requests]
      /\ \A u \in Turns : request'[u] = request[u] \/ (request[u] \in Early /\ request'[u] \in Early)
  BY <1>3 DEF Outside, Settled, TypeOK, Requests, Early
<1>5. TypeOK'
  BY <1>2, <1>3, <1>4, <1>i, <1>o DEF TypeOK, ExecStates
<1>6. Unposted'
  BY <1>2, <1>3, <1>4, NoHubAssumption DEF Unposted, Early
<1>7. StillRuns'
  BY <1>2 DEF StillRuns
<1>8. HubOpen'
  BY <1>2 DEF HubOpen
<1> QED BY <1>5, <1>6, <1>7, <1>8 DEF IInv

-----------------------------------------------------------------------------
(* The runtime task.                                                        *)

\* The end of a run: with a hub the session is left without one; without one
\* nothing but the run changes.
LEMMA RunEndsInv ==
    ASSUME IInv, NEW t \in Turns, NEW how \in Outcomes, RunEnds(t, how),
           toCancel' \in {toCancel, toCancel \ {t}}
    PROVE  IInv'
<1>1. /\ TypeOK /\ Unposted /\ StillRuns /\ HubOpen
      /\ reattach' = reattach /\ hubOf' = hubOf /\ request' = request
      /\ saved' = saved /\ keep' = keep /\ outside' = outside
      /\ run[t] = "working" /\ outcome' = [outcome EXCEPT ![t] = how]
  BY DEF IInv, RunEnds
<1>2. /\ run' \in [Turns -> RunStages]
      /\ run'[t] \in {"persisting", "over"} /\ \A u \in Turns \ {t} : run'[u] = run[u]
      /\ request[t] \notin Early \cup {"posted"}
  BY <1>1 DEF RunEnds, TypeOK, RunStages, Unposted
<1>3. ASSUME NEW u \in Turns, Live(u)' PROVE u # t /\ Live(u)
  BY <1>1, <1>2, <1>3 DEF Live
<1>4. CASE reattach
  <2>1. /\ exec' \in {"idle", "interrupted"} /\ intr' = FALSE /\ hub' = NoHub /\ stranded' = FALSE
        /\ closedHubs' = closedHubs \cup ({hub} \ {NoHub})
    <3>1. (how = "failed") \in BOOLEAN /\ finalize(how = "failed")
      BY <1>4 DEF RunEnds
    <3> QED BY <1>1, <3>1, Finalized
  <2>2. /\ doneHubs' \in {doneHubs, doneHubs \cup {hubOf[t]}} /\ doneHubs' \subseteq Turns
        /\ told' \subseteq Turns
    BY <1>1, <1>4, Published DEF RunEnds
  <2>4. TypeOK'
    BY <1>1, <1>2, <2>1, <2>2 DEF TypeOK, ExecStates
  <2>5. Unposted'
    BY <1>1, <1>2, <2>1, <2>2, NoHubAssumption DEF Unposted, Early
  <2>6. StillRuns'
    BY <2>1 DEF StillRuns
  <2>7. HubOpen'
    BY <2>1 DEF HubOpen
  <2> QED BY <2>4, <2>5, <2>6, <2>7 DEF IInv
<1>5. CASE ~reattach
  <2>1. /\ exec' = exec /\ intr' = intr /\ hub' = hub /\ doneHubs' = doneHubs
        /\ closedHubs' = closedHubs /\ stranded' = stranded /\ told' = told \cup {t}
    BY <1>5 DEF RunEnds, hubVars
  <2>2. TypeOK'
    BY <1>1, <1>2, <2>1 DEF TypeOK
  <2>3. Unposted'
    BY <1>1, <1>2, <2>1 DEF Unposted, Early
  <2>4. StillRuns'
    BY <1>1, <1>5, <2>1 DEF StillRuns
  <2>5. HubOpen'
    BY <1>1, <2>1 DEF HubOpen, active
  <2> QED BY <2>2, <2>3, <2>4, <2>5 DEF IInv
<1> QED BY <1>4, <1>5

\* The end of the persist is the end of the task.
LEMMA SavesInv ==
    ASSUME IInv, NEW t \in Turns, Saves(t)
    PROVE  IInv'
<1>1. /\ TypeOK /\ Unposted /\ StillRuns /\ HubOpen
      /\ reattach' = reattach /\ exec' = exec /\ intr' = intr /\ hub' = hub
      /\ doneHubs' = doneHubs /\ closedHubs' = closedHubs /\ hubOf' = hubOf
      /\ request' = request /\ outcome' = outcome /\ told' = told /\ keep' = keep
      /\ outside' = outside /\ stranded' = stranded
      /\ run[t] = "persisting" /\ run' = [run EXCEPT ![t] = "over"]
      /\ toCancel' = toCancel \ {t} /\ saved' \subseteq Turns
  BY DEF IInv, Saves, hubVars, histVars, TypeOK
<1>2. /\ run' \in [Turns -> RunStages] /\ run'[t] = "over"
      /\ \A u \in Turns \ {t} : run'[u] = run[u]
      /\ request[t] \notin Early \cup {"posted"}
  BY <1>1 DEF TypeOK, RunStages, Unposted
<1>3. ASSUME NEW u \in Turns PROVE Live(u)' <=> Live(u)
  BY <1>1, <1>2 DEF Live
<1>4. TypeOK'
  BY <1>1, <1>2 DEF TypeOK
<1>5. Unposted'
  BY <1>1, <1>2 DEF Unposted, Early
<1>6. StillRuns'
  BY <1>1, <1>2, <1>3 DEF StillRuns
<1>7. HubOpen'
  BY <1>1 DEF HubOpen, active
<1> QED BY <1>4, <1>5, <1>6, <1>7 DEF IInv

LEMMA RunInv ==
    ASSUME IInv, NEW t \in Turns, Run(t)
    PROVE  IInv'
<1>1. CASE RunAnswers(t)
  BY <1>1, RunEndsInv DEF RunAnswers, Outcomes
<1>2. CASE RunFails(t)
  BY <1>2, RunEndsInv DEF RunFails, Outcomes
<1>3. CASE RunCancelled(t)
  BY <1>3, RunEndsInv DEF RunCancelled, Outcomes
<1>4. CASE Saves(t)
  BY <1>4, SavesInv
<1> QED BY <1>1, <1>2, <1>3, <1>4 DEF Run

-----------------------------------------------------------------------------
(* The stream.                                                              *)

\* The body starts, or the hub refuses it, or the turn is lost before that.
LEMMA StartInv ==
    ASSUME IInv, NEW t \in Turns, StartStream(t) \/ StreamRefused(t) \/ HandlerRaises(t)
    PROVE  IInv'
<1>1. /\ TypeOK /\ Unposted /\ StillRuns /\ HubOpen
      /\ reattach' = reattach /\ exec' = exec /\ intr' = intr /\ hub' = hub
      /\ doneHubs' = doneHubs /\ closedHubs' = closedHubs /\ hubOf' = hubOf
      /\ outcome' = outcome /\ told' = told /\ keep' = keep /\ saved' = saved
      /\ outside' = outside
      /\ request[t] = "posted" /\ run[t] = "none"
  BY DEF IInv, StartStream, StreamRefused, HandlerRaises, hubVars, runVars, histVars, Unposted
<1>2. /\ request'[t] \in {"open", "over"} /\ \A u \in Turns \ {t} : request'[u] = request[u]
      /\ request' \in [Turns -> Requests]
  BY <1>1 DEF StartStream, StreamRefused, HandlerRaises, TypeOK, Requests
<1>3. /\ run'[t] \in {"none", "working", "stillborn"} /\ \A u \in Turns \ {t} : run'[u] = run[u]
      /\ run' \in [Turns -> RunStages]
      /\ request'[t] = "open" => run'[t] = "working"
  BY <1>1 DEF StartStream, StreamRefused, HandlerRaises, runVars, TypeOK, RunStages
<1>4. toCancel' \in {toCancel, toCancel \cup {t}}
  BY DEF StartStream, StreamRefused, HandlerRaises, runVars
<1>s. /\ stranded' \in BOOLEAN /\ (stranded => stranded')
      /\ \/ run'[t] = "working" /\ (reattach \/ request'[t] = "open")
         \/ Strands(t)
  <2>0. Strands(t) => stranded' \in BOOLEAN /\ (stranded => stranded')
    BY DEF Strands
  <2>1. CASE StartStream(t)
    BY <1>1, <2>1 DEF StartStream, histVars, TypeOK
  <2>2. CASE StreamRefused(t)
    <3>1. Strands(t) \/ (stranded' = stranded /\ run'[t] = "working" /\ reattach)
      BY <1>1, <2>2 DEF StreamRefused, TypeOK
    <3> QED BY <1>1, <2>0, <3>1 DEF TypeOK
  <2>3. CASE HandlerRaises(t)
    <3>1. Strands(t)
      BY <2>3 DEF HandlerRaises
    <3> QED BY <2>0, <3>1
  <2> QED BY <2>1, <2>2, <2>3
<1>5. TypeOK'
  BY <1>1, <1>2, <1>3, <1>4, <1>s DEF TypeOK
<1>6. Unposted'
  BY <1>1, <1>2, <1>3 DEF Unposted, Early
<1>7. StillRuns'
  <2> SUFFICES ASSUME exec = "running", ~stranded'
               PROVE  \E u \in Turns : (IF reattach THEN hubOf[u] = hub /\ Live(u)
                                        ELSE request[u] \in {"posted", "open", "left"})'
    BY <1>1 DEF StillRuns
  <2>1. ~stranded
    BY <1>s
  <2>2. PICK u \in Turns : IF reattach THEN hubOf[u] = hub /\ Live(u)
                           ELSE request[u] \in {"posted", "open", "left"}
    BY <1>1, <2>1 DEF StillRuns
  <2>3. CASE u # t
    BY <1>1, <1>2, <1>3, <2>2, <2>3 DEF Live
  <2>4. CASE u = t
    <3>1. ~Strands(t)
      BY <2>2, <2>4 DEF Strands
    <3>2. run'[t] = "working" /\ (reattach \/ request'[t] = "open")
      BY <1>s, <3>1
    <3> QED BY <1>1, <2>2, <2>4, <3>2 DEF Live
  <2> QED BY <2>3, <2>4
<1>8. HubOpen'
  BY <1>1 DEF HubOpen, active
<1> QED BY <1>5, <1>6, <1>7, <1>8 DEF IInv

\* An open stream ends or is left behind: with a hub nothing but the stream and
\* a pending cancel change, without one the turn is finalized unless it is kept.
LEMMA StreamLeavesInv ==
    ASSUME IInv, NEW t \in Turns, StreamDone(t) \/ ClientLeaves(t) \/ BodyCancelled(t)
    PROVE  IInv'
<1>1. /\ TypeOK /\ Unposted /\ StillRuns /\ HubOpen
      /\ reattach' = reattach /\ hubOf' = hubOf /\ run' = run /\ outcome' = outcome
      /\ told' = told /\ keep' = keep /\ outside' = outside
      /\ request[t] \in {"open", "left"}
  BY DEF IInv, StreamDone, ClientLeaves, BodyCancelled
<1>2. /\ request'[t] \in {"left", "over"} /\ \A u \in Turns \ {t} : request'[u] = request[u]
      /\ request' \in [Turns -> Requests]
  BY <1>1 DEF StreamDone, ClientLeaves, BodyCancelled, TypeOK, Requests
<1>3. toCancel' \in {toCancel, toCancel \cup {t}}
  BY DEF StreamDone, ClientLeaves, BodyCancelled, CancelRun
<1>4. ASSUME NEW u \in Turns PROVE Live(u)' <=> Live(u)
  BY <1>1, <1>2 DEF Live
<1>5. ASSUME exec' = exec, intr' = intr, hub' = hub, doneHubs' = doneHubs,
             closedHubs' = closedHubs, saved' = saved, stranded' = stranded,
             reattach \/ (request'[t] = "left" /\ toCancel' = toCancel)
      PROVE  IInv'
  <2>1. TypeOK'
    BY <1>1, <1>2, <1>3, <1>5 DEF TypeOK
  <2>2. Unposted'
    BY <1>1, <1>2, <1>5 DEF Unposted, Early
  <2>3. StillRuns'
    BY <1>1, <1>2, <1>4, <1>5 DEF StillRuns
  <2>4. HubOpen'
    BY <1>1, <1>5 DEF HubOpen, active
  <2> QED BY <2>1, <2>2, <2>3, <2>4 DEF IInv
<1>6. ASSUME NEW failure \in BOOLEAN, ~reattach, StreamFinalizes(t, failure), CancelRun(t)
      PROVE  IInv'
  <2>1. /\ exec' \in {"idle", "interrupted"} /\ intr' = FALSE /\ hub' = NoHub /\ stranded' = FALSE
        /\ closedHubs' = closedHubs \cup ({hub} \ {NoHub})
    BY <1>1, <1>6, Finalized DEF StreamFinalizes
  <2>2. doneHubs' = doneHubs /\ saved' \in {saved, saved \cup {t}}
    BY <1>6 DEF StreamFinalizes
  <2>3. TypeOK'
    BY <1>1, <1>2, <1>3, <2>1, <2>2 DEF TypeOK, ExecStates
  <2>4. Unposted'
    BY <1>1, <1>2, <2>1, <2>2, NoHubAssumption DEF Unposted, Early
  <2>5. StillRuns'
    BY <2>1 DEF StillRuns
  <2>6. HubOpen'
    BY <2>1 DEF HubOpen
  <2> QED BY <2>3, <2>4, <2>5, <2>6 DEF IInv
<1>7. \/ /\ exec' = exec /\ intr' = intr /\ hub' = hub /\ doneHubs' = doneHubs
         /\ closedHubs' = closedHubs /\ saved' = saved /\ stranded' = stranded
         /\ reattach \/ (request'[t] = "left" /\ toCancel' = toCancel)
      \/ ~reattach /\ CancelRun(t) /\ \E failure \in BOOLEAN : StreamFinalizes(t, failure)
  <2>1. CASE StreamDone(t)
    <3>1. CancelRun(t) /\ (outcome[t] = "failed") \in BOOLEAN /\ StreamFinalizes(t, outcome[t] = "failed")
      BY <2>1 DEF StreamDone
    <3>2. CASE reattach
      BY <3>1, <3>2 DEF StreamFinalizes, hubVars
    <3>3. CASE ~reattach
      BY <3>1, <3>3
    <3> QED BY <3>2, <3>3
  <2>2. CASE BodyCancelled(t)
    <3>1. PICK f \in BOOLEAN : CancelRun(t) /\ StreamFinalizes(t, f /\ outcome[t] = "failed")
      BY <2>2 DEF BodyCancelled
    <3>2. CASE reattach
      BY <3>1, <3>2 DEF StreamFinalizes, hubVars
    <3>3. CASE ~reattach
      <4>1. (f /\ outcome[t] = "failed") \in BOOLEAN
        OBVIOUS
      <4> QED BY <3>1, <3>3, <4>1
    <3> QED BY <3>2, <3>3
  <2>3. CASE ClientLeaves(t)
    <3>1. CASE reattach \/ t \in keep
      <4>1. request'[t] = "left"
        BY <1>1, <2>3, <3>1 DEF ClientLeaves, TypeOK
      <4> QED BY <2>3, <3>1, <4>1 DEF ClientLeaves, hubVars
    <3>2. CASE ~(reattach \/ t \in keep)
      <4>1. PICK f \in BOOLEAN : CancelRun(t) /\ StreamFinalizes(t, f /\ outcome[t] = "failed")
        BY <2>3, <3>2 DEF ClientLeaves
      <4>2. (f /\ outcome[t] = "failed") \in BOOLEAN
        OBVIOUS
      <4> QED BY <3>2, <4>1, <4>2
    <3> QED BY <3>1, <3>2
  <2> QED BY <2>1, <2>2, <2>3
<1> QED BY <1>5, <1>6, <1>7

-----------------------------------------------------------------------------
LEMMA InitInv == ASSUME Init PROVE IInv
<1>1. TypeOK
  <2>1. reattach \in BOOLEAN /\ intr \in BOOLEAN /\ stranded \in BOOLEAN
    BY DEF Init
  <2>2. 0 \in 0..MaxOutside
    BY NoHubAssumption
  <2>3. exec \in ExecStates /\ hub \in Turns \cup {NoHub} /\ outside \in 0..MaxOutside
    BY <2>2 DEF Init, ExecStates
  <2>4. /\ hubOf \in [Turns -> Turns \cup {NoHub}] /\ request \in [Turns -> Requests]
        /\ run \in [Turns -> RunStages] /\ outcome \in [Turns -> Outcomes]
    BY DEF Init, Requests, RunStages, Outcomes
  <2> QED BY <2>1, <2>3, <2>4 DEF Init, TypeOK
<1>2. Unposted
  BY NoHubAssumption DEF Init, Unposted, Early
<1>3. StillRuns
  <2>1. exec # "running"
    BY DEF Init
  <2> QED BY <2>1 DEF StillRuns
<1>4. HubOpen
  BY DEF Init, HubOpen
<1> QED BY <1>1, <1>2, <1>3, <1>4 DEF IInv

LEMMA NextInv == ASSUME IInv, [Next]_vars PROVE IInv'
<1>1. ASSUME NEW t \in Turns, Request(t) PROVE IInv'
  <2>1. CASE Chat(t)
    <3>1. /\ Post(t) /\ request[t] \in Early /\ keep' \subseteq Turns
          /\ UNCHANGED <<reattach, doneHubs, closedHubs, runVars, told, histVars>>
      BY <2>1 DEF Chat, Early, IInv, TypeOK
    <3> QED BY <3>1, PostInv
  <2>2. CASE Resume(t)
    <3>1. /\ Post(t) /\ request[t] \in Early /\ keep' \subseteq Turns
          /\ UNCHANGED <<reattach, doneHubs, closedHubs, runVars, told, histVars>>
      BY <2>2 DEF Resume, Early, IInv, TypeOK
    <3> QED BY <3>1, PostInv
  <2>3. CASE Continue(t) \/ Rejected(t)
    BY <2>3, EarlyInv
  <2>4. CASE Settled(t)
    BY <2>4, OutsideInv
  <2> QED BY <1>1, <2>1, <2>2, <2>3, <2>4 DEF Request
<1>2. ASSUME NEW t \in Turns, Run(t) PROVE IInv'
  BY <1>2, RunInv
<1>3. ASSUME NEW t \in Turns, Stream(t) PROVE IInv'
  BY <1>3, StartInv, StreamLeavesInv DEF Stream
<1>4. ASSUME NEW s \in {"interrupted", "failed"}, Outside(s) PROVE IInv'
  BY <1>4, OutsideInv
<1>5. CASE UNCHANGED vars
  <2>1. /\ reattach' = reattach /\ exec' = exec /\ intr' = intr /\ hub' = hub
        /\ doneHubs' = doneHubs /\ closedHubs' = closedHubs /\ hubOf' = hubOf
        /\ request' = request /\ run' = run /\ outcome' = outcome /\ toCancel' = toCancel
        /\ saved' = saved /\ told' = told /\ keep' = keep /\ outside' = outside
        /\ stranded' = stranded
    BY <1>5 DEF vars, hubVars, runVars, histVars
  <2>2. TypeOK'
    BY <2>1 DEF IInv, TypeOK
  <2>3. Unposted'
    BY <2>1 DEF IInv, Unposted
  <2>4. StillRuns'
    BY <2>1 DEF IInv, StillRuns, Live
  <2>5. HubOpen'
    BY <2>1 DEF IInv, HubOpen, active
  <2> QED BY <2>2, <2>3, <2>4, <2>5 DEF IInv
<1> QED BY <1>1, <1>2, <1>3, <1>4, <1>5 DEF Next

LEMMA Invariance == Spec => []IInv
BY InitInv, NextInv, PTL DEF Spec

\* Every variable keeps its type.
THEOREM TypeCorrect == Spec => []TypeOK
<1>1. IInv => TypeOK
  BY DEF IInv
<1> QED BY <1>1, Invariance, PTL

\* However turns overlap, a session shown as running has a turn that can end this,
\* or is orphaned by one that was lost before its run began.
THEOREM RunningCorrect == Spec => []RunningHasTurn
<1>1. ASSUME IInv PROVE RunningHasTurn
  <2>1. StillRuns
    BY <1>1 DEF IInv
  <2> QED BY <2>1 DEF StillRuns, RunningHasTurn, Orphaned, Ends, Live
<1> QED BY <1>1, Invariance, PTL

\* However turns close each other's hubs, the hub a session shows is open, and a turn at
\* work publishes to it unless one was lost.
THEOREM HubCorrect == Spec => []HubIsServed
<1>1. ASSUME IInv PROVE HubIsServed
  <2>1. StillRuns /\ HubOpen
    BY <1>1 DEF IInv
  <2> QED BY <2>1 DEF StillRuns, HubOpen, HubIsServed
<1> QED BY <1>1, Invariance, PTL

-----------------------------------------------------------------------------
(* Turns whose client has left.                                             *)

\* With live reattach a run whose client left is not cancelled, and is persisted when
\* it is over.
DetachedIsKept ==
    \A t \in Turns : reattach /\ request[t] = "left" =>
       /\ run[t] \in {"working", "persisting", "over"}
       /\ t \notin toCancel /\ outcome[t] # "cancelled"
       /\ run[t] = "over" => t \in saved

\* The task was not cancelled, nor is it to be.
Untouched(t) == t \notin toCancel /\ outcome[t] # "cancelled"

SavedAtEnd(t) ==
    request[t] \in {"open", "left"} =>
       run[t] \in {"working", "persisting", "over"} /\ (run[t] = "over" => t \in saved)

\* So it is for every turn whose stream the server has not given up.
Attached == reattach => \A t \in Turns : request[t] # "over" => Untouched(t) /\ SavedAtEnd(t)

LEMMA AttachedNext ==
    ASSUME IInv, Attached, [Next]_vars
    PROVE  Attached'
<1> SUFFICES ASSUME reattach' , NEW u \in Turns, request'[u] # "over"
             PROVE  Untouched(u)' /\ SavedAtEnd(u)'
  BY DEF Attached
<1>1. TypeOK /\ Unposted /\ (reattach => (request[u] # "over" => Untouched(u) /\ SavedAtEnd(u)))
  BY DEF IInv, Attached
<1>2. ASSUME NEW t \in Turns, Request(t) PROVE Untouched(u)' /\ SavedAtEnd(u)'
  <2>1. /\ reattach' = reattach /\ UNCHANGED <<run, outcome, toCancel, saved>>
        /\ request'[u] = request[u] \/ request'[u] \notin {"open", "left", "over"}
        /\ request[u] # "over"
    BY <1>1, <1>2 DEF TypeOK, Request, Chat, Continue, Settled, Resume, Rejected, Post, runVars
  <2> QED BY <1>1, <2>1 DEF Untouched, SavedAtEnd
<1>3. ASSUME NEW t \in Turns, Run(t) PROVE Untouched(u)' /\ SavedAtEnd(u)'
  <2>1. reattach' = reattach /\ request' = request /\ Untouched(u) /\ SavedAtEnd(u)
    BY <1>1, <1>3 DEF Run, RunAnswers, RunFails, RunCancelled, RunEnds, Saves
  <2>2. CASE t # u
    <3>1. /\ run'[u] = run[u] /\ outcome'[u] = outcome[u] /\ (u \in saved => u \in saved')
          /\ (u \in toCancel' => u \in toCancel)
      BY <1>1, <1>3, <2>2 DEF TypeOK, Run, RunAnswers, RunFails, RunCancelled, RunEnds, Saves
    <3> QED BY <2>1, <3>1 DEF Untouched, SavedAtEnd
  <2>3. CASE t = u
    <3>1. CASE Saves(t)
      <4>1. run'[u] = "over" /\ u \in saved' /\ outcome' = outcome /\ u \notin toCancel'
        BY <1>1, <2>1, <2>3, <3>1 DEF TypeOK, Saves, Untouched
      <4> QED BY <2>1, <4>1 DEF Untouched, SavedAtEnd
    <3>2. CASE RunAnswers(t) \/ RunFails(t)
      <4>1. run'[u] = "persisting" /\ outcome'[u] \in {"answered", "failed"} /\ toCancel' = toCancel
        BY <1>1, <2>1, <2>3, <3>2 DEF TypeOK, RunAnswers, RunFails, RunEnds
      <4> QED BY <2>1, <4>1 DEF Untouched, SavedAtEnd
    <3>3. CASE RunCancelled(t)
      BY <2>1, <2>3, <3>3 DEF RunCancelled, Untouched
    <3> QED BY <1>3, <3>1, <3>2, <3>3 DEF Run
  <2> QED BY <2>2, <2>3
<1>4. ASSUME NEW t \in Turns, Stream(t) PROVE Untouched(u)' /\ SavedAtEnd(u)'
  <2>1. /\ reattach' = reattach /\ outcome' = outcome
        /\ request'[u] = request[u] \/ t = u
    BY <1>1, <1>4 DEF TypeOK, Stream, StartStream, StreamRefused, HandlerRaises, StreamDone, ClientLeaves,
          BodyCancelled, runVars
  <2>2. CASE t # u
    <3>1. /\ run'[u] = run[u] /\ saved' = saved /\ (u \in toCancel' => u \in toCancel)
      BY <1>1, <1>4, <2>1, <2>2 DEF TypeOK, Stream, StartStream, StreamRefused, HandlerRaises,
            StreamDone, ClientLeaves, BodyCancelled, StreamFinalizes, CancelRun, runVars
    <3> QED BY <1>1, <2>1, <2>2, <3>1 DEF Untouched, SavedAtEnd
  <2>3. CASE t = u
    <3>1. CASE StartStream(t)
      <4>1. run'[u] = "working" /\ toCancel' = toCancel /\ request[u] = "posted"
        BY <1>1, <2>3, <3>1 DEF TypeOK, StartStream
      <4> QED BY <1>1, <2>1, <4>1 DEF Untouched, SavedAtEnd
    <3>2. CASE ClientLeaves(t)
      <4>1. run' = run /\ toCancel' = toCancel /\ saved' = saved /\ request[u] = "open"
        BY <2>1, <2>3, <3>2 DEF ClientLeaves
      <4> QED BY <1>1, <2>1, <4>1 DEF Untouched, SavedAtEnd
    <3>3. CASE StreamRefused(t) \/ HandlerRaises(t) \/ StreamDone(t) \/ BodyCancelled(t)
      BY <1>1, <2>3, <3>3 DEF TypeOK, StreamRefused, HandlerRaises, StreamDone, BodyCancelled
    <3> QED BY <1>4, <3>1, <3>2, <3>3 DEF Stream
  <2> QED BY <2>2, <2>3
<1>5. ASSUME NEW s \in {"interrupted", "failed"}, Outside(s) PROVE Untouched(u)' /\ SavedAtEnd(u)'
  BY <1>1, <1>5 DEF Outside, runVars, Untouched, SavedAtEnd
<1>6. CASE UNCHANGED vars
  BY <1>1, <1>6 DEF vars, runVars, Untouched, SavedAtEnd
<1> QED BY <1>2, <1>3, <1>4, <1>5, <1>6 DEF Next

\* A run whose client left goes on to its own end, and that end is persisted,
\* whatever turns, interrupts and failures come meanwhile: what DetachedRunIsSaved says,
\* except that the end comes.
THEOREM DetachedCorrect == Spec => []DetachedIsKept
<1>1. Init => Attached
  BY DEF Init, Attached, Untouched, SavedAtEnd
<1>2. IInv /\ Attached /\ [Next]_vars => Attached'
  BY AttachedNext
<1>3. Attached => DetachedIsKept
  BY DEF Attached, DetachedIsKept, Untouched, SavedAtEnd
<1> QED BY <1>1, <1>2, <1>3, Invariance, PTL DEF Spec

-----------------------------------------------------------------------------
(* AgentTurn.  The rows that stay after a repair, and their order.          *)

\* The positions in K are numbered in their order, and none is before its number.
LEMMA Enumerated ==
    ASSUME NEW N \in Nat, NEW K \in SUBSET (1..N)
    PROVE  /\ Cardinality(K) \in Nat
           /\ \A i \in K : upto(K, i) \in 1..Cardinality(K) /\ nth(K, upto(K, i)) = i
           /\ \A n \in 1..Cardinality(K) :
                 nth(K, n) \in K /\ upto(K, nth(K, n)) = n /\ n <= nth(K, n)
           /\ \A i, j \in K : i < j => upto(K, i) < upto(K, j)
<1> DEFINE B(i) == {j \in K : j <= i}
<1>0. \A i \in K : i \in Nat /\ i >= 1
  OBVIOUS
<1>1. IsFiniteSet(1..N) /\ IsFiniteSet(K) /\ Cardinality(K) \in Nat
  <2>1. IsFiniteSet(1..N)
    <3>1. 1 \in Int /\ N \in Int
      OBVIOUS
    <3> QED BY <3>1, FS_Interval
  <2>2. IsFiniteSet(K)
    BY <2>1, FS_Subset
  <2> QED BY <2>1, <2>2, FS_CardinalityType
<1>2. ASSUME NEW i \in K
      PROVE  /\ IsFiniteSet(B(i)) /\ Cardinality(B(i)) \in Nat
             /\ Cardinality(B(i)) <= Cardinality(K) /\ Cardinality(B(i)) <= i
             /\ Cardinality(B(i)) > 0
  <2>1. B(i) \in SUBSET K /\ B(i) \in SUBSET (1..i) /\ i \in B(i) /\ i \in Nat
    <3>1. i \in Nat /\ i >= 1
      BY <1>0
    <3>2. \A j \in B(i) : j \in K /\ j \in 1..i
      BY <1>0, <3>1
    <3>3. i \in B(i)
      BY <3>1
    <3> QED BY <3>1, <3>2, <3>3
  <2>2. IsFiniteSet(1..i) /\ Cardinality(1..i) = i
    <3>1. i >= 1 /\ i \in Int /\ 1 \in Int
      OBVIOUS
    <3> QED BY <3>1, FS_Interval
  <2> HIDE DEF B
  <2>3. IsFiniteSet(B(i)) /\ Cardinality(B(i)) <= Cardinality(K)
    BY <1>1, <2>1, FS_Subset
  <2>4. Cardinality(B(i)) <= i
    BY <2>1, <2>2, FS_Subset
  <2>5. Cardinality(B(i)) \in Nat /\ Cardinality(B(i)) # 0
    BY <2>1, <2>3, FS_CardinalityType, FS_EmptySet
  <2> QED BY <2>3, <2>4, <2>5
<1>3. ASSUME NEW i \in K, NEW j \in K, i < j
      PROVE  Cardinality(B(i)) < Cardinality(B(j))
  <2>1. B(i) \in SUBSET B(j) /\ j \in B(j) /\ j \notin B(i)
    <3>1. \A k \in B(i) : k \in B(j)
      BY <1>0, <1>3
    <3>2. j \in B(j) /\ j \notin B(i)
      BY <1>0, <1>3
    <3> QED BY <3>1, <3>2
  <2> HIDE DEF B
  <2>2. B(i) # B(j)
    BY <2>1
  <2>3. Cardinality(B(i)) <= Cardinality(B(j)) /\ Cardinality(B(j)) # Cardinality(B(i))
    BY <1>2, <2>1, <2>2, FS_Subset
  <2> QED BY <1>2, <2>3
<1>4. \A i \in K : upto(K, i) = Cardinality(B(i))
  BY DEF upto
<1> HIDE DEF B
<1>5. \A i \in K : upto(K, i) \in 1..Cardinality(K) /\ upto(K, i) <= i
  BY <1>1, <1>2, <1>4
<1>6. \A i, j \in K : i < j => upto(K, i) < upto(K, j)
  BY <1>3, <1>4
<1>7. \A i, j \in K : upto(K, i) = upto(K, j) => i = j
  <2>1. ASSUME NEW i \in K, NEW j \in K, upto(K, i) = upto(K, j), i # j PROVE FALSE
    <3>1. i < j \/ j < i
      BY <2>1
    <3> QED BY <1>5, <1>6, <2>1, <3>1
  <2> QED BY <2>1
<1> DEFINE f == [i \in K |-> upto(K, i)]
<1>8. f \in Injection(K, 1..Cardinality(K))
  BY <1>5, <1>7 DEF Injection, IsInjective
<1>9. f \in Surjection(K, 1..Cardinality(K))
  <2>1. IsFiniteSet(1..Cardinality(K)) /\ Cardinality(1..Cardinality(K)) = Cardinality(K)
    <3>1. 1 \in Int /\ Cardinality(K) \in Int
      BY <1>1
    <3>2. /\ IsFiniteSet(1..Cardinality(K))
          /\ Cardinality(1..Cardinality(K))
               = IF 1 > Cardinality(K) THEN 0 ELSE Cardinality(K) - 1 + 1
      BY <3>1, FS_Interval
    <3> QED BY <1>1, <3>2
  <2> HIDE DEF f
  <2> QED BY <1>8, <2>1, FS_Injection
<1>10. \A n \in 1..Cardinality(K) : \E i \in K : upto(K, i) = n
  BY <1>9 DEF Surjection
<1>11. \A n \in 1..Cardinality(K) : nth(K, n) \in K /\ upto(K, nth(K, n)) = n
  BY <1>10 DEF nth
<1>12. \A i \in K : nth(K, upto(K, i)) = i
  BY <1>5, <1>7, <1>11
<1>13. \A n \in 1..Cardinality(K) : n <= nth(K, n)
  BY <1>5, <1>11
<1> QED BY <1>1, <1>5, <1>6, <1>11, <1>12, <1>13

LEMMA KeptRow ==
    ASSUME NEW s \in Seq(Row), NEW i \in DOMAIN s
    PROVE  /\ s[i] \in Row /\ Kept(s, i) \in Row
           /\ Kept(s, i).role = s[i].role /\ Kept(s, i).of = s[i].of
           /\ Kept(s, i).calls \subseteq s[i].calls
           /\ s[i].role = "assistant" => Kept(s, i).calls = Answered(s, i) /\ Kept(s, i).text
<1>1. s[i] \in Row
  BY ElementOfSeq
<1>2. Answered(s, i) \subseteq s[i].calls
  BY DEF Answered
<1>3. CASE s[i].role = "assistant"
  BY <1>1, <1>2, <1>3 DEF Kept, Row
<1>4. CASE s[i].role # "assistant"
  BY <1>1, <1>4 DEF Kept, Row
<1> QED BY <1>1, <1>3, <1>4

\* f gives for each row of t the row of s it is, in the order of s.
Origin(f, s, t) ==
    /\ f \in [DOMAIN t -> DOMAIN s]
    /\ \A m, n \in DOMAIN t : m < n => f[m] < f[n]
    /\ \A n \in DOMAIN t : Stays(s, f[n]) /\ t[n] = Kept(s, f[n]) /\ n <= f[n]
    /\ \A i \in DOMAIN s : Stays(s, i) => \E n \in DOMAIN t : f[n] = i

LEMMA Sanitized ==
    ASSUME NEW s \in Seq(Row)
    PROVE  sanitize(s) \in Seq(Row) /\ \E f : Origin(f, s, sanitize(s))
<1> DEFINE K == staying(s)
           t == sanitize(s)
           f == [n \in 1..Cardinality(K) |-> nth(K, n)]
<1>1. Len(s) \in Nat /\ DOMAIN s = 1..Len(s) /\ K \in SUBSET (1..Len(s))
  BY DEF staying
<1>2. K \subseteq DOMAIN s /\ \A i \in DOMAIN s : i \in K <=> Stays(s, i)
  BY DEF staying
<1> HIDE DEF K
<1>3. /\ Cardinality(K) \in Nat
      /\ \A i \in K : upto(K, i) \in 1..Cardinality(K) /\ nth(K, upto(K, i)) = i
      /\ \A n \in 1..Cardinality(K) :
            nth(K, n) \in K /\ upto(K, nth(K, n)) = n /\ n <= nth(K, n)
      /\ \A i, j \in K : i < j => upto(K, i) < upto(K, j)
  BY <1>1, Enumerated
<1>4. t = [n \in 1..Cardinality(K) |-> Kept(s, nth(K, n))]
  BY DEF sanitize, K
<1>5. \A n \in 1..Cardinality(K) : Kept(s, nth(K, n)) \in Row
  BY <1>2, <1>3, KeptRow
<1>6. t \in [1..Cardinality(K) -> Row]
  BY <1>4, <1>5
<1> HIDE DEF t
<1>7. t \in Seq(Row) /\ DOMAIN t = 1..Cardinality(K)
  BY <1>3, <1>6
<1>8. ASSUME NEW m \in DOMAIN t, NEW n \in DOMAIN t, m < n PROVE nth(K, m) < nth(K, n)
  <2>1. nth(K, m) \in K /\ nth(K, n) \in K /\ nth(K, m) \in Nat /\ nth(K, n) \in Nat
    <3>1. nth(K, m) \in K /\ nth(K, n) \in K
      BY <1>3, <1>7
    <3>2. \A i \in K : i \in Nat
      BY <1>1
    <3> QED BY <3>1, <3>2
  <2>2. upto(K, nth(K, m)) = m /\ upto(K, nth(K, n)) = n
    BY <1>3, <1>7
  <2>3. nth(K, m) # nth(K, n)
    BY <1>8, <1>7, <2>2
  <2>4. ~(nth(K, n) < nth(K, m))
    <3>1. nth(K, n) < nth(K, m) => n < m
      BY <1>3, <2>1, <2>2
    <3> QED BY <1>3, <1>7, <1>8, <3>1
  <2> QED BY <2>1, <2>3, <2>4
<1>9. /\ f \in [DOMAIN t -> DOMAIN s] /\ \A n \in DOMAIN t : f[n] = nth(K, n)
  BY <1>2, <1>3, <1>7
<1> HIDE DEF f
<1>10. \A n \in DOMAIN t : t[n] = Kept(s, nth(K, n))
  BY <1>4, <1>7
<1>11. \A i \in DOMAIN s : Stays(s, i) => \E n \in DOMAIN t : f[n] = i
  BY <1>2, <1>3, <1>7, <1>9
<1>12. \A n \in DOMAIN t : Stays(s, f[n]) /\ t[n] = Kept(s, f[n]) /\ n <= f[n]
  BY <1>2, <1>3, <1>7, <1>9, <1>10
<1>13. Origin(f, s, t)
  BY <1>8, <1>9, <1>11, <1>12 DEF Origin
<1> QED BY <1>7, <1>13 DEF t

\* Rows that stay and were in a block stay in the block.
LEMMA BlocksStay ==
    ASSUME NEW s \in Seq(Row), NEW t \in Seq(Row), NEW f, Origin(f, s, t),
           NEW m \in DOMAIN t, NEW n \in DOMAIN t, InBlock(s, f[m], f[n])
    PROVE  InBlock(t, m, n)
<1>1. /\ m \in Nat /\ n \in Nat /\ DOMAIN t = 1..Len(t) /\ Len(t) \in Nat
      /\ f[m] \in Nat /\ f[n] \in Nat /\ f[m] < f[n]
  BY DEF Origin, InBlock
<1>2. m < n
  <2>1. ~(n < m) /\ n # m
    BY <1>1 DEF Origin
  <2> QED BY <1>1, <2>1
<1>3. ASSUME NEW k \in (m + 1)..n PROVE t[k].role = "tool"
  <2>1. k \in DOMAIN t /\ m < k /\ k <= n
    BY <1>1
  <2>2. f[k] \in DOMAIN s /\ f[k] \in Nat /\ f[m] < f[k] /\ (f[k] < f[n] \/ k = n)
    BY <1>1, <2>1 DEF Origin
  <2>3. f[k] \in (f[m] + 1)..f[n]
    BY <1>1, <2>2
  <2>4. s[f[k]].role = "tool"
    BY <2>3 DEF InBlock
  <2>5. t[k] = Kept(s, f[k])
    BY <2>1 DEF Origin
  <2> QED BY <2>2, <2>4, <2>5, KeptRow
<1> QED BY <1>2, <1>3 DEF InBlock

\* Whatever the rows are, the repaired ones are well-formed.
LEMMA SanitizedWellFormed ==
    ASSUME NEW s \in Seq(Row)
    PROVE  WellFormed(sanitize(s))
<1> DEFINE t == sanitize(s)
<1>1. t \in Seq(Row)
  BY Sanitized
<1>2. PICK f : Origin(f, s, t)
  BY Sanitized
<1> HIDE DEF t
<1>3. /\ f \in [DOMAIN t -> DOMAIN s]
      /\ \A n \in DOMAIN t : Stays(s, f[n]) /\ t[n] = Kept(s, f[n])
      /\ \A i \in DOMAIN s : Stays(s, i) => \E n \in DOMAIN t : f[n] = i
  BY <1>2 DEF Origin
<1>4. \A n \in DOMAIN t :
         /\ t[n].role = s[f[n]].role /\ t[n].of = s[f[n]].of
         /\ s[f[n]].role = "assistant" => t[n].calls = Answered(s, f[n]) /\ t[n].text
  BY <1>3, KeptRow
<1>5. ASSUME NEW n \in DOMAIN t, t[n].role = "tool"
      PROVE  \E m \in DOMAIN t :
                InBlock(t, m, n) /\ t[m].role = "assistant" /\ t[n].of \in t[m].calls
  <2>1. Owned(s, f[n])
    BY <1>3, <1>4, <1>5 DEF Stays
  <2>2. PICK i \in DOMAIN s :
           s[i].role = "assistant" /\ InBlock(s, i, f[n]) /\ s[f[n]].of \in s[i].calls
    BY <2>1 DEF Owned
  <2>3. s[f[n]].of \in Answered(s, i)
    BY <1>3, <2>2 DEF Answered
  <2>4. Stays(s, i)
    BY <2>2, <2>3 DEF Stays
  <2>5. PICK m \in DOMAIN t : f[m] = i
    BY <1>3, <2>4
  <2>6. InBlock(t, m, n)
    BY <1>1, <1>2, <2>2, <2>5, BlocksStay
  <2> QED BY <1>4, <2>2, <2>3, <2>5, <2>6
<1>6. ASSUME NEW m \in DOMAIN t, t[m].role = "assistant", NEW c \in t[m].calls
      PROVE  \E n \in DOMAIN t : InBlock(t, m, n) /\ t[n].role = "tool" /\ t[n].of = c
  <2>1. f[m] \in DOMAIN s /\ s[f[m]].role = "assistant" /\ c \in Answered(s, f[m])
    BY <1>3, <1>4, <1>6
  <2>2. c \in s[f[m]].calls /\ \E j \in DOMAIN s : InBlock(s, f[m], j) /\ s[j].of = c
    BY <2>1 DEF Answered
  <2>3. PICK j \in DOMAIN s : InBlock(s, f[m], j) /\ s[j].of = c
    BY <2>2
  <2>4. s[j].role = "tool"
    <3>1. f[m] \in Nat /\ j \in Nat /\ f[m] < j
      BY <2>1, <2>3 DEF InBlock
    <3>2. j \in (f[m] + 1)..j
      BY <3>1
    <3> QED BY <2>3, <3>2 DEF InBlock
  <2>5. Stays(s, j)
    BY <2>1, <2>2, <2>3, <2>4 DEF Stays, Owned
  <2>6. PICK n \in DOMAIN t : f[n] = j
    BY <1>3, <2>5
  <2>7. InBlock(t, m, n)
    BY <1>1, <1>2, <2>3, <2>6, BlocksStay
  <2> QED BY <1>4, <2>3, <2>4, <2>6, <2>7
<1> QED BY <1>4, <1>5, <1>6 DEF WellFormed, t

\* A well-formed list is left as it is.
LEMMA WellFormedIsKept ==
    ASSUME NEW t \in Seq(Row), WellFormed(t)
    PROVE  sanitize(t) = t
<1> DEFINE N == Len(t)
<1>1. N \in Nat /\ DOMAIN t = 1..N /\ t = [n \in 1..N |-> t[n]]
  OBVIOUS
<1>2. ASSUME NEW i \in 1..N PROVE Stays(t, i) /\ Kept(t, i) = t[i]
  <2>1. t[i] \in Row /\ i \in DOMAIN t
    BY <1>1
  <2>2. CASE t[i].role = "tool"
    BY <2>1, <2>2 DEF WellFormed, Stays, Owned, Kept
  <2>3. CASE t[i].role = "assistant"
    <3>1. t[i].text /\ Answered(t, i) = t[i].calls
      BY <2>1, <2>3 DEF WellFormed, Answered
    <3>2. Stays(t, i)
      BY <2>3, <3>1 DEF Stays
    <3>3. [t[i] EXCEPT !.calls = t[i].calls, !.text = TRUE] = t[i]
      BY <2>1, <3>1 DEF Row
    <3> QED BY <2>3, <3>1, <3>2, <3>3 DEF Kept
  <2>4. CASE t[i].role \notin {"tool", "assistant"}
    BY <2>4 DEF Stays, Kept
  <2> QED BY <2>2, <2>3, <2>4
<1>3. staying(t) = 1..N
  BY <1>1, <1>2 DEF staying
<1>4. \A n \in 0..N : Cardinality(1..n) = n
  <2>1. ASSUME NEW n \in 0..N PROVE Cardinality(1..n) = n
    <3>1. 1 \in Int /\ n \in Int /\ (IF 1 > n THEN 0 ELSE n - 1 + 1) = n
      BY <1>1
    <3> QED BY <3>1, FS_Interval
  <2> QED BY <2>1
<1> HIDE DEF N
<1>5. ASSUME NEW n \in 1..N PROVE nth(1..N, n) = n
  <2>1. {j \in 1..N : j <= n} = 1..n /\ n \in 0..N
    BY <1>1
  <2>2. upto(1..N, n) = n
    BY <1>4, <2>1 DEF upto
  <2>3. 1..N \in SUBSET (1..N)
    OBVIOUS
  <2>4. \A i \in 1..N : nth(1..N, upto(1..N, i)) = i
    BY <1>1, <2>3, Enumerated
  <2> QED BY <2>2, <2>4
<1>6. Cardinality(1..N) = N
  BY <1>1, <1>4
<1>7. sanitize(t) = [n \in 1..N |-> Kept(t, nth(1..N, n))]
  BY <1>3, <1>6 DEF sanitize
<1>8. \A n \in 1..N : Kept(t, nth(1..N, n)) = t[n]
  BY <1>2, <1>5
<1> QED BY <1>1, <1>7, <1>8

\* Whatever list _sanitize_context_messages is given, it returns one that a provider
\* strict about pairing accepts, and repairing that again, as run_turn does before
\* every round, changes nothing.
THEOREM RepairIsStable ==
    ASSUME NEW s \in Seq(Row)
    PROVE  WellFormed(sanitize(s)) /\ sanitize(sanitize(s)) = sanitize(s)
BY Sanitized, SanitizedWellFormed, WellFormedIsKept

-----------------------------------------------------------------------------
(* Compaction.                                                              *)

\* Rows from a point on that parts no call from its results are well-formed.
LEMMA SuffixWellFormed ==
    ASSUME NEW s \in Seq(Row), NEW t \in Seq(Row), NEW k \in Nat,
           Len(t) = Len(s) - k, \A i \in DOMAIN t : t[i] = s[i + k],
           t # <<>> => t[1].role # "tool", WellFormed(s)
    PROVE  WellFormed(t)
<1>1. /\ Len(s) \in Nat /\ Len(t) \in Nat /\ DOMAIN s = 1..Len(s) /\ DOMAIN t = 1..Len(t)
  OBVIOUS
<1>2. ASSUME NEW i \in DOMAIN t, NEW j \in DOMAIN t, InBlock(s, i + k, j + k)
      PROVE  InBlock(t, i, j)
  <2>1. i < j
    BY <1>1, <1>2 DEF InBlock
  <2>2. \A n \in (i + 1)..j : t[n].role = "tool"
    <3>1. ASSUME NEW n \in (i + 1)..j PROVE t[n].role = "tool"
      <4>1. n \in DOMAIN t /\ n + k \in (i + k + 1)..(j + k)
        BY <1>1
      <4> QED BY <1>2, <4>1 DEF InBlock
    <3> QED BY <3>1
  <2> QED BY <2>1, <2>2 DEF InBlock
<1>3. ASSUME NEW j \in DOMAIN t, t[j].role = "tool"
      PROVE  \E i \in DOMAIN t :
                InBlock(t, i, j) /\ t[i].role = "assistant" /\ t[j].of \in t[i].calls
  <2>1. j + k \in DOMAIN s /\ s[j + k] = t[j]
    BY <1>1
  <2>2. PICK i \in DOMAIN s :
           InBlock(s, i, j + k) /\ s[i].role = "assistant" /\ s[j + k].of \in s[i].calls
    BY <1>3, <2>1 DEF WellFormed
  <2>3. i > k
    <3>1. SUFFICES ASSUME i <= k PROVE FALSE
      BY <1>1
    <3>2. k + 1 \in (i + 1)..(j + k)
      BY <1>1, <3>1
    <3>3. s[k + 1].role = "tool"
      BY <2>2, <3>2 DEF InBlock
    <3>4. 1 \in DOMAIN t /\ t # <<>> /\ t[1] = s[1 + k]
      BY <1>1
    <3> QED BY <3>3, <3>4
  <2>4. i - k \in DOMAIN t /\ t[i - k] = s[i] /\ (i - k) + k = i
    <3>1. i < j + k
      BY <2>2 DEF InBlock
    <3> QED BY <1>1, <2>3, <3>1
  <2>5. InBlock(t, i - k, j)
    BY <1>2, <2>2, <2>4
  <2> QED BY <2>1, <2>2, <2>4, <2>5
<1>4. ASSUME NEW i \in DOMAIN t, t[i].role = "assistant"
      PROVE  /\ t[i].text
             /\ \A c \in t[i].calls : \E j \in DOMAIN t :
                   InBlock(t, i, j) /\ t[j].role = "tool" /\ t[j].of = c
  <2>1. i + k \in DOMAIN s /\ s[i + k] = t[i]
    BY <1>1
  <2>2. t[i].text
    BY <1>4, <2>1 DEF WellFormed
  <2>3. ASSUME NEW c \in t[i].calls
        PROVE  \E j \in DOMAIN t : InBlock(t, i, j) /\ t[j].role = "tool" /\ t[j].of = c
    <3>1. PICK j \in DOMAIN s : InBlock(s, i + k, j) /\ s[j].role = "tool" /\ s[j].of = c
      BY <1>4, <2>1 DEF WellFormed
    <3>2. j - k \in DOMAIN t /\ t[j - k] = s[j] /\ (j - k) + k = j
      <4>1. i + k < j
        BY <3>1 DEF InBlock
      <4> QED BY <1>1, <4>1
    <3>3. InBlock(t, i, j - k)
      BY <1>2, <3>1, <3>2
    <3> QED BY <3>1, <3>2, <3>3
  <2> QED BY <2>2, <2>3
<1> QED BY <1>3, <1>4 DEF WellFormed

LEMMA Working ==
    ASSUME NEW s \in Seq(Row)
    PROVE  /\ working(s) \in Seq(Row)
           /\ WellFormed(s) => WellFormed(working(s))
<1>1. CASE s # <<>> /\ s[1].role = "summary"
  <2> DEFINE t == Tail(s)
  <2>1. /\ t \in Seq(Row) /\ Len(t) = Len(s) - 1 /\ Len(s) \in Nat
        /\ \A i \in DOMAIN t : t[i] = s[i + 1]
    BY <1>1, HeadTailProperties
  <2>2. working(s) = t
    BY <1>1 DEF working
  <2> HIDE DEF t
  <2>3. ASSUME WellFormed(s), t # <<>> PROVE t[1].role # "tool"
    <3>1. 1 \in DOMAIN t /\ t[1] = s[2] /\ 2 \in DOMAIN s /\ 1 \in DOMAIN s
      BY <2>1, <2>3
    <3>2. SUFFICES ASSUME s[2].role = "tool" PROVE FALSE
      BY <3>1
    <3>3. PICK i \in DOMAIN s : InBlock(s, i, 2) /\ s[i].role = "assistant"
      BY <2>3, <3>1, <3>2 DEF WellFormed
    <3>4. i = 1
      BY <3>3 DEF InBlock
    <3> QED BY <1>1, <3>3, <3>4
  <2> QED BY <2>1, <2>2, <2>3, SuffixWellFormed
<1>2. CASE ~(s # <<>> /\ s[1].role = "summary")
  BY <1>2 DEF working
<1> QED BY <1>1, <1>2

\* Every sequence can be split.
LEMMA SplitExists ==
    ASSUME NEW w \in Seq(Row), NEW M \in Nat
    PROVE  \E n \in 0..M : /\ n = 0 \/ w[n + 1].role # "tool"
                           /\ \A m \in (n + 1)..M : w[m + 1].role = "tool"
<1> DEFINE S == {d \in 0..M : M - d = 0 \/ w[M - d + 1].role # "tool"}
<1>1. S \subseteq Nat /\ M \in S
  OBVIOUS
<1>2. PICK d \in S : \A e \in S : ~(<<e, d>> \in OpToRel(<, Nat))
  BY <1>1, NatLessThanWellFounded, WFMin
<1>3. \A e \in S : ~(e < d)
  BY <1>1, <1>2 DEF OpToRel
<1>4. M - d \in 0..M /\ (M - d = 0 \/ w[(M - d) + 1].role # "tool")
  OBVIOUS
<1>5. ASSUME NEW m \in ((M - d) + 1)..M PROVE w[m + 1].role = "tool"
  <2>1. M - m \in 0..M /\ M - m < d /\ M - (M - m) = m /\ m # 0
    OBVIOUS
  <2>2. M - m \notin S
    BY <1>3, <2>1
  <2> QED BY <2>1, <2>2
<1> QED BY <1>4, <1>5

LEMMA Split ==
    ASSUME NEW w \in Seq(Row), NEW r \in Nat, Len(w) > r, split_at(w, r) > 0
    PROVE  /\ split_at(w, r) \in 1..Len(w)
           /\ split_at(w, r) < Len(w) => w[split_at(w, r) + 1].role # "tool"
<1> DEFINE M == Len(w) - r
<1>1. M \in Nat /\ M <= Len(w) /\ Len(w) \in Nat
  OBVIOUS
<1>2. \E n \in 0..M : /\ n = 0 \/ w[n + 1].role # "tool"
                      /\ \A m \in (n + 1)..M : w[m + 1].role = "tool"
  BY <1>1, SplitExists
<1>3. /\ split_at(w, r) \in 0..M
      /\ split_at(w, r) = 0 \/ w[split_at(w, r) + 1].role # "tool"
  BY <1>2 DEF split_at
<1> QED BY <1>1, <1>3

\* What a compaction leaves after its summary.
Left(s) == SubSeq(working(s), split_at(working(s), Retain) + 1, Len(working(s)))

LEMMA Compaction ==
    ASSUME NEW s \in Seq(Row), CanCompact(s, Retain)
    PROVE  /\ Left(s) \in Seq(Row)
           /\ compacted(s, Retain) = <<Summary>> \o Left(s)
           /\ WellFormed(s) => WellFormed(Left(s))
           /\ \E k \in Nat : /\ Len(Left(s)) = Len(s) - k
                             /\ \A i \in DOMAIN Left(s) : Left(s)[i] = s[i + k]
<1> DEFINE w == working(s)
           n == split_at(w, Retain)
<1>1. w \in Seq(Row) /\ Len(w) > Retain /\ n > 0 /\ Retain \in Nat
  BY Working, BoundsAssumption DEF CanCompact
<1>2. PICK d \in {0, 1} : Len(w) = Len(s) - d /\ \A i \in DOMAIN w : w[i] = s[i + d]
  <2>1. CASE s # <<>> /\ s[1].role = "summary"
    <3>1. w = Tail(s)
      BY <2>1 DEF working
    <3>2. Len(Tail(s)) = Len(s) - 1 /\ \A i \in DOMAIN Tail(s) : Tail(s)[i] = s[i + 1]
      BY <2>1, HeadTailProperties
    <3> QED BY <3>1, <3>2
  <2>2. CASE ~(s # <<>> /\ s[1].role = "summary")
    <3>1. w = s
      BY <2>2 DEF working
    <3> QED BY <3>1
  <2> QED BY <2>1, <2>2
<1>3. WellFormed(s) => WellFormed(w)
  BY Working
<1>4. compacted(s, Retain) = <<Summary>> \o Left(s) /\ Left(s) = SubSeq(w, n + 1, Len(w))
  BY DEF compacted, Left
<1> HIDE DEF w
<1>5. n \in 1..Len(w) /\ (n < Len(w) => w[n + 1].role # "tool")
  BY <1>1, Split
<1> HIDE DEF n
<1> DEFINE t == Left(s)
<1>6. /\ t \in Seq(Row) /\ Len(t) = Len(w) - n
      /\ \A i \in 1..(Len(w) - n) : t[i] = w[(n + 1) + i - 1]
  <2>1. n + 1 \in Int /\ Len(w) \in Int /\ \A i \in (n + 1)..Len(w) : w[i] \in Row
    BY <1>1, <1>5, ElementOfSeq
  <2>2. n + 1 <= Len(w) + 1
    BY <1>1, <1>5
  <2>3. /\ SubSeq(w, n + 1, Len(w)) \in Seq(Row)
        /\ Len(SubSeq(w, n + 1, Len(w))) = IF n + 1 <= Len(w) THEN Len(w) - (n + 1) + 1 ELSE 0
        /\ \A i \in 1..(Len(w) - (n + 1) + 1) : SubSeq(w, n + 1, Len(w))[i] = w[(n + 1) + i - 1]
    BY <2>1, SubSeqProperties
  <2> QED BY <1>1, <1>4, <1>5, <2>2, <2>3
<1> HIDE DEF t
<1>7. t \in Seq(Row) /\ Len(t) = Len(w) - n /\ n \in Nat
      /\ \A i \in DOMAIN t : i \in 1..Len(t) /\ t[i] = w[i + n]
  <2>1. n \in Nat /\ Len(w) \in Nat /\ DOMAIN t = 1..Len(t)
    BY <1>1, <1>5, <1>6
  <2>2. ASSUME NEW i \in DOMAIN t PROVE t[i] = w[i + n]
    <3>1. i \in 1..(Len(w) - n) /\ (n + 1) + i - 1 = i + n
      BY <1>6, <2>1
    <3> QED BY <1>6, <3>1
  <2> QED BY <1>6, <2>1, <2>2
<1>8. WellFormed(w) => WellFormed(t)
  <2>1. t # <<>> => t[1].role # "tool"
    <3>1. ASSUME t # <<>> PROVE t[1].role # "tool"
      <4>1. 1 \in DOMAIN t /\ n < Len(w)
        BY <1>1, <1>7, <3>1
      <4> QED BY <1>5, <1>7, <4>1
    <3> QED BY <3>1
  <2> QED BY <1>1, <1>7, <2>1, SuffixWellFormed
<1>9. Len(t) = Len(s) - (n + d) /\ \A i \in DOMAIN t : t[i] = s[i + (n + d)]
  <2>1. Len(s) \in Nat /\ Len(w) \in Nat
    BY <1>1
  <2>2. ASSUME NEW i \in DOMAIN t PROVE t[i] = s[i + (n + d)]
    <3>1. i \in 1..(Len(w) - n) /\ n \in Nat /\ d \in Nat
      BY <1>2, <1>7, <2>1
    <3>2. i + n \in 1..Len(w) /\ (i + n) + d = i + (n + d)
      BY <2>1, <3>1
    <3>3. DOMAIN w = 1..Len(w)
      BY <1>1
    <3>4. w[i + n] = s[(i + n) + d]
      BY <1>2, <3>2, <3>3
    <3> QED BY <1>7, <3>2, <3>4
  <2> QED BY <1>2, <1>5, <1>7, <2>1, <2>2
<1>10. n + d \in Nat
  BY <1>5
<1> QED BY <1>3, <1>4, <1>7, <1>8, <1>9, <1>10 DEF t

-----------------------------------------------------------------------------
(* What the theorems say of a list of rows: the calls it makes, those whose *)
(* results follow them, and the rows of others in it, all of them, or those *)
(* after the first n rows.                                                  *)

Made(s) == UNION {s[i].calls : i \in DOMAIN s}
AnsweredIn(s) == UNION {Answered(s, i) : i \in DOMAIN s}

IsNote(s, i) == s[i].role = "note" /\ s[i].of # 0
Later(s, n) == {s[i].of : i \in {j \in DOMAIN s : j > n /\ s[j].role = "note"}} \ {0}
NotesOnce(s) == \A i, j \in DOMAIN s : IsNote(s, i) /\ IsNote(s, j) /\ s[i].of = s[j].of => i = j

\* Rows that make no call, answer none, and come from nobody else.
Plain(u) == u \in Seq(Row) /\ Made(u) = {} /\ Results(u) = {} /\ Injected(u) = {}

LEMMA Elements ==
    ASSUME NEW s \in Seq(Row)
    PROVE  /\ \A x : x \in Made(s) <=> \E i \in DOMAIN s : x \in s[i].calls
           /\ \A x : x \in Results(s) <=> \E i \in DOMAIN s : s[i].role = "tool" /\ s[i].of = x
           /\ \A x : x \in Injected(s) <=> \E i \in DOMAIN s : IsNote(s, i) /\ s[i].of = x
           /\ \A x : x \in AnsweredIn(s) <=> \E i \in DOMAIN s : x \in Answered(s, i)
           /\ \A x, n : x \in Later(s, n) <=> \E i \in DOMAIN s : i > n /\ IsNote(s, i) /\ s[i].of = x
<1>1. \A x : x \in Made(s) <=> \E i \in DOMAIN s : x \in s[i].calls
  BY DEF Made
<1>2. \A x : x \in Results(s) <=> \E i \in DOMAIN s : s[i].role = "tool" /\ s[i].of = x
  BY DEF Results
<1>3. \A x : x \in Injected(s) <=> \E i \in DOMAIN s : IsNote(s, i) /\ s[i].of = x
  BY DEF Injected, IsNote
<1>4. \A x : x \in AnsweredIn(s) <=> \E i \in DOMAIN s : x \in Answered(s, i)
  BY DEF AnsweredIn
<1>5. \A x, n : x \in Later(s, n) <=> \E i \in DOMAIN s : i > n /\ IsNote(s, i) /\ s[i].of = x
  BY DEF Later, IsNote
<1> QED BY <1>1, <1>2, <1>3, <1>4, <1>5

LEMMA Joined ==
    ASSUME NEW s \in Seq(Row), NEW t \in Seq(Row)
    PROVE  /\ s \o t \in Seq(Row)
           /\ Len(s \o t) = Len(s) + Len(t)
           /\ Len(s) \in Nat /\ Len(t) \in Nat
           /\ DOMAIN s = 1..Len(s) /\ DOMAIN t = 1..Len(t)
           /\ DOMAIN (s \o t) = 1..(Len(s) + Len(t))
           /\ \A i \in DOMAIN s : i \in DOMAIN (s \o t) /\ (s \o t)[i] = s[i]
           /\ \A j \in DOMAIN t : Len(s) + j \in DOMAIN (s \o t) /\ (s \o t)[Len(s) + j] = t[j]
           /\ \A i \in DOMAIN (s \o t) :
                 i \in DOMAIN s \/ (i - Len(s) \in DOMAIN t /\ i = Len(s) + (i - Len(s)))
<1>1. /\ s \o t \in Seq(Row) /\ Len(s \o t) = Len(s) + Len(t)
      /\ \A i \in 1 .. Len(s) + Len(t) : (s \o t)[i] = IF i <= Len(s) THEN s[i] ELSE t[i - Len(s)]
  BY ConcatProperties
<1>2. /\ Len(s) \in Nat /\ Len(t) \in Nat
      /\ DOMAIN s = 1..Len(s) /\ DOMAIN t = 1..Len(t)
      /\ DOMAIN (s \o t) = 1..(Len(s) + Len(t))
  BY <1>1, LenProperties
<1> DEFINE u == s \o t
<1> HIDE DEF u
<1>3. DOMAIN u = 1..(Len(s) + Len(t))
      /\ \A i \in 1 .. Len(s) + Len(t) : u[i] = IF i <= Len(s) THEN s[i] ELSE t[i - Len(s)]
  BY <1>1, <1>2 DEF u
<1>4. \A i \in DOMAIN s : i \in DOMAIN u /\ u[i] = s[i]
  BY <1>2, <1>3
<1>5. ASSUME NEW j \in DOMAIN t PROVE Len(s) + j \in DOMAIN u /\ u[Len(s) + j] = t[j]
  <2>1. j \in Nat /\ j >= 1 /\ j <= Len(t)
    BY <1>2
  <2>2. Len(s) + j \in 1..(Len(s) + Len(t)) /\ ~(Len(s) + j <= Len(s)) /\ (Len(s) + j) - Len(s) = j
    BY <1>2, <2>1
  <2> QED BY <1>3, <2>2
<1>6. \A i \in DOMAIN u : i \in DOMAIN s \/ (i - Len(s) \in DOMAIN t /\ i = Len(s) + (i - Len(s)))
  BY <1>2, <1>3
<1> QED BY <1>1, <1>2, <1>4, <1>5, <1>6 DEF u

LEMMA JoinedLists ==
    ASSUME NEW s \in Seq(Row), NEW t \in Seq(Row)
    PROVE  /\ Made(s \o t) = Made(s) \cup Made(t)
           /\ Results(s \o t) = Results(s) \cup Results(t)
           /\ Injected(s \o t) = Injected(s) \cup Injected(t)
           /\ AnsweredIn(s) \subseteq AnsweredIn(s \o t)
           /\ \A n \in Nat : Later(s \o t, n) \subseteq Later(s, n) \cup Injected(t)
           /\ NotesOnce(s) /\ NotesOnce(t) /\ Injected(s) \cap Injected(t) = {} => NotesOnce(s \o t)
<1> DEFINE u == s \o t
<1>1. /\ u \in Seq(Row) /\ Len(s) \in Nat /\ Len(t) \in Nat
      /\ DOMAIN s = 1..Len(s) /\ DOMAIN t = 1..Len(t)
      /\ DOMAIN u = 1..(Len(s) + Len(t))
      /\ \A i \in DOMAIN s : i \in DOMAIN u /\ u[i] = s[i]
      /\ \A j \in DOMAIN t : Len(s) + j \in DOMAIN u /\ u[Len(s) + j] = t[j]
      /\ \A i \in DOMAIN u : i \in DOMAIN s \/ (i - Len(s) \in DOMAIN t /\ i = Len(s) + (i - Len(s)))
  BY Joined
<1> HIDE DEF u
<1>2. \A i \in DOMAIN u : (i \in DOMAIN s /\ u[i] = s[i]) \/ \E j \in DOMAIN t : u[i] = t[j] /\ i = Len(s) + j
  BY <1>1
<1>3. ASSUME NEW x
      PROVE  /\ x \in Made(u) <=> x \in Made(s) \/ x \in Made(t)
             /\ x \in Results(u) <=> x \in Results(s) \/ x \in Results(t)
             /\ x \in Injected(u) <=> x \in Injected(s) \/ x \in Injected(t)
  <2>1. /\ x \in Made(u) <=> \E i \in DOMAIN u : x \in u[i].calls
        /\ x \in Results(u) <=> \E i \in DOMAIN u : u[i].role = "tool" /\ u[i].of = x
        /\ x \in Injected(u) <=> \E i \in DOMAIN u : u[i].role = "note" /\ u[i].of # 0 /\ u[i].of = x
    <3>1. u \in Seq(Row)
      BY <1>1
    <3> QED BY <3>1, Elements DEF IsNote
  <2>2. /\ x \in Made(s) <=> \E i \in DOMAIN s : x \in s[i].calls
        /\ x \in Results(s) <=> \E i \in DOMAIN s : s[i].role = "tool" /\ s[i].of = x
        /\ x \in Injected(s) <=> \E i \in DOMAIN s : s[i].role = "note" /\ s[i].of # 0 /\ s[i].of = x
    BY Elements DEF IsNote
  <2>3. /\ x \in Made(t) <=> \E i \in DOMAIN t : x \in t[i].calls
        /\ x \in Results(t) <=> \E i \in DOMAIN t : t[i].role = "tool" /\ t[i].of = x
        /\ x \in Injected(t) <=> \E i \in DOMAIN t : t[i].role = "note" /\ t[i].of # 0 /\ t[i].of = x
    BY Elements DEF IsNote
  <2>4. x \in Made(u) <=> x \in Made(s) \/ x \in Made(t)
    BY <1>1, <1>2, <2>1, <2>2, <2>3
  <2>5. x \in Results(u) <=> x \in Results(s) \/ x \in Results(t)
    <3>1. x \in Results(u) => x \in Results(s) \/ x \in Results(t)
      BY <1>2, <2>1, <2>2, <2>3
    <3>2. x \in Results(s) => x \in Results(u)
      BY <1>1, <2>1, <2>2
    <3>3. x \in Results(t) => x \in Results(u)
      BY <1>1, <2>1, <2>3
    <3> QED BY <3>1, <3>2, <3>3
  <2>6. x \in Injected(u) <=> x \in Injected(s) \/ x \in Injected(t)
    BY <1>1, <1>2, <2>1, <2>2, <2>3
  <2> QED BY <2>4, <2>5, <2>6
<1>5. ASSUME NEW x, x \in AnsweredIn(s) PROVE x \in AnsweredIn(u)
  <2>1. PICK i \in DOMAIN s : x \in Answered(s, i)
    BY <1>5, Elements
  <2>2. x \in s[i].calls /\ \E j \in DOMAIN s : InBlock(s, i, j) /\ s[j].of = x
    BY <2>1 DEF Answered
  <2>3. PICK j \in DOMAIN s : InBlock(s, i, j) /\ s[j].of = x
    BY <2>2
  <2>4. InBlock(u, i, j)
    <3>1. \A k \in (i + 1)..j : k \in DOMAIN s
      BY <1>1
    <3> QED BY <1>1, <2>3, <3>1 DEF InBlock
  <2>5. x \in Answered(u, i)
    BY <1>1, <2>2, <2>3, <2>4 DEF Answered
  <2> QED BY <1>1, <2>5, Elements
<1>6. ASSUME NEW n \in Nat, NEW x \in Later(u, n) PROVE x \in Later(s, n) \cup Injected(t)
  <2>1. PICK i \in DOMAIN u : i > n /\ IsNote(u, i) /\ u[i].of = x
    BY <1>1, <1>6, Elements
  <2>2. CASE i \in DOMAIN s /\ u[i] = s[i]
    <3>1. i > n /\ IsNote(s, i) /\ s[i].of = x
      BY <2>1, <2>2 DEF IsNote
    <3> QED BY <2>2, <3>1, Elements
  <2>3. CASE \E j \in DOMAIN t : u[i] = t[j]
    <3>1. PICK j \in DOMAIN t : IsNote(t, j) /\ t[j].of = x
      BY <2>1, <2>3 DEF IsNote
    <3> QED BY <3>1, Elements
  <2> QED BY <1>2, <2>2, <2>3
<1>7. ASSUME NotesOnce(s), NotesOnce(t), Injected(s) \cap Injected(t) = {},
             NEW i \in DOMAIN u, NEW j \in DOMAIN u, IsNote(u, i), IsNote(u, j), u[i].of = u[j].of
      PROVE  i = j
  <2>1. CASE i \in DOMAIN s /\ j \in DOMAIN s
    BY <1>1, <1>7, <2>1 DEF NotesOnce, IsNote
  <2>2. CASE i \notin DOMAIN s /\ j \notin DOMAIN s
    <3>1. PICK p \in DOMAIN t : u[i] = t[p] /\ i = Len(s) + p
      BY <1>2, <2>2
    <3>2. PICK q \in DOMAIN t : u[j] = t[q] /\ j = Len(s) + q
      BY <1>2, <2>2
    <3> QED BY <1>7, <3>1, <3>2 DEF NotesOnce, IsNote
  <2>3. CASE i \in DOMAIN s /\ j \notin DOMAIN s
    <3>1. PICK q \in DOMAIN t : u[j] = t[q]
      BY <1>2, <2>3
    <3>2. u[i].of \in Injected(s) /\ u[j].of \in Injected(t)
      BY <1>1, <1>7, <2>3, <3>1, Elements DEF IsNote
    <3> QED BY <1>7, <3>2
  <2>4. CASE i \notin DOMAIN s /\ j \in DOMAIN s
    <3>1. PICK q \in DOMAIN t : u[i] = t[q]
      BY <1>2, <2>4
    <3>2. u[j].of \in Injected(s) /\ u[i].of \in Injected(t)
      BY <1>1, <1>7, <2>4, <3>1, Elements DEF IsNote
    <3> QED BY <1>7, <3>2
  <2> QED BY <2>1, <2>2, <2>3, <2>4
<1>8. NotesOnce(s) /\ NotesOnce(t) /\ Injected(s) \cap Injected(t) = {} => NotesOnce(u)
  BY <1>7 DEF NotesOnce
<1> QED BY <1>3, <1>5, <1>6, <1>8 DEF u

LEMMA PlainLists ==
    ASSUME NEW s \in Seq(Row), NEW u, Plain(u)
    PROVE  /\ s \o u \in Seq(Row)
           /\ Made(s \o u) = Made(s) /\ Results(s \o u) = Results(s)
           /\ Injected(s \o u) = Injected(s)
           /\ \A n \in Nat : Later(s \o u, n) \subseteq Later(s, n)
           /\ NotesOnce(s) => NotesOnce(s \o u)
<1>1. u \in Seq(Row) /\ Made(u) = {} /\ Results(u) = {} /\ Injected(u) = {}
  BY DEF Plain
<1>2. NotesOnce(u)
  BY <1>1, Elements DEF NotesOnce
<1>3. s \o u \in Seq(Row)
  BY <1>1, Joined
<1>4. /\ Made(s \o u) = Made(s) \cup Made(u)
      /\ Results(s \o u) = Results(s) \cup Results(u)
      /\ Injected(s \o u) = Injected(s) \cup Injected(u)
      /\ \A n \in Nat : Later(s \o u, n) \subseteq Later(s, n) \cup Injected(u)
      /\ NotesOnce(s) /\ NotesOnce(u) /\ Injected(s) \cap Injected(u) = {} => NotesOnce(s \o u)
  BY <1>1, JoinedLists
<1> QED BY <1>1, <1>2, <1>3, <1>4

\* A repair keeps the rows of others, in their order, and every call that its block
\* answers, and makes no call that it does not answer.
LEMMA SanitizedLists ==
    ASSUME NEW s \in Seq(Row)
    PROVE  /\ Made(sanitize(s)) \subseteq Made(s)
           /\ Made(sanitize(s)) \subseteq Results(sanitize(s))
           /\ Injected(sanitize(s)) = Injected(s)
           /\ AnsweredIn(s) \subseteq AnsweredIn(sanitize(s))
           /\ \A n \in Nat : Later(sanitize(s), n) \subseteq Later(s, n)
           /\ NotesOnce(s) => NotesOnce(sanitize(s))
<1> DEFINE t == sanitize(s)
<1>1. t \in Seq(Row) /\ WellFormed(t)
  BY Sanitized, SanitizedWellFormed
<1>2. PICK f : Origin(f, s, t)
  BY Sanitized
<1> HIDE DEF t
<1>3. /\ f \in [DOMAIN t -> DOMAIN s]
      /\ \A m, n \in DOMAIN t : m < n => f[m] < f[n]
      /\ \A n \in DOMAIN t : Stays(s, f[n]) /\ t[n] = Kept(s, f[n]) /\ n <= f[n]
      /\ \A i \in DOMAIN s : Stays(s, i) => \E n \in DOMAIN t : f[n] = i
  BY <1>2 DEF Origin
<1>4. \A n \in DOMAIN t :
         /\ t[n] \in Row /\ f[n] \in DOMAIN s
         /\ t[n].role = s[f[n]].role /\ t[n].of = s[f[n]].of
         /\ t[n].calls \subseteq s[f[n]].calls
         /\ s[f[n]].role = "assistant" => t[n].calls = Answered(s, f[n])
  BY <1>3, KeptRow
<1>5. DOMAIN s \subseteq Nat /\ DOMAIN t \subseteq Nat
  BY <1>1
<1>6. /\ \A x : x \in Made(t) <=> \E n \in DOMAIN t : x \in t[n].calls
      /\ \A x : x \in Results(t) <=> \E n \in DOMAIN t : t[n].role = "tool" /\ t[n].of = x
      /\ \A x : x \in Injected(t) <=> \E n \in DOMAIN t : IsNote(t, n) /\ t[n].of = x
      /\ \A x : x \in AnsweredIn(t) <=> \E n \in DOMAIN t : x \in Answered(t, n)
      /\ \A x, k : x \in Later(t, k) <=> \E n \in DOMAIN t : n > k /\ IsNote(t, n) /\ t[n].of = x
  BY <1>1, Elements
<1>7. ASSUME NEW x \in Made(t) PROVE x \in Made(s) /\ x \in Results(t)
  <2>1. PICK n \in DOMAIN t : x \in t[n].calls
    BY <1>6
  <2>2. x \in Made(s)
    BY <1>4, <2>1, Elements
  <2>3. t[n].role = "assistant"
    BY <1>4, <2>1 DEF Row
  <2>4. \E j \in DOMAIN t : t[j].role = "tool" /\ t[j].of = x
    BY <1>1, <2>1, <2>3 DEF WellFormed
  <2> QED BY <1>6, <2>2, <2>4
<1>8. ASSUME NEW n \in DOMAIN t, IsNote(t, n)
      PROVE  f[n] \in DOMAIN s /\ IsNote(s, f[n]) /\ s[f[n]].of = t[n].of
  BY <1>4, <1>8 DEF IsNote
<1>9. ASSUME NEW i \in DOMAIN s, IsNote(s, i)
      PROVE  \E n \in DOMAIN t : IsNote(t, n) /\ t[n].of = s[i].of
  <2>1. Stays(s, i)
    BY <1>9 DEF Stays, IsNote
  <2>2. PICK n \in DOMAIN t : f[n] = i
    BY <1>3, <2>1
  <2> QED BY <1>4, <1>9, <2>2 DEF IsNote
<1>10. Injected(t) = Injected(s)
  <2>1. \A x : x \in Injected(t) => x \in Injected(s)
    BY <1>6, <1>8, Elements
  <2>2. \A x : x \in Injected(s) => x \in Injected(t)
    BY <1>6, <1>9, Elements
  <2> QED BY <2>1, <2>2
<1>11. ASSUME NEW k \in Nat, NEW x \in Later(t, k) PROVE x \in Later(s, k)
  <2>1. PICK n \in DOMAIN t : n > k /\ IsNote(t, n) /\ t[n].of = x
    BY <1>6, <1>11
  <2>2. f[n] > k
    BY <1>3, <1>5, <2>1
  <2> QED BY <1>8, <2>1, <2>2, Elements
<1>12. ASSUME NotesOnce(s), NEW m \in DOMAIN t, NEW n \in DOMAIN t,
              IsNote(t, m), IsNote(t, n), t[m].of = t[n].of
       PROVE  m = n
  <2>1. f[m] = f[n]
    BY <1>8, <1>12 DEF NotesOnce
  <2>2. m \in Nat /\ n \in Nat /\ f[m] \in Nat
    BY <1>3, <1>5
  <2>3. ~(m < n) /\ ~(n < m)
    BY <1>3, <2>1, <2>2
  <2> QED BY <2>2, <2>3
<1>13. ASSUME NEW x \in AnsweredIn(s) PROVE x \in AnsweredIn(t)
  <2>1. PICK i \in DOMAIN s : x \in Answered(s, i)
    BY <1>13, Elements
  <2>2. x \in s[i].calls /\ \E j \in DOMAIN s : InBlock(s, i, j) /\ s[j].of = x
    BY <2>1 DEF Answered
  <2>3. PICK j \in DOMAIN s : InBlock(s, i, j) /\ s[j].of = x
    BY <2>2
  <2>4. s[i].role = "assistant"
    <3>1. s[i] \in Row
      BY KeptRow
    <3> QED BY <2>2, <3>1 DEF Row
  <2>5. s[j].role = "tool"
    <3>1. j \in (i + 1)..j
      BY <1>5, <2>3 DEF InBlock
    <3> QED BY <2>3, <3>1 DEF InBlock
  <2>6. Stays(s, i)
    BY <2>1, <2>4 DEF Stays
  <2>7. Stays(s, j)
    BY <2>2, <2>3, <2>4, <2>5 DEF Stays, Owned
  <2>8. PICK m \in DOMAIN t : f[m] = i
    BY <1>3, <2>6
  <2>9. PICK n \in DOMAIN t : f[n] = j
    BY <1>3, <2>7
  <2>10. InBlock(t, m, n)
    BY <1>1, <1>2, <2>3, <2>8, <2>9, BlocksStay
  <2>11. x \in t[m].calls /\ t[n].of = x
    BY <1>4, <2>1, <2>3, <2>4, <2>8, <2>9
  <2>12. x \in Answered(t, m)
    BY <2>10, <2>11 DEF Answered
  <2> QED BY <1>6, <2>12
<1> QED BY <1>7, <1>10, <1>11, <1>12, <1>13 DEF NotesOnce, t

\* What a list of rows with every call answered keeps.
LEMMA WellFormedLists ==
    ASSUME NEW s \in Seq(Row)
    PROVE  /\ WellFormed(s) => Made(s) \subseteq Results(s)
           /\ AnsweredIn(s) \subseteq Results(s)
           /\ AnsweredIn(s) \subseteq Made(s)
<1>1. ASSUME WellFormed(s), NEW x \in Made(s) PROVE x \in Results(s)
  <2>1. PICK n \in DOMAIN s : x \in s[n].calls
    BY Elements
  <2>2. s[n] \in Row
    BY KeptRow
  <2>3. s[n].role = "assistant"
    BY <2>1, <2>2 DEF Row
  <2>4. \E j \in DOMAIN s : s[j].role = "tool" /\ s[j].of = x
    BY <1>1, <2>1, <2>3 DEF WellFormed
  <2> QED BY <2>4, Elements
<1>2. ASSUME NEW x \in AnsweredIn(s) PROVE x \in Results(s) /\ x \in Made(s)
  <2>1. PICK i \in DOMAIN s : x \in Answered(s, i)
    BY Elements
  <2>2. x \in s[i].calls /\ \E j \in DOMAIN s : InBlock(s, i, j) /\ s[j].of = x
    BY <2>1 DEF Answered
  <2>3. PICK j \in DOMAIN s : InBlock(s, i, j) /\ s[j].of = x
    BY <2>2
  <2>4. s[j].role = "tool"
    <3>1. DOMAIN s \subseteq Nat
      OBVIOUS
    <3>2. j \in (i + 1)..j
      BY <2>3, <3>1 DEF InBlock
    <3> QED BY <2>3, <3>2 DEF InBlock
  <2> QED BY <2>2, <2>3, <2>4, Elements
<1> QED BY <1>1, <1>2

\* The rows from one on.
LEMMA SuffixLists ==
    ASSUME NEW s \in Seq(Row), NEW t \in Seq(Row), NEW k \in Nat,
           Len(t) = Len(s) - k, \A i \in DOMAIN t : t[i] = s[i + k]
    PROVE  /\ Made(t) \subseteq Made(s)
           /\ Injected(t) = Later(s, k)
           /\ Injected(t) \subseteq Injected(s)
           /\ NotesOnce(s) => NotesOnce(t)
<1>1. /\ Len(s) \in Nat /\ Len(t) \in Nat /\ DOMAIN s = 1..Len(s) /\ DOMAIN t = 1..Len(t)
  OBVIOUS
<1>2. \A i \in DOMAIN t : i \in Nat /\ i + k \in DOMAIN s /\ i + k > k /\ t[i] = s[i + k]
  BY <1>1
<1>3. \A j \in DOMAIN s : j > k => j - k \in DOMAIN t /\ t[j - k] = s[j]
  BY <1>1
<1>4. \A x : x \in Made(t) => x \in Made(s)
  BY <1>2, Elements
<1>5. \A x : x \in Injected(t) => x \in Later(s, k)
  <2>1. ASSUME NEW x \in Injected(t) PROVE x \in Later(s, k)
    <3>1. PICK i \in DOMAIN t : IsNote(t, i) /\ t[i].of = x
      BY Elements
    <3>2. i + k \in DOMAIN s /\ i + k > k /\ IsNote(s, i + k) /\ s[i + k].of = x
      BY <1>2, <3>1 DEF IsNote
    <3> QED BY <3>2, Elements
  <2> QED BY <2>1
<1>6. \A x : x \in Later(s, k) => x \in Injected(t) /\ x \in Injected(s)
  <2>1. ASSUME NEW x \in Later(s, k) PROVE x \in Injected(t) /\ x \in Injected(s)
    <3>1. PICK j \in DOMAIN s : j > k /\ IsNote(s, j) /\ s[j].of = x
      BY Elements
    <3>2. j - k \in DOMAIN t /\ IsNote(t, j - k) /\ t[j - k].of = x
      BY <1>3, <3>1 DEF IsNote
    <3> QED BY <3>1, <3>2, Elements
  <2> QED BY <2>1
<1>7. ASSUME NotesOnce(s), NEW i \in DOMAIN t, NEW j \in DOMAIN t,
             IsNote(t, i), IsNote(t, j), t[i].of = t[j].of
      PROVE  i = j
  <2>1. IsNote(s, i + k) /\ IsNote(s, j + k) /\ s[i + k].of = s[j + k].of
    BY <1>2, <1>7 DEF IsNote
  <2>2. i + k = j + k
    BY <1>2, <1>7, <2>1 DEF NotesOnce
  <2> QED BY <1>1, <2>2
<1> QED BY <1>4, <1>5, <1>6, <1>7 DEF NotesOnce

\* Nothing is after the last row.
LEMMA LaterNone ==
    ASSUME NEW s \in Seq(Row), NEW n \in Nat, n >= Len(s)
    PROVE  Later(s, n) = {}
<1>1. \A i \in DOMAIN s : ~(i > n)
  OBVIOUS
<1> QED BY <1>1, Elements

\* The rows of the session that are not taken over yet.
LEMMA BeyondLists ==
    ASSUME NEW s \in Seq(Row), NEW n \in Nat
    PROVE  /\ SubSeq(s, n + 1, Len(s)) \in Seq(Row)
           /\ Injected(SubSeq(s, n + 1, Len(s))) = Later(s, n)
           /\ Later(s, n) \subseteq Injected(s)
           /\ NotesOnce(s) => NotesOnce(SubSeq(s, n + 1, Len(s)))
<1> DEFINE t == SubSeq(s, n + 1, Len(s))
<1>1. Later(s, n) \subseteq Injected(s)
  BY Elements
<1>2. CASE n >= Len(s)
  <2>1. t = <<>>
    BY <1>2, SubSeqEmpty
  <2>2. <<>> \in Seq(Row) /\ DOMAIN <<>> = {}
    OBVIOUS
  <2>3. Injected(<<>>) = {} /\ NotesOnce(<<>>)
    BY <2>2, Elements DEF NotesOnce
  <2> QED BY <1>1, <1>2, <2>1, <2>2, <2>3, LaterNone
<1>3. CASE n < Len(s)
  <2>1. n + 1 \in Int /\ Len(s) \in Int /\ \A i \in (n + 1)..Len(s) : s[i] \in Row
    BY ElementOfSeq
  <2>2. /\ t \in Seq(Row)
        /\ Len(t) = IF n + 1 <= Len(s) THEN Len(s) - (n + 1) + 1 ELSE 0
        /\ \A i \in 1..(Len(s) - (n + 1) + 1) : t[i] = s[(n + 1) + i - 1]
    BY <2>1, SubSeqProperties
  <2> HIDE DEF t
  <2>3. Len(t) = Len(s) - n /\ Len(s) \in Nat /\ DOMAIN t = 1..Len(t)
    BY <1>3, <2>1, <2>2
  <2>4. ASSUME NEW i \in DOMAIN t PROVE t[i] = s[i + n]
    <3>1. i \in 1..(Len(s) - (n + 1) + 1) /\ (n + 1) + i - 1 = i + n
      BY <2>3
    <3> QED BY <2>2, <3>1
  <2>6. Injected(t) = Later(s, n)
    BY <2>2, <2>3, <2>4, SuffixLists
  <2>7. NotesOnce(s) => NotesOnce(t)
    BY <2>2, <2>3, <2>4, SuffixLists
  <2> QED BY <1>1, <2>2, <2>6, <2>7 DEF t
<1>4. n >= Len(s) \/ n < Len(s)
  <2>1. Len(s) \in Nat
    OBVIOUS
  <2> QED BY <2>1
<1> QED BY <1>2, <1>3, <1>4

-----------------------------------------------------------------------------
(* The rows that the code appends.                                          *)

LEMMA Rows ==
    /\ Hint \in Row /\ Hint.role = "note" /\ Hint.of = 0 /\ Hint.calls = {}
    /\ Summary \in Row /\ Summary.role = "summary" /\ Summary.calls = {}
    /\ \A n \in Nat : Note(n) \in Row /\ Note(n).role = "note" /\ Note(n).of = n /\ Note(n).calls = {}
    /\ \A c \in Nat : Result(c) \in Row /\ Result(c).role = "tool" /\ Result(c).of = c /\ Result(c).calls = {}
    /\ Assistant({}, TRUE) \in Row /\ Assistant({}, TRUE).role = "assistant" /\ Assistant({}, TRUE).calls = {}
    /\ Assistant({}, FALSE) \in Row /\ Assistant({}, FALSE).role = "assistant" /\ Assistant({}, FALSE).calls = {}
<1>1. Hint \in Row /\ Hint.role = "note" /\ Hint.of = 0 /\ Hint.calls = {}
  BY DEF Hint, Note, Row
<1>2. Summary \in Row /\ Summary.role = "summary" /\ Summary.calls = {}
  BY DEF Summary, Row
<1>3. \A n \in Nat : Note(n) \in Row /\ Note(n).role = "note" /\ Note(n).of = n /\ Note(n).calls = {}
  BY DEF Note, Row
<1>4. \A c \in Nat : Result(c) \in Row /\ Result(c).role = "tool" /\ Result(c).of = c /\ Result(c).calls = {}
  BY DEF Result, Row
<1>5. Assistant({}, TRUE) \in Row /\ Assistant({}, TRUE).role = "assistant" /\ Assistant({}, TRUE).calls = {}
  BY DEF Assistant, Row
<1>6. Assistant({}, FALSE) \in Row /\ Assistant({}, FALSE).role = "assistant" /\ Assistant({}, FALSE).calls = {}
  BY DEF Assistant, Row
<1> QED BY <1>1, <1>2, <1>3, <1>4, <1>5, <1>6

\* The row that makes the calls of a batch.
LEMMA CallRow ==
    ASSUME NEW cs \in SUBSET Nat, NEW text \in BOOLEAN
    PROVE  /\ Assistant(cs, text) \in Row
           /\ Assistant(cs, text).role = "assistant" /\ Assistant(cs, text).calls = cs
BY DEF Assistant, Row

LEMMA OneRow ==
    ASSUME NEW r \in Row
    PROVE  /\ <<r>> \in Seq(Row)
           /\ Made(<<r>>) = r.calls
           /\ Results(<<r>>) = IF r.role = "tool" THEN {r.of} ELSE {}
           /\ Injected(<<r>>) = IF r.role = "note" THEN {r.of} \ {0} ELSE {}
           /\ NotesOnce(<<r>>)
<1>1. <<r>> \in Seq(Row) /\ DOMAIN <<r>> = {1} /\ <<r>>[1] = r
  OBVIOUS
<1> DEFINE t == <<r>>
<1> HIDE DEF t
<1>2. t \in Seq(Row) /\ DOMAIN t = {1} /\ t[1] = r
  BY <1>1 DEF t
<1>3. Made(t) = r.calls
  BY <1>2 DEF Made
<1>4. Results(t) = IF r.role = "tool" THEN {r.of} ELSE {}
  BY <1>2 DEF Results
<1>5. Injected(t) = IF r.role = "note" THEN {r.of} \ {0} ELSE {}
  BY <1>2 DEF Injected
<1>6. NotesOnce(t)
  BY <1>2 DEF NotesOnce
<1> QED BY <1>2, <1>3, <1>4, <1>5, <1>6 DEF t

\* Every list of rows of the loop's own is plain.
LEMMA PlainRows ==
    ASSUME NEW u \in Seq(Row),
           \A i \in DOMAIN u : u[i].calls = {} /\ u[i].role # "tool" /\ ~IsNote(u, i)
    PROVE  Plain(u)
<1>1. \A x : x \notin Made(u) /\ x \notin Results(u) /\ x \notin Injected(u)
  BY Elements
<1> QED BY <1>1 DEF Plain

LEMMA PlainOnes ==
    /\ Plain(<<>>) /\ Plain(<<Hint>>) /\ Plain(<<Summary>>) /\ Plain(<<Assistant({}, TRUE)>>)
    /\ Plain(<<Assistant({}, TRUE), Hint>>) /\ Plain(<<Assistant({}, FALSE), Hint>>)
    /\ Plain(<<Assistant({}, TRUE), Assistant({}, FALSE), Hint>>)
<1> DEFINE a == Assistant({}, TRUE)
           b == Assistant({}, FALSE)
<1>1. /\ Hint \in Row /\ Hint.role = "note" /\ Hint.of = 0 /\ Hint.calls = {}
      /\ Summary \in Row /\ Summary.role = "summary" /\ Summary.calls = {}
      /\ a \in Row /\ a.role = "assistant" /\ a.calls = {}
      /\ b \in Row /\ b.role = "assistant" /\ b.calls = {}
  BY Rows
<1> HIDE DEF a, b
<1>2. Plain(<<>>)
  <2>1. <<>> \in Seq(Row) /\ DOMAIN <<>> = {}
    OBVIOUS
  <2> QED BY <2>1, PlainRows
<1>3. Plain(<<Hint>>)
  BY <1>1, OneRow DEF Plain
<1>4. Plain(<<Summary>>)
  BY <1>1, OneRow DEF Plain
<1>5. Plain(<<a>>)
  BY <1>1, OneRow DEF Plain
<1>6. Plain(<<a, Hint>>)
  <2> DEFINE u == <<a, Hint>>
  <2>1. u \in Seq(Row) /\ DOMAIN u = {1, 2} /\ u[1] = a /\ u[2] = Hint
    BY <1>1
  <2> HIDE DEF u
  <2>2. \A i \in DOMAIN u : u[i].calls = {} /\ u[i].role # "tool" /\ ~IsNote(u, i)
    BY <1>1, <2>1 DEF IsNote
  <2> QED BY <2>1, <2>2, PlainRows DEF u
<1>7. Plain(<<b, Hint>>)
  <2> DEFINE u == <<b, Hint>>
  <2>1. u \in Seq(Row) /\ DOMAIN u = {1, 2} /\ u[1] = b /\ u[2] = Hint
    BY <1>1
  <2> HIDE DEF u
  <2>2. \A i \in DOMAIN u : u[i].calls = {} /\ u[i].role # "tool" /\ ~IsNote(u, i)
    BY <1>1, <2>1 DEF IsNote
  <2> QED BY <2>1, <2>2, PlainRows DEF u
<1>8. Plain(<<a, b, Hint>>)
  <2> DEFINE u == <<a, b, Hint>>
  <2>1. u \in Seq(Row) /\ DOMAIN u = {1, 2, 3} /\ u[1] = a /\ u[2] = b /\ u[3] = Hint
    BY <1>1
  <2> HIDE DEF u
  <2>2. \A i \in DOMAIN u : u[i].calls = {} /\ u[i].role # "tool" /\ ~IsNote(u, i)
    BY <1>1, <2>1 DEF IsNote
  <2> QED BY <2>1, <2>2, PlainRows DEF u
<1> QED BY <1>2, <1>3, <1>4, <1>5, <1>6, <1>7, <1>8 DEF a, b

\* What a compaction puts in place of the rows it works on.
LEMMA CompactedLists ==
    ASSUME NEW s \in Seq(Row), CanCompact(s, Retain), NEW r, r = sanitize(compacted(s, Retain))
    PROVE  /\ compacted(s, Retain) \in Seq(Row)
           /\ Made(compacted(s, Retain)) \subseteq Made(s)
           /\ WellFormed(s) => Made(compacted(s, Retain)) \subseteq Results(compacted(s, Retain))
           /\ Injected(compacted(s, Retain)) \subseteq Injected(s)
           /\ NotesOnce(s) => NotesOnce(compacted(s, Retain))
           /\ r \in Seq(Row)
           /\ Made(r) \subseteq Made(s) /\ Made(r) \subseteq Results(r)
           /\ Injected(r) \subseteq Injected(s)
           /\ NotesOnce(s) => NotesOnce(r)
<1> DEFINE t == Left(s)
           u == <<Summary>> \o t
<1>1. t \in Seq(Row) /\ compacted(s, Retain) = u
  BY Compaction
<1>2. PICK k \in Nat : Len(t) = Len(s) - k /\ \A i \in DOMAIN t : t[i] = s[i + k]
  BY Compaction
<1>8. WellFormed(s) => Made(t) \subseteq Results(t)
  BY <1>1, Compaction, WellFormedLists
<1> HIDE DEF t
<1>3. Made(t) \subseteq Made(s) /\ Injected(t) \subseteq Injected(s) /\ (NotesOnce(s) => NotesOnce(t))
  BY <1>1, <1>2, SuffixLists
<1>4. <<Summary>> \in Seq(Row) /\ Made(<<Summary>>) = {} /\ Injected(<<Summary>>) = {}
      /\ NotesOnce(<<Summary>>)
  BY PlainOnes, Rows, OneRow DEF Plain
<1>5. u \in Seq(Row)
  BY <1>1, <1>4, Joined
<1>6. /\ Made(u) = Made(t) /\ Injected(u) = Injected(t) /\ (NotesOnce(t) => NotesOnce(u))
      /\ Results(t) \subseteq Results(u)
  <2>1. /\ Made(u) = Made(<<Summary>>) \cup Made(t)
        /\ Injected(u) = Injected(<<Summary>>) \cup Injected(t)
        /\ Results(u) = Results(<<Summary>>) \cup Results(t)
        /\ NotesOnce(<<Summary>>) /\ NotesOnce(t) /\ Injected(<<Summary>>) \cap Injected(t) = {}
              => NotesOnce(u)
    <3>1. t \in Seq(Row) /\ <<Summary>> \in Seq(Row)
      BY <1>1, <1>4
    <3> QED BY <3>1, JoinedLists
  <2> QED BY <1>4, <2>1
<1> HIDE DEF u
<1>7. r = sanitize(u)
  BY <1>1
<1>9. /\ r \in Seq(Row)
      /\ Made(r) \subseteq Made(s) /\ Made(r) \subseteq Results(r)
      /\ Injected(r) \subseteq Injected(s)
      /\ NotesOnce(s) => NotesOnce(r)
  BY <1>3, <1>5, <1>6, <1>7, Sanitized, SanitizedLists
<1>10. /\ u \in Seq(Row) /\ Made(u) \subseteq Made(s) /\ (WellFormed(s) => Made(u) \subseteq Results(u))
       /\ Injected(u) \subseteq Injected(s) /\ (NotesOnce(s) => NotesOnce(u))
  BY <1>3, <1>5, <1>6, <1>8
<1> QED BY <1>1, <1>9, <1>10

-----------------------------------------------------------------------------
(* The shape of the state.                                                  *)

\* A batch is under way, and begun calls are left.
InBatch == pc \in {"call", "tool"}
BatchBounds == Len(calls) <= MaxBatch /\ (InBatch => calls # <<>>)

\* A compaction that waits works on repaired rows that it can split.
Snapshots ==
    pc \in {"phase", "starting", "compacting"} =>
       WellFormed(snapshot) /\ CanCompact(snapshot, Retain)

ModelGiven == pc = "model" => WellFormed(messages)

Shape == TurnTypeOK /\ BatchBounds /\ Snapshots /\ ModelGiven

LEMMA ReplacementLists ==
    ASSUME Shape, pc \in {"phase", "starting", "compacting"}
    PROVE  /\ compacted(snapshot, Retain) \in Seq(Row)
           /\ Made(compacted(snapshot, Retain)) \subseteq Made(snapshot)
           /\ Made(compacted(snapshot, Retain)) \subseteq Results(compacted(snapshot, Retain))
           /\ Injected(compacted(snapshot, Retain)) \subseteq Injected(snapshot)
           /\ NotesOnce(snapshot) => NotesOnce(compacted(snapshot, Retain))
           /\ Replacement \in Seq(Row)
           /\ Made(Replacement) \subseteq Made(snapshot)
           /\ Made(Replacement) \subseteq Results(Replacement)
           /\ Injected(Replacement) \subseteq Injected(snapshot)
           /\ NotesOnce(snapshot) => NotesOnce(Replacement)
<1>1. snapshot \in Seq(Row) /\ CanCompact(snapshot, Retain) /\ WellFormed(snapshot)
  BY DEF Shape, TurnTypeOK, Snapshots
<1> QED BY <1>1, CompactedLists DEF Replacement

\* The results of the calls that are left.
LEMMA RestRows ==
    ASSUME NEW cs \in Seq(Nat)
    PROVE  /\ [k \in DOMAIN cs |-> Result(cs[k])] \in Seq(Row)
           /\ Made([k \in DOMAIN cs |-> Result(cs[k])]) = {}
           /\ Results([k \in DOMAIN cs |-> Result(cs[k])]) = Range(cs)
           /\ Injected([k \in DOMAIN cs |-> Result(cs[k])]) = {}
<1> DEFINE t == [k \in DOMAIN cs |-> Result(cs[k])]
<1>1. Len(cs) \in Nat /\ DOMAIN cs = 1..Len(cs) /\ \A k \in DOMAIN cs : cs[k] \in Nat
  OBVIOUS
<1>2. \A k \in DOMAIN cs : Result(cs[k]) \in Row
  BY <1>1, Rows
<1>3. t \in [1..Len(cs) -> Row]
  BY <1>1, <1>2
<1>4. t \in Seq(Row) /\ DOMAIN t = DOMAIN cs
  BY <1>1, <1>3
<1>5. \A k \in DOMAIN t : t[k] = Result(cs[k]) /\ cs[k] \in Nat
  BY <1>1, <1>4
<1> HIDE DEF t
<1>6. \A k \in DOMAIN t : t[k].role = "tool" /\ t[k].of = cs[k] /\ t[k].calls = {}
  BY <1>5, Rows
<1>7. Made(t) = {}
  BY <1>6 DEF Made
<1>8. Results(t) = Range(cs)
  BY <1>4, <1>6 DEF Results, Range
<1>9. Injected(t) = {}
  BY <1>6 DEF Injected
<1> QED BY <1>4, <1>7, <1>8, <1>9 DEF t

LEMMA BeginRows ==
    ASSUME NEW a \in Seq(Row), NEW h \in Seq(Row), NEW persist, Begin(a, h, persist)
    PROVE  /\ agent_messages' \in Seq(Row) /\ messages' \in Seq(Row)
           /\ pc' = "begun"
           /\ (agent_messages' = a \/ agent_messages' = a \o <<Hint>>) /\ messages' = h \o <<Hint>>
<1>1. Hint \in Row
  BY Rows
<1>2. Append(a, Hint) = a \o <<Hint>> /\ Append(h, Hint) = h \o <<Hint>>
      /\ Append(a, Hint) \in Seq(Row) /\ Append(h, Hint) \in Seq(Row)
  BY <1>1, AppendIsConcat, AppendProperties
<1>3. agent_messages' = a \/ agent_messages' = Append(a, Hint)
  BY DEF Begin
<1>4. messages' = Append(h, Hint) /\ pc' = "begun"
  BY DEF Begin
<1>5. agent_messages' \in Seq(Row)
  BY <1>2, <1>3
<1> QED BY <1>2, <1>3, <1>4, <1>5

\* The rows of others that a compaction takes away are numbered.
LEMMA InjectedNumbers == ASSUME NEW s \in Seq(Row) PROVE Injected(s) \subseteq Nat
<1>1. \A i \in DOMAIN s : s[i] \in Row
  BY KeptRow
<1> QED BY <1>1 DEF Injected, Row

LEMMA ShapeInit == TurnInit => Shape
<1> SUFFICES ASSUME TurnInit PROVE Shape
  OBVIOUS
<1>0. <<>> \in Seq(Row) /\ <<>> \in Seq(Nat)
  OBVIOUS
<1>1. TurnTypeOK
  <2>1. 0 \in 0..MaxTurns /\ 0 \in 0..MaxRounds /\ 0 \in 0..MaxTimeouts /\ 0 \in 0..MaxInjected
    BY BoundsAssumption
  <2> QED BY <1>0, <2>1 DEF TurnInit, TurnTypeOK, Stages
<1>2. BatchBounds /\ Snapshots /\ ModelGiven
  BY BoundsAssumption DEF TurnInit, BatchBounds, InBatch, Snapshots, ModelGiven
<1> QED BY <1>1, <1>2 DEF Shape

\* What every way out of a turn leaves.
LEMMA ShapeEnd ==
    ASSUME Shape, End, agent_messages' \in Seq(Row),
           UNCHANGED <<turn, callCount, snapshot, injected, lost>>, timeouts' \in 0..MaxTimeouts
    PROVE  Shape'
<1>0. <<>> \in Seq(Row) /\ <<>> \in Seq(Nat) /\ 0 \in 0..MaxRounds
  BY BoundsAssumption
<1>1. TurnTypeOK'
  BY <1>0 DEF Shape, TurnTypeOK, End, Stages
<1>2. pc' = "idle" /\ calls' = <<>> /\ Len(<<>>) <= MaxBatch
  BY BoundsAssumption DEF End
<1>3. BatchBounds' /\ Snapshots' /\ ModelGiven'
  BY <1>2 DEF BatchBounds, InBatch, Snapshots, ModelGiven
<1> QED BY <1>1, <1>3 DEF Shape

Starting == StartTurn \/ PhaseCompacted \/ StartCompacted \/ Begun \/ RoundStarts \/ Inject

LEMMA ShapeStart == Shape /\ Starting => Shape'
<1> SUFFICES ASSUME Shape, Starting PROVE Shape'
  OBVIOUS
<1> USE BoundsAssumption
<1> DEFINE h == sanitize(agent_messages)
<1>1. agent_messages \in Seq(Row) /\ messages \in Seq(Row) /\ snapshot \in Seq(Row) /\ synced \in Nat
  BY DEF Shape, TurnTypeOK
<1>2. h \in Seq(Row) /\ WellFormed(h)
  BY <1>1, Sanitized, SanitizedWellFormed
<1>3. CASE StartTurn
  <2>1. CASE \E persist \in Persists : Begin(agent_messages, h, persist) /\ UNCHANGED snapshot
    <3>1. /\ agent_messages' \in Seq(Row) /\ messages' \in Seq(Row)
          /\ pc' = "begun" /\ UNCHANGED snapshot
      BY <1>1, <1>2, <2>1, BeginRows
    <3>2. TurnTypeOK'
      BY <1>3, <3>1 DEF Shape, TurnTypeOK, StartTurn, Stages, latchVars
    <3>3. BatchBounds' /\ Snapshots' /\ ModelGiven'
      BY <1>3, <3>1 DEF Shape, BatchBounds, InBatch, Snapshots, ModelGiven, StartTurn
    <3> QED BY <3>2, <3>3 DEF Shape
  <2>2. CASE /\ CanCompact(h, Retain) /\ pc' \in {"phase", "starting"} /\ snapshot' = h
             /\ UNCHANGED <<agent_messages, messages>>
    <3>1. TurnTypeOK'
      BY <1>1, <1>2, <1>3, <2>2 DEF Shape, TurnTypeOK, StartTurn, Stages, latchVars
    <3>2. BatchBounds' /\ Snapshots' /\ ModelGiven'
      BY <1>2, <1>3, <2>2 DEF Shape, BatchBounds, InBatch, Snapshots, ModelGiven, StartTurn
    <3> QED BY <3>1, <3>2 DEF Shape
  <2> QED BY <1>3, <2>1, <2>2 DEF StartTurn
<1>4. CASE StartCompacted
  <2>1. Replacement \in Seq(Row)
    BY <1>4, ReplacementLists DEF StartCompacted
  <2>2. \E persist \in Persists : Begin(agent_messages, snapshot, persist) \/ Begin(Replacement, Replacement, persist)
    BY <1>4 DEF StartCompacted
  <2>3. agent_messages' \in Seq(Row) /\ messages' \in Seq(Row) /\ pc' = "begun"
    BY <1>1, <2>1, <2>2, BeginRows
  <2>4. proactive' \in BOOLEAN /\ snapshot' = <<>> /\ lost' \subseteq Nat
    <3>2. Replaced \subseteq Nat
      BY <1>1, InjectedNumbers DEF Replaced
    <3> QED BY <1>4, <3>2 DEF Shape, TurnTypeOK, StartCompacted
  <2>5. TurnTypeOK'
    BY <1>4, <2>3, <2>4 DEF Shape, TurnTypeOK, StartCompacted, Stages
  <2>6. BatchBounds' /\ Snapshots' /\ ModelGiven'
    BY <1>4, <2>3 DEF Shape, BatchBounds, InBatch, Snapshots, ModelGiven, StartCompacted
  <2> QED BY <2>5, <2>6 DEF Shape
<1>7. CASE PhaseCompacted
  <2> DEFINE rows == compacted(snapshot, Retain)
  <2>1. rows \in Seq(Row)
    BY <1>7, ReplacementLists DEF PhaseCompacted
  <2>2. /\ \E persist \in Persists : Begin(rows, rows, persist)
        /\ lost' = lost \cup (Injected(agent_messages) \ Injected(rows)) /\ snapshot' = <<>>
    BY <1>7 DEF PhaseCompacted
  <2> HIDE DEF rows
  <2>3. agent_messages' \in Seq(Row) /\ messages' \in Seq(Row) /\ pc' = "begun"
    BY <2>1, <2>2, BeginRows
  <2>4. lost' \subseteq Nat
    BY <1>1, <2>2, InjectedNumbers DEF Shape, TurnTypeOK
  <2>5. TurnTypeOK'
    BY <1>7, <2>2, <2>3, <2>4 DEF Shape, TurnTypeOK, PhaseCompacted, Stages, latchVars
  <2>6. BatchBounds' /\ Snapshots' /\ ModelGiven'
    BY <1>7, <2>3 DEF Shape, BatchBounds, InBatch, Snapshots, ModelGiven, PhaseCompacted
  <2> QED BY <2>5, <2>6 DEF Shape
<1>8. CASE Begun
  <2>1. synced' \in Nat
    BY <1>1, <1>8, LenProperties DEF Begun
  <2>2. TurnTypeOK'
    BY <1>8, <2>1 DEF Shape, TurnTypeOK, Begun, Stages, latchVars, sessionVars
  <2>3. BatchBounds' /\ Snapshots' /\ ModelGiven'
    BY <1>8 DEF Shape, BatchBounds, InBatch, Snapshots, ModelGiven, Begun
  <2> QED BY <2>2, <2>3 DEF Shape
<1>5. CASE RoundStarts
  <2> DEFINE b == sanitize(SubSeq(agent_messages, synced + 1, Len(agent_messages)))
  <2>1. b \in Seq(Row)
    BY <1>1, BeyondLists, Sanitized
  <2>2. messages \o b \in Seq(Row)
    BY <1>1, <2>1, Joined
  <2> DEFINE m == messages \o b
  <2>3. messages' = sanitize(m)
    BY <1>5 DEF RoundStarts
  <2> HIDE DEF m
  <2>4. messages' \in Seq(Row) /\ WellFormed(messages')
    BY <2>2, <2>3, Sanitized, SanitizedWellFormed DEF m
  <2>5. synced' \in Nat
    BY <1>1, <1>5 DEF RoundStarts, taken
  <2>6. round' \in 0..MaxRounds
    BY <1>5 DEF Shape, TurnTypeOK, RoundStarts
  <2>7. TurnTypeOK'
    BY <1>5, <2>4, <2>5, <2>6 DEF Shape, TurnTypeOK, RoundStarts, Stages, latchVars, sessionVars
  <2>8. BatchBounds' /\ Snapshots' /\ ModelGiven'
    BY <1>5, <2>4 DEF Shape, BatchBounds, InBatch, Snapshots, ModelGiven, RoundStarts
  <2> QED BY <2>7, <2>8 DEF Shape
<1>6. CASE Inject
  <2>1. agent_messages' \in Seq(Row)
    <3>1. Note(injected + 1) \in Row
      BY <1>6, Rows DEF Shape, TurnTypeOK
    <3> QED BY <1>1, <1>6, <3>1 DEF Inject
  <2>2. injected' \in 0..MaxInjected
    BY <1>6 DEF Shape, TurnTypeOK, Inject
  <2>3. TurnTypeOK'
    BY <1>6, <2>1, <2>2 DEF Shape, TurnTypeOK, Inject, Stages, localVars, latchVars
  <2>4. BatchBounds' /\ Snapshots' /\ ModelGiven'
    BY <1>6 DEF Shape, BatchBounds, InBatch, Snapshots, ModelGiven, Inject, localVars
  <2> QED BY <2>3, <2>4 DEF Shape
<1> QED BY <1>3, <1>4, <1>5, <1>6, <1>7, <1>8 DEF Starting

LEMMA Appended ==
    ASSUME NEW s \in Seq(Row), NEW r \in Row
    PROVE  Append(s, r) \in Seq(Row) /\ Append(s, r) = s \o <<r>> /\ <<r>> \in Seq(Row)
BY AppendIsConcat, AppendProperties, OneRow

\* The turn is past its start, and the session's rows and the turn's stay rows.
LEMMA ShapeRows ==
    ASSUME Shape, agent_messages' \in Seq(Row), messages' \in Seq(Row), synced' \in Nat,
           pc' \in {"round", "halting"}, timeouts' \in 0..MaxTimeouts,
           forced' \in BOOLEAN, repaired' \in BOOLEAN, reasonRetry' \in BOOLEAN,
           calls' \in Seq(Nat), Len(calls') <= MaxBatch, shown' \subseteq Nat,
           UNCHANGED <<turn, round, callCount, snapshot, truncated, proactive, injected, firstCall, lost>>
    PROVE  Shape'
<1>1. TurnTypeOK'
  BY DEF Shape, TurnTypeOK, Stages
<1>2. BatchBounds' /\ Snapshots' /\ ModelGiven'
  BY DEF BatchBounds, InBatch, Snapshots, ModelGiven
<1> QED BY <1>1, <1>2 DEF Shape

LEMMA ShapeModel == Shape /\ (Stops \/ ModelTimesOut \/ ModelFails) => Shape'
<1> SUFFICES ASSUME Shape, Stops \/ ModelTimesOut \/ ModelFails PROVE Shape'
  OBVIOUS
<1>1. agent_messages \in Seq(Row) /\ messages \in Seq(Row) /\ timeouts \in 0..MaxTimeouts /\ Hint \in Row
  BY Rows DEF Shape, TurnTypeOK
<1>2. CASE Stops
  BY <1>1, <1>2, ShapeEnd DEF Stops, sessionVars
<1>3. CASE ModelTimesOut
  <2>1. CASE timeouts < MaxTimeouts
    <3>1. timeouts' \in 0..MaxTimeouts
      BY <1>1, <1>3, <2>1, BoundsAssumption DEF ModelTimesOut
    <3>2. messages' \in Seq(Row)
      BY <1>1, <1>3, <2>1, Appended DEF ModelTimesOut
    <3> QED BY <1>1, <1>3, <2>1, <3>1, <3>2, ShapeRows
         DEF ModelTimesOut, NextRound, Shape, TurnTypeOK, BatchBounds
  <2>2. CASE ~(timeouts < MaxTimeouts)
    BY <1>1, <1>3, <2>2, ShapeEnd DEF ModelTimesOut
  <2> QED BY <2>1, <2>2
<1>4. CASE ModelFails
  <2>1. CASE End /\ UNCHANGED agent_messages
    BY <1>1, <1>4, <2>1, ShapeEnd DEF ModelFails
  <2>2. CASE forced' = TRUE /\ NextRound /\ UNCHANGED <<messages, agent_messages, repaired>>
    BY <1>1, <1>4, <2>2, ShapeRows DEF ModelFails, NextRound, Shape, TurnTypeOK, BatchBounds
  <2>3. CASE /\ repaired' = TRUE /\ agent_messages' = repaired_agent
             /\ NextRound /\ UNCHANGED <<messages, forced>>
    <3>1. agent_messages' \in Seq(Row)
      BY <1>1, <2>3, Sanitized DEF repaired_agent
    <3> QED BY <1>1, <1>4, <2>3, <3>1, ShapeRows DEF ModelFails, NextRound, Shape, TurnTypeOK, BatchBounds
  <2> QED BY <1>4, <2>1, <2>2, <2>3 DEF ModelFails
<1> QED BY <1>2, <1>3, <1>4

LEMMA ShapeAnswers ==
    ASSUME Shape, NEW n \in 0..MaxBatch, NEW cut \in BOOLEAN, ModelAnswers(n, cut)
    PROVE  Shape'
<1> USE BoundsAssumption
<1>1. /\ agent_messages \in Seq(Row) /\ messages \in Seq(Row) /\ snapshot \in Seq(Row)
      /\ callCount \in Nat /\ Hint \in Row
  BY Rows DEF Shape, TurnTypeOK
<1>2. agent_messages' \in Seq(Row) /\ messages' \in Seq(Row)
  BY <1>1, Appended DEF ModelAnswers
<1>3. calls' \in Seq(Nat) /\ Len(calls') = n /\ callCount' \in Nat
  <2>1. calls' = [k \in 1..n |-> callCount + k] /\ callCount' = callCount + n
    BY DEF ModelAnswers
  <2>2. n \in Nat /\ \A k \in 1..n : callCount + k \in Nat
    BY <1>1
  <2>3. calls' \in [1..n -> Nat]
    BY <2>1, <2>2
  <2> QED BY <1>1, <2>1, <2>2, <2>3
<1> DEFINE h == sanitize(agent_messages')
<1>4. h \in Seq(Row) /\ WellFormed(h)
  BY <1>2, Sanitized, SanitizedWellFormed
<1>5. \/ /\ pc' = "answered" /\ UNCHANGED <<forced, snapshot>>
      \/ /\ forced' = TRUE
         /\ \/ CanCompact(h, Retain) /\ pc' = "compacting" /\ snapshot' = h
            \/ pc' = "answered" /\ UNCHANGED snapshot
  BY DEF ModelAnswers
<1> HIDE DEF h
<1>6. snapshot' \in Seq(Row) /\ pc' \in {"answered", "compacting"} /\ forced' \in BOOLEAN
  BY <1>1, <1>4, <1>5 DEF Shape, TurnTypeOK
<1>7. timeouts' \in 0..MaxTimeouts /\ truncated' \in BOOLEAN
  BY DEF ModelAnswers
<1>8. TurnTypeOK'
  BY <1>2, <1>3, <1>6, <1>7 DEF Shape, TurnTypeOK, ModelAnswers, Stages
<1>9. Snapshots'
  BY <1>4, <1>5 DEF Snapshots
<1>10. BatchBounds' /\ ModelGiven'
  BY <1>3, <1>6 DEF BatchBounds, InBatch, ModelGiven
<1> QED BY <1>8, <1>9, <1>10 DEF Shape

LEMMA ShapeCompacted == Shape /\ Compacted => Shape'
<1> SUFFICES ASSUME Shape, Compacted PROVE Shape'
  OBVIOUS
<1>1. agent_messages \in Seq(Row) /\ messages \in Seq(Row) /\ Replacement \in Seq(Row)
  BY ReplacementLists DEF Shape, TurnTypeOK, Compacted
<1>2. Replaced \subseteq Nat
  <2>1. \A i \in DOMAIN agent_messages : agent_messages[i] \in Row
    BY <1>1, KeptRow
  <2> QED BY <2>1 DEF Replaced, Injected, Row
<1>3. /\ agent_messages' \in Seq(Row) /\ messages' \in Seq(Row) /\ snapshot' \in Seq(Row)
      /\ shown' \subseteq Nat /\ lost' \subseteq Nat /\ pc' = "answered"
  <2>1. snapshot' = <<>> /\ <<>> \in Seq(Row) /\ pc' = "answered"
    BY DEF Compacted
  <2>2. \/ UNCHANGED <<agent_messages, messages, shown, lost>>
        \/ /\ agent_messages' = Replacement /\ messages' = Replacement
           /\ shown' = {} /\ lost' = lost \cup Replaced
    BY DEF Compacted
  <2>3. shown \subseteq Nat /\ lost \subseteq Nat
    BY DEF Shape, TurnTypeOK
  <2> QED BY <1>1, <1>2, <2>1, <2>2, <2>3
<1>4. TurnTypeOK'
  BY <1>3 DEF Shape, TurnTypeOK, Compacted, Stages, latchVars
<1>5. BatchBounds' /\ Snapshots' /\ ModelGiven'
  BY <1>3 DEF Shape, BatchBounds, InBatch, Snapshots, ModelGiven, Compacted
<1> QED BY <1>4, <1>5 DEF Shape

LEMMA ShapeAnswer == Shape /\ (AnswerAgain \/ ReasoningOnly \/ Answer) => Shape'
<1> SUFFICES ASSUME Shape, AnswerAgain \/ ReasoningOnly \/ Answer PROVE Shape'
  OBVIOUS
<1>1. /\ agent_messages \in Seq(Row) /\ messages \in Seq(Row) /\ timeouts \in 0..MaxTimeouts
      /\ synced \in Nat /\ forced \in BOOLEAN /\ repaired \in BOOLEAN /\ reasonRetry \in BOOLEAN
      /\ calls \in Seq(Nat) /\ Len(calls) <= MaxBatch /\ shown \subseteq Nat
  BY DEF Shape, TurnTypeOK, BatchBounds
<1>2. \A s \in Seq(Row) : /\ s \o <<Assistant({}, TRUE), Hint>> \in Seq(Row)
                          /\ s \o <<Assistant({}, TRUE), Assistant({}, FALSE), Hint>> \in Seq(Row)
                          /\ s \o <<Assistant({}, FALSE), Hint>> \in Seq(Row)
  BY PlainOnes, PlainLists
<1>3. CASE AnswerAgain
  <2>1. agent_messages' \in Seq(Row) /\ messages' \in Seq(Row)
    BY <1>1, <1>2, <1>3 DEF AnswerAgain
  <2> QED BY <1>1, <1>3, <2>1, ShapeRows DEF AnswerAgain, NextRound
<1>4. CASE ReasoningOnly
  <2>1. agent_messages' \in Seq(Row) /\ messages' \in Seq(Row) /\ synced' \in Nat
    <3>1. Len(agent_messages) \in Nat /\ synced' = Len(agent_messages) + 1
      BY <1>1, <1>4, LenProperties DEF ReasoningOnly
    <3>2. agent_messages' = agent_messages \o <<Assistant({}, TRUE), Assistant({}, FALSE), Hint>>
          /\ messages' = messages \o <<Assistant({}, FALSE), Hint>>
      BY <1>4 DEF ReasoningOnly
    <3>3. agent_messages' \in Seq(Row)
      BY <1>1, <1>2, <3>2
    <3>4. messages' \in Seq(Row)
      BY <1>1, <1>2, <3>2
    <3> QED BY <3>1, <3>3, <3>4
  <2> QED BY <1>1, <1>4, <2>1, ShapeRows DEF ReasoningOnly
<1>5. CASE Answer
  <2>1. agent_messages' \in Seq(Row)
    BY <1>1, <1>5, Rows, Appended DEF Answer
  <2> QED BY <1>1, <1>5, <2>1, ShapeEnd DEF Answer
<1> QED BY <1>3, <1>4, <1>5

LEMMA ShapeBegins ==
    ASSUME Shape, NEW text \in Texts, BeginBatch(text)
    PROVE  Shape'
<1>1. agent_messages \in Seq(Row) /\ messages \in Seq(Row) /\ calls \in Seq(Nat)
  BY DEF Shape, TurnTypeOK
<1>2. Range(calls) \in SUBSET Nat /\ text \in BOOLEAN
  <2>1. \A k \in DOMAIN calls : calls[k] \in Nat
    BY <1>1
  <2> QED BY <2>1, BoundsAssumption DEF Range
<1> DEFINE r == Assistant(Range(calls), text)
<1>3. r \in Row
  BY <1>2, CallRow
<1>4. /\ agent_messages' = Append(agent_messages, r) /\ messages' = Append(messages, r)
      /\ synced' = Len(agent_messages')
  BY DEF BeginBatch
<1> HIDE DEF r
<1>5. agent_messages' \in Seq(Row) /\ messages' \in Seq(Row)
  BY <1>1, <1>3, <1>4, Appended
<1>6. synced' \in Nat
  BY <1>4, <1>5, LenProperties
<1>7. TurnTypeOK'
  BY <1>5, <1>6 DEF Shape, TurnTypeOK, BeginBatch, Stages, latchVars
<1>8. BatchBounds' /\ Snapshots' /\ ModelGiven'
  BY DEF Shape, BatchBounds, InBatch, Snapshots, ModelGiven, BeginBatch
<1> QED BY <1>7, <1>8 DEF Shape

LEMMA ShapeAfter ==
    ASSUME Shape, InBatch, AfterCall, agent_messages' \in Seq(Row), messages' \in Seq(Row),
           shown' \subseteq Nat, UNCHANGED <<turn, callCount, snapshot, timeouts, injected, lost>>
    PROVE  Shape'
<1>1. calls \in Seq(Nat) /\ calls # <<>> /\ Len(calls) <= MaxBatch
  BY DEF Shape, TurnTypeOK, BatchBounds
<1>2. Tail(calls) \in Seq(Nat) /\ Len(Tail(calls)) = Len(calls) - 1
  BY <1>1, HeadTailProperties
<1>3. calls' \in Seq(Nat) /\ Len(calls') <= MaxBatch
  <2>1. Len(calls) \in Nat /\ MaxBatch \in Nat
    BY <1>1, BoundsAssumption, LenProperties
  <2>2. calls' = Tail(calls)
    BY DEF AfterCall
  <2> QED BY <1>1, <1>2, <2>1, <2>2
<1>4. synced' \in Nat
  BY LenProperties DEF AfterCall
<1>5. pc' \in {"round", "call"} /\ (pc' = "call" => calls' # <<>>)
  BY DEF AfterCall
<1>6. TurnTypeOK'
  BY <1>3, <1>4, <1>5 DEF Shape, TurnTypeOK, AfterCall, Stages, latchVars
<1>7. BatchBounds' /\ Snapshots' /\ ModelGiven'
  BY <1>3, <1>5 DEF BatchBounds, InBatch, Snapshots, ModelGiven
<1> QED BY <1>6, <1>7 DEF Shape

LEMMA ShapeBatch ==
    ASSUME Shape, Refused \/ Dispatch \/ (\E warned \in BOOLEAN : ToolReturns(warned)) \/ LoopHalts \/ Halted
    PROVE  Shape'
<1>1. /\ agent_messages \in Seq(Row) /\ messages \in Seq(Row) /\ calls \in Seq(Nat)
      /\ timeouts \in 0..MaxTimeouts /\ shown \subseteq Nat
  BY DEF Shape, TurnTypeOK
<1>2. ASSUME InBatch
      PROVE  /\ Head(calls) \in Nat /\ Result(Head(calls)) \in Row /\ <<Result(Head(calls))>> \in Seq(Row)
             /\ refusal(Head(calls)) = <<Result(Head(calls))>>
             /\ <<Hint, Result(Head(calls))>> \in Seq(Row)
  <2>1. Head(calls) \in Nat
    BY <1>1, <1>2, HeadTailProperties DEF Shape, BatchBounds
  <2>2. Result(Head(calls)) \in Row /\ Hint \in Row
    BY <2>1, Rows
  <2> QED BY <2>1, <2>2 DEF refusal
<1>3. CASE Refused
  <2>1. InBatch
    BY <1>3 DEF Refused, InBatch
  <2>2. agent_messages' \in Seq(Row)
    BY <1>1, <1>2, <1>3, <2>1, Joined DEF Refused
  <2>3. CASE End
    BY <1>1, <1>3, <2>2, <2>3, ShapeEnd DEF Refused
  <2>4. CASE /\ messages' = messages \o refusal(Head(calls)) /\ AfterCall
             /\ shown' = IF Reminded(Head(calls)) THEN shown ELSE shown \cup {Head(calls)}
    <3>1. messages' \in Seq(Row) /\ shown' \subseteq Nat
      BY <1>1, <1>2, <2>1, <2>4, Joined
    <3> QED BY <1>3, <2>1, <2>2, <2>4, <3>1, ShapeAfter DEF Refused
  <2> QED BY <1>3, <2>3, <2>4 DEF Refused
<1>4. CASE Dispatch
  <2>1. TurnTypeOK'
    BY <1>4 DEF Shape, TurnTypeOK, Dispatch, Stages, localVars, latchVars, sessionVars
  <2>2. BatchBounds' /\ Snapshots' /\ ModelGiven'
    BY <1>4 DEF Shape, BatchBounds, InBatch, Snapshots, ModelGiven, Dispatch, localVars
  <2> QED BY <2>1, <2>2 DEF Shape
<1>5. ASSUME NEW warned \in BOOLEAN, ToolReturns(warned) PROVE Shape'
  <2>1. InBatch
    BY <1>5 DEF ToolReturns, InBatch
  <2>2. agent_messages' \in Seq(Row)
    BY <1>1, <1>2, <1>5, <2>1, Appended DEF ToolReturns
  <2>3. messages' \in Seq(Row)
    <3>1. \/ messages' = messages \o <<Hint, Result(Head(calls))>>
          \/ messages' = messages \o <<Result(Head(calls))>>
      BY <1>5 DEF ToolReturns
    <3>2. <<Hint, Result(Head(calls))>> \in Seq(Row) /\ <<Result(Head(calls))>> \in Seq(Row)
      BY <1>2, <2>1
    <3>3. CASE messages' = messages \o <<Hint, Result(Head(calls))>>
      BY <1>1, <3>2, <3>3, Joined
    <3>4. CASE messages' = messages \o <<Result(Head(calls))>>
      BY <1>1, <3>2, <3>4, Joined
    <3> QED BY <3>1, <3>3, <3>4
  <2>4. shown' \subseteq Nat /\ AfterCall
    BY <1>1, <1>2, <1>5, <2>1 DEF ToolReturns
  <2> QED BY <1>5, <2>1, <2>2, <2>3, <2>4, ShapeAfter DEF ToolReturns
<1>6. CASE LoopHalts
  <2> DEFINE rest == [k \in DOMAIN calls |-> Result(calls[k])]
  <2>1. rest \in Seq(Row) /\ <<Hint>> \in Seq(Row)
    BY <1>1, RestRows, Rows, OneRow
  <2>2. /\ agent_messages' = agent_messages \o rest /\ synced' = Len(agent_messages')
        /\ messages' = messages \o <<Hint>> \o rest \o <<Hint>> /\ calls' = <<>>
    BY <1>6 DEF LoopHalts
  <2> HIDE DEF rest
  <2>3. agent_messages' \in Seq(Row)
    BY <1>1, <2>1, <2>2, Joined
  <2>4. messages' \in Seq(Row)
    <3>1. messages \o <<Hint>> \in Seq(Row)
      BY <1>1, <2>1, Joined
    <3>2. messages \o <<Hint>> \o rest \in Seq(Row)
      BY <2>1, <3>1, Joined
    <3> QED BY <2>1, <2>2, <3>2, Joined
  <2>5. synced' \in Nat
    BY <2>2, <2>3, LenProperties
  <2>6. calls' \in Seq(Nat) /\ Len(calls') <= MaxBatch
    BY <2>2, BoundsAssumption
  <2>7. /\ pc' = "halting" /\ shown' = shown
        /\ UNCHANGED <<turn, round, callCount, snapshot, truncated, proactive, forced, repaired,
                       reasonRetry, timeouts, injected, firstCall, lost>>
    BY <1>6 DEF LoopHalts, latchVars
  <2> QED BY <1>1, <2>3, <2>4, <2>5, <2>6, <2>7, ShapeRows DEF Shape, TurnTypeOK
<1>7. CASE Halted
  <2>1. agent_messages' \in Seq(Row)
    BY <1>1, <1>7, Rows, Appended DEF Halted
  <2> QED BY <1>1, <1>7, <2>1, ShapeEnd DEF Halted
<1> QED BY <1>3, <1>4, <1>5, <1>6, <1>7

LEMMA ShapeNext == Shape /\ [TurnNext]_turnVars => Shape'
<1> SUFFICES ASSUME Shape, [TurnNext]_turnVars PROVE Shape'
  OBVIOUS
<1>1. CASE Starting
  BY <1>1, ShapeStart
<1>2. CASE Stops \/ ModelTimesOut \/ ModelFails
  BY <1>2, ShapeModel
<1>3. CASE \E n \in 0..MaxBatch, cut \in BOOLEAN : ModelAnswers(n, cut)
  BY <1>3, ShapeAnswers
<1>4. CASE Compacted
  BY <1>4, ShapeCompacted
<1>5. CASE AnswerAgain \/ ReasoningOnly \/ Answer
  BY <1>5, ShapeAnswer
<1>6. CASE \E text \in Texts : BeginBatch(text)
  BY <1>6, ShapeBegins
<1>7. CASE Refused \/ Dispatch \/ (\E warned \in BOOLEAN : ToolReturns(warned)) \/ LoopHalts \/ Halted
  BY <1>7, ShapeBatch
<1>8. CASE UNCHANGED turnVars
  BY <1>8 DEF Shape, TurnTypeOK, BatchBounds, InBatch, Snapshots, ModelGiven,
              turnVars, localVars, latchVars, sessionVars
<1> QED BY <1>1, <1>2, <1>3, <1>4, <1>5, <1>6, <1>7, <1>8 DEF TurnNext, Step, Starting

LEMMA ShapeCorrect == TurnSpec => []Shape
BY ShapeInit, ShapeNext, PTL DEF TurnSpec

-----------------------------------------------------------------------------
(* Every step brings a turn nearer to its end.                              *)

\* A step within a round.
LEMMA RankFalls ==
    ASSUME Shape, round' = round, StepsLeft \in Int, StepsLeft' \in Int, StepsLeft' < StepsLeft
    PROVE  Rank' < Rank
<1> DEFINE p == (MaxRounds - round) * (2 * MaxBatch + 5)
<1>1. p \in Int
  BY BoundsAssumption DEF Shape, TurnTypeOK
<1>2. Rank = p + StepsLeft /\ Rank' = p + StepsLeft'
  BY DEF Rank
<1>3. \A x, y, z \in Int : y < z => x + y < x + z
  OBVIOUS
<1> HIDE DEF p
<1>4. p + StepsLeft' < p + StepsLeft
  BY <1>1, <1>3
<1> QED BY <1>2, <1>4

LEMMA AdvancesNext ==
    ASSUME Shape, TurnNext, pc # "idle", ~Inject
    PROVE  pc' = "idle" \/ Rank' < Rank
<1> USE BoundsAssumption
<1>1. Len(calls) \in Nat /\ Len(calls) <= MaxBatch /\ (InBatch => Len(calls) > 0) /\ round \in Nat
  BY DEF Shape, TurnTypeOK, BatchBounds
<1>2. ~StartTurn
  BY DEF StartTurn
<1>3. CASE PhaseCompacted \/ StartCompacted
  <2>1. pc \in {"phase", "starting"} /\ pc' = "begun" /\ round' = round
    BY <1>3 DEF PhaseCompacted, StartCompacted, Begin
  <2>2. StepsLeft = 2 /\ StepsLeft' = 1
    BY <2>1 DEF StepsLeft
  <2> QED BY <2>1, <2>2, RankFalls
<1>16. CASE Begun
  <2>1. pc = "begun" /\ pc' = "round" /\ round' = round
    BY <1>16 DEF Begun
  <2>2. StepsLeft = 1 /\ StepsLeft' = 0
    BY <2>1 DEF StepsLeft
  <2> QED BY <2>1, <2>2, RankFalls
<1>4. CASE RoundStarts
  <2>1. pc = "round" /\ pc' = "model" /\ round' = round + 1 /\ round < MaxRounds
    BY <1>4 DEF RoundStarts
  <2>2. StepsLeft = 0 /\ StepsLeft' = 2 * MaxBatch + 4
    BY <2>1 DEF StepsLeft
  <2> DEFINE k == 2 * MaxBatch + 5
             d == MaxRounds - round
  <2>3. k \in Int /\ d \in Int /\ MaxRounds - (round + 1) = d - 1
    BY <1>1
  <2>4. Rank = d * k + 0 /\ Rank' = (MaxRounds - round') * k + (k - 1)
    BY <2>2 DEF Rank
  <2>5. Rank' = (d - 1) * k + (k - 1)
    BY <2>1, <2>3, <2>4
  <2> HIDE DEF k, d
  <2>6. (d - 1) * k = d * k - k
    BY <2>3
  <2>7. d * k \in Int
    BY <2>3
  <2> QED BY <2>3, <2>4, <2>5, <2>6, <2>7
<1>5. CASE Stops \/ Answer \/ Halted
  BY <1>5 DEF Stops, Answer, Halted, End
<1>6. CASE ModelTimesOut \/ ModelFails
  <2>1. pc = "model" /\ (pc' = "idle" \/ (pc' = "round" /\ round' = round))
    BY <1>6 DEF ModelTimesOut, ModelFails, End, NextRound
  <2>2. pc' = "round" => StepsLeft = 2 * MaxBatch + 4 /\ StepsLeft' = 0
    BY <2>1 DEF StepsLeft
  <2> QED BY <2>1, <2>2, RankFalls
<1>7. ASSUME NEW n \in 0..MaxBatch, NEW cut \in BOOLEAN, ModelAnswers(n, cut)
      PROVE  Rank' < Rank
  <2>1. pc = "model" /\ pc' \in {"answered", "compacting"} /\ round' = round
    BY <1>7 DEF ModelAnswers
  <2>2. StepsLeft = 2 * MaxBatch + 4 /\ StepsLeft' \in {2 * MaxBatch + 2, 2 * MaxBatch + 3}
    BY <2>1 DEF StepsLeft
  <2> QED BY <2>1, <2>2, RankFalls
<1>8. CASE Compacted
  <2>1. pc = "compacting" /\ pc' = "answered" /\ round' = round
    BY <1>8 DEF Compacted
  <2>2. StepsLeft = 2 * MaxBatch + 3 /\ StepsLeft' = 2 * MaxBatch + 2
    BY <2>1 DEF StepsLeft
  <2> QED BY <2>1, <2>2, RankFalls
<1>9. CASE AnswerAgain \/ ReasoningOnly
  <2>1. pc = "answered" /\ pc' = "round" /\ round' = round
    BY <1>9 DEF AnswerAgain, ReasoningOnly, NextRound
  <2>2. StepsLeft = 2 * MaxBatch + 2 /\ StepsLeft' = 0
    BY <2>1 DEF StepsLeft
  <2> QED BY <2>1, <2>2, RankFalls
<1>10. ASSUME NEW text \in Texts, BeginBatch(text) PROVE Rank' < Rank
  <2>1. pc = "answered" /\ pc' = "call" /\ round' = round /\ calls' = calls
    BY <1>10 DEF BeginBatch
  <2>2. StepsLeft = 2 * MaxBatch + 2 /\ StepsLeft' = 2 * Len(calls) + 1
    BY <2>1 DEF StepsLeft
  <2> QED BY <1>1, <2>1, <2>2, RankFalls
<1>11. ASSUME InBatch, AfterCall PROVE Rank' < Rank
  <2>1. calls \in Seq(Nat) /\ calls # <<>>
    BY <1>11 DEF Shape, TurnTypeOK, BatchBounds
  <2>2. Len(calls') = Len(calls) - 1 /\ round' = round
    BY <1>11, <2>1, HeadTailProperties DEF AfterCall
  <2>3. pc \in {"call", "tool"} /\ pc' \in {"round", "call"} /\ Len(calls) > 0
    BY <1>1, <1>11 DEF InBatch, AfterCall
  <2>4. StepsLeft \in {2 * Len(calls), 2 * Len(calls) + 1}
    BY <2>3 DEF StepsLeft
  <2>5. StepsLeft' \in {0, 2 * (Len(calls) - 1) + 1}
    BY <2>2, <2>3 DEF StepsLeft
  <2> QED BY <1>1, <2>2, <2>3, <2>4, <2>5, RankFalls
<1>12. CASE Refused
  BY <1>11, <1>12 DEF Refused, InBatch, End
<1>13. CASE Dispatch
  <2>1. pc = "call" /\ pc' = "tool" /\ round' = round /\ calls' = calls
    BY <1>13 DEF Dispatch, localVars
  <2>2. StepsLeft = 2 * Len(calls) + 1 /\ StepsLeft' = 2 * Len(calls)
    BY <2>1 DEF StepsLeft
  <2> QED BY <1>1, <2>1, <2>2, RankFalls
<1>14. CASE \E warned \in BOOLEAN : ToolReturns(warned)
  BY <1>11, <1>14 DEF ToolReturns, InBatch
<1>15. CASE LoopHalts
  <2>1. pc = "tool" /\ pc' = "halting" /\ round' = round
    BY <1>15 DEF LoopHalts
  <2>2. StepsLeft = 2 * Len(calls) /\ StepsLeft' = 1 /\ Len(calls) > 0
    BY <1>1, <2>1 DEF StepsLeft, InBatch
  <2> QED BY <1>1, <2>1, <2>2, RankFalls
<1> QED BY <1>2, <1>3, <1>4, <1>5, <1>6, <1>7, <1>8, <1>9, <1>10, <1>12, <1>13, <1>14, <1>15,
         <1>16
        DEF TurnNext, Step

\* Whatever is retried takes a round: every step of a turn, timeouts, rejected and
\* truncated answers included, brings it nearer to its end.
THEOREM AdvancesCorrect == TurnSpec => TurnAdvances
<1>1. Shape /\ [TurnNext]_turnVars
        => [pc # "idle" /\ ~Inject => pc' = "idle" \/ Rank' < Rank]_turnVars
  BY AdvancesNext
<1> QED BY <1>1, ShapeCorrect, PTL DEF TurnSpec, TurnAdvances

-----------------------------------------------------------------------------
(* The calls of a batch are answered.                                       *)

\* The calls' numbers are below the next one, and a turn begins after all of them.
CallsKnown ==
    /\ \A c \in Made(agent_messages) \cup Made(snapshot) \cup Range(calls) : c <= callCount
    /\ pc \in {"idle", "phase", "starting"} => firstCall = callCount

\* A call of this turn that has no result in the session is one the batch is left with.
OpenInBatch ==
    \A c \in Made(agent_messages) :
       c > firstCall => c \in Results(agent_messages) \/ (InBatch /\ c \in Range(calls))

CallsInv == CallsKnown /\ OpenInBatch

LEMMA RangeEmpty == Range(<<>>) = {}
BY DEF Range

\* A step outside a batch after which the session makes no call that it did not make,
\* and answers those it answered, or all that it makes.
LEMMA CallsStay ==
    ASSUME Shape, CallsInv, ~InBatch,
           Made(agent_messages') \subseteq Made(agent_messages) \cup Made(snapshot),
           \/ /\ Made(agent_messages') \subseteq Made(agent_messages)
              /\ Results(agent_messages) \subseteq Results(agent_messages')
           \/ Made(agent_messages') \subseteq Results(agent_messages'),
           Made(snapshot') \subseteq Made(agent_messages) \cup Made(snapshot),
           calls' \in {calls, <<>>}, callCount' = callCount, firstCall' \in {firstCall, callCount},
           pc' \in {"idle", "phase", "starting"} => firstCall' = callCount
    PROVE  CallsInv'
<1>1. Range(calls') \subseteq Range(calls)
  BY RangeEmpty
<1>2. CallsKnown'
  BY <1>1 DEF CallsInv, CallsKnown
<1>3. ASSUME NEW c \in Made(agent_messages'), c > firstCall' PROVE c \in Results(agent_messages')
  <2>1. CASE Made(agent_messages') \subseteq Results(agent_messages')
    BY <1>3, <2>1
  <2>2. CASE /\ Made(agent_messages') \subseteq Made(agent_messages)
             /\ Results(agent_messages) \subseteq Results(agent_messages')
    <3>1. c \in Made(agent_messages)
      BY <1>3, <2>2
    <3>2. c <= callCount /\ c \in Int /\ callCount \in Int
      <4>1. Made(agent_messages) \subseteq Nat
        <5>1. \A i \in DOMAIN agent_messages : agent_messages[i] \in Row
          BY KeptRow DEF Shape, TurnTypeOK
        <5> QED BY <5>1 DEF Made, Row
      <4> QED BY <3>1, <4>1 DEF CallsInv, CallsKnown, Shape, TurnTypeOK
    <3>3. firstCall' = firstCall
      BY <1>3, <3>2
    <3> QED BY <1>3, <2>2, <3>1, <3>3 DEF CallsInv, OpenInBatch
  <2> QED BY <2>1, <2>2
<1>4. OpenInBatch'
  BY <1>3 DEF OpenInBatch
<1> QED BY <1>2, <1>4 DEF CallsInv

\* A step that ends the turn with the session's calls as they were.
LEMMA CallsEnd ==
    ASSUME Shape, CallsInv, End, UNCHANGED <<callCount, snapshot>>,
           Made(agent_messages') = Made(agent_messages)
    PROVE  CallsInv'
<1>1. calls' = <<>> /\ firstCall' = callCount' /\ Range(calls') = {}
  BY RangeEmpty DEF End
<1>2. CallsKnown'
  BY <1>1 DEF CallsInv, CallsKnown
<1>3. Made(agent_messages) \subseteq Nat
  <2>1. \A i \in DOMAIN agent_messages : agent_messages[i] \in Row
    BY KeptRow DEF Shape, TurnTypeOK
  <2> QED BY <2>1 DEF Made, Row
<1>4. \A c \in Made(agent_messages') : ~(c > firstCall')
  BY <1>1, <1>3 DEF CallsInv, CallsKnown, Shape, TurnTypeOK
<1> QED BY <1>2, <1>4 DEF CallsInv, OpenInBatch

LEMMA CallsInit == TurnInit => CallsInv
<1> SUFFICES ASSUME TurnInit PROVE CallsInv
  OBVIOUS
<1>1. Made(<<>>) = {} /\ Range(<<>>) = {}
  BY PlainOnes, RangeEmpty DEF Plain
<1>2. agent_messages = <<>> /\ snapshot = <<>> /\ calls = <<>> /\ firstCall = callCount
  BY DEF TurnInit
<1> QED BY <1>1, <1>2 DEF CallsInv, CallsKnown, OpenInBatch

\* What the lists are when rows are appended.
LEMMA SessionRows ==
    ASSUME Shape
    PROVE  /\ agent_messages \in Seq(Row) /\ messages \in Seq(Row) /\ snapshot \in Seq(Row)
           /\ calls \in Seq(Nat) /\ synced \in Nat /\ injected \in Nat /\ callCount \in Nat
           /\ firstCall \in Nat
           /\ Plain(<<Hint>>) /\ Plain(<<Assistant({}, TRUE)>>)
           /\ Append(agent_messages, Hint) = agent_messages \o <<Hint>>
           /\ Append(messages, Hint) = messages \o <<Hint>>
           /\ Append(agent_messages, Assistant({}, TRUE)) = agent_messages \o <<Assistant({}, TRUE)>>
           /\ Made(<<>>) = {} /\ Injected(<<>>) = {}
<1>1. /\ agent_messages \in Seq(Row) /\ messages \in Seq(Row) /\ snapshot \in Seq(Row)
      /\ calls \in Seq(Nat) /\ synced \in Nat /\ injected \in Nat /\ callCount \in Nat
      /\ firstCall \in Nat
  BY BoundsAssumption DEF Shape, TurnTypeOK
<1>2. /\ Plain(<<Hint>>) /\ Plain(<<Assistant({}, TRUE)>>) /\ Made(<<>>) = {} /\ Injected(<<>>) = {}
  BY PlainOnes DEF Plain
<1>3. Hint \in Row /\ Assistant({}, TRUE) \in Row
  BY Rows
<1>4. /\ Append(agent_messages, Hint) = agent_messages \o <<Hint>>
      /\ Append(messages, Hint) = messages \o <<Hint>>
      /\ Append(agent_messages, Assistant({}, TRUE)) = agent_messages \o <<Assistant({}, TRUE)>>
  BY <1>1, <1>3, Appended
<1> QED BY <1>1, <1>2, <1>4

LEMMA CallsStart == Shape /\ CallsInv /\ Starting => CallsInv'
<1> SUFFICES ASSUME Shape, CallsInv, Starting PROVE CallsInv'
  OBVIOUS
<1> DEFINE h == sanitize(agent_messages)
<1>1. agent_messages \in Seq(Row) /\ snapshot \in Seq(Row) /\ Made(<<>>) = {}
  BY SessionRows
<1>2. h \in Seq(Row) /\ Made(h) \subseteq Made(agent_messages)
  BY <1>1, Sanitized, SanitizedLists
<1>3. \A a \in Seq(Row) : Made(a \o <<Hint>>) = Made(a) /\ Results(a \o <<Hint>>) = Results(a)
  BY PlainOnes, PlainLists
<1>4. CASE StartTurn
  <2>1. CASE \E persist \in Persists : Begin(agent_messages, h, persist) /\ UNCHANGED snapshot
    <3>1. agent_messages' = agent_messages \/ agent_messages' = agent_messages \o <<Hint>>
      BY <1>1, <1>2, <2>1, BeginRows
    <3>2. Made(agent_messages') = Made(agent_messages) /\ Results(agent_messages') = Results(agent_messages)
      BY <1>1, <1>3, <3>1
    <3>3. snapshot' = snapshot /\ pc' = "begun" /\ pc = "idle"
      BY <1>4, <2>1 DEF Begin, StartTurn
    <3> QED BY <1>4, <3>2, <3>3, CallsStay DEF StartTurn, InBatch
  <2>2. CASE /\ CanCompact(h, Retain) /\ pc' \in {"phase", "starting"} /\ snapshot' = h
             /\ UNCHANGED <<agent_messages, messages>>
    BY <1>2, <1>4, <2>2, CallsStay DEF StartTurn, InBatch, CallsInv, CallsKnown
  <2> QED BY <1>4, <2>1, <2>2 DEF StartTurn
<1>5. CASE StartCompacted
  <2>0. pc = "starting" /\ snapshot' = <<>> /\ pc' = "begun"
    BY <1>5 DEF StartCompacted, Begin
  <2>1. /\ Replacement \in Seq(Row) /\ Made(Replacement) \subseteq Made(snapshot)
        /\ Made(Replacement) \subseteq Results(Replacement)
    BY <2>0, ReplacementLists
  <2>2. \/ \E persist \in Persists : Begin(agent_messages, snapshot, persist)
        \/ \E persist \in Persists : Begin(Replacement, Replacement, persist)
    BY <1>5 DEF StartCompacted
  <2>3. CASE \E persist \in Persists : Begin(agent_messages, snapshot, persist)
    <3>1. agent_messages' = agent_messages \/ agent_messages' = agent_messages \o <<Hint>>
      BY <1>1, <2>3, BeginRows
    <3>2. Made(agent_messages') = Made(agent_messages) /\ Results(agent_messages') = Results(agent_messages)
      BY <1>1, <1>3, <3>1
    <3> QED BY <1>1, <1>5, <2>0, <3>2, CallsStay DEF StartCompacted, InBatch
  <2>4. CASE \E persist \in Persists : Begin(Replacement, Replacement, persist)
    <3>1. agent_messages' = Replacement \/ agent_messages' = Replacement \o <<Hint>>
      BY <2>1, <2>4, BeginRows
    <3>2. Made(agent_messages') = Made(Replacement) /\ Results(agent_messages') = Results(Replacement)
      BY <1>3, <2>1, <3>1
    <3>3. /\ Made(agent_messages') \subseteq Made(snapshot)
          /\ Made(agent_messages') \subseteq Results(agent_messages')
      BY <2>1, <3>2
    <3> QED BY <1>1, <1>5, <2>0, <3>3, CallsStay DEF StartCompacted, InBatch
  <2> QED BY <2>2, <2>3, <2>4
<1>6. CASE RoundStarts
  BY <1>6, CallsStay DEF RoundStarts, InBatch, sessionVars
<1>7. CASE Inject
  <2>1. PICK r \in Row : agent_messages' = Append(agent_messages, r) /\ r.role = "note" /\ r.calls = {}
    <3>1. injected + 1 \in Nat /\ agent_messages' = Append(agent_messages, Note(injected + 1))
      BY <1>7, SessionRows DEF Inject
    <3> QED BY <3>1, Rows
  <2>2. agent_messages' = agent_messages \o <<r>> /\ <<r>> \in Seq(Row) /\ Made(<<r>>) = {} /\ Results(<<r>>) = {}
    BY <1>1, <2>1, Appended, OneRow
  <2>3. Made(agent_messages') = Made(agent_messages) /\ Results(agent_messages') = Results(agent_messages)
    <3> DEFINE t == <<r>>
    <3> HIDE DEF t
    <3>1. t \in Seq(Row) /\ Made(t) = {} /\ Results(t) = {} /\ agent_messages' = agent_messages \o t
      BY <2>2 DEF t
    <3>2. Made(agent_messages \o t) = Made(agent_messages) \cup Made(t)
          /\ Results(agent_messages \o t) = Results(agent_messages) \cup Results(t)
      BY <1>1, <3>1, JoinedLists
    <3> QED BY <3>1, <3>2
  <2>4. UNCHANGED <<pc, callCount, snapshot, calls, firstCall>>
    BY <1>7 DEF Inject, localVars
  <2> QED BY <2>3, <2>4 DEF CallsInv, CallsKnown, OpenInBatch, InBatch
<1>8. CASE PhaseCompacted
  <2> DEFINE rows == compacted(snapshot, Retain)
  <2>1. /\ pc = "phase" /\ snapshot' = <<>> /\ pc' = "begun"
        /\ \E persist \in Persists : Begin(rows, rows, persist)
        /\ UNCHANGED <<calls, callCount, firstCall>>
    BY <1>8 DEF PhaseCompacted, Begin
  <2>2. rows \in Seq(Row) /\ Made(rows) \subseteq Made(snapshot) /\ Made(rows) \subseteq Results(rows)
    BY <2>1, ReplacementLists
  <2> HIDE DEF rows
  <2>3. agent_messages' = rows \/ agent_messages' = rows \o <<Hint>>
    BY <2>1, <2>2, BeginRows
  <2>4. Made(agent_messages') = Made(rows) /\ Results(agent_messages') = Results(rows)
    BY <1>3, <2>2, <2>3
  <2>5. Made(agent_messages') \subseteq Made(snapshot) /\ Made(agent_messages') \subseteq Results(agent_messages')
    BY <2>2, <2>4
  <2> QED BY <1>1, <2>1, <2>5, CallsStay DEF InBatch
<1>9. CASE Begun
  BY <1>9, CallsStay DEF Begun, InBatch, sessionVars
<1> QED BY <1>4, <1>5, <1>6, <1>7, <1>8, <1>9 DEF Starting

LEMMA CallsModel == Shape /\ CallsInv /\ (Stops \/ ModelTimesOut \/ ModelFails \/ Compacted) => CallsInv'
<1> SUFFICES ASSUME Shape, CallsInv, Stops \/ ModelTimesOut \/ ModelFails \/ Compacted PROVE CallsInv'
  OBVIOUS
<1>1. agent_messages \in Seq(Row) /\ snapshot \in Seq(Row) /\ Made(<<>>) = {}
  BY SessionRows
<1>2. CASE Stops
  BY <1>2, CallsEnd DEF Stops, sessionVars
<1>3. CASE ModelTimesOut
  <2>1. CASE End
    BY <1>3, <2>1, CallsEnd DEF ModelTimesOut
  <2>2. CASE NextRound
    BY <1>3, <2>2, CallsStay DEF ModelTimesOut, NextRound, InBatch
  <2> QED BY <1>3, <2>1, <2>2 DEF ModelTimesOut
<1>4. CASE ModelFails
  <2>1. CASE End /\ UNCHANGED agent_messages
    BY <1>4, <2>1, CallsEnd DEF ModelFails
  <2>2. CASE NextRound /\ UNCHANGED agent_messages
    BY <1>4, <2>2, CallsStay DEF ModelFails, NextRound, InBatch
  <2>3. CASE NextRound /\ agent_messages' = repaired_agent
    <3>1. /\ Made(agent_messages') \subseteq Made(agent_messages)
          /\ Made(agent_messages') \subseteq Results(agent_messages')
      BY <1>1, <2>3, SanitizedLists DEF repaired_agent
    <3> QED BY <1>4, <2>3, <3>1, CallsStay DEF ModelFails, NextRound, InBatch
  <2> QED BY <1>4, <2>1, <2>2, <2>3 DEF ModelFails
<1>5. CASE Compacted
  <2>1. pc = "compacting" /\ pc' = "answered" /\ snapshot' = <<>>
    BY <1>5 DEF Compacted
  <2>2. CASE UNCHANGED agent_messages
    BY <1>1, <1>5, <2>1, <2>2, CallsStay DEF Compacted, InBatch
  <2>3. CASE agent_messages' = Replacement
    <3>1. /\ Made(agent_messages') \subseteq Made(snapshot)
          /\ Made(agent_messages') \subseteq Results(agent_messages')
      BY <2>1, <2>3, ReplacementLists
    <3> QED BY <1>1, <1>5, <2>1, <3>1, CallsStay DEF Compacted, InBatch
  <2> QED BY <1>5, <2>2, <2>3 DEF Compacted
<1> QED BY <1>2, <1>3, <1>4, <1>5

LEMMA CallsAnswers ==
    ASSUME Shape, CallsInv, NEW n \in 0..MaxBatch, NEW cut \in BOOLEAN, ModelAnswers(n, cut)
    PROVE  CallsInv'
<1>1. agent_messages \in Seq(Row) /\ snapshot \in Seq(Row) /\ callCount \in Nat /\ Hint \in Row
  BY SessionRows, Rows
<1>2. Made(agent_messages') = Made(agent_messages) /\ Results(agent_messages') = Results(agent_messages)
      /\ agent_messages' \in Seq(Row)
  <2>1. agent_messages' = agent_messages \/ agent_messages' = agent_messages \o <<Hint>>
    BY <1>1, Appended DEF ModelAnswers
  <2> QED BY <1>1, <2>1, PlainOnes, PlainLists
<1>3. Made(snapshot') \subseteq Made(agent_messages) \cup Made(snapshot)
  <2>1. snapshot' = snapshot \/ snapshot' = sanitize(agent_messages')
    BY DEF ModelAnswers
  <2>2. Made(sanitize(agent_messages')) \subseteq Made(agent_messages')
    BY <1>2, SanitizedLists
  <2> QED BY <1>2, <2>1, <2>2
<1>4. pc = "model" /\ pc' \in {"answered", "compacting"} /\ callCount' = callCount + n
      /\ calls' = [k \in 1..n |-> callCount + k] /\ firstCall' = firstCall
  BY DEF ModelAnswers
<1>5. \A c \in Range(calls') : c <= callCount'
  BY <1>1, <1>4 DEF Range
<1>6. \A c \in Made(agent_messages) \cup Made(snapshot) : c <= callCount'
  <2>1. Made(agent_messages) \cup Made(snapshot) \subseteq Nat
    <3>1. /\ \A i \in DOMAIN agent_messages : agent_messages[i] \in Row
          /\ \A i \in DOMAIN snapshot : snapshot[i] \in Row
      BY <1>1, KeptRow
    <3> QED BY <3>1 DEF Made, Row
  <2> QED BY <1>1, <1>4, <2>1 DEF CallsInv, CallsKnown
<1>7. CallsKnown'
  BY <1>2, <1>3, <1>4, <1>5, <1>6 DEF CallsKnown
<1>8. OpenInBatch'
  BY <1>2, <1>4 DEF CallsInv, OpenInBatch, InBatch
<1> QED BY <1>7, <1>8 DEF CallsInv

LEMMA CallsAnswer == Shape /\ CallsInv /\ (AnswerAgain \/ ReasoningOnly \/ Answer \/ Halted) => CallsInv'
<1> SUFFICES ASSUME Shape, CallsInv, AnswerAgain \/ ReasoningOnly \/ Answer \/ Halted PROVE CallsInv'
  OBVIOUS
<1> DEFINE a == agent_messages
<1>1. PICK u : Plain(u) /\ agent_messages' = a \o u
  <2>1. Plain(<<>>) /\ a \o <<>> = a
    BY PlainOnes, SessionRows
  <2> QED BY <2>1, PlainOnes, SessionRows DEF AnswerAgain, ReasoningOnly, Answer, Halted
<1>2. Made(agent_messages') = Made(agent_messages) /\ Results(agent_messages') = Results(agent_messages)
  BY <1>1, PlainLists, SessionRows
<1>3. CASE AnswerAgain \/ ReasoningOnly
  BY <1>2, <1>3, CallsStay DEF AnswerAgain, ReasoningOnly, NextRound, InBatch
<1>4. CASE Answer \/ Halted
  BY <1>2, <1>4, CallsEnd DEF Answer, Halted
<1> QED BY <1>3, <1>4

LEMMA CallsBegins ==
    ASSUME Shape, CallsInv, NEW text \in Texts, BeginBatch(text)
    PROVE  CallsInv'
<1>1. agent_messages \in Seq(Row) /\ messages \in Seq(Row) /\ calls \in Seq(Nat)
  BY SessionRows
<1>2. Range(calls) \in SUBSET Nat /\ text \in BOOLEAN
  <2>1. \A k \in DOMAIN calls : calls[k] \in Nat
    BY <1>1
  <2> QED BY <2>1, BoundsAssumption DEF Range
<1> DEFINE r == Assistant(Range(calls), text)
           t == <<r>>
<1>3. r \in Row /\ r.role = "assistant" /\ r.calls = Range(calls)
  BY <1>2, CallRow
<1>4. agent_messages' = Append(agent_messages, r)
  BY DEF BeginBatch
<1> HIDE DEF r
<1>5. agent_messages' = agent_messages \o t /\ t \in Seq(Row) /\ Made(t) = Range(calls)
  BY <1>1, <1>3, <1>4, Appended, OneRow
<1> HIDE DEF t
<1>6. /\ Made(agent_messages') = Made(agent_messages) \cup Range(calls)
      /\ Results(agent_messages) \subseteq Results(agent_messages')
  BY <1>1, <1>5, JoinedLists
<1>7. /\ pc = "answered" /\ pc' = "call" /\ calls' = calls /\ snapshot' = snapshot
      /\ callCount' = callCount /\ firstCall' = firstCall
  BY DEF BeginBatch
<1>8. CallsKnown'
  BY <1>6, <1>7 DEF CallsInv, CallsKnown
<1>9. OpenInBatch'
  BY <1>6, <1>7 DEF CallsInv, OpenInBatch, InBatch
<1> QED BY <1>8, <1>9 DEF CallsInv

\* The first call of the batch has its result, and the next one is the first.
LEMMA CallsAfter ==
    ASSUME Shape, CallsInv, InBatch, AfterCall, UNCHANGED <<callCount, snapshot>>,
           agent_messages' = agent_messages \o <<Result(Head(calls))>>
    PROVE  CallsInv'
<1>1. agent_messages \in Seq(Row) /\ calls \in Seq(Nat) /\ calls # <<>>
  BY SessionRows DEF Shape, BatchBounds
<1>2. /\ Head(calls) \in Nat /\ Tail(calls) \in Seq(Nat) /\ Len(Tail(calls)) = Len(calls) - 1
      /\ \A i \in 1..Len(Tail(calls)) : Tail(calls)[i] = calls[i + 1]
      /\ Head(calls) = calls[1]
  BY <1>1, HeadTailProperties
<1>3. Range(calls) = {Head(calls)} \cup Range(Tail(calls))
  <2> DEFINE w == Tail(calls)
  <2>1. /\ DOMAIN calls = 1..Len(calls) /\ Len(calls) \in Nat /\ DOMAIN w = 1..Len(w) /\ Len(w) = Len(calls) - 1
        /\ Len(calls) >= 1 /\ \A i \in 1..Len(w) : w[i] = calls[i + 1]
    BY <1>1, <1>2
  <2> HIDE DEF w
  <2>2. \A x \in Range(calls) : x = Head(calls) \/ x \in Range(w)
    <3>1. ASSUME NEW i \in DOMAIN calls PROVE calls[i] = Head(calls) \/ \E j \in DOMAIN w : w[j] = calls[i]
      <4>1. CASE i = 1
        BY <1>2, <4>1
      <4>2. CASE i # 1
        <5>1. i - 1 \in DOMAIN w /\ (i - 1) + 1 = i
          BY <2>1, <4>2
        <5> QED BY <2>1, <5>1
      <4> QED BY <4>1, <4>2
    <3> QED BY <3>1 DEF Range
  <2>3. \A x \in Range(w) : x \in Range(calls)
    <3>1. \A j \in DOMAIN w : j + 1 \in DOMAIN calls /\ w[j] = calls[j + 1]
      BY <2>1
    <3> QED BY <3>1 DEF Range
  <2>4. Head(calls) \in Range(calls)
    BY <1>2, <2>1 DEF Range
  <2> QED BY <2>2, <2>3, <2>4 DEF w
<1> DEFINE r == Result(Head(calls))
           t == <<r>>
<1>4. r \in Row /\ r.role = "tool" /\ r.of = Head(calls) /\ r.calls = {}
  BY <1>2, Rows
<1>5. t \in Seq(Row) /\ Made(t) = {} /\ Results(t) = {Head(calls)} /\ agent_messages' = agent_messages \o t
  <2> HIDE DEF r
  <2> QED BY <1>4, OneRow DEF r
<1> HIDE DEF t
<1>6. /\ Made(agent_messages') = Made(agent_messages)
      /\ Results(agent_messages') = Results(agent_messages) \cup {Head(calls)}
  <2>1. /\ Made(agent_messages \o t) = Made(agent_messages) \cup Made(t)
        /\ Results(agent_messages \o t) = Results(agent_messages) \cup Results(t)
    BY <1>1, <1>5, JoinedLists
  <2> QED BY <1>5, <2>1
<1>7. /\ calls' = Tail(calls) /\ firstCall' = firstCall /\ snapshot' = snapshot /\ callCount' = callCount
      /\ pc' \in {"round", "call"} /\ (Tail(calls) # <<>> => pc' = "call")
  BY DEF AfterCall
<1>8. Range(<<>>) = {}
  BY RangeEmpty
<1>9. CallsKnown'
  BY <1>3, <1>6, <1>7 DEF CallsInv, CallsKnown
<1>10. OpenInBatch'
  <2>1. ASSUME NEW c \in Made(agent_messages), c > firstCall
        PROVE  c \in Results(agent_messages') \/ (InBatch' /\ c \in Range(Tail(calls)))
    <3>1. c \in Results(agent_messages) \/ c \in Range(calls)
      BY <2>1 DEF CallsInv, OpenInBatch
    <3>2. c \in Range(Tail(calls)) => InBatch'
      BY <1>7, <1>8 DEF InBatch
    <3> QED BY <1>3, <1>6, <3>1, <3>2
  <2> QED BY <1>6, <1>7, <2>1 DEF OpenInBatch
<1> QED BY <1>9, <1>10 DEF CallsInv

LEMMA CallsBatch ==
    ASSUME Shape, CallsInv, Refused \/ Dispatch \/ (\E warned \in BOOLEAN : ToolReturns(warned)) \/ LoopHalts
    PROVE  CallsInv'
<1>1. agent_messages \in Seq(Row) /\ calls \in Seq(Nat)
  BY SessionRows
<1>2. ASSUME InBatch PROVE Head(calls) \in Nat /\ Result(Head(calls)) \in Row /\ Result(Head(calls)).calls = {}
                           /\ refusal(Head(calls)) = <<Result(Head(calls))>>
  <2>1. Head(calls) \in Nat
    BY <1>1, <1>2, HeadTailProperties DEF Shape, BatchBounds
  <2> QED BY <2>1, Rows DEF refusal
<1>3. CASE Refused
  <2>1. InBatch /\ agent_messages' = agent_messages \o <<Result(Head(calls))>>
    BY <1>2, <1>3 DEF Refused, InBatch
  <2>2. CASE End
    <3> DEFINE t == <<Result(Head(calls))>>
    <3>1. t \in Seq(Row) /\ Made(t) = {}
      BY <1>2, <2>1, OneRow
    <3> HIDE DEF t
    <3>2. Made(agent_messages \o t) = Made(agent_messages) \cup Made(t)
      BY <1>1, <3>1, JoinedLists
    <3>3. Made(agent_messages') = Made(agent_messages)
      BY <2>1, <3>1, <3>2 DEF t
    <3> QED BY <1>3, <2>2, <3>3, CallsEnd DEF Refused
  <2>3. CASE AfterCall
    BY <1>3, <2>1, <2>3, CallsAfter DEF Refused
  <2> QED BY <1>3, <2>2, <2>3 DEF Refused
<1>4. CASE Dispatch
  BY <1>4 DEF Dispatch, localVars, sessionVars, CallsInv, CallsKnown, OpenInBatch, InBatch
<1>5. ASSUME NEW warned \in BOOLEAN, ToolReturns(warned) PROVE CallsInv'
  <2>1. InBatch /\ AfterCall /\ agent_messages' = Append(agent_messages, Result(Head(calls)))
    BY <1>5 DEF ToolReturns, InBatch
  <2>2. agent_messages' = agent_messages \o <<Result(Head(calls))>>
    BY <1>1, <1>2, <2>1, Appended
  <2> QED BY <1>5, <2>1, <2>2, CallsAfter DEF ToolReturns
<1>6. CASE LoopHalts
  <2> DEFINE rest == [k \in DOMAIN calls |-> Result(calls[k])]
  <2>1. rest \in Seq(Row) /\ Made(rest) = {} /\ Results(rest) = Range(calls)
    BY <1>1, RestRows
  <2>2. /\ agent_messages' = agent_messages \o rest /\ calls' = <<>> /\ pc = "tool" /\ pc' = "halting"
        /\ callCount' = callCount /\ snapshot' = snapshot /\ firstCall' = firstCall
    BY <1>6 DEF LoopHalts
  <2> HIDE DEF rest
  <2>3. /\ Made(agent_messages') = Made(agent_messages)
        /\ Results(agent_messages') = Results(agent_messages) \cup Range(calls)
    <3>1. /\ Made(agent_messages \o rest) = Made(agent_messages) \cup Made(rest)
          /\ Results(agent_messages \o rest) = Results(agent_messages) \cup Results(rest)
      BY <1>1, <2>1, JoinedLists
    <3> QED BY <2>1, <2>2, <3>1
  <2>4. Range(calls') = {}
    BY <2>2, RangeEmpty
  <2>5. CallsKnown'
    BY <2>2, <2>3, <2>4 DEF CallsInv, CallsKnown
  <2>6. OpenInBatch'
    BY <2>2, <2>3 DEF CallsInv, OpenInBatch
  <2> QED BY <2>5, <2>6 DEF CallsInv
<1> QED BY <1>3, <1>4, <1>5, <1>6

LEMMA CallsNext == Shape /\ CallsInv /\ [TurnNext]_turnVars => CallsInv'
<1> SUFFICES ASSUME Shape, CallsInv, [TurnNext]_turnVars PROVE CallsInv'
  OBVIOUS
<1>1. CASE Starting
  BY <1>1, CallsStart
<1>2. CASE Stops \/ ModelTimesOut \/ ModelFails \/ Compacted
  BY <1>2, CallsModel
<1>3. CASE \E n \in 0..MaxBatch, cut \in BOOLEAN : ModelAnswers(n, cut)
  BY <1>3, CallsAnswers
<1>4. CASE AnswerAgain \/ ReasoningOnly \/ Answer \/ Halted
  BY <1>4, CallsAnswer
<1>5. CASE \E text \in Texts : BeginBatch(text)
  BY <1>5, CallsBegins
<1>6. CASE Refused \/ Dispatch \/ (\E warned \in BOOLEAN : ToolReturns(warned)) \/ LoopHalts
  BY <1>6, CallsBatch
<1>7. CASE UNCHANGED turnVars
  BY <1>7 DEF CallsInv, CallsKnown, OpenInBatch, InBatch, turnVars, localVars, sessionVars
<1> QED BY <1>1, <1>2, <1>3, <1>4, <1>5, <1>6, <1>7 DEF TurnNext, Step, Starting

\* No call of the turn is open when the model is called again.
THEOREM BatchCorrect == TurnSpec => []BatchIsAnswered
<1>1. TurnSpec => []CallsInv
  BY ShapeCorrect, CallsInit, CallsNext, PTL DEF TurnSpec
<1>2. Shape /\ CallsInv => BatchIsAnswered
  BY SessionRows, Elements DEF CallsInv, OpenInBatch, InBatch, BatchIsAnswered
<1> QED BY <1>1, <1>2, ShapeCorrect, PTL

-----------------------------------------------------------------------------
(* The rows of a batch that is under way.                                   *)

\* Nothing but results and reminders is after row i.
AtEnd(s, i) == \A k \in DOMAIN s : k > i => s[k].role = "tool" \/ s[k] = Hint

\* Paired, but for calls in C that the last rows are still to answer.
PairedBut(s, C) ==
    /\ \A j \in DOMAIN s : s[j].role = "tool" =>
          \E i \in DOMAIN s : Follows(s, i, j) /\ s[i].role = "assistant" /\ s[j].of \in s[i].calls
    /\ \A i \in DOMAIN s : s[i].role = "assistant" =>
          \A c \in s[i].calls :
             \/ \E j \in DOMAIN s : Follows(s, i, j) /\ s[j].role = "tool" /\ s[j].of = c
             \/ c \in C /\ AtEnd(s, i)
    /\ \A c \in C : \E i \in DOMAIN s : s[i].role = "assistant" /\ c \in s[i].calls /\ AtEnd(s, i)

\* While a batch is under way, the calls that are left may be open; before it, and
\* when the rest of it got its results, none is.
BatchInv ==
    /\ pc \in {"model", "compacting", "answered", "halting"} => PairedBut(messages, {})
    /\ InBatch => PairedBut(messages, Range(calls))

LEMMA PairedWellFormed == ASSUME NEW s \in Seq(Row), WellFormed(s) PROVE PairedBut(s, {})
BY DEF WellFormed, InBlock, PairedBut, Follows

\* Rows appended to a batch: results of calls in C and reminders.
LEMMA BatchGoesOn ==
    ASSUME NEW s \in Seq(Row), NEW t \in Seq(Row), NEW C, NEW D, PairedBut(s, C), D \subseteq C,
           \A k \in DOMAIN t : t[k] = Hint \/ (t[k].role = "tool" /\ t[k].of \in C),
           \A c \in C \ D : \E k \in DOMAIN t : t[k].role = "tool" /\ t[k].of = c
    PROVE  PairedBut(s \o t, D)
<1> DEFINE u == s \o t
<1>1. /\ Len(s) \in Nat /\ Len(t) \in Nat
      /\ DOMAIN s = 1..Len(s) /\ DOMAIN t = 1..Len(t)
      /\ DOMAIN u = 1..(Len(s) + Len(t))
      /\ \A i \in DOMAIN s : i \in DOMAIN u /\ u[i] = s[i]
      /\ \A j \in DOMAIN t : Len(s) + j \in DOMAIN u /\ u[Len(s) + j] = t[j]
      /\ \A i \in DOMAIN u :
            i \in DOMAIN s \/ (i - Len(s) \in DOMAIN t /\ i = Len(s) + (i - Len(s)))
  BY Joined
<1> HIDE DEF u
<1>2. \A i, j \in DOMAIN s : Follows(s, i, j) => Follows(u, i, j)
  <2>1. \A i, j \in DOMAIN s : \A k \in (i + 1)..j : k \in DOMAIN s /\ u[k] = s[k]
    BY <1>1
  <2> QED BY <2>1 DEF Follows
<1>3. \A k \in DOMAIN t : t[k].role = "tool" \/ t[k] = Hint
  OBVIOUS
<1>4. \A i \in DOMAIN s : AtEnd(s, i) => AtEnd(u, i)
  BY <1>1, <1>3 DEF AtEnd
<1>5. ASSUME NEW i \in DOMAIN s, AtEnd(s, i), NEW k \in DOMAIN t
      PROVE  Len(s) + k \in DOMAIN u /\ Follows(u, i, Len(s) + k)
  <2>1. i < Len(s) + k
    BY <1>1
  <2>2. \A n \in (i + 1)..(Len(s) + k) : n \in DOMAIN u /\ n > i
    BY <1>1
  <2>3. AtEnd(u, i)
    BY <1>4, <1>5
  <2>4. \A n \in (i + 1)..(Len(s) + k) : u[n].role = "tool" \/ u[n] = Hint
    BY <2>2, <2>3 DEF AtEnd
  <2> QED BY <1>1, <2>1, <2>4 DEF Follows
<1>6. ASSUME NEW j \in DOMAIN u, u[j].role = "tool"
      PROVE  \E i \in DOMAIN u : Follows(u, i, j) /\ u[i].role = "assistant" /\ u[j].of \in u[i].calls
  <2>1. CASE j \in DOMAIN s
    <3>1. PICK i \in DOMAIN s : Follows(s, i, j) /\ s[i].role = "assistant" /\ s[j].of \in s[i].calls
      BY <1>1, <1>6, <2>1 DEF PairedBut
    <3> QED BY <1>1, <1>2, <2>1, <3>1
  <2>2. CASE j \notin DOMAIN s
    <3>1. PICK k \in DOMAIN t : j = Len(s) + k /\ u[j] = t[k]
      BY <1>1, <2>2
    <3>2. u[j].of \in C
      <4>1. Hint.role = "note"
        BY Rows
      <4> QED BY <1>6, <3>1, <4>1
    <3>3. PICK i \in DOMAIN s : s[i].role = "assistant" /\ u[j].of \in s[i].calls /\ AtEnd(s, i)
      BY <3>2 DEF PairedBut
    <3> QED BY <1>1, <1>5, <3>1, <3>3
  <2> QED BY <2>1, <2>2
<1>7. ASSUME NEW i \in DOMAIN u, u[i].role = "assistant", NEW c \in u[i].calls
      PROVE  \/ \E j \in DOMAIN u : Follows(u, i, j) /\ u[j].role = "tool" /\ u[j].of = c
             \/ c \in D /\ AtEnd(u, i)
  <2>1. i \in DOMAIN s /\ u[i] = s[i]
    <3>1. Hint.role = "note"
      BY Rows
    <3> QED BY <1>1, <1>3, <1>7, <3>1
  <2>2. CASE \E j \in DOMAIN s : Follows(s, i, j) /\ s[j].role = "tool" /\ s[j].of = c
    BY <1>1, <1>2, <2>1, <2>2
  <2>3. CASE c \in C /\ AtEnd(s, i)
    <3>1. CASE c \in D
      BY <1>4, <2>1, <2>3, <3>1
    <3>2. CASE c \notin D
      <4>1. PICK k \in DOMAIN t : t[k].role = "tool" /\ t[k].of = c
        BY <2>3, <3>2
      <4> QED BY <1>1, <1>5, <2>1, <2>3, <4>1
    <3> QED BY <3>1, <3>2
  <2> QED BY <1>7, <2>1, <2>2, <2>3 DEF PairedBut
<1>8. ASSUME NEW c \in D
      PROVE  \E i \in DOMAIN u : u[i].role = "assistant" /\ c \in u[i].calls /\ AtEnd(u, i)
  <2>1. PICK i \in DOMAIN s : s[i].role = "assistant" /\ c \in s[i].calls /\ AtEnd(s, i)
    BY <1>8 DEF PairedBut
  <2> QED BY <1>1, <1>4, <2>1
<1>9. PairedBut(u, D)
  BY <1>6, <1>7, <1>8 DEF PairedBut
<1> QED BY <1>9 DEF u

\* The row that makes the calls of a batch opens them all.
LEMMA BatchOpens ==
    ASSUME NEW s \in Seq(Row), PairedBut(s, {}), NEW r \in Row, r.role = "assistant"
    PROVE  PairedBut(s \o <<r>>, r.calls)
<1> DEFINE t == <<r>>
           u == s \o t
<1>0. t \in Seq(Row) /\ DOMAIN t = {1} /\ t[1] = r
  OBVIOUS
<1> HIDE DEF t
<1>1. /\ Len(s) \in Nat /\ DOMAIN s = 1..Len(s)
      /\ \A i \in DOMAIN s : i \in DOMAIN u /\ u[i] = s[i]
      /\ Len(s) + 1 \in DOMAIN u /\ u[Len(s) + 1] = r
      /\ \A i \in DOMAIN u : i \in DOMAIN s \/ i = Len(s) + 1
  BY <1>0, Joined
<1> HIDE DEF u
<1>2. \A i, j \in DOMAIN s : Follows(s, i, j) => Follows(u, i, j)
  <2>1. \A i, j \in DOMAIN s : \A k \in (i + 1)..j : k \in DOMAIN s /\ u[k] = s[k]
    BY <1>1
  <2> QED BY <2>1 DEF Follows
<1>3. AtEnd(u, Len(s) + 1)
  BY <1>1 DEF AtEnd
<1>4. PairedBut(u, r.calls)
  <2>1. ASSUME NEW j \in DOMAIN u, u[j].role = "tool"
        PROVE  \E i \in DOMAIN u : Follows(u, i, j) /\ u[i].role = "assistant" /\ u[j].of \in u[i].calls
    <3>1. j \in DOMAIN s /\ u[j] = s[j]
      BY <1>1, <2>1
    <3>2. PICK i \in DOMAIN s : Follows(s, i, j) /\ s[i].role = "assistant" /\ s[j].of \in s[i].calls
      BY <2>1, <3>1 DEF PairedBut
    <3> QED BY <1>1, <1>2, <3>1, <3>2
  <2>2. ASSUME NEW i \in DOMAIN u, u[i].role = "assistant", NEW c \in u[i].calls
        PROVE  \/ \E j \in DOMAIN u : Follows(u, i, j) /\ u[j].role = "tool" /\ u[j].of = c
               \/ c \in r.calls /\ AtEnd(u, i)
    <3>1. CASE i = Len(s) + 1
      BY <1>1, <1>3, <2>2, <3>1
    <3>2. CASE i \in DOMAIN s
      <4>1. PICK j \in DOMAIN s : Follows(s, i, j) /\ s[j].role = "tool" /\ s[j].of = c
        BY <1>1, <2>2, <3>2 DEF PairedBut
      <4> QED BY <1>1, <1>2, <3>2, <4>1
    <3> QED BY <1>1, <3>1, <3>2
  <2> QED BY <1>1, <1>3, <2>1, <2>2 DEF PairedBut
<1> QED BY <1>4 DEF t, u

\* A step that leaves the batch, the rows and the stage as they are, or leads to a
\* stage where nothing is said.
LEMMA BatchElsewhere ==
    ASSUME pc' \in {"idle", "phase", "starting", "begun", "round"}
    PROVE  BatchInv'
BY DEF BatchInv, InBatch

LEMMA BatchHints ==
    ASSUME NEW s \in Seq(Row), PairedBut(s, {})
    PROVE  PairedBut(Append(s, Hint), {})
<1>1. <<Hint>> \in Seq(Row) /\ DOMAIN <<Hint>> = {1} /\ <<Hint>>[1] = Hint /\ Append(s, Hint) = s \o <<Hint>>
  BY Rows, Appended
<1> DEFINE t == <<Hint>>
<1> HIDE DEF t
<1>2. t \in Seq(Row) /\ DOMAIN t = {1} /\ t[1] = Hint /\ Append(s, Hint) = s \o t
  BY <1>1 DEF t
<1> QED BY <1>2, BatchGoesOn

LEMMA JoinedMembers ==
    ASSUME NEW s \in Seq(Row), NEW t \in Seq(Row)
    PROVE  /\ s \o t \in Seq(Row)
           /\ \A k \in DOMAIN (s \o t) : \/ \E i \in DOMAIN s : (s \o t)[k] = s[i]
                                        \/ \E i \in DOMAIN t : (s \o t)[k] = t[i]
           /\ \A i \in DOMAIN s : \E k \in DOMAIN (s \o t) : (s \o t)[k] = s[i]
           /\ \A i \in DOMAIN t : \E k \in DOMAIN (s \o t) : (s \o t)[k] = t[i]
<1> DEFINE u == s \o t
<1>1. /\ u \in Seq(Row)
      /\ \A i \in DOMAIN s : i \in DOMAIN u /\ u[i] = s[i]
      /\ \A j \in DOMAIN t : Len(s) + j \in DOMAIN u /\ u[Len(s) + j] = t[j]
      /\ \A i \in DOMAIN u :
            i \in DOMAIN s \/ (i - Len(s) \in DOMAIN t /\ i = Len(s) + (i - Len(s)))
  BY Joined
<1> HIDE DEF u
<1>2. \A k \in DOMAIN u : \/ \E i \in DOMAIN s : u[k] = s[i]
                         \/ \E i \in DOMAIN t : u[k] = t[i]
  BY <1>1
<1> QED BY <1>1, <1>2 DEF u

LEMMA BatchRounds ==
    ASSUME Shape, BatchInv,
           \/ Starting \/ Stops \/ ModelTimesOut \/ ModelFails
           \/ (\E n \in 0..MaxBatch, cut \in BOOLEAN : ModelAnswers(n, cut))
           \/ Compacted \/ AnswerAgain \/ ReasoningOnly \/ Answer \/ Halted
    PROVE  BatchInv'
<1>1. messages \in Seq(Row) /\ agent_messages \in Seq(Row)
  BY SessionRows
<1>2. CASE StartTurn \/ PhaseCompacted \/ StartCompacted \/ Begun \/ Stops \/ ModelTimesOut
           \/ ModelFails \/ AnswerAgain \/ ReasoningOnly \/ Answer \/ Halted
  <2>1. pc' \in {"idle", "phase", "starting", "begun", "round"}
    BY <1>2 DEF StartTurn, PhaseCompacted, StartCompacted, Begin, Begun, Stops, ModelTimesOut,
                ModelFails, AnswerAgain, ReasoningOnly, Answer, Halted, End, NextRound
  <2> QED BY <2>1, BatchElsewhere
<1>3. CASE RoundStarts
  <2>1. pc' = "model" /\ Shape'
    BY <1>3, ShapeStart DEF RoundStarts, Starting
  <2>2. messages' \in Seq(Row) /\ WellFormed(messages')
    BY <2>1 DEF Shape, TurnTypeOK, ModelGiven
  <2> QED BY <2>1, <2>2, PairedWellFormed DEF BatchInv, InBatch
<1>4. CASE Inject
  BY <1>4 DEF Inject, BatchInv, InBatch, localVars
<1>5. ASSUME NEW n \in 0..MaxBatch, NEW cut \in BOOLEAN, ModelAnswers(n, cut) PROVE BatchInv'
  <2>1. /\ pc = "model" /\ pc' \in {"answered", "compacting"}
        /\ messages' = messages \/ messages' = Append(messages, Hint)
    BY <1>5 DEF ModelAnswers
  <2>2. PairedBut(messages', {})
    BY <1>1, <2>1, BatchHints DEF BatchInv
  <2> QED BY <2>1, <2>2 DEF BatchInv, InBatch
<1>6. CASE Compacted
  <2>1. pc = "compacting" /\ pc' = "answered" /\ (messages' = messages \/ messages' = Replacement)
    BY <1>6 DEF Compacted
  <2>2. Replacement \in Seq(Row) /\ WellFormed(Replacement)
    <3>1. compacted(snapshot, Retain) \in Seq(Row)
      BY <2>1, ReplacementLists
    <3> QED BY <3>1, Sanitized, SanitizedWellFormed DEF Replacement
  <2>3. PairedBut(messages', {})
    BY <2>1, <2>2, PairedWellFormed DEF BatchInv
  <2> QED BY <2>1, <2>3 DEF BatchInv, InBatch
<1> QED BY <1>2, <1>3, <1>4, <1>5, <1>6 DEF Starting

LEMMA BatchSteps ==
    ASSUME Shape, BatchInv,
           \/ (\E text \in Texts : BeginBatch(text)) \/ Refused \/ Dispatch
           \/ (\E warned \in BOOLEAN : ToolReturns(warned)) \/ LoopHalts
    PROVE  BatchInv'
<1>1. messages \in Seq(Row) /\ calls \in Seq(Nat)
  BY SessionRows
<1>2. \A k \in DOMAIN calls : calls[k] \in Nat
  BY <1>1
<1>3. ASSUME NEW text \in Texts, BeginBatch(text) PROVE BatchInv'
  <2> DEFINE r == Assistant(Range(calls), text)
  <2>1. r \in Row /\ r.role = "assistant" /\ r.calls = Range(calls)
    <3>1. Range(calls) \in SUBSET Nat /\ text \in BOOLEAN
      BY <1>2, BoundsAssumption DEF Range
    <3> QED BY <3>1, CallRow
  <2>2. /\ pc = "answered" /\ pc' = "call" /\ calls' = calls
        /\ messages' = Append(messages, r)
    BY <1>3 DEF BeginBatch
  <2> HIDE DEF r
  <2>3. messages' = messages \o <<r>>
    BY <1>1, <2>1, <2>2, Appended
  <2>4. PairedBut(messages', r.calls)
    BY <1>1, <2>1, <2>2, <2>3, BatchOpens DEF BatchInv
  <2> QED BY <2>1, <2>2, <2>4 DEF BatchInv, InBatch
<1>4. ASSUME InBatch, AfterCall, NEW t \in Seq(Row), messages' = messages \o t,
             \A k \in DOMAIN t : t[k] = Hint \/ t[k] = Result(Head(calls)),
             \E k \in DOMAIN t : t[k] = Result(Head(calls))
      PROVE  BatchInv'
  <2>1. calls # <<>>
    BY <1>4 DEF Shape, BatchBounds
  <2>2. /\ Head(calls) \in Range(calls) /\ Head(calls) \in Nat
        /\ Range(Tail(calls)) \subseteq Range(calls)
        /\ Range(calls) \subseteq Range(Tail(calls)) \cup {Head(calls)}
    <3>1. /\ Len(calls) \in Nat /\ Len(calls) > 0 /\ DOMAIN calls = 1..Len(calls)
          /\ Head(calls) = calls[1] /\ Tail(calls) \in Seq(Nat) /\ Len(Tail(calls)) = Len(calls) - 1
          /\ \A k \in 1..(Len(calls) - 1) : Tail(calls)[k] = calls[k + 1]
      BY <1>1, <2>1, HeadTailProperties
    <3>2. DOMAIN Tail(calls) = 1..(Len(calls) - 1)
      BY <3>1
    <3>3. \A x \in Range(Tail(calls)) : x \in Range(calls)
      BY <3>1, <3>2 DEF Range
    <3>4. ASSUME NEW k \in DOMAIN calls, k # 1 PROVE calls[k] \in Range(Tail(calls))
      <4>1. k - 1 \in 1..(Len(calls) - 1) /\ Tail(calls)[k - 1] = calls[(k - 1) + 1]
        BY <3>1, <3>4
      <4> QED BY <3>2, <4>1 DEF Range
    <3>5. \A x \in Range(calls) : x \in Range(Tail(calls)) \/ x = Head(calls)
      BY <3>1, <3>4 DEF Range
    <3>6. Head(calls) \in Range(calls) /\ Head(calls) \in Nat
      BY <1>2, <3>1 DEF Range
    <3> QED BY <3>3, <3>5, <3>6
  <2> DEFINE x == Result(Head(calls))
  <2>3. x.role = "tool" /\ x.of = Head(calls)
    BY <2>2, Rows
  <2> HIDE DEF x
  <2>4. /\ \A k \in DOMAIN t : t[k] = Hint \/ (t[k].role = "tool" /\ t[k].of \in Range(calls))
        /\ \E k \in DOMAIN t : t[k].role = "tool" /\ t[k].of = Head(calls)
    BY <1>4, <2>2, <2>3 DEF x
  <2>5. \A c \in Range(calls) \ Range(Tail(calls)) :
           \E k \in DOMAIN t : t[k].role = "tool" /\ t[k].of = c
    BY <2>2, <2>4
  <2>6. PairedBut(messages', Range(Tail(calls)))
    <3>1. PairedBut(messages, Range(calls))
      BY <1>4 DEF BatchInv
    <3> QED BY <1>1, <1>4, <2>2, <2>4, <2>5, <3>1, BatchGoesOn
  <2>7. pc' \in {"round", "call"} /\ calls' = Tail(calls)
    BY <1>4 DEF AfterCall
  <2> QED BY <2>6, <2>7 DEF BatchInv, InBatch
<1> DEFINE x == Result(Head(calls))
<1>5. ASSUME InBatch
      PROVE  /\ <<x>> \in Seq(Row) /\ <<Hint, x>> \in Seq(Row)
             /\ DOMAIN <<x>> = {1} /\ <<x>>[1] = x
             /\ DOMAIN <<Hint, x>> = {1, 2} /\ <<Hint, x>>[1] = Hint /\ <<Hint, x>>[2] = x
  <2>1. Head(calls) \in Nat
    BY <1>1, <1>5, HeadTailProperties DEF Shape, BatchBounds
  <2>2. x \in Row /\ Hint \in Row
    BY <2>1, Rows
  <2> HIDE DEF x
  <2> QED BY <2>2
<1>6. CASE Refused
  <2>1. InBatch
    BY <1>6 DEF Refused, InBatch
  <2>2. CASE End
    BY <2>2, BatchElsewhere DEF End
  <2>3. CASE messages' = messages \o refusal(Head(calls)) /\ AfterCall
    <3>1. messages' = messages \o <<x>>
      BY <2>3 DEF refusal
    <3> QED BY <1>4, <1>5, <2>1, <2>3, <3>1
  <2> QED BY <1>6, <2>2, <2>3 DEF Refused
<1>7. CASE Dispatch
  BY <1>7 DEF Dispatch, BatchInv, InBatch, localVars
<1>8. ASSUME NEW warned \in BOOLEAN, ToolReturns(warned) PROVE BatchInv'
  <2>1. InBatch /\ AfterCall
    BY <1>8 DEF ToolReturns, InBatch
  <2>2. messages' = messages \o <<Hint, x>> \/ messages' = messages \o <<x>>
    BY <1>8 DEF ToolReturns
  <2>3. CASE messages' = messages \o <<Hint, x>>
    BY <1>4, <1>5, <2>1, <2>3
  <2>4. CASE messages' = messages \o <<x>>
    BY <1>4, <1>5, <2>1, <2>4
  <2> QED BY <2>2, <2>3, <2>4
<1>9. CASE LoopHalts
  <2> DEFINE rest == [k \in DOMAIN calls |-> Result(calls[k])]
             h == <<Hint>>
             t == h \o rest
             v == t \o h
  <2>1. /\ rest \in Seq(Row) /\ DOMAIN rest = DOMAIN calls
        /\ \A k \in DOMAIN rest : rest[k].role = "tool" /\ rest[k].of = calls[k]
    <3>1. \A k \in DOMAIN calls : Result(calls[k]).role = "tool" /\ Result(calls[k]).of = calls[k]
      BY <1>2, Rows
    <3> QED BY <1>1, <3>1, RestRows
  <2>2. h \in Seq(Row) /\ DOMAIN h = {1} /\ h[1] = Hint
    BY Rows
  <2>3. /\ pc = "tool" /\ pc' = "halting" /\ messages' = messages \o h \o rest \o h
    BY <1>9 DEF LoopHalts
  <2> HIDE DEF rest, h
  <2>4. /\ t \in Seq(Row)
        /\ \A k \in DOMAIN t : t[k] = Hint \/ \E n \in DOMAIN rest : t[k] = rest[n]
        /\ \A n \in DOMAIN rest : \E k \in DOMAIN t : t[k] = rest[n]
    <3>1. /\ t \in Seq(Row)
          /\ \A k \in DOMAIN t : (\E i \in DOMAIN h : t[k] = h[i]) \/ \E i \in DOMAIN rest : t[k] = rest[i]
          /\ \A n \in DOMAIN rest : \E k \in DOMAIN t : t[k] = rest[n]
      BY <2>1, <2>2, JoinedMembers
    <3> HIDE DEF t
    <3> QED BY <2>2, <3>1
  <2>5. messages \o h \o rest = messages \o t
    BY <1>1, <2>1, <2>2, ConcatAssociative
  <2> HIDE DEF t
  <2>6. /\ v \in Seq(Row)
        /\ \A k \in DOMAIN v : v[k] = Hint \/ \E n \in DOMAIN t : v[k] = t[n]
        /\ \A n \in DOMAIN t : \E k \in DOMAIN v : v[k] = t[n]
    <3>1. /\ v \in Seq(Row)
          /\ \A k \in DOMAIN v : (\E i \in DOMAIN t : v[k] = t[i]) \/ \E i \in DOMAIN h : v[k] = h[i]
          /\ \A n \in DOMAIN t : \E k \in DOMAIN v : v[k] = t[n]
      BY <2>2, <2>4, JoinedMembers
    <3> HIDE DEF v
    <3> QED BY <2>2, <3>1
  <2>7. messages' = messages \o v
    <3>1. messages' = messages \o t \o h
      BY <2>3, <2>5
    <3>2. messages \in Seq(Row) /\ t \in Seq(Row) /\ h \in Seq(Row)
      BY <1>1, <2>2, <2>4
    <3>3. messages \o t \o h = messages \o (t \o h)
      BY <3>2, ConcatAssociative
    <3> QED BY <3>1, <3>3
  <2> HIDE DEF v
  <2>8. /\ \A k \in DOMAIN v : v[k] = Hint \/ \E n \in DOMAIN rest : v[k] = rest[n]
        /\ \A n \in DOMAIN rest : \E k \in DOMAIN v : v[k] = rest[n]
    BY <2>4, <2>6
  <2>9. /\ \A k \in DOMAIN v : v[k] = Hint \/ (v[k].role = "tool" /\ v[k].of \in Range(calls))
        /\ \A c \in Range(calls) : \E k \in DOMAIN v : v[k].role = "tool" /\ v[k].of = c
    BY <2>1, <2>8 DEF Range
  <2>10. PairedBut(messages', {})
    <3>1. PairedBut(messages, Range(calls))
      BY <2>3 DEF BatchInv, InBatch
    <3> QED BY <1>1, <2>6, <2>7, <2>9, <3>1, BatchGoesOn
  <2> QED BY <2>3, <2>10 DEF BatchInv, InBatch
<1> QED BY <1>3, <1>6, <1>7, <1>8, <1>9

LEMMA BatchCorrectNext == Shape /\ BatchInv /\ [TurnNext]_turnVars => BatchInv'
<1>1. ASSUME UNCHANGED turnVars, BatchInv PROVE BatchInv'
  BY <1>1 DEF BatchInv, InBatch, turnVars, localVars
<1> QED BY <1>1, BatchRounds, BatchSteps DEF TurnNext, Step, Starting

\* The model is called with well-formed rows at every round.  The one call with rows
\* that were not repaired, for the summary of a halted loop, has every call answered
\* and every result asked for, with nothing but results and reminders between.  And a
\* compaction that waits does not part a call from its results.
THEOREM PairsCorrect == TurnSpec => []PairsStayTogether
<1>1. Shape /\ BatchInv => PairsStayTogether
  <2> SUFFICES ASSUME Shape, BatchInv PROVE PairsStayTogether
    OBVIOUS
  <2>1. ASSUME pc \in {"phase", "starting", "compacting"}
        PROVE  WellFormed(Tail(compacted(snapshot, Retain)))
    <3>1. snapshot \in Seq(Row) /\ CanCompact(snapshot, Retain) /\ WellFormed(snapshot)
      BY <2>1 DEF Shape, TurnTypeOK, Snapshots
    <3> DEFINE t == Left(snapshot)
    <3>2. /\ t \in Seq(Row) /\ compacted(snapshot, Retain) = <<Summary>> \o t /\ WellFormed(t)
      BY <3>1, Compaction
    <3> HIDE DEF t
    <3>3. Tail(<<Summary>> \o t) = t
      BY <3>2
    <3> QED BY <3>2, <3>3
  <2>2. pc = "halting" => Paired(messages)
    BY DEF BatchInv, PairedBut, Paired
  <2> QED BY <2>1, <2>2 DEF Shape, ModelGiven, PairsStayTogether
<1>2. TurnInit => BatchInv
  BY DEF TurnInit, BatchInv, InBatch
<1>3. TurnSpec => []BatchInv
  BY <1>2, ShapeCorrect, BatchCorrectNext, PTL DEF TurnSpec
<1> QED BY <1>1, <1>3, ShapeCorrect, PTL

-----------------------------------------------------------------------------
(* The results of a batch are shown to the model.                           *)

\* The results that are to be shown follow their calls, and no reminder is between.
ShownAnswered ==
    /\ shown \subseteq AnsweredIn(messages)
    /\ pc \in {"idle", "phase", "starting", "begun"} => shown = {}

\* The row of a batch that is under way makes the calls that are left, and nothing
\* but results and reminders follows it.
BatchRow ==
    InBatch => \E i \in DOMAIN messages :
       /\ messages[i].role = "assistant" /\ Range(calls) \subseteq messages[i].calls
       /\ \A j \in DOMAIN messages : j > i => messages[j].role \in {"tool", "note"}

ShownInv == ShownAnswered /\ BatchRow

LEMMA ShownStay ==
    ASSUME ShownInv, pc' \notin {"call", "tool"}, pc' \in {"idle", "phase", "starting", "begun"} => shown' = {},
           shown' = {} \/ (shown' = shown /\ AnsweredIn(messages) \subseteq AnsweredIn(messages'))
    PROVE  ShownInv'
<1>1. BatchRow'
  BY DEF BatchRow, InBatch
<1>2. ShownAnswered'
  BY DEF ShownInv, ShownAnswered
<1> QED BY <1>1, <1>2 DEF ShownInv

LEMMA ShownNotBatch ==
    ASSUME Shape, ShownInv,
           \/ Starting \/ Stops \/ ModelTimesOut \/ ModelFails
           \/ (\E n \in 0..MaxBatch, cut \in BOOLEAN : ModelAnswers(n, cut))
           \/ Compacted \/ AnswerAgain \/ ReasoningOnly \/ Answer \/ LoopHalts \/ Halted
    PROVE  ShownInv'
<1>1. messages \in Seq(Row) /\ agent_messages \in Seq(Row) /\ synced \in Nat /\ calls \in Seq(Nat)
  BY SessionRows
<1>2. \A u \in Seq(Row) : AnsweredIn(messages) \subseteq AnsweredIn(messages \o u)
  BY <1>1, JoinedLists
<1>3. <<Hint>> \in Seq(Row) /\ Append(messages, Hint) = messages \o <<Hint>>
  BY SessionRows DEF Plain
<1>4. ASSUME End PROVE ShownInv'
  <2>1. pc' = "idle" /\ shown' = {}
    BY <1>4 DEF End
  <2> QED BY <2>1, ShownStay
<1>5. CASE StartTurn
  <2>1. shown = {} /\ shown' = {} /\ pc' \in {"begun", "phase", "starting"}
    BY <1>5 DEF StartTurn, Begin, ShownInv, ShownAnswered
  <2> QED BY <2>1, ShownStay
<1>6. CASE PhaseCompacted \/ StartCompacted \/ Begun
  <2>1. shown = {} /\ shown' = {} /\ pc' \in {"begun", "round"}
    BY <1>6 DEF PhaseCompacted, StartCompacted, Begin, Begun, ShownInv, ShownAnswered
  <2> QED BY <2>1, ShownStay
<1>7. CASE RoundStarts
  <2> DEFINE b == sanitize(SubSeq(agent_messages, synced + 1, Len(agent_messages)))
             m == messages \o b
  <2>1. b \in Seq(Row)
    BY <1>1, BeyondLists, Sanitized
  <2>2. m \in Seq(Row) /\ AnsweredIn(messages) \subseteq AnsweredIn(m)
    BY <1>1, <1>2, <2>1, Joined
  <2>3. messages' = sanitize(m) /\ pc' = "model" /\ shown' = shown
    BY <1>7 DEF RoundStarts
  <2> HIDE DEF m
  <2>4. AnsweredIn(m) \subseteq AnsweredIn(sanitize(m))
    BY <2>2, SanitizedLists
  <2> QED BY <2>2, <2>3, <2>4, ShownStay
<1>8. CASE Inject
  <2>1. UNCHANGED <<pc, messages, shown, calls>>
    BY <1>8 DEF Inject, localVars
  <2> QED BY <2>1 DEF ShownInv, ShownAnswered, BatchRow, InBatch
<1>9. CASE Stops \/ Answer \/ Halted
  BY <1>4, <1>9 DEF Stops, Answer, Halted
<1>10. CASE ModelTimesOut
  <2>1. CASE messages' = Append(messages, Hint) /\ NextRound
    <3>1. pc' = "round" /\ shown' = shown
      BY <2>1 DEF NextRound
    <3>2. AnsweredIn(messages) \subseteq AnsweredIn(messages')
      BY <1>2, <1>3, <2>1
    <3> QED BY <3>1, <3>2, ShownStay
  <2> QED BY <1>4, <1>10, <2>1 DEF ModelTimesOut
<1>11. CASE ModelFails
  <2>1. CASE NextRound /\ UNCHANGED messages
    BY <2>1, ShownStay DEF NextRound
  <2> QED BY <1>4, <1>11, <2>1 DEF ModelFails
<1>12. ASSUME NEW n \in 0..MaxBatch, NEW cut \in BOOLEAN, ModelAnswers(n, cut) PROVE ShownInv'
  <2>1. pc' \in {"answered", "compacting"} /\ shown' = shown
        /\ (messages' = messages \/ messages' = Append(messages, Hint))
    BY <1>12 DEF ModelAnswers
  <2>2. AnsweredIn(messages) \subseteq AnsweredIn(messages')
    BY <1>2, <1>3, <2>1
  <2> QED BY <2>1, <2>2, ShownStay
<1>13. CASE Compacted
  <2>1. pc' = "answered" /\ (shown' = {} \/ UNCHANGED <<messages, shown>>)
    BY <1>13 DEF Compacted
  <2> QED BY <2>1, ShownStay
<1>14. CASE AnswerAgain \/ ReasoningOnly
  <2>1. PICK u : Plain(u) /\ messages' = messages \o u
    <3>1. Plain(<<>>) /\ messages \o <<>> = messages
      BY <1>1, PlainOnes
    <3> QED BY <1>14, <3>1, PlainOnes DEF AnswerAgain, ReasoningOnly
  <2>2. pc' = "round" /\ shown' = shown
    BY <1>14 DEF AnswerAgain, ReasoningOnly, NextRound
  <2>3. AnsweredIn(messages) \subseteq AnsweredIn(messages')
    BY <1>2, <2>1 DEF Plain
  <2> QED BY <2>2, <2>3, ShownStay
<1>15. CASE LoopHalts
  <2> DEFINE rest == [k \in DOMAIN calls |-> Result(calls[k])]
  <2>1. rest \in Seq(Row)
    BY <1>1, RestRows
  <2>2. messages' = messages \o <<Hint>> \o rest \o <<Hint>> /\ pc' = "halting" /\ shown' = shown
    BY <1>15 DEF LoopHalts
  <2> HIDE DEF rest
  <2> DEFINE m == messages \o <<Hint>>
  <2>3. m \in Seq(Row) /\ AnsweredIn(messages) \subseteq AnsweredIn(m)
    BY <1>1, <1>2, <1>3, Joined
  <2>4. messages' = m \o rest \o <<Hint>>
    BY <2>2
  <2> HIDE DEF m
  <2> DEFINE k == m \o rest
  <2>5. k \in Seq(Row) /\ AnsweredIn(m) \subseteq AnsweredIn(k)
    BY <2>1, <2>3, Joined, JoinedLists
  <2>6. messages' = k \o <<Hint>>
    BY <2>4
  <2> HIDE DEF k
  <2>7. AnsweredIn(k) \subseteq AnsweredIn(k \o <<Hint>>)
    BY <1>3, <2>5, JoinedLists
  <2> QED BY <2>2, <2>3, <2>5, <2>6, <2>7, ShownStay
<1> QED BY <1>5, <1>6, <1>7, <1>8, <1>9, <1>10, <1>11, <1>12, <1>13, <1>14, <1>15
        DEF Starting

LEMMA ShownBegins ==
    ASSUME Shape, NEW text \in Texts, BeginBatch(text)
    PROVE  ShownInv'
<1>1. messages \in Seq(Row) /\ calls \in Seq(Nat)
  BY SessionRows
<1>2. Range(calls) \in SUBSET Nat /\ text \in BOOLEAN
  <2>1. \A k \in DOMAIN calls : calls[k] \in Nat
    BY <1>1
  <2> QED BY <2>1, BoundsAssumption DEF Range
<1> DEFINE r == Assistant(Range(calls), text)
<1>3. r \in Row /\ r.role = "assistant" /\ r.calls = Range(calls)
  BY <1>2, CallRow
<1>4. messages' = Append(messages, r) /\ shown' = {} /\ pc' = "call" /\ calls' = calls
  BY DEF BeginBatch
<1> HIDE DEF r
<1>5. /\ Len(messages') = Len(messages) + 1 /\ messages'[Len(messages) + 1] = r
      /\ messages' \in Seq(Row) /\ Len(messages) \in Nat
  BY <1>1, <1>3, <1>4, AppendProperties
<1>6. Len(messages) + 1 \in DOMAIN messages' /\ \A j \in DOMAIN messages' : ~(j > Len(messages) + 1)
  BY <1>5
<1>7. BatchRow'
  BY <1>3, <1>4, <1>5, <1>6 DEF BatchRow
<1>8. ShownAnswered'
  BY <1>4 DEF ShownAnswered
<1> QED BY <1>7, <1>8 DEF ShownInv

\* The results that a batch appends, and the reminders, leave its row the last one
\* that makes calls.
LEMMA BatchRowStays ==
    ASSUME Shape, ShownInv, InBatch, AfterCall, NEW u \in Seq(Row), messages' = messages \o u,
           \A k \in DOMAIN u : u[k].role \in {"tool", "note"}
    PROVE  BatchRow'
<1>1. messages \in Seq(Row) /\ calls \in Seq(Nat) /\ calls # <<>>
  BY SessionRows DEF Shape, BatchBounds
<1>2. PICK i \in DOMAIN messages :
         /\ messages[i].role = "assistant" /\ Range(calls) \subseteq messages[i].calls
         /\ \A j \in DOMAIN messages : j > i => messages[j].role \in {"tool", "note"}
  BY DEF ShownInv, BatchRow
<1> DEFINE m == messages \o u
<1>3. /\ \A k \in DOMAIN messages : k \in DOMAIN m /\ m[k] = messages[k]
      /\ \A k \in DOMAIN u : m[Len(messages) + k] = u[k]
      /\ \A k \in DOMAIN m :
            k \in DOMAIN messages \/ (k - Len(messages) \in DOMAIN u /\ k = Len(messages) + (k - Len(messages)))
  BY <1>1, Joined
<1> HIDE DEF m
<1>4. \A j \in DOMAIN m : j > i => m[j].role \in {"tool", "note"}
  <2>1. ASSUME NEW j \in DOMAIN m, j > i PROVE m[j].role \in {"tool", "note"}
    <3>1. CASE j \in DOMAIN messages
      BY <1>2, <1>3, <2>1, <3>1
    <3>2. CASE j - Len(messages) \in DOMAIN u /\ j = Len(messages) + (j - Len(messages))
      <4>1. PICK k \in DOMAIN u : j = Len(messages) + k
        BY <3>2
      <4>2. m[j] = u[k]
        BY <1>3, <4>1
      <4> QED BY <4>2
    <3> QED BY <1>3, <2>1, <3>1, <3>2
  <2> QED BY <2>1
<1>5. Range(Tail(calls)) \subseteq Range(calls)
  <2>1. /\ Len(Tail(calls)) = Len(calls) - 1 /\ Tail(calls) \in Seq(Nat)
        /\ \A k \in 1..Len(Tail(calls)) : Tail(calls)[k] = calls[k + 1]
    BY <1>1, HeadTailProperties
  <2>2. \A k \in DOMAIN Tail(calls) : k + 1 \in DOMAIN calls /\ Tail(calls)[k] = calls[k + 1]
    BY <1>1, <2>1
  <2> QED BY <2>2 DEF Range
<1>6. calls' = Tail(calls) /\ messages' = m
  BY DEF AfterCall, m
<1>7. i \in DOMAIN m /\ m[i] = messages[i]
  BY <1>3
<1> QED BY <1>2, <1>4, <1>5, <1>6, <1>7 DEF BatchRow

\* A result that no reminder precedes joins the block of its call.
LEMMA ResultFollows ==
    ASSUME Shape, ShownInv, InBatch, ~Reminded(Head(calls)),
           messages' = messages \o <<Result(Head(calls))>>
    PROVE  Head(calls) \in AnsweredIn(messages')
<1>1. messages \in Seq(Row) /\ calls \in Seq(Nat) /\ calls # <<>>
  BY SessionRows DEF Shape, BatchBounds
<1> DEFINE c == Head(calls)
           r == Result(c)
<1>2. c \in Nat /\ c \in Range(calls)
  <2>1. 1 \in DOMAIN calls /\ c = calls[1] /\ c \in Nat
    BY <1>1, HeadTailProperties
  <2> QED BY <2>1 DEF Range
<1>3. r \in Row /\ r.role = "tool" /\ r.of = c
  BY <1>2, Rows
<1>4. PICK i \in DOMAIN messages :
         /\ messages[i].role = "assistant" /\ Range(calls) \subseteq messages[i].calls
         /\ \A j \in DOMAIN messages : j > i => messages[j].role \in {"tool", "note"}
  BY DEF ShownInv, BatchRow
<1>5. c \in messages[i].calls
  BY <1>2, <1>4
<1>6. \A j \in DOMAIN messages : j > i => messages[j].role = "tool"
  BY <1>4, <1>5 DEF Reminded
<1> HIDE DEF r, c
<1> DEFINE m == Append(messages, r)
           n == Len(messages) + 1
<1>7. messages' = m
  BY <1>1, <1>3, Appended DEF r, c
<1>8. /\ m \in Seq(Row) /\ Len(m) = n /\ m[n] = r /\ Len(messages) \in Nat
      /\ \A j \in DOMAIN messages : j \in DOMAIN m /\ m[j] = messages[j]
  BY <1>1, <1>3, AppendProperties
<1> HIDE DEF m
<1>9. i \in DOMAIN m /\ n \in DOMAIN m /\ i < n /\ i \in Nat /\ n \in Nat
  BY <1>1, <1>8
<1>10. \A k \in (i + 1)..n : m[k].role = "tool"
  <2>1. ASSUME NEW k \in (i + 1)..n PROVE m[k].role = "tool"
    <3>1. CASE k = n
      BY <1>3, <1>8, <3>1
    <3>2. CASE k # n
      <4>1. k \in DOMAIN messages /\ k > i
        BY <1>1, <1>8, <1>9, <3>2
      <4> QED BY <1>6, <1>8, <4>1
    <3> QED BY <3>1, <3>2
  <2> QED BY <2>1
<1>11. InBlock(m, i, n)
  BY <1>9, <1>10 DEF InBlock
<1>12. c \in Answered(m, i)
  <2>1. m[i] = messages[i] /\ m[n].of = c
    BY <1>3, <1>8
  <2> QED BY <1>5, <1>9, <1>11, <2>1 DEF Answered
<1>13. c \in AnsweredIn(m)
  BY <1>8, <1>9, <1>12, Elements
<1> QED BY <1>7, <1>13 DEF c

LEMMA ShownBatch ==
    ASSUME Shape, ShownInv, Refused \/ Dispatch \/ \E warned \in BOOLEAN : ToolReturns(warned)
    PROVE  ShownInv'
<1>1. messages \in Seq(Row) /\ calls \in Seq(Nat)
  BY SessionRows
<1> DEFINE c == Head(calls)
           one == <<Result(c)>>
           two == <<Hint, Result(c)>>
<1>2. ASSUME InBatch
      PROVE  /\ one \in Seq(Row) /\ two \in Seq(Row) /\ refusal(c) = one
             /\ \A k \in DOMAIN one : one[k].role \in {"tool", "note"}
             /\ \A k \in DOMAIN two : two[k].role \in {"tool", "note"}
  <2>1. c \in Nat
    BY <1>1, <1>2, HeadTailProperties DEF Shape, BatchBounds
  <2>2. Result(c) \in Row /\ Hint \in Row /\ Result(c).role = "tool" /\ Hint.role = "note"
    BY <2>1, Rows
  <2> QED BY <2>2 DEF refusal
<1>3. ASSUME InBatch, AfterCall, NEW u \in {one, two}, messages' = messages \o u,
             shown' = shown \/ (shown' = shown \cup {c} /\ u = one /\ ~Reminded(c))
      PROVE  ShownInv'
  <2>1. u \in Seq(Row) /\ \A k \in DOMAIN u : u[k].role \in {"tool", "note"}
    BY <1>2, <1>3
  <2>2. BatchRow'
    <3> HIDE DEF c, one, two
    <3> QED BY <1>3, <2>1, BatchRowStays
  <2>3. AnsweredIn(messages) \subseteq AnsweredIn(messages')
    <3> HIDE DEF c, one, two
    <3>1. AnsweredIn(messages) \subseteq AnsweredIn(messages \o u)
      BY <1>1, <2>1, JoinedLists
    <3> QED BY <1>3, <3>1
  <2>4. CASE shown' = shown
    BY <1>3, <2>2, <2>3, <2>4 DEF ShownInv, ShownAnswered, AfterCall, InBatch
  <2>5. CASE shown' = shown \cup {c} /\ u = one /\ ~Reminded(c)
    <3>1. c \in AnsweredIn(messages')
      BY <1>3, <2>5, ResultFollows
    <3>2. pc' \in {"round", "call"}
      BY <1>3 DEF AfterCall
    <3> HIDE DEF c
    <3> QED BY <2>2, <2>3, <2>5, <3>1, <3>2 DEF ShownInv, ShownAnswered
  <2> QED BY <1>3, <2>4, <2>5
<1>4. CASE Refused
  <2>1. InBatch
    BY <1>4 DEF Refused, InBatch
  <2>2. CASE End
    <3>1. pc' = "idle" /\ shown' = {}
      BY <2>2 DEF End
    <3> QED BY <3>1, ShownStay
  <2>3. CASE /\ messages' = messages \o refusal(Head(calls)) /\ AfterCall
             /\ shown' = IF Reminded(Head(calls)) THEN shown ELSE shown \cup {Head(calls)}
    <3>1. messages' = messages \o one
      BY <1>2, <2>1, <2>3
    <3>2. shown' = shown \/ (shown' = shown \cup {c} /\ ~Reminded(c))
      BY <2>3
    <3> QED BY <1>3, <2>1, <2>3, <3>1, <3>2
  <2> QED BY <1>4, <2>2, <2>3 DEF Refused
<1>5. CASE Dispatch
  <2>1. UNCHANGED <<messages, shown, calls>> /\ pc = "call" /\ pc' = "tool"
    BY <1>5 DEF Dispatch, localVars
  <2> QED BY <2>1 DEF ShownInv, ShownAnswered, BatchRow, InBatch
<1>6. ASSUME NEW warned \in BOOLEAN, ToolReturns(warned) PROVE ShownInv'
  <2>1. InBatch /\ AfterCall
    BY <1>6 DEF ToolReturns, InBatch
  <2>2. CASE warned
    <3>1. messages' = messages \o two /\ shown' = shown
      BY <1>6, <2>2 DEF ToolReturns
    <3> QED BY <1>3, <2>1, <3>1
  <2>3. CASE ~warned
    <3>1. messages' = messages \o one
      BY <1>6, <2>3 DEF ToolReturns
    <3>2. shown' = shown \/ (shown' = shown \cup {c} /\ ~Reminded(c))
      BY <1>6, <2>3 DEF ToolReturns
    <3> QED BY <1>3, <2>1, <3>1, <3>2
  <2> QED BY <2>2, <2>3
<1> QED BY <1>4, <1>5, <1>6

LEMMA ShownInit == TurnInit => ShownInv
BY DEF TurnInit, ShownInv, ShownAnswered, BatchRow, InBatch

LEMMA ShownNext == Shape /\ ShownInv /\ [TurnNext]_turnVars => ShownInv'
<1> SUFFICES ASSUME Shape, ShownInv, [TurnNext]_turnVars PROVE ShownInv'
  OBVIOUS
<1>1. CASE \/ Starting \/ Stops \/ ModelTimesOut \/ ModelFails
           \/ (\E n \in 0..MaxBatch, cut \in BOOLEAN : ModelAnswers(n, cut))
           \/ Compacted \/ AnswerAgain \/ ReasoningOnly \/ Answer \/ LoopHalts \/ Halted
  BY <1>1, ShownNotBatch
<1>2. CASE \E text \in Texts : BeginBatch(text)
  BY <1>2, ShownBegins
<1>3. CASE Refused \/ Dispatch \/ \E warned \in BOOLEAN : ToolReturns(warned)
  BY <1>3, ShownBatch
<1>4. CASE UNCHANGED turnVars
  BY <1>4 DEF ShownInv, ShownAnswered, BatchRow, InBatch, turnVars, localVars
<1> QED BY <1>1, <1>2, <1>3, <1>4 DEF TurnNext, Step, Starting

\* The model sees the results of the batch it asked for.
THEOREM ShownCorrect == TurnSpec => []ResultsAreShown
<1>1. TurnSpec => []ShownInv
  BY ShapeCorrect, ShownInit, ShownNext, PTL DEF TurnSpec
<1>2. Shape /\ ShownInv => ResultsAreShown
  <2> SUFFICES ASSUME Shape, ShownInv PROVE ResultsAreShown
    OBVIOUS
  <2>1. AnsweredIn(messages) \subseteq Results(messages)
    BY SessionRows, WellFormedLists
  <2> QED BY <2>1 DEF ShownInv, ShownAnswered, ResultsAreShown
<1> QED BY <1>1, <1>2, ShapeCorrect, PTL

-----------------------------------------------------------------------------
(* The rows that others append.                                             *)

\* Their numbers are those given so far.
NotesKnown ==
    \A n \in Injected(agent_messages) \cup Injected(messages) \cup Injected(snapshot) : n <= injected

\* Each is in a list once, and while no compaction of this turn moved the rows, the
\* turn has none of those that it has not taken over.
NotesApart ==
    /\ NotesOnce(agent_messages) /\ NotesOnce(snapshot)
    /\ pc = "compacting" => forced
    /\ ~forced => /\ NotesOnce(messages)
                  /\ pc # "begun" => Later(agent_messages, synced) \cap Injected(messages) = {}

NotesKept == 1..injected \subseteq Injected(agent_messages) \cup lost

NotesInv == NotesKnown /\ NotesApart /\ NotesKept

LEMMA NotesStay ==
    ASSUME NotesInv, injected' = injected,
           Injected(agent_messages') \subseteq Injected(agent_messages) \cup Injected(snapshot),
           Injected(messages') \subseteq Injected(agent_messages) \cup Injected(messages) \cup Injected(snapshot),
           Injected(snapshot') \subseteq Injected(agent_messages) \cup Injected(snapshot),
           NotesOnce(agent_messages'), NotesOnce(snapshot'), pc' = "compacting" => forced',
           ~forced' => /\ NotesOnce(messages')
                       /\ pc' = "begun" \/ Later(agent_messages', synced') \cap Injected(messages') = {},
           Injected(agent_messages) \cup lost \subseteq Injected(agent_messages') \cup lost'
    PROVE  NotesInv'
<1>1. NotesKnown'
  BY DEF NotesInv, NotesKnown
<1>2. NotesApart'
  BY DEF NotesApart
<1>3. NotesKept'
  BY DEF NotesInv, NotesKept
<1> QED BY <1>1, <1>2, <1>3 DEF NotesInv

\* Rows that come from nobody else.
LEMMA QuietLists ==
    ASSUME NEW s \in Seq(Row), NEW u \in Seq(Row), Injected(u) = {}
    PROVE  /\ s \o u \in Seq(Row)
           /\ Injected(s \o u) = Injected(s)
           /\ \A n \in Nat : Later(s \o u, n) \subseteq Later(s, n)
           /\ NotesOnce(s) => NotesOnce(s \o u)
<1>1. NotesOnce(u)
  BY Elements DEF NotesOnce
<1>2. s \o u \in Seq(Row)
  BY Joined
<1>3. /\ Injected(s \o u) = Injected(s) \cup Injected(u)
      /\ \A n \in Nat : Later(s \o u, n) \subseteq Later(s, n) \cup Injected(u)
      /\ NotesOnce(s) /\ NotesOnce(u) /\ Injected(s) \cap Injected(u) = {} => NotesOnce(s \o u)
  BY JoinedLists
<1> QED BY <1>1, <1>2, <1>3

LEMMA EmptyNotes == Injected(<<>>) = {} /\ NotesOnce(<<>>)
<1>1. Injected(<<>>) = {}
  BY PlainOnes DEF Plain
<1> QED BY <1>1 DEF NotesOnce

\* A step that appends the loop's own rows to the lists.
LEMMA NotesRows ==
    ASSUME Shape, NotesInv, NEW u \in Seq(Row), NEW v \in Seq(Row), Injected(u) = {}, Injected(v) = {},
           pc # "begun",
           agent_messages' = agent_messages \o u, messages' = messages \o v,
           synced' = synced \/ synced' = Len(agent_messages') \/ synced' = Len(agent_messages) + 1,
           Injected(snapshot') \subseteq Injected(agent_messages) \cup Injected(snapshot),
           NotesOnce(snapshot'), injected' = injected, lost' = lost,
           ~forced' => ~forced, pc' = "compacting" => forced'
    PROVE  NotesInv'
<1>1. agent_messages \in Seq(Row) /\ messages \in Seq(Row) /\ synced \in Nat
  BY SessionRows
<1>2. /\ agent_messages' \in Seq(Row) /\ Injected(agent_messages') = Injected(agent_messages)
      /\ \A n \in Nat : Later(agent_messages', n) \subseteq Later(agent_messages, n)
      /\ NotesOnce(agent_messages) => NotesOnce(agent_messages')
  BY <1>1, QuietLists
<1>3. Injected(messages') = Injected(messages) /\ (NotesOnce(messages) => NotesOnce(messages'))
  BY <1>1, QuietLists
<1>4. Later(agent_messages', synced') \subseteq Later(agent_messages, synced)
  <2>1. CASE synced' = synced
    BY <1>1, <1>2, <2>1
  <2>2. CASE synced' = Len(agent_messages')
    <3>1. Len(agent_messages') \in Nat
      BY <1>2, LenProperties
    <3>2. Later(agent_messages', Len(agent_messages')) = {}
      BY <1>2, <3>1, LaterNone
    <3> QED BY <2>2, <3>2
  <2>3. CASE synced' = Len(agent_messages) + 1
    <3>1. Len(agent_messages) + 1 \in Nat /\ Len(agent_messages) + 1 >= Len(agent_messages)
      BY <1>1, LenProperties
    <3>2. Later(agent_messages, Len(agent_messages) + 1) = {}
      BY <1>1, <3>1, LaterNone
    <3> QED BY <1>2, <2>3, <3>1, <3>2
  <2> QED BY <2>1, <2>2, <2>3
<1>5. /\ NotesOnce(agent_messages)
      /\ ~forced => NotesOnce(messages) /\ Later(agent_messages, synced) \cap Injected(messages) = {}
  BY DEF NotesInv, NotesApart
<1>6. ~forced' => NotesOnce(messages') /\ Later(agent_messages', synced') \cap Injected(messages') = {}
  BY <1>3, <1>4, <1>5
<1> QED BY <1>2, <1>3, <1>5, <1>6, NotesStay

\* The end of a turn.
LEMMA NotesEnd ==
    ASSUME Shape, NotesInv, End, NEW u \in Seq(Row), Injected(u) = {},
           agent_messages' = agent_messages \o u, UNCHANGED <<snapshot, injected, lost>>
    PROVE  NotesInv'
<1>1. Injected(agent_messages') = Injected(agent_messages) /\ (NotesOnce(agent_messages) => NotesOnce(agent_messages'))
  BY SessionRows, QuietLists
<1>2. messages' = <<>> /\ pc' = "idle"
  BY DEF End
<1>3. Injected(messages') = {} /\ NotesOnce(messages')
  BY <1>2, EmptyNotes
<1>4. NotesOnce(agent_messages) /\ NotesOnce(snapshot)
  BY DEF NotesInv, NotesApart
<1> QED BY <1>1, <1>2, <1>3, <1>4, NotesStay

\* The start of a turn from rows of the session, or from what a compaction made of them.
LEMMA NotesBegin ==
    ASSUME Shape, NotesInv, NEW a \in Seq(Row), NEW h \in Seq(Row),
           \E persist \in Persists : Begin(a, h, persist), injected' = injected,
           Injected(a) \subseteq Injected(agent_messages) \cup Injected(snapshot),
           Injected(h) \subseteq Injected(agent_messages) \cup Injected(snapshot),
           NotesOnce(a), NotesOnce(h), snapshot' = snapshot \/ snapshot' = <<>>,
           Injected(agent_messages) \cup lost \subseteq Injected(a) \cup lost'
    PROVE  NotesInv'
<1>1. /\ agent_messages' = a \/ agent_messages' = a \o <<Hint>>
      /\ messages' = h \o <<Hint>> /\ pc' = "begun"
      /\ agent_messages' \in Seq(Row)
  BY BeginRows
<1>2. <<Hint>> \in Seq(Row) /\ Injected(<<Hint>>) = {}
  BY PlainOnes DEF Plain
<1>3. Injected(agent_messages') = Injected(a) /\ NotesOnce(agent_messages')
  BY <1>1, <1>2, QuietLists
<1>4. Injected(messages') = Injected(h) /\ NotesOnce(messages')
  BY <1>1, <1>2, QuietLists
<1>6. NotesOnce(snapshot') /\ Injected(snapshot') \subseteq Injected(snapshot)
  BY EmptyNotes DEF NotesInv, NotesApart
<1> QED BY <1>1, <1>3, <1>4, <1>6, NotesStay

LEMMA NotesStart ==
    Shape /\ NotesInv /\ (StartTurn \/ PhaseCompacted \/ StartCompacted \/ Begun) => NotesInv'
<1> SUFFICES ASSUME Shape, NotesInv, StartTurn \/ PhaseCompacted \/ StartCompacted \/ Begun
             PROVE  NotesInv'
  OBVIOUS
<1>1. agent_messages \in Seq(Row) /\ snapshot \in Seq(Row)
  BY SessionRows
<1>2. NotesOnce(agent_messages) /\ NotesOnce(snapshot)
  BY DEF NotesInv, NotesApart
<1> DEFINE h == sanitize(agent_messages)
<1>3. h \in Seq(Row) /\ Injected(h) = Injected(agent_messages) /\ NotesOnce(h)
  BY <1>1, <1>2, Sanitized, SanitizedLists
<1>4. CASE StartTurn
  <2>1. CASE \E persist \in Persists : Begin(agent_messages, h, persist) /\ UNCHANGED snapshot
    <3>1. \E persist \in Persists : Begin(agent_messages, h, persist)
      BY <2>1
    <3>2. UNCHANGED <<snapshot, injected, lost>>
      BY <1>4, <2>1 DEF StartTurn
    <3> HIDE DEF h
    <3> QED BY <1>1, <1>2, <1>3, <3>1, <3>2, NotesBegin
  <2>2. CASE /\ CanCompact(h, Retain) /\ pc' \in {"phase", "starting"} /\ snapshot' = h
             /\ UNCHANGED <<agent_messages, messages>>
    <3>1. UNCHANGED <<injected, lost, forced>>
      BY <1>4 DEF StartTurn, latchVars
    <3>2. /\ Injected(snapshot') = Injected(agent_messages) /\ NotesOnce(snapshot')
      BY <1>3, <2>2
    <3>3. /\ ~forced => NotesOnce(messages) /\ Later(agent_messages, synced) \cap Injected(messages) = {}
          /\ synced' = synced
      BY <1>4 DEF NotesInv, NotesApart, StartTurn
    <3> QED BY <1>2, <2>2, <3>1, <3>2, <3>3, NotesStay
  <2> QED BY <1>4, <2>1, <2>2 DEF StartTurn
<1>5. CASE StartCompacted
  <2>0. pc = "starting" /\ snapshot' = <<>> /\ injected' = injected
    BY <1>5 DEF StartCompacted
  <2>1. /\ Replacement \in Seq(Row) /\ Injected(Replacement) \subseteq Injected(snapshot)
        /\ NotesOnce(Replacement)
    BY <1>2, <2>0, ReplacementLists
  <2>2. CASE (\E persist \in Persists : Begin(agent_messages, snapshot, persist)) /\ lost' = lost
    BY <1>1, <1>2, <2>0, <2>2, NotesBegin
  <2>3. CASE (\E persist \in Persists : Begin(Replacement, Replacement, persist)) /\ lost' = lost \cup Replaced
    <3>1. Injected(agent_messages) \cup lost \subseteq Injected(Replacement) \cup lost'
      BY <2>3 DEF Replaced
    <3> QED BY <2>0, <2>1, <2>3, <3>1, NotesBegin
  <2> QED BY <1>5, <2>2, <2>3 DEF StartCompacted
<1>6. CASE PhaseCompacted
  <2> DEFINE rows == compacted(snapshot, Retain)
  <2>1. /\ pc = "phase" /\ snapshot' = <<>> /\ injected' = injected
        /\ \E persist \in Persists : Begin(rows, rows, persist)
        /\ lost' = lost \cup (Injected(agent_messages) \ Injected(rows))
    BY <1>6 DEF PhaseCompacted
  <2>2. rows \in Seq(Row) /\ Injected(rows) \subseteq Injected(snapshot) /\ NotesOnce(rows)
    BY <1>2, <2>1, ReplacementLists
  <2> HIDE DEF rows
  <2>3. Injected(agent_messages) \cup lost \subseteq Injected(rows) \cup lost'
    BY <2>1
  <2> QED BY <2>1, <2>2, <2>3, NotesBegin
<1>7. CASE Begun
  <2>1. /\ synced' = Len(agent_messages) /\ pc' = "round"
        /\ UNCHANGED <<agent_messages, messages, snapshot, forced, injected, lost>>
    BY <1>7 DEF Begun, latchVars, sessionVars
  <2>2. Len(agent_messages) \in Nat /\ Later(agent_messages, Len(agent_messages)) = {}
    BY <1>1, LenProperties, LaterNone
  <2>3. ~forced => NotesOnce(messages)
    BY DEF NotesInv, NotesApart
  <2> QED BY <1>2, <2>1, <2>2, <2>3, NotesStay
<1> QED BY <1>4, <1>5, <1>6, <1>7

LEMMA NotesRound == Shape /\ NotesInv /\ RoundStarts => NotesInv'
<1> SUFFICES ASSUME Shape, NotesInv, RoundStarts PROVE NotesInv'
  OBVIOUS
<1>1. agent_messages \in Seq(Row) /\ messages \in Seq(Row) /\ synced \in Nat
  BY SessionRows
<1>2. /\ NotesOnce(agent_messages) /\ NotesOnce(snapshot)
      /\ ~forced => NotesOnce(messages) /\ Later(agent_messages, synced) \cap Injected(messages) = {}
  BY DEF NotesInv, NotesApart, RoundStarts
<1> DEFINE c == SubSeq(agent_messages, synced + 1, Len(agent_messages))
           b == sanitize(c)
           m == messages \o b
<1>3. /\ c \in Seq(Row) /\ Injected(c) = Later(agent_messages, synced) /\ NotesOnce(c)
      /\ Later(agent_messages, synced) \subseteq Injected(agent_messages)
  BY <1>1, <1>2, BeyondLists
<1> HIDE DEF c
<1>4. b \in Seq(Row) /\ Injected(b) = Injected(c) /\ NotesOnce(b)
  BY <1>3, Sanitized, SanitizedLists
<1> HIDE DEF b
<1>5. /\ m \in Seq(Row) /\ Injected(m) = Injected(messages) \cup Injected(b)
      /\ NotesOnce(messages) /\ NotesOnce(b) /\ Injected(messages) \cap Injected(b) = {} => NotesOnce(m)
  BY <1>1, <1>4, Joined, JoinedLists
<1> HIDE DEF m
<1>6. Injected(sanitize(m)) = Injected(m) /\ (NotesOnce(m) => NotesOnce(sanitize(m)))
  BY <1>5, SanitizedLists
<1>7. /\ messages' = sanitize(m) /\ synced' = taken(Len(agent_messages)) /\ pc' = "model"
      /\ UNCHANGED <<agent_messages, snapshot, injected, lost, forced>>
  BY DEF RoundStarts, sessionVars, latchVars, m, b, c
<1>8. Later(agent_messages, synced') = {}
  <2>1. synced' \in Nat /\ synced' >= Len(agent_messages)
    <3>1. Len(agent_messages) \in Nat
      BY <1>1, LenProperties
    <3> QED BY <1>1, <1>7, <3>1 DEF taken
  <2> QED BY <1>1, <2>1, LaterNone
<1>9. Injected(messages') \subseteq Injected(agent_messages) \cup Injected(messages)
  BY <1>3, <1>4, <1>5, <1>6, <1>7
<1>10. ~forced' => NotesOnce(messages') /\ Later(agent_messages', synced') \cap Injected(messages') = {}
  <2>1. ASSUME ~forced PROVE NotesOnce(sanitize(m))
    <3>1. NotesOnce(messages) /\ Injected(messages) \cap Injected(b) = {}
      BY <1>2, <1>3, <1>4, <2>1
    <3> QED BY <1>4, <1>5, <1>6, <3>1
  <2> QED BY <1>7, <1>8, <2>1
<1> QED BY <1>2, <1>7, <1>9, <1>10, NotesStay

LEMMA NotesInject == Shape /\ NotesInv /\ Inject => NotesInv'
<1> SUFFICES ASSUME Shape, NotesInv, Inject PROVE NotesInv'
  OBVIOUS
<1>1. agent_messages \in Seq(Row) /\ messages \in Seq(Row) /\ snapshot \in Seq(Row)
      /\ synced \in Nat /\ injected \in Nat
  BY SessionRows
<1> DEFINE n == injected + 1
           r == Note(n)
           t == <<r>>
<1>2. n \in Nat /\ n # 0
  BY <1>1
<1>3. r \in Row /\ r.role = "note" /\ r.of = n
  BY <1>2, Rows
<1>4. /\ agent_messages' = Append(agent_messages, r) /\ injected' = n
      /\ UNCHANGED <<pc, messages, snapshot, synced, forced, lost>>
  BY DEF Inject, localVars, latchVars
<1> HIDE DEF r
<1>5. t \in Seq(Row) /\ Injected(t) = {n} /\ NotesOnce(t) /\ agent_messages' = agent_messages \o t
  BY <1>1, <1>2, <1>3, <1>4, OneRow, Appended
<1> HIDE DEF t
<1>6. /\ Injected(agent_messages \o t) = Injected(agent_messages) \cup Injected(t)
      /\ \A k \in Nat : Later(agent_messages \o t, k) \subseteq Later(agent_messages, k) \cup Injected(t)
      /\ NotesOnce(agent_messages) /\ NotesOnce(t) /\ Injected(agent_messages) \cap Injected(t) = {}
            => NotesOnce(agent_messages \o t)
  BY <1>1, <1>5, JoinedLists
<1>7. \A k \in Injected(agent_messages) \cup Injected(messages) \cup Injected(snapshot) :
         k \in Nat /\ k <= injected
  <2>1. /\ \A i \in DOMAIN agent_messages : agent_messages[i] \in Row
        /\ \A i \in DOMAIN messages : messages[i] \in Row
        /\ \A i \in DOMAIN snapshot : snapshot[i] \in Row
    BY <1>1, KeptRow
  <2>2. Injected(agent_messages) \cup Injected(messages) \cup Injected(snapshot) \subseteq Nat
    BY <2>1 DEF Injected, Row
  <2> QED BY <2>2 DEF NotesInv, NotesKnown
<1>8. n \notin Injected(agent_messages) /\ n \notin Injected(messages)
  BY <1>1, <1>7
<1>9. NotesKnown'
  <2>1. \A k \in Injected(agent_messages) \cup Injected(messages) \cup Injected(snapshot) : k <= n
    BY <1>1, <1>7
  <2>2. n <= n
    BY <1>2
  <2> HIDE DEF n
  <2> QED BY <1>4, <1>5, <1>6, <2>1, <2>2 DEF NotesKnown
<1>10. NotesApart'
  <2>1. Injected(agent_messages) \cap Injected(t) = {} /\ n \notin Injected(messages)
    BY <1>5, <1>8
  <2> HIDE DEF n
  <2> QED BY <1>1, <1>4, <1>5, <1>6, <2>1 DEF NotesInv, NotesApart
<1>11. NotesKept'
  <2>1. \A k \in 1..n : k \in 1..injected \/ k = n
    BY <1>1
  <2> HIDE DEF n
  <2> QED BY <1>4, <1>5, <1>6, <2>1 DEF NotesInv, NotesKept
<1> QED BY <1>9, <1>10, <1>11 DEF NotesInv

\* The rows that a step may append, none of which comes from others.
LEMMA QuietRows ==
    ASSUME Shape
    PROVE  /\ <<>> \in Seq(Row) /\ Injected(<<>>) = {}
           /\ agent_messages \o <<>> = agent_messages /\ messages \o <<>> = messages
           /\ \A u : Plain(u) => u \in Seq(Row) /\ Injected(u) = {}
           /\ InBatch => \A u \in {<<Result(Head(calls))>>, <<Hint, Result(Head(calls))>>} :
                            u \in Seq(Row) /\ Injected(u) = {}
<1>1. agent_messages \in Seq(Row) /\ messages \in Seq(Row) /\ calls \in Seq(Nat)
  BY SessionRows
<1>2. <<>> \in Seq(Row) /\ agent_messages \o <<>> = agent_messages /\ messages \o <<>> = messages
  BY <1>1
<1>3. ASSUME InBatch
      PROVE  \A u \in {<<Result(Head(calls))>>, <<Hint, Result(Head(calls))>>} :
                u \in Seq(Row) /\ Injected(u) = {}
  <2>1. Head(calls) \in Nat
    BY <1>1, <1>3, HeadTailProperties DEF Shape, BatchBounds
  <2> DEFINE r == Result(Head(calls))
  <2>2. r \in Row /\ r.role = "tool" /\ Hint \in Row /\ Hint.role = "note" /\ Hint.of = 0
    BY <2>1, Rows
  <2> HIDE DEF r
  <2>3. <<r>> \in Seq(Row) /\ Injected(<<r>>) = {}
    BY <2>2, OneRow
  <2>4. <<Hint, r>> \in Seq(Row) /\ Injected(<<Hint, r>>) = {}
    <3> DEFINE t == <<Hint, r>>
    <3>1. t \in Seq(Row) /\ DOMAIN t = {1, 2} /\ t[1] = Hint /\ t[2] = r
      BY <2>2
    <3> HIDE DEF t
    <3>2. \A i \in DOMAIN t : ~IsNote(t, i)
      BY <2>2, <3>1 DEF IsNote
    <3>3. Injected(t) = {}
      BY <3>1, <3>2, Elements
    <3> QED BY <3>1, <3>3 DEF t
  <2> QED BY <2>3, <2>4 DEF r
<1> QED BY <1>2, <1>3, EmptyNotes DEF Plain

LEMMA NotesModel == Shape /\ NotesInv /\ (Stops \/ ModelTimesOut \/ ModelFails \/ Compacted) => NotesInv'
<1> SUFFICES ASSUME Shape, NotesInv, Stops \/ ModelTimesOut \/ ModelFails \/ Compacted PROVE NotesInv'
  OBVIOUS
<1>1. agent_messages \in Seq(Row) /\ messages \in Seq(Row) /\ snapshot \in Seq(Row) /\ synced \in Nat
      /\ Append(messages, Hint) = messages \o <<Hint>>
      /\ <<Hint>> \in Seq(Row) /\ Injected(<<Hint>>) = {}
      /\ <<>> \in Seq(Row) /\ Injected(<<>>) = {}
      /\ agent_messages \o <<>> = agent_messages /\ messages \o <<>> = messages
  BY SessionRows, QuietRows
<1>0. pc # "begun"
  BY DEF Stops, ModelTimesOut, ModelFails, Compacted
<1>2. /\ NotesOnce(agent_messages) /\ NotesOnce(snapshot)
      /\ ~forced => NotesOnce(messages) /\ Later(agent_messages, synced) \cap Injected(messages) = {}
  BY <1>0 DEF NotesInv, NotesApart
<1>3. ASSUME End, UNCHANGED <<agent_messages, snapshot, injected, lost>> PROVE NotesInv'
  BY <1>1, <1>3, NotesEnd
<1>4. CASE Stops
  BY <1>3, <1>4 DEF Stops, sessionVars
<1>5. CASE ModelTimesOut
  <2>1. CASE messages' = Append(messages, Hint) /\ NextRound /\ UNCHANGED forced
    <3>1. /\ messages' = messages \o <<Hint>> /\ agent_messages' = agent_messages \o <<>>
          /\ UNCHANGED <<synced, snapshot, injected, lost, forced>> /\ pc' = "round"
      BY <1>1, <1>5, <2>1 DEF ModelTimesOut, NextRound
    <3> QED BY <1>0, <1>1, <1>2, <3>1, NotesRows
  <2> QED BY <1>3, <1>5, <2>1 DEF ModelTimesOut
<1>6. CASE ModelFails
  <2>1. CASE forced' = TRUE /\ NextRound /\ UNCHANGED <<messages, agent_messages>>
    <3>1. /\ UNCHANGED <<snapshot, injected, lost, agent_messages, messages>> /\ pc' = "round" /\ forced'
      BY <1>6, <2>1 DEF ModelFails, NextRound
    <3> QED BY <1>2, <3>1, NotesStay
  <2>2. CASE agent_messages' = repaired_agent /\ NextRound /\ UNCHANGED <<messages, forced>>
    <3>1. /\ UNCHANGED <<snapshot, injected, lost, synced, messages, forced>> /\ pc' = "round"
      BY <1>6, <2>2 DEF ModelFails, NextRound
    <3>2. /\ Injected(agent_messages') = Injected(agent_messages) /\ NotesOnce(agent_messages')
          /\ Later(agent_messages', synced) \subseteq Later(agent_messages, synced)
      BY <1>1, <1>2, <2>2, SanitizedLists DEF repaired_agent
    <3>3. ~forced' => NotesOnce(messages') /\ Later(agent_messages', synced') \cap Injected(messages') = {}
      BY <1>2, <3>1, <3>2
    <3> QED BY <1>2, <3>1, <3>2, <3>3, NotesStay
  <2> QED BY <1>3, <1>6, <2>1, <2>2 DEF ModelFails
<1>7. CASE Compacted
  <2>0. pc = "compacting" /\ forced' = forced /\ forced /\ pc' = "answered"
        /\ snapshot' = <<>> /\ injected' = injected
    BY <1>7 DEF Compacted, NotesInv, NotesApart, latchVars
  <2>1. Injected(snapshot') = {} /\ NotesOnce(snapshot')
    BY <2>0, EmptyNotes
  <2>2. CASE UNCHANGED <<agent_messages, messages, lost>>
    BY <1>2, <2>0, <2>1, <2>2, NotesStay
  <2>3. CASE agent_messages' = Replacement /\ messages' = Replacement /\ lost' = lost \cup Replaced
    <3>1. Injected(Replacement) \subseteq Injected(snapshot) /\ NotesOnce(Replacement)
      BY <1>2, <2>0, ReplacementLists
    <3>2. Injected(agent_messages) \cup lost \subseteq Injected(agent_messages') \cup lost'
      BY <2>3 DEF Replaced
    <3> QED BY <1>2, <2>0, <2>1, <2>3, <3>1, <3>2, NotesStay
  <2> QED BY <1>7, <2>2, <2>3 DEF Compacted
<1> QED BY <1>4, <1>5, <1>6, <1>7

LEMMA NotesAnswers ==
    ASSUME Shape, NotesInv, NEW n \in 0..MaxBatch, NEW cut \in BOOLEAN, ModelAnswers(n, cut)
    PROVE  NotesInv'
<1>1. agent_messages \in Seq(Row) /\ messages \in Seq(Row) /\ Hint \in Row
      /\ Append(messages, Hint) = messages \o <<Hint>>
      /\ Append(agent_messages, Hint) = agent_messages \o <<Hint>>
      /\ <<Hint>> \in Seq(Row) /\ Injected(<<Hint>>) = {}
      /\ <<>> \in Seq(Row) /\ Injected(<<>>) = {}
      /\ agent_messages \o <<>> = agent_messages /\ messages \o <<>> = messages
  BY SessionRows, QuietRows, Rows
<1>2. PICK u \in Seq(Row) : /\ Injected(u) = {} /\ agent_messages' = agent_messages \o u
                            /\ messages' = messages \o u
  <2>1. CASE cut
    <3>1. agent_messages' = agent_messages \o <<Hint>> /\ messages' = messages \o <<Hint>>
      BY <1>1, <2>1 DEF ModelAnswers
    <3> QED BY <1>1, <3>1
  <2>2. CASE ~cut
    <3>1. agent_messages' = agent_messages \o <<>> /\ messages' = messages \o <<>>
      BY <1>1, <2>2 DEF ModelAnswers
    <3> QED BY <1>1, <3>1
  <2> QED BY <2>1, <2>2
<1>3. NotesOnce(agent_messages) /\ NotesOnce(snapshot) /\ (pc = "compacting" => forced)
  BY DEF NotesInv, NotesApart
<1>4. /\ agent_messages' \in Seq(Row) /\ Injected(agent_messages') = Injected(agent_messages)
      /\ NotesOnce(agent_messages')
  BY <1>1, <1>2, <1>3, QuietLists
<1> DEFINE h == sanitize(agent_messages')
<1>5. Injected(h) = Injected(agent_messages) /\ NotesOnce(h)
  BY <1>4, SanitizedLists
<1>6. /\ snapshot' = snapshot \/ snapshot' = h
      /\ ~forced' => ~forced
      /\ pc' = "compacting" => forced'
      /\ UNCHANGED <<synced, injected, lost>> /\ pc # "begun"
  BY DEF ModelAnswers
<1> HIDE DEF h
<1>7. Injected(snapshot') \subseteq Injected(agent_messages) \cup Injected(snapshot) /\ NotesOnce(snapshot')
  BY <1>3, <1>5, <1>6
<1> QED BY <1>2, <1>6, <1>7, NotesRows

LEMMA NotesAnswer ==
    ASSUME Shape, NotesInv,
           AnswerAgain \/ ReasoningOnly \/ Answer \/ Halted \/ \E text \in Texts : BeginBatch(text)
    PROVE  NotesInv'
<1>1. agent_messages \in Seq(Row) /\ messages \in Seq(Row) /\ calls \in Seq(Nat)
  BY SessionRows
<1>2. NotesOnce(snapshot)
  BY DEF NotesInv, NotesApart
<1>3. CASE AnswerAgain \/ ReasoningOnly
  <2>1. PICK u, v : /\ Plain(u) /\ Plain(v)
                    /\ agent_messages' = agent_messages \o u /\ messages' = messages \o v
    <3>1. Plain(<<>>) /\ agent_messages \o <<>> = agent_messages /\ messages \o <<>> = messages
      BY PlainOnes, QuietRows
    <3> QED BY <1>3, <3>1, PlainOnes DEF AnswerAgain, ReasoningOnly
  <2>2. u \in Seq(Row) /\ v \in Seq(Row) /\ Injected(u) = {} /\ Injected(v) = {}
    BY <2>1 DEF Plain
  <2>3. /\ UNCHANGED <<snapshot, injected, lost, forced>> /\ pc' = "round"
        /\ synced' = synced \/ synced' = Len(agent_messages) + 1
        /\ pc # "begun"
    BY <1>3 DEF AnswerAgain, ReasoningOnly, NextRound
  <2> QED BY <1>2, <2>1, <2>2, <2>3, NotesRows
<1>4. CASE Answer \/ Halted
  <2> DEFINE u == <<Assistant({}, TRUE)>>
  <2>1. u \in Seq(Row) /\ Injected(u) = {} /\ agent_messages' = agent_messages \o u
    BY <1>4, SessionRows DEF Answer, Halted, Plain
  <2>2. End /\ UNCHANGED <<snapshot, injected, lost>>
    BY <1>4 DEF Answer, Halted
  <2> HIDE DEF u
  <2> QED BY <2>1, <2>2, NotesEnd
<1>5. ASSUME NEW text \in Texts, BeginBatch(text) PROVE NotesInv'
  <2>1. Range(calls) \in SUBSET Nat /\ text \in BOOLEAN
    <3>1. \A k \in DOMAIN calls : calls[k] \in Nat
      BY <1>1
    <3> QED BY <3>1, BoundsAssumption DEF Range
  <2> DEFINE r == Assistant(Range(calls), text)
             u == <<r>>
  <2>2. r \in Row /\ r.role = "assistant"
    BY <2>1, CallRow
  <2>3. /\ agent_messages' = Append(agent_messages, r) /\ messages' = Append(messages, r)
        /\ synced' = Len(agent_messages') /\ pc' = "call"
        /\ UNCHANGED <<snapshot, injected, lost, forced>> /\ pc # "begun"
    BY <1>5 DEF BeginBatch, latchVars
  <2> HIDE DEF r
  <2>4. /\ u \in Seq(Row) /\ Injected(u) = {}
        /\ agent_messages' = agent_messages \o u /\ messages' = messages \o u
    BY <1>1, <2>2, <2>3, OneRow, Appended
  <2> HIDE DEF u
  <2> QED BY <1>2, <2>3, <2>4, NotesRows
<1> QED BY <1>3, <1>4, <1>5

LEMMA NotesBatch ==
    ASSUME Shape, NotesInv, Refused \/ Dispatch \/ (\E warned \in BOOLEAN : ToolReturns(warned)) \/ LoopHalts
    PROVE  NotesInv'
<1>1. agent_messages \in Seq(Row) /\ messages \in Seq(Row) /\ calls \in Seq(Nat)
  BY SessionRows
<1>2. NotesOnce(snapshot)
  BY DEF NotesInv, NotesApart
<1> DEFINE one == <<Result(Head(calls))>>
           two == <<Hint, Result(Head(calls))>>
<1>3. InBatch => /\ one \in Seq(Row) /\ two \in Seq(Row) /\ Injected(one) = {} /\ Injected(two) = {}
  BY QuietRows
<1>4. ASSUME InBatch, AfterCall, UNCHANGED <<snapshot, injected, lost>>, NEW v \in {one, two},
             agent_messages' = agent_messages \o one, messages' = messages \o v
      PROVE  NotesInv'
  <2>1. synced' = Len(agent_messages') /\ pc' \in {"round", "call"} /\ forced' = forced
        /\ pc # "begun"
    BY <1>4 DEF AfterCall, latchVars, InBatch
  <2>2. one \in Seq(Row) /\ v \in Seq(Row) /\ Injected(one) = {} /\ Injected(v) = {}
    BY <1>3, <1>4
  <2> HIDE DEF one, two
  <2> QED BY <1>2, <1>4, <2>1, <2>2, NotesRows
<1>5. CASE Refused
  <2>1. InBatch /\ agent_messages' = agent_messages \o one /\ UNCHANGED <<snapshot, injected, lost>>
    BY <1>5 DEF Refused, InBatch, refusal
  <2>2. CASE End
    <3> HIDE DEF one
    <3> QED BY <1>3, <2>1, <2>2, NotesEnd
  <2>3. CASE messages' = messages \o refusal(Head(calls)) /\ AfterCall
    <3>1. messages' = messages \o one
      BY <2>3 DEF refusal
    <3> QED BY <1>4, <2>1, <2>3, <3>1
  <2> QED BY <1>5, <2>2, <2>3 DEF Refused
<1>6. CASE Dispatch
  BY <1>6 DEF Dispatch, localVars, latchVars, sessionVars, NotesInv, NotesKnown, NotesApart, NotesKept
<1>7. ASSUME NEW warned \in BOOLEAN, ToolReturns(warned) PROVE NotesInv'
  <2>1. InBatch /\ AfterCall /\ UNCHANGED <<snapshot, injected, lost>>
        /\ agent_messages' = Append(agent_messages, Result(Head(calls)))
        /\ (messages' = messages \o one \/ messages' = messages \o two)
    BY <1>7 DEF ToolReturns, InBatch
  <2>2. agent_messages' = agent_messages \o one
    <3>1. Head(calls) \in Nat
      BY <1>1, <2>1, HeadTailProperties DEF Shape, BatchBounds
    <3>2. Result(Head(calls)) \in Row
      BY <3>1, Rows
    <3> QED BY <1>1, <2>1, <3>2, Appended
  <2> QED BY <1>4, <2>1, <2>2
<1>8. CASE LoopHalts
  <2> DEFINE rest == [k \in DOMAIN calls |-> Result(calls[k])]
             v == <<Hint>> \o rest \o <<Hint>>
  <2>1. rest \in Seq(Row) /\ Injected(rest) = {}
    BY <1>1, RestRows
  <2>2. /\ agent_messages' = agent_messages \o rest /\ synced' = Len(agent_messages')
        /\ messages' = messages \o <<Hint>> \o rest \o <<Hint>>
        /\ pc' = "halting" /\ UNCHANGED <<snapshot, injected, lost, forced>>
        /\ pc # "begun"
    BY <1>8 DEF LoopHalts, latchVars
  <2> HIDE DEF rest
  <2>3. <<Hint>> \in Seq(Row) /\ Injected(<<Hint>>) = {}
    BY PlainOnes DEF Plain
  <2> DEFINE w == <<Hint>> \o rest
  <2>4. w \in Seq(Row) /\ Injected(w) = {}
    BY <2>1, <2>3, QuietLists
  <2>5. messages \o <<Hint>> \o rest = messages \o w
    BY <1>1, <2>1, <2>3, ConcatAssociative
  <2>6. messages \o w \o <<Hint>> = messages \o (w \o <<Hint>>)
    <3> HIDE DEF w
    <3> QED BY <1>1, <2>3, <2>4, ConcatAssociative
  <2>7. w \o <<Hint>> \in Seq(Row) /\ Injected(w \o <<Hint>>) = {}
    <3> HIDE DEF w
    <3> QED BY <2>3, <2>4, QuietLists
  <2>8. messages' = messages \o v
    BY <2>2, <2>5, <2>6
  <2>9. v \in Seq(Row) /\ Injected(v) = {}
    BY <2>7
  <2> HIDE DEF v, w
  <2> QED BY <1>2, <2>1, <2>2, <2>8, <2>9, NotesRows
<1> QED BY <1>5, <1>6, <1>7, <1>8

LEMMA NotesInit == TurnInit => NotesInv
<1> SUFFICES ASSUME TurnInit PROVE NotesInv
  OBVIOUS
<1>1. agent_messages = <<>> /\ messages = <<>> /\ snapshot = <<>> /\ injected = 0 /\ pc = "idle"
  BY DEF TurnInit
<1>2. 1..0 = {}
  OBVIOUS
<1> QED BY <1>1, <1>2, EmptyNotes DEF NotesInv, NotesKnown, NotesApart, NotesKept

LEMMA NotesNext == Shape /\ NotesInv /\ [TurnNext]_turnVars => NotesInv'
<1> SUFFICES ASSUME Shape, NotesInv, [TurnNext]_turnVars PROVE NotesInv'
  OBVIOUS
<1>1. CASE StartTurn \/ PhaseCompacted \/ StartCompacted \/ Begun
  BY <1>1, NotesStart
<1>2. CASE RoundStarts
  BY <1>2, NotesRound
<1>3. CASE Inject
  BY <1>3, NotesInject
<1>4. CASE Stops \/ ModelTimesOut \/ ModelFails \/ Compacted
  BY <1>4, NotesModel
<1>5. CASE \E n \in 0..MaxBatch, cut \in BOOLEAN : ModelAnswers(n, cut)
  BY <1>5, NotesAnswers
<1>6. CASE AnswerAgain \/ ReasoningOnly \/ Answer \/ Halted \/ \E text \in Texts : BeginBatch(text)
  BY <1>6, NotesAnswer
<1>7. CASE Refused \/ Dispatch \/ (\E warned \in BOOLEAN : ToolReturns(warned)) \/ LoopHalts
  BY <1>7, NotesBatch
<1>8. CASE UNCHANGED turnVars
  BY <1>8 DEF NotesInv, NotesKnown, NotesApart, NotesKept, turnVars, localVars, latchVars, sessionVars
<1> QED BY <1>1, <1>2, <1>3, <1>4, <1>5, <1>6, <1>7, <1>8 DEF TurnNext, Step

\* A row of others is given to the model once at most, and is not dropped.
THEOREM OthersCorrect == TurnSpec => []RowsOfOthers
<1>1. TurnSpec => []NotesInv
  BY ShapeCorrect, NotesInit, NotesNext, PTL DEF TurnSpec
<1>2. Shape /\ NotesInv => RowsOfOthers
  <2> SUFFICES ASSUME Shape, NotesInv PROVE RowsOfOthers
    OBVIOUS
  <2>1. ASSUME ~forced, NEW n \in 1..MaxInjected
        PROVE  Cardinality({i \in DOMAIN messages : messages[i] = Note(n)}) <= 1
    <3> DEFINE S == {i \in DOMAIN messages : messages[i] = Note(n)}
    <3>1. n \in Nat /\ n # 0
      BY BoundsAssumption
    <3>2. Note(n).role = "note" /\ Note(n).of = n
      BY <3>1, Rows
    <3>3. \A i, j \in S : i = j
      BY <2>1, <3>1, <3>2 DEF NotesInv, NotesApart, NotesOnce, IsNote
    <3> HIDE DEF S
    <3>4. ASSUME S = {} PROVE Cardinality(S) <= 1
      BY <3>4, FS_EmptySet
    <3>5. ASSUME NEW i \in S PROVE Cardinality(S) <= 1
      <4>1. S = {i}
        BY <3>3, <3>5
      <4>2. Cardinality({i}) = 1
        BY FS_Singleton
      <4> QED BY <4>1, <4>2
    <3>6. Cardinality(S) <= 1
      <4>1. S = {} \/ \E i : i \in S
        OBVIOUS
      <4> QED BY <3>4, <3>5, <4>1
    <3> QED BY <3>6 DEF S
  <2> QED BY <2>1 DEF RowsOfOthers, NotesInv, NotesKept
<1> QED BY <1>1, <1>2, ShapeCorrect, PTL

\* Every variable keeps its type.
THEOREM TurnTypeCorrect == TurnSpec => []TurnTypeOK
BY ShapeCorrect, PTL DEF Shape

=============================================================================
