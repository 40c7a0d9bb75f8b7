------------------------------ MODULE ChatTurns ------------------------------
(***************************************************************************)
(* The turns of one studio session: POST /api/chat, /continue and          *)
(* /api/session/interrupt in studio/server.py, with the session state of   *)
(* studio/session_manager.py.                                              *)
(*                                                                         *)
(* A turn is a request whose handler marks the session running, a runtime  *)
(* task that produces its events, and an HTTP stream that consumes them.   *)
(* Nothing stops a second turn while the first is at work.  With live      *)
(* reattach the events go through the session's hub and the runtime task   *)
(* finalizes the turn; without it they go through a queue of the request   *)
(* and the stream finalizes it.  Of a hub's events only the end mark is    *)
(* kept here: SessionEventHub models the rest.                             *)
(*                                                                         *)
(* One action is the code up to the next await that suspends.  A hub bears *)
(* the name of the turn that created it.                                   *)
(***************************************************************************)
EXTENDS Naturals

CONSTANTS
    Turns,        \* chat requests, in any order
    NoHub,        \* the session has no hub
    MaxOutside    \* bound: interrupts and supervisor failures

ASSUME NoHubAssumption == NoHub \notin Turns /\ MaxOutside \in Nat

VARIABLES
    reattach,   \* runtime.live_reattach_enabled
    exec,       \* execution_state
    intr,       \* the session is in _interrupt_requests
    hub,        \* managed.event_hub
    doneHubs,   \* hubs whose end mark was published
    closedHubs, \* hubs that were closed
    hubOf,      \* the hub each turn publishes to and reads
    request,    \* where each turn's request and stream are
    run,        \* where its runtime task is
    told,       \* the end mark is in the stream's queue
    outcome,    \* how its run ended: saw_final, had_runtime_failure or neither
    keep,       \* keep_runtime_after_disconnect
    toCancel,   \* runtime tasks whose cancel() is pending
    saved,      \* turns whose end was persisted
    outside,    \* number of interrupts and supervisor failures so far
    stranded    \* history: a turn that set the session running was lost before its
                \* run began, and no state was set since

hubVars == <<hub, doneHubs, closedHubs>>
runVars == <<run, outcome, toCancel, saved>>
histVars == <<outside, stranded>>
vars == <<reattach, exec, intr, hubVars, hubOf, request, runVars, told, keep, histVars>>

ExecStates == {"idle", "running", "interrupted", "failed"}
Requests == {"none", "settling", "resuming", "posted", "open", "left", "over"}
Outcomes == {"none", "answered", "failed", "cancelled"}
RunStages == {"none", "working", "persisting", "over", "stillborn"}

TypeOK ==
    /\ reattach \in BOOLEAN
    /\ exec \in ExecStates /\ intr \in BOOLEAN
    /\ hub \in Turns \cup {NoHub}
    /\ doneHubs \subseteq Turns /\ closedHubs \subseteq Turns
    /\ hubOf \in [Turns -> Turns \cup {NoHub}]
    /\ request \in [Turns -> Requests]
    /\ run \in [Turns -> RunStages]
    /\ outcome \in [Turns -> Outcomes]
    /\ told \subseteq Turns /\ keep \subseteq Turns
    /\ toCancel \subseteq Turns /\ saved \subseteq Turns
    /\ outside \in 0..MaxOutside
    /\ stranded \in BOOLEAN

Init ==
    /\ reattach \in BOOLEAN
    /\ exec = "idle" /\ intr = FALSE
    /\ hub = NoHub /\ doneHubs = {} /\ closedHubs = {}
    /\ hubOf = [t \in Turns |-> NoHub]
    /\ request = [t \in Turns |-> "none"]
    /\ run = [t \in Turns |-> "none"]
    /\ outcome = [t \in Turns |-> "none"]
    /\ told = {} /\ keep = {}
    /\ toCancel = {} /\ saved = {}
    /\ outside = 0 /\ stranded = FALSE

-----------------------------------------------------------------------------
(* The session manager.                                                     *)

\* The turn was posted and has not ended.
Live(t) == request[t] = "posted" \/ run[t] = "working"

active(h) == h # NoHub /\ h \notin doneHubs \cup closedHubs

\* Seeded fault: a session that is interrupted keeps its hub.
set_execution_state_keeps(s) ==
    /\ exec' = s /\ stranded' = FALSE
    /\ IF s = "interrupted"
         THEN UNCHANGED <<hub, closedHubs>>
         ELSE hub' = NoHub /\ closedHubs' = closedHubs \cup ({hub} \ {NoHub})

\* set_execution_state to idle, interrupted or failed closes the session's hub.
set_execution_state(s) ==
    /\ exec' = s /\ stranded' = FALSE
    /\ hub' = NoHub /\ closedHubs' = closedHubs \cup ({hub} \ {NoHub})

\* _resolve_chat_end_execution_state
end_state(failure) == IF intr \/ failure THEN "interrupted" ELSE "idle"

\* Seeded fault: a failed turn is not finalized.
finalize_answered(failure) ==
    IF failure THEN UNCHANGED <<exec, intr, hub, closedHubs, stranded>>
    ELSE set_execution_state(end_state(failure)) /\ intr' = FALSE

\* _finalize_chat_runtime up to its persist
finalize(failure) ==
    /\ set_execution_state(end_state(failure))
    /\ intr' = FALSE

-----------------------------------------------------------------------------
(* The requests.                                                            *)

\* chat(): the rest of the handler after a POST or a continuation.
Post(t) ==
    /\ IF reattach
         THEN \* ensure_event_hub
              LET h == IF active(hub) THEN hub ELSE t
              IN  hub' = h /\ hubOf' = [hubOf EXCEPT ![t] = h]
         ELSE UNCHANGED <<hub, hubOf>>
    /\ intr' = FALSE
    /\ exec' = "running"
    /\ request' = [request EXCEPT ![t] = "posted"]

Chat(t) ==
    /\ request[t] = "none"
    /\ Post(t)
    /\ keep' \in {keep, keep \cup {t}}
    /\ UNCHANGED <<reattach, doneHubs, closedHubs, runVars, told, histVars>>

\* POST /continue: a session that runs is interrupted and waited for.
Continue(t) ==
    /\ request[t] = "none"
    /\ IF exec = "running"
         THEN intr' = TRUE /\ request' = [request EXCEPT ![t] = "settling"]
         ELSE UNCHANGED intr /\ request' = [request EXCEPT ![t] = "resuming"]
    /\ UNCHANGED <<reattach, exec, hubVars, hubOf, runVars, told, keep, histVars>>

\* interrupt_running_for_continue goes on when the session has settled, or when
\* it has waited two seconds.
Settled(t) ==
    /\ request[t] = "settling"
    /\ set_execution_state("interrupted")
    /\ request' = [request EXCEPT ![t] = "resuming"]
    /\ UNCHANGED <<reattach, intr, doneHubs, hubOf, runVars, told, keep, outside>>

Resume(t) ==
    /\ request[t] = "resuming"
    /\ Post(t)
    /\ UNCHANGED <<reattach, doneHubs, closedHubs, runVars, told, keep, histVars>>

\* prepare_continue refuses a continuation that repeats a recent one.
Rejected(t) ==
    /\ request[t] = "resuming"
    /\ request' = [request EXCEPT ![t] = "over"]
    /\ UNCHANGED <<reattach, exec, intr, hubVars, hubOf, runVars, told, keep, histVars>>

\* POST /api/session/interrupt, or the supervisor gives the session up.
Outside(s) ==
    /\ outside < MaxOutside
    /\ outside' = outside + 1
    /\ set_execution_state(s)
    /\ intr' = (intr \/ s = "interrupted")
    /\ UNCHANGED <<reattach, doneHubs, hubOf, request, runVars, told, keep>>

-----------------------------------------------------------------------------
(* The runtime task.                                                        *)

\* publish_done: the mark reaches the streams that are subscribed.
publish_done(h) ==
    IF active(h)
      THEN /\ doneHubs' = doneHubs \cup {h}
           /\ told' = told \cup {u \in Turns : hubOf[u] = h /\ request[u] = "open"}
      ELSE UNCHANGED <<doneHubs, told>>

\* Its last event and its finally.  With a hub it finalizes the turn itself.
RunEnds(t, how) ==
    /\ run[t] = "working"
    /\ outcome' = [outcome EXCEPT ![t] = how]
    /\ IF reattach
         THEN /\ publish_done(hubOf[t])
              /\ finalize(how = "failed")
              /\ run' = [run EXCEPT ![t] = "persisting"]
         ELSE /\ told' = told \cup {t}
              /\ run' = [run EXCEPT ![t] = "over"]
              /\ UNCHANGED <<exec, intr, hubVars, stranded>>
    /\ UNCHANGED <<reattach, hubOf, request, saved, keep, outside>>

\* The model answered, or the turn failed; a stop request is an error too.
RunAnswers(t) == t \notin toCancel /\ RunEnds(t, "answered") /\ UNCHANGED toCancel
RunFails(t) == t \notin toCancel /\ RunEnds(t, "failed") /\ UNCHANGED toCancel

\* Seeded fault: a cancelled task ends without its finally.
RunCancelledSilently(t) ==
    /\ t \in toCancel /\ run[t] = "working"
    /\ run' = [run EXCEPT ![t] = "over"]
    /\ toCancel' = toCancel \ {t}
    /\ UNCHANGED <<reattach, exec, intr, hubVars, hubOf, request, outcome, saved, told, keep, histVars>>

\* CancelledError is not an Exception: it counts as no failure.
RunCancelled(t) ==
    /\ t \in toCancel
    /\ RunEnds(t, "cancelled")
    /\ toCancel' = toCancel \ {t}

\* The job of persist_async runs in the pool; then the task is over.  A cancel
\* ends the wait, and takes the job back when it has not begun.
Saves(t) ==
    /\ run[t] = "persisting"
    /\ run' = [run EXCEPT ![t] = "over"]
    /\ saved' \in IF t \in toCancel THEN {saved, saved \cup {t}} ELSE {saved \cup {t}}
    /\ toCancel' = toCancel \ {t}
    /\ UNCHANGED <<reattach, exec, intr, hubVars, hubOf, request, outcome, told, keep, histVars>>

-----------------------------------------------------------------------------
(* The stream.                                                              *)

\* task.cancel() of a task that is not done.
CancelRun(t) ==
    toCancel' = IF run[t] \in {"working", "persisting"} THEN toCancel \cup {t} ELSE toCancel

\* The turn is lost with the session still running, and its hub open.
Strands(t) == stranded' = (stranded \/ (exec = "running" /\ (reattach => hubOf[t] = hub)))

\* The handler raises after it has set the session running, or its stream is
\* given up before its body starts: nobody finalizes the turn.
HandlerRaises(t) ==
    /\ request[t] = "posted"
    /\ request' = [request EXCEPT ![t] = "over"]
    /\ Strands(t)
    /\ UNCHANGED <<reattach, exec, intr, hubVars, hubOf, runVars, told, keep, outside>>

\* The body starts: the task is created, the hub subscribed.
StartStream(t) ==
    /\ request[t] = "posted"
    /\ reattach => hubOf[t] \notin closedHubs
    /\ request' = [request EXCEPT ![t] = "open"]
    /\ run' = [run EXCEPT ![t] = "working"]
    /\ UNCHANGED <<reattach, exec, intr, hubVars, hubOf, outcome, toCancel, saved, told, keep, histVars>>

\* The hub refuses the stream: it was closed meanwhile, or it has its fill of
\* subscribers.  The task is cancelled; if it has not taken its first step by
\* then, its finally never runs.
StreamRefused(t) ==
    /\ request[t] = "posted"
    /\ reattach
    /\ request' = [request EXCEPT ![t] = "over"]
    /\ \/ /\ run' = [run EXCEPT ![t] = "working"]
          /\ toCancel' = toCancel \cup {t}
          /\ UNCHANGED stranded
       \/ /\ run' = [run EXCEPT ![t] = "stillborn"]
          /\ Strands(t)
          /\ UNCHANGED toCancel
    /\ UNCHANGED <<reattach, exec, intr, hubVars, hubOf, outcome, saved, told, keep, outside>>

\* The stream of a queue finalizes the turn; failure is what it has seen of it.
\* Its persist is lost when the body is cancelled while it waits.
StreamFinalizes(t, failure) ==
    IF reattach
      THEN UNCHANGED <<exec, intr, hubVars, saved, stranded>>
      ELSE /\ finalize(failure)
           /\ saved' \in {saved, saved \cup {t}}
           /\ UNCHANGED doneHubs

\* The end mark, or the timeout after it, ends the stream, which then cancels a
\* task that is not done.
StreamDone(t) ==
    /\ request[t] \in {"open", "left"}
    /\ \/ t \in told
       \/ reattach /\ hubOf[t] \in doneHubs
    /\ request[t] = "left" => ~reattach
    /\ request' = [request EXCEPT ![t] = "over"]
    /\ CancelRun(t)
    /\ StreamFinalizes(t, outcome[t] = "failed")
    /\ UNCHANGED <<reattach, hubOf, run, outcome, told, keep, outside>>

\* Seeded fault: the run of a client that left is cancelled with a hub too.
ClientLeavesCancels(t) ==
    /\ request[t] = "open"
    /\ request' = [request EXCEPT ![t] = IF reattach \/ t \in keep THEN "left" ELSE "over"]
    /\ CancelRun(t)
    /\ IF t \in keep
         THEN UNCHANGED <<exec, intr, hubVars, saved, stranded>>
         ELSE \E seen \in BOOLEAN : StreamFinalizes(t, seen /\ outcome[t] = "failed")
    /\ UNCHANGED <<reattach, hubOf, run, outcome, told, keep, outside>>

\* The poll finds the client gone.  With a hub the run goes on without its
\* stream; a kept run goes on and the stream drains the queue.
ClientLeaves(t) ==
    /\ request[t] = "open"
    /\ request' = [request EXCEPT ![t] = IF reattach \/ t \in keep THEN "left" ELSE "over"]
    /\ IF reattach \/ t \in keep
         THEN UNCHANGED <<toCancel, exec, intr, hubVars, saved, stranded>>
         ELSE /\ CancelRun(t)
              /\ \E seen \in BOOLEAN : StreamFinalizes(t, seen /\ outcome[t] = "failed")
    /\ UNCHANGED <<reattach, hubOf, run, outcome, told, keep, outside>>

\* The server cancels the body before the poll finds the client gone.
BodyCancelled(t) ==
    /\ request[t] \in {"open", "left"}
    /\ request[t] = "left" => ~reattach
    /\ request' = [request EXCEPT ![t] = "over"]
    /\ CancelRun(t)
    /\ \E seen \in BOOLEAN : StreamFinalizes(t, seen /\ outcome[t] = "failed")
    /\ UNCHANGED <<reattach, hubOf, run, outcome, told, keep, outside>>

-----------------------------------------------------------------------------
Request(t) == Chat(t) \/ Continue(t) \/ Settled(t) \/ Resume(t) \/ Rejected(t)
Run(t) == RunAnswers(t) \/ RunFails(t) \/ RunCancelled(t) \/ Saves(t)
Stream(t) ==
    \/ StartStream(t) \/ StreamRefused(t) \/ HandlerRaises(t)
    \/ StreamDone(t) \/ ClientLeaves(t) \/ BodyCancelled(t)

Next ==
    \/ \E t \in Turns : Request(t) \/ Run(t) \/ Stream(t)
    \/ \E s \in {"interrupted", "failed"} : Outside(s)

Spec == Init /\ [][Next]_vars

\* The event loop resumes what can go on; a turn is bounded in rounds and time,
\* so its run ends.
FairSpec ==
    /\ Spec
    /\ \A t \in Turns :
          /\ WF_vars(Settled(t)) /\ WF_vars(Resume(t) \/ Rejected(t))
          /\ WF_vars(Run(t))
          /\ WF_vars(StartStream(t) \/ StreamRefused(t) \/ HandlerRaises(t)) /\ WF_vars(StreamDone(t))

=============================================================================
