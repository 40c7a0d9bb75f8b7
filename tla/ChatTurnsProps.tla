---------------------------- MODULE ChatTurnsProps ---------------------------
(***************************************************************************)
(* What ChatTurns must satisfy.                                            *)
(***************************************************************************)
EXTENDS ChatTurns

\* The turn can still end the running state: it is about to begin, at work or,
\* with a queue, still to be finalized by its stream.
Ends(t) == Live(t) \/ (~reattach /\ request[t] \in {"open", "left"})

\* A turn was lost between the session's running state and its run, and no other
\* turn will set the state.
Orphaned == stranded /\ \A t \in Turns : ~Ends(t)

\* However turns overlap, a session shown as running is orphaned or has a turn
\* that can end this.
RunningHasTurn == exec = "running" => Orphaned \/ \E t \in Turns : Ends(t)

\* However turns overlap and close each other's hubs, a client that reattaches is
\* never given a hub that has ended or that no turn will end: a turn at work
\* publishes to the session's hub, unless one that did was lost.
HubIsServed ==
    hub # NoHub => active(hub) /\ (stranded \/ \E t \in Turns : hubOf[t] = hub /\ Live(t))

\* No session is shown as running for ever.
RunningEnds == (exec = "running") ~> (exec # "running" \/ Orphaned)

\* With live reattach a run whose client was seen to leave goes on to its own
\* end, never cancelled, and that end is persisted, whatever other requests do.
DetachedRunIsSaved ==
    \A t \in Turns :
       (reattach /\ request[t] = "left" /\ run[t] = "working")
          ~> (t \in saved /\ outcome[t] # "cancelled")

=============================================================================
