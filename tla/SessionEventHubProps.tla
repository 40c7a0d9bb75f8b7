------------------------- MODULE SessionEventHubProps ------------------------
(***************************************************************************)
(* What SessionEventHub must satisfy.                                      *)
(***************************************************************************)
EXTENDS SessionEventHub

\* Subscribing before the replay loses nothing and repeats nothing: a client
\* sees the events of the hub in order, each once, without a hole between the
\* replay and the live queue, even when it is dropped as too slow.
Log == INSTANCE EventStream
         WITH Clients <- Streams, log <- seq, at <- last, seen <- written,
              over <- {s \in Streams : stage[s] \in Over}

ImplementsEventStream == Log!Spec

\* The first event a reattached client sees is the one after its cursor, unless
\* it was told of a gap.  Without a notice: a client without a cursor, and one
\* whose cursor is from an earlier run of the session.
FirstEvent(s) ==
    \/ last'[s] = since[s] + 1
    \/ told[s]
    \/ since[s] = 0
    \/ since[s] > subSeq[s]

ReplayFromCursor ==
    [][\A s \in Readers : last[s] = 0 /\ last'[s] > 0 => FirstEvent(s)]_vars

\* The places of the hub are not leaked: only an open stream is subscribed.  And
\* whoever is subscribed will be shown everything published since.
SubscribersAreServed ==
    \A s \in subs :
       /\ stage[s] \in Open
       /\ \A n \in (subSeq[s] + 1)..seq : n > last[s] =>
             \E i \in DOMAIN queue[s] : queue[s][i] = n

\* A stream that ends as done showed the end mark, or its client was dropped
\* before (or came after) the mark.
Truncated ==
    [][\A s \in Streams :
          stage[s] = "live" /\ stage'[s] = "done" /\ last'[s] # endmark
             => s \notin subs \/ subSeq[s] >= endmark]_vars

\* Whoever is attached when the run's end is published comes to an end: the
\* mark, or the timeout after it, reaches also the client that was dropped.
StreamsEnd ==
    \A s \in Streams :
       (stage[s] \in Open /\ is_runtime_done) ~> (stage[s] \in Over)

=============================================================================
