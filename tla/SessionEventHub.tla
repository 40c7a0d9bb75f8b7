--------------------------- MODULE SessionEventHub ---------------------------
(***************************************************************************)
(* The event hub of one studio session, studio/session_event_hub.py, and   *)
(* the two HTTP streams of studio/server.py that read it: the stream that  *)
(* answers POST /api/chat, and the reattach stream, which replays what the *)
(* client missed and then follows the live events.                         *)
(*                                                                         *)
(* Events are their sequence numbers: the n-th publish has number n.  The  *)
(* ring buffer keeps the last BufferMax of them, so it is the interval     *)
(* Oldest..seq.  hub._lock is never held across an await, so publish and   *)
(* publish_done are one step each; a stream is suspended at every event it *)
(* yields and at every wait on its queue.                                  *)
(***************************************************************************)
EXTENDS Naturals, Sequences, FiniteSets

CONSTANTS
    Chats,       \* streams of POST /api/chat
    Readers,     \* streams of GET /api/sessions/{id}/stream
    BufferMax,   \* buffer_maxlen
    QueueMax,    \* subscriber_queue_maxsize
    MaxSubs,     \* MAX_SUBSCRIBERS
    MaxEvents    \* bound: events published, the end mark included

ASSUME SizesAssumption ==
    /\ BufferMax \in Nat \ {0} /\ QueueMax \in Nat \ {0}
    /\ MaxSubs \in Nat /\ MaxEvents \in Nat
    /\ Chats \cap Readers = {}

VARIABLES
    seq,        \* _seq
    endmark,    \* number of the end mark, 0 while _runtime_done is false
    closed,     \* _closed
    subs,       \* _subscribers
    queue,      \* each subscriber's queue
    stage,      \* where each stream is
    since,      \* Last-Event-ID, the cursor a reattaching client brings
    subSeq,     \* _seq when the stream subscribed
    next,       \* next event of the replay
    replayEnd,  \* last event the replay found in the buffer
    last,       \* last event written to the client, 0 for none
    written,    \* history: how many events were written to the client
    told        \* a replay_gap was written to the client

hubVars == <<seq, endmark, closed>>
replayVars == <<since, subSeq, next, replayEnd>>
clientVars == <<last, written, told>>
vars == <<hubVars, subs, queue, stage, replayVars, clientVars>>

Streams == Chats \cup Readers
Numbers == 0..MaxEvents

\* idle, then subscribed (the gap notice is being written), replaying, live;
\* then over with a done event, over without one, refused or gone.
Open == {"subscribed", "replaying", "live"}
Over == {"done", "silent", "refused", "gone"}

TypeOK ==
    /\ seq \in Numbers /\ endmark \in Numbers /\ closed \in BOOLEAN
    /\ subs \subseteq Streams
    /\ queue \in [Streams -> Seq(Numbers)]
    /\ \A s \in Streams : Len(queue[s]) <= QueueMax
    /\ stage \in [Streams -> {"idle"} \cup Open \cup Over]
    /\ since \in [Streams -> Numbers]
    /\ subSeq \in [Streams -> Numbers]
    /\ next \in [Streams -> Nat]
    /\ replayEnd \in [Streams -> Nat]
    /\ last \in [Streams -> Numbers]
    /\ written \in [Streams -> Nat]
    /\ told \in [Streams -> BOOLEAN]

Init ==
    /\ seq = 0 /\ endmark = 0 /\ closed = FALSE
    /\ subs = {}
    /\ queue = [s \in Streams |-> <<>>]
    /\ stage = [s \in Streams |-> "idle"]
    /\ since = [s \in Streams |-> 0]
    /\ subSeq = [s \in Streams |-> 0]
    /\ next = [s \in Streams |-> 1]
    /\ replayEnd = [s \in Streams |-> 0]
    /\ last = [s \in Streams |-> 0]
    /\ written = [s \in Streams |-> 0]
    /\ told = [s \in Streams |-> FALSE]

-----------------------------------------------------------------------------
(* The hub.                                                                 *)

is_runtime_done == endmark > 0
is_active == ~closed /\ ~is_runtime_done

\* _buffer: its oldest event, seq + 1 when it is empty.
Oldest == IF closed THEN seq + 1 ELSE (IF seq > BufferMax THEN seq - BufferMax + 1 ELSE 1)

\* _fanout_locked: a subscriber whose queue is full is forgotten.
Full(s) == Len(queue[s]) >= QueueMax
fanout(n) ==
    /\ queue' = [s \in Streams |->
                   IF s \in subs /\ ~Full(s) THEN Append(queue[s], n) ELSE queue[s]]
    /\ subs' = {s \in subs : ~Full(s)}

publish ==
    /\ is_active
    /\ seq + 1 < MaxEvents
    /\ seq' = seq + 1
    /\ fanout(seq + 1)
    /\ UNCHANGED <<endmark, closed, stage, replayVars, clientVars>>

publish_done ==
    /\ is_active
    /\ seq < MaxEvents
    /\ seq' = seq + 1
    /\ endmark' = seq + 1
    /\ fanout(seq + 1)
    /\ UNCHANGED <<closed, stage, replayVars, clientVars>>

\* The session's state became idle, interrupted or failed, or it was deleted.
close ==
    /\ ~closed
    /\ closed' = TRUE
    /\ subs' = {}
    /\ UNCHANGED <<seq, endmark, queue, stage, replayVars, clientVars>>

CanSubscribe == ~closed /\ Cardinality(subs) < MaxSubs

\* Seeded fault: a stream ends without its finally.
LeaveSubscribed(s, how) ==
    /\ stage' = [stage EXCEPT ![s] = how]
    /\ UNCHANGED subs

\* The lines of event n are yielded.
Write(s, n) ==
    /\ last' = [last EXCEPT ![s] = n]
    /\ written' = [written EXCEPT ![s] = @ + 1]

\* A stream's finally: unsubscribe.
Leave(s, how) ==
    /\ stage' = [stage EXCEPT ![s] = how]
    /\ subs' = subs \ {s}

-----------------------------------------------------------------------------
(* The stream of a chat request.                                            *)

StartChat(s) ==
    /\ stage[s] = "idle"
    /\ IF CanSubscribe
         THEN /\ subs' = subs \cup {s}
              /\ stage' = [stage EXCEPT ![s] = "live"]
         ELSE /\ stage' = [stage EXCEPT ![s] = "refused"]
              /\ UNCHANGED subs
    /\ subSeq' = [subSeq EXCEPT ![s] = seq]
    /\ UNCHANGED <<hubVars, queue, since, next, replayEnd, clientVars>>

\* wait_for(queue.get()) returned an event; the end mark ends the stream.  The
\* reader's test seq <= sub_seq is never true of what its queue holds.
Deliver(s) ==
    /\ stage[s] = "live"
    /\ queue[s] # <<>>
    /\ LET n == Head(queue[s])
       IN  IF s \in Readers /\ n <= subSeq[s]
             THEN UNCHANGED <<last, written, stage, subs>>
             ELSE /\ Write(s, n)
                  /\ IF n = endmark THEN Leave(s, "done") ELSE UNCHANGED <<stage, subs>>
    /\ queue' = [queue EXCEPT ![s] = Tail(@)]
    /\ UNCHANGED <<hubVars, replayVars, told>>

\* Seeded faults: a chat stream does not look at its queue again; a reader waits
\* on after the run ended.
TimeoutUnread(s) ==
    /\ stage[s] = "live"
    /\ is_runtime_done
    /\ Leave(s, IF s \in Chats THEN "done" ELSE "silent")
    /\ UNCHANGED <<hubVars, queue, replayVars, clientVars>>
TimeoutContinues(s) ==
    /\ s \in Chats /\ stage[s] = "live"
    /\ queue[s] = <<>>
    /\ is_runtime_done
    /\ Leave(s, "done")
    /\ UNCHANGED <<hubVars, queue, replayVars, clientVars>>

\* The wait timed out: a chat stream, if its queue is still empty, tells its client
\* that the turn is over; a reader just ends, whatever has come since.
Timeout(s) ==
    /\ stage[s] = "live"
    /\ queue[s] = <<>> \/ s \in Readers
    /\ is_runtime_done
    /\ Leave(s, IF s \in Chats THEN "done" ELSE "silent")
    /\ UNCHANGED <<hubVars, queue, replayVars, clientVars>>

Disconnect(s) ==
    /\ stage[s] \in Open
    /\ Leave(s, "gone")
    /\ UNCHANGED <<hubVars, queue, replayVars, clientVars>>

-----------------------------------------------------------------------------
(* The reattach stream.                                                     *)

Refuse(s, how) ==
    /\ stage' = [stage EXCEPT ![s] = how]
    /\ UNCHANGED <<hubVars, subs, queue, replayVars, clientVars>>

\* Seeded fault: the event at the cursor is replayed again.
StartReplayInclusive(s, from) ==
    /\ next' = [next EXCEPT ![s] = IF from > Oldest THEN from ELSE Oldest]
    /\ replayEnd' = [replayEnd EXCEPT ![s] = seq]

\* replay_since(since): the events the buffer holds now.
StartReplay(s, from) ==
    /\ next' = [next EXCEPT ![s] = IF from + 1 > Oldest THEN from + 1 ELSE Oldest]
    /\ replayEnd' = [replayEnd EXCEPT ![s] = seq]

\* It subscribes before it replays; a gap notice is written, and the stream
\* suspended, between the two.
Attach(s, from) ==
    LET gap == from > 0 /\ Oldest <= seq /\ from + 1 < Oldest
    IN  /\ subs' = subs \cup {s}
        /\ since' = [since EXCEPT ![s] = from]
        /\ subSeq' = [subSeq EXCEPT ![s] = seq]
        /\ told' = [told EXCEPT ![s] = gap]
        /\ IF gap
             THEN /\ stage' = [stage EXCEPT ![s] = "subscribed"]
                  /\ UNCHANGED <<next, replayEnd>>
             ELSE /\ stage' = [stage EXCEPT ![s] = "replaying"]
                  /\ StartReplay(s, from)
        /\ UNCHANGED <<hubVars, queue, last, written>>

StartReader(s) ==
    /\ stage[s] = "idle"
    /\ \/ ~is_active /\ Refuse(s, "done")
       \/ is_active /\ ~CanSubscribe /\ Refuse(s, "refused")
       \/ is_active /\ CanSubscribe /\ \E from \in Numbers : Attach(s, from)

GapWritten(s) ==
    /\ stage[s] = "subscribed"
    /\ stage' = [stage EXCEPT ![s] = "replaying"]
    /\ StartReplay(s, since[s])
    /\ UNCHANGED <<hubVars, subs, queue, since, subSeq, clientVars>>

\* Seeded fault: the replay does not stop at the subscription.
ReplayableAll(s) == next[s] <= replayEnd[s]

\* What was published after the subscription is left to the live queue.
Replayable(s) == next[s] <= replayEnd[s] /\ next[s] <= subSeq[s]

\* One replayed event is written; none of them is the end mark, since the hub
\* was active when the stream subscribed.
Replay(s) ==
    /\ stage[s] = "replaying"
    /\ Replayable(s)
    /\ Write(s, next[s])
    /\ next' = [next EXCEPT ![s] = @ + 1]
    /\ UNCHANGED <<hubVars, subs, queue, stage, since, subSeq, replayEnd, told>>

ReplayOver(s) ==
    /\ stage[s] = "replaying"
    /\ ~Replayable(s)
    /\ stage' = [stage EXCEPT ![s] = "live"]
    /\ UNCHANGED <<hubVars, subs, queue, replayVars, clientVars>>

-----------------------------------------------------------------------------
Hub == publish \/ publish_done \/ close

Stream(s) ==
    \/ s \in Chats /\ StartChat(s)
    \/ s \in Readers /\ StartReader(s)
    \/ GapWritten(s) \/ Replay(s) \/ ReplayOver(s)
    \/ Deliver(s) \/ Timeout(s) \/ Disconnect(s)

Next == Hub \/ \E s \in Streams : Stream(s)

Spec == Init /\ [][Next]_vars

\* The server resumes a stream whose wait is over, or timed out.
FairSpec ==
    /\ Spec
    /\ \A s \in Streams :
          /\ WF_vars(GapWritten(s) \/ Replay(s) \/ ReplayOver(s))
          /\ WF_vars(Deliver(s) \/ Timeout(s))

=============================================================================
