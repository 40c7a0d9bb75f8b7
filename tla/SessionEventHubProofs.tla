------------------------ MODULE SessionEventHubProofs ------------------------
(***************************************************************************)
(* Proofs of the safety properties of SessionEventHub, and that it         *)
(* implements EventStream, for every set of streams and all sizes.         *)
(*                                                                         *)
(* The argument is what a queue holds: the events after the last one the   *)
(* client saw or, before it saw a live one, after the subscription, without*)
(* a hole, and up to seq for a subscriber (Queued).  Cursor relates the    *)
(* replay to it.                                                           *)
(***************************************************************************)
EXTENDS SessionEventHubProps, SequenceTheorems, TLAPS

\* The event before the first one in the queue
Base(s) == IF last[s] > subSeq[s] THEN last[s] ELSE subSeq[s]

Queued(s) ==
    /\ \A i \in 1..Len(queue[s]) : queue[s][i] = Base(s) + i
    /\ Base(s) + Len(queue[s]) <= seq
    /\ s \in subs => Base(s) + Len(queue[s]) = seq /\ stage[s] \in Open
    /\ stage[s] = "idle" => queue[s] = <<>> /\ last[s] = 0

\* Where a replay and its end leave the client
Cursor(s) ==
    /\ stage[s] = "subscribed" => last[s] = 0 /\ told[s]
    /\ stage[s] = "replaying" =>
          /\ subSeq[s] <= replayEnd[s] /\ replayEnd[s] <= seq
          /\ next[s] > 0 /\ last[s] <= subSeq[s]
          /\ last[s] > 0 => next[s] = last[s] + 1
          /\ last[s] > 0 \/ told[s] \/ since[s] = 0 \/ next[s] = since[s] + 1
    /\ stage[s] = "live" =>
          /\ last[s] = 0 \/ last[s] >= subSeq[s]
          /\ s \in Readers =>
                last[s] > 0 \/ told[s] \/ since[s] = 0 \/ since[s] >= subSeq[s]

\* The run's end is the last thing that is published.
Ended == endmark = 0 \/ endmark = seq

IInv ==
    /\ TypeOK /\ Ended
    /\ \A s \in Streams : Queued(s) /\ Cursor(s)

-----------------------------------------------------------------------------
(* Steps that leave a stream alone.                                         *)

Untouched(u) ==
    /\ queue'[u] = queue[u] /\ stage'[u] = stage[u] /\ since'[u] = since[u]
    /\ subSeq'[u] = subSeq[u] /\ next'[u] = next[u] /\ replayEnd'[u] = replayEnd[u]
    /\ last'[u] = last[u] /\ told'[u] = told[u]
    /\ u \in subs' => u \in subs

LEMMA UntouchedKept ==
    ASSUME NEW u \in Streams, Queued(u), Cursor(u), Untouched(u), seq' = seq
    PROVE  Queued(u)' /\ Cursor(u)'
<1>1. Base(u)' = Base(u)
  BY DEF Base, Untouched
<1>2. Queued(u)'
  BY <1>1 DEF Queued, Untouched, Open
<1>3. Cursor(u)'
  BY DEF Cursor, Untouched
<1> QED BY <1>2, <1>3

\* What the types say of one stream
LEMMA Typed ==
    ASSUME TypeOK, NEW s \in Streams
    PROVE  /\ seq \in Nat /\ seq <= MaxEvents /\ MaxEvents \in Nat
           /\ queue[s] \in Seq(Numbers) /\ Len(queue[s]) \in Nat
           /\ last[s] \in Numbers /\ subSeq[s] \in Numbers
           /\ since[s] \in Numbers /\ next[s] \in Nat /\ replayEnd[s] \in Nat
           /\ Base(s) \in Numbers /\ Numbers \subseteq Nat
BY SizesAssumption, LenProperties DEF TypeOK, Numbers, Base

-----------------------------------------------------------------------------
(* The hub.                                                                 *)

LEMMA OneMore ==
    ASSUME NEW b \in Nat, NEW a \in Nat, NEW c, NEW q, c = a + 1, b + a = q
    PROVE  b + c = q + 1
OBVIOUS

LEMMA OneLess ==
    ASSUME NEW b \in Nat, NEW a \in Nat, NEW c, NEW n, n = b + 1, c = a - 1
    PROVE  n + c = b + a
OBVIOUS

LEMMA FanoutType ==
    ASSUME TypeOK, NEW n \in Numbers, fanout(n)
    PROVE  queue' \in [Streams -> Seq(Numbers)]
<1>1. ASSUME NEW u \in Streams PROVE Append(queue[u], n) \in Seq(Numbers)
  BY AppendProperties DEF TypeOK
<1> QED BY <1>1 DEF TypeOK, fanout

\* An event goes to the end of the queues that have room.
LEMMA Fanout ==
    ASSUME TypeOK, NEW n \in Numbers, fanout(n), NEW s \in Streams
    PROVE  /\ queue' \in [Streams -> Seq(Numbers)]
           /\ Len(queue'[s]) <= QueueMax
           /\ IF s \in subs /\ ~Full(s)
                THEN /\ Len(queue'[s]) = Len(queue[s]) + 1
                     /\ queue'[s][Len(queue[s]) + 1] = n
                     /\ \A i \in 1..Len(queue[s]) : queue'[s][i] = queue[s][i]
                ELSE queue'[s] = queue[s]
           /\ s \in subs' <=> s \in subs /\ ~Full(s)
<1>2. queue' \in [Streams -> Seq(Numbers)]
  BY FanoutType
<1>3. queue[s] \in Seq(Numbers) /\ Len(queue[s]) \in Nat /\ Len(queue[s]) <= QueueMax /\ QueueMax \in Nat
  BY SizesAssumption, LenProperties DEF TypeOK
<1>4. s \in subs' <=> s \in subs /\ ~Full(s)
  BY DEF fanout
<1>5. CASE s \in subs /\ ~Full(s)
  <2>1. queue'[s] = Append(queue[s], n)
    BY <1>5 DEF fanout
  <2>2. /\ Len(queue'[s]) = Len(queue[s]) + 1
        /\ queue'[s][Len(queue[s]) + 1] = n
        /\ \A i \in 1..Len(queue[s]) : queue'[s][i] = queue[s][i]
    BY <1>3, <2>1, AppendProperties
  <2> QED BY <1>2, <1>3, <1>4, <1>5, <2>2 DEF Full
<1>6. CASE ~(s \in subs /\ ~Full(s))
  BY <1>2, <1>3, <1>4, <1>6 DEF fanout
<1> QED BY <1>5, <1>6

\* Publishing keeps the invariant.
LEMMA PublishInv ==
    ASSUME IInv, publish \/ publish_done PROVE IInv'
<1>1. /\ TypeOK /\ seq \in Nat /\ seq < MaxEvents /\ MaxEvents \in Nat
      /\ seq' = seq + 1 /\ fanout(seq + 1) /\ closed' = closed
      /\ stage' = stage /\ since' = since /\ subSeq' = subSeq /\ next' = next
      /\ replayEnd' = replayEnd /\ last' = last /\ written' = written /\ told' = told
      /\ endmark = 0 /\ endmark' \in {0, seq + 1}
  BY SizesAssumption DEF IInv, TypeOK, Numbers, publish, publish_done, replayVars, clientVars, is_active,
     is_runtime_done
<1>2. seq + 1 \in Numbers /\ 0 \in Numbers
  BY <1>1 DEF Numbers
<1>3. TypeOK'
  <2>1. queue' \in [Streams -> Seq(Numbers)]
    BY <1>1, <1>2, FanoutType
  <2>2. \A s \in Streams : Len(queue'[s]) <= QueueMax
    BY <1>1, <1>2, Fanout
  <2>3. subs' \subseteq subs
    BY <1>1 DEF fanout
  <2> QED BY <1>1, <1>2, <2>1, <2>2, <2>3 DEF TypeOK
<1>4. Ended'
  BY <1>1 DEF Ended
<1>5. ASSUME NEW s \in Streams PROVE Queued(s)' /\ Cursor(s)'
  <2>1. Queued(s) /\ Cursor(s)
    BY DEF IInv
  <2>2. /\ Base(s) \in Nat /\ Len(queue[s]) \in Nat /\ Base(s)' = Base(s) /\ replayEnd[s] \in Nat
    BY <1>1, Typed DEF Base
  <2>3. Queued(s)'
    <3>1. CASE s \in subs /\ ~Full(s)
      <4>1. /\ Len(queue'[s]) = Len(queue[s]) + 1
            /\ queue'[s][Len(queue[s]) + 1] = seq + 1
            /\ \A i \in 1..Len(queue[s]) : queue'[s][i] = queue[s][i]
        BY <1>1, <1>2, <3>1, Fanout
      <4>2. Base(s) + Len(queue[s]) = seq /\ stage[s] \in Open /\ stage[s] # "idle"
        BY <2>1, <3>1 DEF Queued, Open
      <4>3. \A i \in 1..Len(queue'[s]) : queue'[s][i] = Base(s) + i
        <5>1. ASSUME NEW i \in 1..Len(queue'[s]) PROVE queue'[s][i] = Base(s) + i
          <6>1. CASE i = Len(queue[s]) + 1
            BY <1>1, <2>2, <4>1, <4>2, <6>1
          <6>2. CASE i \in 1..Len(queue[s])
            BY <2>1, <4>1, <6>2 DEF Queued
          <6> QED BY <2>2, <4>1, <6>1, <6>2
        <5> QED BY <5>1
      <4>4. Base(s) + Len(queue'[s]) = seq'
        <5>1. Base(s) + Len(queue'[s]) = seq + 1
          BY <2>2, <4>1, <4>2, OneMore
        <5> QED BY <1>1, <5>1
      <4> QED BY <1>1, <2>2, <4>2, <4>3, <4>4 DEF Queued, Open
    <3>2. CASE ~(s \in subs /\ ~Full(s))
      <4>1. queue'[s] = queue[s] /\ s \notin subs'
        BY <1>1, <1>2, <3>2, Fanout
      <4>2. Base(s) + Len(queue[s]) <= seq + 1
        BY <1>1, <2>1, <2>2 DEF Queued
      <4> QED BY <1>1, <2>1, <2>2, <4>1, <4>2 DEF Queued
    <3> QED BY <3>1, <3>2
  <2>4. Cursor(s)'
    BY <1>1, <2>1, <2>2 DEF Cursor
  <2> QED BY <2>3, <2>4
<1> QED BY <1>3, <1>4, <1>5 DEF IInv

\* So does closing.
LEMMA CloseInv == ASSUME IInv, close PROVE IInv'
<1>1. TypeOK' /\ Ended' /\ seq' = seq
  BY DEF IInv, TypeOK, Ended, close, replayVars, clientVars
<1>2. ASSUME NEW s \in Streams PROVE Queued(s)' /\ Cursor(s)'
  <2>1. Untouched(s)
    BY DEF close, replayVars, clientVars, Untouched
  <2> QED BY <1>1, <2>1, UntouchedKept DEF IInv
<1> QED BY <1>1, <1>2 DEF IInv

-----------------------------------------------------------------------------
(* The streams.                                                             *)

\* What a step of stream s changes is its own.
LEMMA OwnStep ==
    ASSUME IInv, NEW s \in Streams, TypeOK', seq' = seq, endmark' = endmark,
           \A u \in Streams \ {s} : Untouched(u),
           Queued(s)' /\ Cursor(s)'
    PROVE  IInv'
<1>1. ASSUME NEW u \in Streams PROVE Queued(u)' /\ Cursor(u)'
  BY UntouchedKept DEF IInv
<1>2. Ended'
  BY DEF IInv, Ended
<1> QED BY <1>1, <1>2 DEF IInv

\* A stream ends.
LEMMA EndInv ==
    ASSUME IInv, NEW s \in Streams, NEW how \in Over,
           stage' = [stage EXCEPT ![s] = how],
           subs' \in {subs, subs \ {s}}, s \in subs => subs' = subs \ {s},
           UNCHANGED <<hubVars, queue, replayVars, clientVars>>
    PROVE  IInv'
<1>1. /\ seq' = seq /\ endmark' = endmark /\ closed' = closed /\ queue' = queue /\ since' = since
      /\ subSeq' = subSeq /\ next' = next /\ replayEnd' = replayEnd /\ last' = last
      /\ written' = written /\ told' = told /\ s \notin subs'
  BY DEF hubVars, replayVars, clientVars
<1>2. TypeOK'
  BY <1>1 DEF IInv, TypeOK
<1>3. \A u \in Streams \ {s} : Untouched(u)
  BY <1>1 DEF IInv, TypeOK, Untouched
<1>4. stage'[s] \in Over /\ stage'[s] \notin Open \cup {"idle"}
  BY DEF IInv, TypeOK, Over, Open
<1>5. Queued(s) /\ Cursor(s) /\ Base(s)' = Base(s)
  BY <1>1 DEF IInv, Base
<1>6. Queued(s)' /\ Cursor(s)'
  BY <1>1, <1>4, <1>5 DEF Queued, Cursor, Open
<1> QED BY <1>1, <1>2, <1>3, <1>6, OwnStep

\* A chat stream subscribes where the hub is.
LEMMA StartChatInv == ASSUME IInv, NEW s \in Chats, StartChat(s) PROVE IInv'
<1>1. /\ s \in Streams /\ s \notin Readers /\ stage[s] = "idle"
      /\ seq' = seq /\ endmark' = endmark /\ closed' = closed /\ queue' = queue /\ since' = since
      /\ subSeq' = [subSeq EXCEPT ![s] = seq] /\ next' = next /\ replayEnd' = replayEnd
      /\ last' = last /\ written' = written /\ told' = told
      /\ \/ subs' = subs \cup {s} /\ stage' = [stage EXCEPT ![s] = "live"]
         \/ subs' = subs /\ stage' = [stage EXCEPT ![s] = "refused"]
  BY SizesAssumption DEF StartChat, Streams, hubVars, clientVars
<1>2. seq \in Numbers
  BY DEF IInv, TypeOK
<1>3. TypeOK'
  BY <1>1, <1>2 DEF IInv, TypeOK, Open, Over
<1>4. \A u \in Streams \ {s} : Untouched(u)
  BY <1>1 DEF IInv, TypeOK, Untouched
<1>5. /\ queue[s] = <<>> /\ last[s] = 0 /\ s \notin subs /\ seq \in Nat
      /\ subSeq'[s] = seq /\ stage'[s] \in {"live", "refused"} /\ (s \in subs' => stage'[s] = "live")
  BY <1>1, Typed DEF IInv, Queued, TypeOK, Open
<1>6. Base(s)' = seq
  BY <1>1, <1>5 DEF Base
<1>7. Queued(s)' /\ Cursor(s)'
  BY <1>1, <1>5, <1>6 DEF Queued, Cursor, Open
<1> QED BY <1>1, <1>3, <1>4, <1>7, OwnStep

\* The first of the queue is the event after the last one.
LEMMA HeadIsNext ==
    ASSUME IInv, NEW s \in Streams, queue[s] # <<>>
    PROVE  /\ Head(queue[s]) = Base(s) + 1 /\ Base(s) + 1 <= seq
           /\ Head(queue[s]) > subSeq[s] /\ Head(queue[s]) > last[s] /\ Head(queue[s]) \in Numbers
           /\ Len(Tail(queue[s])) = Len(queue[s]) - 1 /\ Tail(queue[s]) \in Seq(Numbers)
           /\ \A i \in 1..Len(Tail(queue[s])) : Tail(queue[s])[i] = Base(s) + 1 + i
<1>1. /\ queue[s] \in Seq(Numbers) /\ Base(s) \in Nat /\ Len(queue[s]) \in Nat
      /\ subSeq[s] \in Nat /\ last[s] \in Nat /\ seq \in Nat /\ Queued(s)
  BY Typed DEF IInv
<1>2. /\ Head(queue[s]) = queue[s][1] /\ Len(queue[s]) >= 1
      /\ Head(queue[s]) \in Numbers
      /\ Tail(queue[s]) \in Seq(Numbers) /\ Len(Tail(queue[s])) = Len(queue[s]) - 1
      /\ \A i \in 1..Len(Tail(queue[s])) : Tail(queue[s])[i] = queue[s][i + 1]
  <2> DEFINE q == queue[s]
  <2>1. q \in Seq(Numbers) /\ q # <<>>
    BY <1>1
  <2> HIDE DEF q
  <2>2. /\ Head(q) \in Numbers /\ Tail(q) \in Seq(Numbers) /\ Len(Tail(q)) = Len(q) - 1
        /\ \A i \in 1..Len(Tail(q)) : Tail(q)[i] = q[i + 1]
    BY <2>1, HeadTailProperties
  <2>3. Len(q) >= 1 /\ Head(q) = q[1]
    BY <2>1, EmptySeq, LenProperties
  <2> QED BY <2>2, <2>3 DEF q
<1>3. \A i \in 1..Len(queue[s]) : queue[s][i] = Base(s) + i
  BY <1>1 DEF Queued
<1>4. Head(queue[s]) = Base(s) + 1 /\ Base(s) + 1 <= seq
  BY <1>1, <1>2, <1>3 DEF Queued
<1>5. ASSUME NEW i \in 1..Len(Tail(queue[s])) PROVE Tail(queue[s])[i] = Base(s) + 1 + i
  <2>1. i + 1 \in 1..Len(queue[s])
    BY <1>1, <1>2
  <2>2. Tail(queue[s])[i] = queue[s][i + 1] /\ i \in Nat
    BY <1>1, <1>2
  <2>3. queue[s][i + 1] = Base(s) + (i + 1)
    BY <1>3, <2>1
  <2> QED BY <1>1, <2>2, <2>3
<1> QED BY <1>1, <1>2, <1>4, <1>5 DEF Base

\* A delivered event leaves the ones after it.
LEMMA DeliverInv == ASSUME IInv, NEW s \in Streams, Deliver(s) PROVE IInv'
<1> DEFINE n == Head(queue[s])
<1>1. /\ n = Base(s) + 1 /\ n <= seq /\ n > subSeq[s] /\ n > last[s] /\ n \in Numbers
      /\ Len(Tail(queue[s])) = Len(queue[s]) - 1 /\ Tail(queue[s]) \in Seq(Numbers)
      /\ \A i \in 1..Len(Tail(queue[s])) : Tail(queue[s])[i] = n + i
  BY HeadIsNext DEF Deliver
<1>2. /\ queue[s] \in Seq(Numbers) /\ Len(queue[s]) \in Nat /\ Base(s) \in Nat
      /\ subSeq[s] \in Nat /\ last[s] \in Nat /\ seq \in Nat /\ Numbers \subseteq Nat
      /\ Queued(s) /\ Cursor(s) /\ TypeOK
  BY Typed DEF IInv
<1> HIDE DEF n
<1>3. /\ stage[s] = "live" /\ queue' = [queue EXCEPT ![s] = Tail(queue[s])]
      /\ seq' = seq /\ endmark' = endmark /\ closed' = closed
      /\ since' = since /\ subSeq' = subSeq /\ next' = next /\ replayEnd' = replayEnd /\ told' = told
      /\ last' = [last EXCEPT ![s] = n] /\ written' = [written EXCEPT ![s] = written[s] + 1]
      /\ \/ stage' = stage /\ subs' = subs
         \/ stage' = [stage EXCEPT ![s] = "done"] /\ subs' = subs \ {s}
  BY <1>1, <1>2 DEF Deliver, n, Write, Leave, hubVars, replayVars
<1>4. /\ queue'[s] = Tail(queue[s]) /\ last'[s] = n /\ stage'[s] \in {"live", "done"}
      /\ (s \in subs' => s \in subs /\ stage'[s] = "live")
      /\ stage'[s] = "live" => stage' = stage
  BY <1>2, <1>3 DEF TypeOK
<1>5. TypeOK'
  <2>1. Len(queue[s]) <= QueueMax /\ QueueMax \in Nat
    BY <1>2, SizesAssumption DEF TypeOK
  <2>2. Len(queue'[s]) <= QueueMax
    BY <1>1, <1>2, <1>4, <2>1
  <2>3. \A u \in Streams : Len(queue'[u]) <= QueueMax
    BY <1>2, <1>3, <2>2 DEF TypeOK
  <2>4. queue' \in [Streams -> Seq(Numbers)]
    BY <1>1, <1>2, <1>3 DEF TypeOK
  <2>5. last' \in [Streams -> Numbers] /\ written' \in [Streams -> Nat]
    BY <1>1, <1>2, <1>3 DEF TypeOK
  <2>6. stage' \in [Streams -> {"idle"} \cup Open \cup Over] /\ subs' \subseteq Streams
    BY <1>2, <1>3 DEF TypeOK, Over, Open
  <2> QED BY <1>2, <1>3, <2>3, <2>4, <2>5, <2>6 DEF TypeOK
<1>6. \A u \in Streams \ {s} : Untouched(u)
  BY <1>2, <1>3 DEF TypeOK, Untouched
<1>7. Base(s)' = n
  BY <1>1, <1>3, <1>4 DEF Base
<1>8. Queued(s)'
  <2>1. \A i \in 1..Len(queue'[s]) : queue'[s][i] = n + i
    BY <1>1, <1>4
  <2>2. n + Len(queue'[s]) = Base(s) + Len(queue[s])
    <3>1. n = Base(s) + 1 /\ Len(queue'[s]) = Len(queue[s]) - 1
      BY <1>1, <1>4
    <3> QED BY <1>2, <3>1, OneLess
  <2>3. s \in subs' => stage'[s] \in Open
    BY <1>4 DEF Open
  <2> QED BY <1>2, <1>3, <1>4, <1>7, <2>1, <2>2, <2>3 DEF Queued
<1>9. Cursor(s)'
  BY <1>1, <1>2, <1>3, <1>4 DEF Cursor
<1> QED BY <1>3, <1>5, <1>6, <1>8, <1>9, OwnStep

\* Where a replay starts.
LEMMA StartReplayAt ==
    ASSUME IInv, NEW s \in Streams, NEW from \in Numbers, StartReplay(s, from)
    PROVE  /\ next' \in [Streams -> Nat] /\ replayEnd' = [replayEnd EXCEPT ![s] = seq]
           /\ replayEnd' \in [Streams -> Nat]
           /\ next'[s] > 0 /\ (Oldest <= from + 1 => next'[s] = from + 1)
           /\ \A u \in Streams \ {s} : next'[u] = next[u]
<1>1. from \in Nat /\ Oldest \in Nat /\ Oldest > 0 /\ seq \in Nat
  BY Typed, SizesAssumption DEF IInv, Oldest, Numbers
<1>2. /\ next' = [next EXCEPT ![s] = IF from + 1 > Oldest THEN from + 1 ELSE Oldest]
      /\ replayEnd' = [replayEnd EXCEPT ![s] = seq]
      /\ next \in [Streams -> Nat] /\ replayEnd \in [Streams -> Nat]
  BY DEF StartReplay, IInv, TypeOK
<1> QED BY <1>1, <1>2

\* A reader starts its replay after its cursor, or is told of the gap.
LEMMA AttachInv ==
    ASSUME IInv, NEW s \in Readers, stage[s] = "idle", is_active, NEW from \in Numbers, Attach(s, from)
    PROVE  IInv'
<1> DEFINE gap == from > 0 /\ Oldest <= seq /\ from + 1 < Oldest
<1>1. s \in Streams /\ TypeOK /\ Queued(s) /\ seq \in Nat /\ from \in Nat
      /\ seq \in Numbers /\ Base(s) \in Nat /\ subs \subseteq Streams
  BY Typed DEF IInv, Streams, Numbers, TypeOK
<1>2. /\ subs' = subs \cup {s} /\ since' = [since EXCEPT ![s] = from]
      /\ subSeq' = [subSeq EXCEPT ![s] = seq] /\ told' = [told EXCEPT ![s] = gap]
      /\ seq' = seq /\ endmark' = endmark /\ closed' = closed
      /\ queue' = queue /\ last' = last /\ written' = written
      /\ \/ gap /\ stage' = [stage EXCEPT ![s] = "subscribed"] /\ UNCHANGED <<next, replayEnd>>
         \/ ~gap /\ stage' = [stage EXCEPT ![s] = "replaying"] /\ StartReplay(s, from)
  BY DEF Attach, hubVars
<1> HIDE DEF gap
<1>3. next' \in [Streams -> Nat] /\ replayEnd' \in [Streams -> Nat]
  BY <1>1, <1>2, StartReplayAt DEF TypeOK
<1>4. TypeOK'
  BY <1>1, <1>2, <1>3 DEF TypeOK, Open, gap
<1>5. \A u \in Streams \ {s} : Untouched(u)
  BY <1>1, <1>2, StartReplayAt DEF TypeOK, Untouched
<1>6. /\ queue[s] = <<>> /\ last[s] = 0 /\ s \in subs' /\ subSeq'[s] = seq
      /\ stage'[s] \in {"subscribed", "replaying"} /\ since'[s] = from /\ told'[s] = gap
  BY <1>1, <1>2 DEF Queued, TypeOK
<1>7. Base(s)' = seq
  BY <1>1, <1>2, <1>6 DEF Base
<1>8. Queued(s)'
  BY <1>1, <1>2, <1>6, <1>7 DEF Queued, Open
<1>9. Cursor(s)'
  <2>1. CASE stage'[s] = "subscribed"
    <3>1. gap
      BY <1>1, <1>2, <2>1 DEF TypeOK
    <3> QED BY <1>2, <1>6, <2>1, <3>1 DEF Cursor
  <2>2. CASE stage'[s] = "replaying"
    <3>1. ~gap /\ StartReplay(s, from)
      BY <1>1, <1>2, <2>2 DEF TypeOK
    <3>2. /\ replayEnd'[s] = seq /\ next'[s] > 0 /\ (Oldest <= from + 1 => next'[s] = from + 1)
      BY <1>1, <3>1, StartReplayAt DEF TypeOK
    <3>3. from = 0 \/ Oldest <= from + 1
      BY <1>1, <3>1, SizesAssumption DEF gap, Oldest, is_active
    <3> QED BY <1>1, <1>2, <1>6, <2>2, <3>2, <3>3 DEF Cursor
  <2> QED BY <1>6, <2>1, <2>2
<1> QED BY <1>1, <1>2, <1>4, <1>5, <1>8, <1>9, OwnStep

LEMMA GapWrittenInv == ASSUME IInv, NEW s \in Streams, GapWritten(s) PROVE IInv'
<1>1. /\ stage[s] = "subscribed" /\ stage' = [stage EXCEPT ![s] = "replaying"]
      /\ StartReplay(s, since[s]) /\ since[s] \in Numbers /\ TypeOK
      /\ seq' = seq /\ endmark' = endmark /\ closed' = closed /\ subs' = subs /\ queue' = queue
      /\ since' = since /\ subSeq' = subSeq /\ last' = last /\ written' = written /\ told' = told
  BY DEF GapWritten, hubVars, clientVars, IInv, TypeOK
<1>2. /\ next' \in [Streams -> Nat] /\ replayEnd' = [replayEnd EXCEPT ![s] = seq]
      /\ replayEnd' \in [Streams -> Nat] /\ next'[s] > 0
      /\ \A u \in Streams \ {s} : next'[u] = next[u]
  BY <1>1, StartReplayAt
<1>3. TypeOK'
  BY <1>1, <1>2 DEF TypeOK, Open
<1>4. \A u \in Streams \ {s} : Untouched(u)
  BY <1>1, <1>2 DEF TypeOK, Untouched
<1>5. Queued(s) /\ last[s] = 0 /\ told[s] /\ Base(s)' = Base(s)
  BY <1>1 DEF IInv, Cursor, Base
<1>6. stage'[s] = "replaying" /\ replayEnd'[s] = seq /\ subSeq[s] \in Nat /\ seq \in Nat
      /\ Base(s) \in Nat /\ Len(queue[s]) \in Nat
  BY <1>1, <1>2, Typed DEF TypeOK, Numbers
<1>7. Queued(s)' /\ subSeq[s] <= seq
  BY <1>1, <1>5, <1>6 DEF Queued, Open, Base
<1>8. Cursor(s)'
  BY <1>1, <1>2, <1>5, <1>6, <1>7 DEF Cursor
<1> QED BY <1>1, <1>3, <1>4, <1>7, <1>8, OwnStep

\* A replayed event is before everything in the queue.
LEMMA ReplayInv == ASSUME IInv, NEW s \in Streams, Replay(s) PROVE IInv'
<1>1. /\ stage[s] = "replaying" /\ next[s] <= replayEnd[s] /\ next[s] <= subSeq[s]
      /\ last' = [last EXCEPT ![s] = next[s]] /\ written' = [written EXCEPT ![s] = written[s] + 1]
      /\ next' = [next EXCEPT ![s] = next[s] + 1]
      /\ seq' = seq /\ endmark' = endmark /\ closed' = closed /\ subs' = subs /\ queue' = queue
      /\ stage' = stage /\ since' = since /\ subSeq' = subSeq /\ replayEnd' = replayEnd /\ told' = told
  BY DEF Replay, Replayable, Write, hubVars
<1>2. /\ TypeOK /\ Queued(s) /\ Cursor(s) /\ next[s] \in Nat /\ subSeq[s] \in Numbers
      /\ last[s] \in Nat /\ seq \in Nat /\ subSeq[s] \in Nat /\ replayEnd[s] \in Nat /\ since[s] \in Nat
  BY Typed DEF IInv, Numbers
<1>3. next[s] \in Numbers
  BY <1>1, <1>2, SizesAssumption DEF Numbers
<1>4. TypeOK'
  <2>1. /\ last' \in [Streams -> Numbers] /\ next' \in [Streams -> Nat]
        /\ written' \in [Streams -> Nat]
    BY <1>1, <1>2, <1>3 DEF TypeOK
  <2> QED BY <1>1, <1>2, <2>1 DEF TypeOK
<1>5. \A u \in Streams \ {s} : Untouched(u)
  BY <1>1, <1>2 DEF TypeOK, Untouched
<1>6. last'[s] = next[s] /\ next'[s] = next[s] + 1
  BY <1>1, <1>2 DEF TypeOK
<1>7. Base(s) = subSeq[s] /\ Base(s)' = subSeq[s]
  BY <1>1, <1>2, <1>6 DEF Base, Cursor
<1>8. Queued(s)'
  BY <1>1, <1>2, <1>7 DEF Queued, Open
<1>9. Cursor(s)'
  BY <1>1, <1>2, <1>6 DEF Cursor
<1> QED BY <1>1, <1>4, <1>5, <1>8, <1>9, OwnStep

\* A replay that is over has reached the subscription, or started after it.
LEMMA ReplayOverInv == ASSUME IInv, NEW s \in Streams, ReplayOver(s) PROVE IInv'
<1>1. /\ stage[s] = "replaying" /\ ~(next[s] <= replayEnd[s] /\ next[s] <= subSeq[s])
      /\ stage' = [stage EXCEPT ![s] = "live"]
      /\ seq' = seq /\ endmark' = endmark /\ closed' = closed /\ subs' = subs /\ queue' = queue
      /\ since' = since /\ subSeq' = subSeq /\ next' = next /\ replayEnd' = replayEnd
      /\ last' = last /\ written' = written /\ told' = told
  BY DEF ReplayOver, Replayable, hubVars, replayVars, clientVars
<1>2. /\ TypeOK /\ Queued(s) /\ Cursor(s) /\ next[s] \in Nat /\ Base(s)' = Base(s)
      /\ last[s] \in Nat /\ subSeq[s] \in Nat /\ replayEnd[s] \in Nat /\ since[s] \in Nat
  BY <1>1, Typed DEF IInv, Numbers, Base
<1>3. TypeOK' /\ stage'[s] = "live"
  BY <1>1, <1>2 DEF TypeOK, Open
<1>4. \A u \in Streams \ {s} : Untouched(u)
  BY <1>1, <1>2 DEF TypeOK, Untouched
<1>5. Queued(s)'
  BY <1>1, <1>2, <1>3 DEF Queued, Open
<1>6. next[s] > subSeq[s]
  BY <1>1, <1>2 DEF Cursor
<1>7. Cursor(s)'
  BY <1>1, <1>2, <1>3, <1>6 DEF Cursor
<1> QED BY <1>1, <1>3, <1>4, <1>5, <1>7, OwnStep

-----------------------------------------------------------------------------
(* The invariant.                                                           *)

LEMMA InitInv == Init => IInv
<1> SUFFICES ASSUME Init PROVE IInv
  OBVIOUS
<1>1. 0 \in Numbers /\ <<>> \in Seq(Numbers) /\ Len(<<>>) = 0 /\ QueueMax \in Nat
  BY SizesAssumption, EmptySeq DEF Numbers
<1>2. TypeOK
  <2>1. queue \in [Streams -> Seq(Numbers)] /\ \A s \in Streams : Len(queue[s]) <= QueueMax
    <3>1. \A s \in Streams : queue[s] = <<>>
      BY DEF Init
    <3>2. queue = [s \in Streams |-> <<>>]
      BY DEF Init
    <3> QED BY <1>1, <3>1, <3>2
  <2>2. stage \in [Streams -> {"idle"} \cup Open \cup Over]
    BY DEF Init
  <2> QED BY <1>1, <2>1, <2>2 DEF Init, TypeOK
<1>3. Ended
  BY DEF Init, Ended
<1>4. ASSUME NEW s \in Streams PROVE Queued(s) /\ Cursor(s)
  BY <1>1 DEF Init, Queued, Cursor, Base
<1> QED BY <1>2, <1>3, <1>4 DEF IInv

LEMMA StreamInv == ASSUME IInv, NEW s \in Streams, Stream(s) PROVE IInv'
<1>1. CASE s \in Chats /\ StartChat(s)
  BY <1>1, StartChatInv
<1>2. CASE s \in Readers /\ StartReader(s)
  <2>1. CASE \E how \in {"done", "refused"} : Refuse(s, how)
    <3>1. s \notin subs
      BY <1>2 DEF StartReader, IInv, Queued, Open
    <3> QED BY <2>1, <3>1, EndInv DEF Refuse, Over
  <2>2. CASE ~\E how \in {"done", "refused"} : Refuse(s, how)
    <3>1. stage[s] = "idle" /\ is_active /\ \E from \in Numbers : Attach(s, from)
      BY <1>2, <2>2 DEF StartReader
    <3> QED BY <1>2, <3>1, AttachInv
  <2> QED BY <2>1, <2>2
<1>3. CASE Timeout(s) \/ Disconnect(s)
  <2>1. PICK how \in Over : Leave(s, how) /\ UNCHANGED <<hubVars, queue, replayVars, clientVars>>
    BY <1>3 DEF Timeout, Disconnect, Over
  <2> QED BY <2>1, EndInv DEF Leave
<1> QED BY <1>1, <1>2, <1>3, DeliverInv, GapWrittenInv, ReplayInv, ReplayOverInv DEF Stream

LEMMA NextInv == IInv /\ [Next]_vars => IInv'
<1> SUFFICES ASSUME IInv, [Next]_vars PROVE IInv'
  OBVIOUS
<1>1. CASE UNCHANGED vars
  <2>1. TypeOK' /\ Ended' /\ seq' = seq /\ \A u \in Streams : Untouched(u)
    BY <1>1 DEF vars, hubVars, replayVars, clientVars, IInv, TypeOK, Ended, Untouched
  <2> QED BY <2>1, UntouchedKept DEF IInv
<1> QED BY <1>1, PublishInv, CloseInv, StreamInv DEF Next, Hub

LEMMA Invariance == Spec => []IInv
BY InitInv, NextInv, PTL DEF Spec

\* Every variable keeps its type; no queue grows beyond its size.
THEOREM TypeCorrect == Spec => []TypeOK
<1>1. IInv => TypeOK
  BY DEF IInv
<1> QED BY <1>1, Invariance, PTL

\* Only open streams hold a place of the hub, and what was published since they
\* subscribed is written or in their queue.
THEOREM ServedCorrect == Spec => []SubscribersAreServed
<1>1. ASSUME IInv PROVE SubscribersAreServed
  <2>1. ASSUME NEW s \in subs PROVE s \in Streams /\ Queued(s) /\ stage[s] \in Open
    BY <1>1 DEF IInv, TypeOK, Queued
  <2>2. ASSUME NEW s \in subs, NEW n \in (subSeq[s] + 1)..seq, n > last[s]
        PROVE  \E i \in DOMAIN queue[s] : queue[s][i] = n
    <3>1. s \in Streams /\ Queued(s)
      BY <2>1
    <3>2. /\ Base(s) \in Nat /\ Len(queue[s]) \in Nat /\ seq \in Nat /\ subSeq[s] \in Nat
          /\ DOMAIN queue[s] = 1..Len(queue[s]) /\ last[s] \in Nat
      BY <1>1, <3>1, Typed, LenProperties DEF IInv, Numbers
    <3> DEFINE i == n - Base(s)
    <3>3. Base(s) + Len(queue[s]) = seq /\ n > Base(s) /\ n \in Nat
      BY <2>2, <3>1, <3>2 DEF Queued, Base
    <3>4. i \in 1..Len(queue[s])
      BY <2>2, <3>2, <3>3
    <3>5. queue[s][i] = Base(s) + i
      BY <3>1, <3>4 DEF Queued
    <3>6. Base(s) + i = n
      BY <3>2, <3>3
    <3> QED BY <3>2, <3>4, <3>5, <3>6
  <2> QED BY <2>1, <2>2 DEF SubscribersAreServed
<1> QED BY <1>1, Invariance, PTL

-----------------------------------------------------------------------------
(* Steps, and the refinement.                                               *)

\* The events of a stream that is shown one more.
LEMMA Shows ==
    ASSUME IInv, NEW s \in Streams, Deliver(s) \/ Replay(s)
    PROVE  \E n \in 1..seq :
              /\ last' = [last EXCEPT ![s] = n] /\ written' = [written EXCEPT ![s] = written[s] + 1]
              /\ last[s] = 0 \/ n = last[s] + 1
<1>1. CASE Deliver(s)
  <2> DEFINE n == Head(queue[s])
  <2>1. /\ n = Base(s) + 1 /\ n <= seq /\ n > subSeq[s]
        /\ Base(s) \in Nat /\ subSeq[s] \in Nat /\ last[s] \in Nat /\ seq \in Nat
    BY <1>1, HeadIsNext, Typed DEF Deliver, IInv, Numbers
  <2>2. /\ last' = [last EXCEPT ![s] = n] /\ written' = [written EXCEPT ![s] = written[s] + 1]
        /\ stage[s] = "live"
    BY <1>1, <2>1 DEF Deliver, Write
  <2> HIDE DEF n
  <2>3. last[s] = 0 \/ n = last[s] + 1
    BY <2>1, <2>2 DEF IInv, Cursor, Base
  <2>4. n \in 1..seq
    BY <2>1
  <2> QED BY <2>2, <2>3, <2>4
<1>2. CASE Replay(s)
  <2> DEFINE n == next[s]
  <2>1. /\ n \in Nat /\ n <= replayEnd[s] /\ replayEnd[s] \in Nat /\ last[s] \in Nat /\ seq \in Nat
        /\ stage[s] = "replaying" /\ Cursor(s)
        /\ last' = [last EXCEPT ![s] = n] /\ written' = [written EXCEPT ![s] = written[s] + 1]
    BY <1>2, Typed DEF Replay, Replayable, Write, IInv, Numbers
  <2> HIDE DEF n
  <2>2. n \in 1..seq /\ (last[s] = 0 \/ n = last[s] + 1)
    BY <2>1 DEF Cursor, n
  <2> QED BY <2>1, <2>2
<1> QED BY <1>1, <1>2

\* Which steps write to clients.
LEMMA WhoWrites ==
    ASSUME IInv, Next
    PROVE  \/ UNCHANGED <<last, written>>
           \/ \E s \in Streams : Deliver(s) \/ Replay(s)
BY DEF Next, Hub, publish, publish_done, close, Stream, StartChat, StartReader, Refuse, Attach,
   GapWritten, ReplayOver, Timeout, Disconnect, clientVars

\* The first event a reattached client sees is the one after its cursor, unless
\* it was told of a gap.
THEOREM CursorCorrect == Spec => ReplayFromCursor
<1>1. ASSUME IInv, Next, NEW u \in Readers, last[u] = 0, last'[u] > 0 PROVE FirstEvent(u)
  <2>1. u \in Streams /\ Cursor(u) /\ last \in [Streams -> Numbers]
    BY <1>1 DEF Streams, IInv, TypeOK
  <2>2. last'[u] # last[u]
    BY <1>1
  <2>3. PICK s \in Streams : Deliver(s) \/ Replay(s)
    BY <1>1, <2>2, WhoWrites
  <2>4. s = u
    <3>1. PICK n \in 1..seq : last' = [last EXCEPT ![s] = n]
      BY <1>1, <2>3, Shows
    <3> QED BY <2>1, <2>2, <3>1
  <2>5. /\ since[u] \in Nat /\ subSeq[u] \in Nat /\ last[u] \in Nat
    BY <1>1, <2>1, Typed DEF IInv, Numbers
  <2>6. CASE Deliver(u)
    <3>1. stage[u] = "live" /\ last'[u] = subSeq[u] + 1
      <4>1. /\ Head(queue[u]) = Base(u) + 1 /\ Head(queue[u]) > subSeq[u] /\ Base(u) = subSeq[u]
            /\ stage[u] = "live"
        BY <1>1, <2>1, <2>5, <2>6, HeadIsNext DEF Deliver, Base
      <4>2. last' = [last EXCEPT ![u] = Head(queue[u])]
        BY <2>5, <2>6, <4>1 DEF Deliver, Write
      <4> QED BY <2>1, <4>1, <4>2
    <3>2. told[u] \/ since[u] = 0 \/ since[u] >= subSeq[u]
      BY <1>1, <2>1, <3>1 DEF Cursor
    <3> QED BY <2>5, <3>1, <3>2 DEF FirstEvent
  <2>7. CASE Replay(u)
    <3>1. stage[u] = "replaying" /\ last' = [last EXCEPT ![u] = next[u]]
      BY <2>7 DEF Replay, Write
    <3>2. told[u] \/ since[u] = 0 \/ next[u] = since[u] + 1
      BY <1>1, <2>1, <2>5, <3>1 DEF Cursor
    <3>3. last'[u] = next[u]
      BY <2>1, <3>1
    <3> QED BY <3>2, <3>3 DEF FirstEvent
  <2> QED BY <2>3, <2>4, <2>6, <2>7
<1>2. IInv /\ [Next]_vars =>
        [\A s \in Readers : last[s] = 0 /\ last'[s] > 0 => FirstEvent(s)]_vars
  BY <1>1
<1> QED BY <1>2, Invariance, PTL DEF Spec, ReplayFromCursor

\* A stream that ends as done without the end mark was dropped before it.
THEOREM TruncatedCorrect == Spec => Truncated
<1>1. ASSUME IInv, Next, NEW u \in Streams, stage[u] = "live", stage'[u] = "done",
             last'[u] # endmark, u \in subs
      PROVE  subSeq[u] >= endmark
  <2>1. Queued(u) /\ Ended /\ TypeOK /\ stage \in [Streams -> {"idle"} \cup Open \cup Over]
    BY <1>1 DEF IInv, TypeOK
  <2>2. PICK s \in Streams : Deliver(s) \/ Timeout(s)
    <3>1. ~Hub
      BY <1>1 DEF Hub, publish, publish_done, close
    <3>2. PICK s \in Streams : Stream(s)
      BY <1>1, <3>1 DEF Next
    <3>3. CASE s # u
      BY <1>1, <2>1, <3>2, <3>3 DEF Stream, StartChat, StartReader, Refuse, Attach, GapWritten,
         Replay, ReplayOver, Deliver, Timeout, Disconnect, Leave
    <3>4. CASE s = u
      BY <1>1, <2>1, <3>2, <3>4 DEF Stream, StartChat, StartReader, GapWritten,
         Replay, ReplayOver, Disconnect, Leave
    <3> QED BY <3>3, <3>4
  <2>3. s = u
    BY <1>1, <2>1, <2>2 DEF Deliver, Timeout, Leave
  <2>4. CASE Deliver(u)
    <3>1. ~(Head(queue[u]) <= subSeq[u]) /\ Head(queue[u]) \in Nat
      BY <1>1, <2>4, HeadIsNext, Typed DEF Deliver, IInv, Numbers
    <3>2. last' = [last EXCEPT ![u] = Head(queue[u])] /\ Head(queue[u]) = endmark
      BY <1>1, <2>4, <3>1 DEF Deliver, Write
    <3> QED BY <1>1, <2>1, <3>2 DEF TypeOK
  <2>5. CASE Timeout(u)
    <3>0. u \in Chats
      BY <1>1, <2>1, <2>5 DEF Timeout, Leave
    <3>1. /\ queue[u] = <<>> /\ endmark > 0 /\ last' = last
      BY <2>5, <3>0, SizesAssumption DEF Timeout, is_runtime_done, clientVars
    <3>2. /\ Base(u) \in Nat /\ last[u] \in Nat /\ subSeq[u] \in Nat /\ seq \in Nat
          /\ Len(queue[u]) = 0
      BY <2>1, <3>1, Typed, EmptySeq DEF Numbers
    <3>3. Base(u) = seq /\ endmark = seq
      BY <1>1, <2>1, <3>1, <3>2 DEF Queued, Ended
    <3> QED BY <1>1, <3>1, <3>2, <3>3 DEF Base
  <2> QED BY <2>2, <2>3, <2>4, <2>5
<1>2. IInv /\ [Next]_vars =>
        [\A s \in Streams :
          stage[s] = "live" /\ stage'[s] = "done" /\ last'[s] # endmark
             => s \notin subs \/ subSeq[s] >= endmark]_vars
  BY <1>1
<1> QED BY <1>2, Invariance, PTL DEF Spec, Truncated

finished == {s \in Streams : stage[s] \in Over}

\* A step of the streams that is not the hub's, seen from the log: somebody sees an
\* event, somebody ends, or nothing is seen of it.
LEMMA StreamMaps == ASSUME IInv, NEW s \in Streams, Stream(s) PROVE [Log!Next]_(Log!vars)
<1>1. TypeOK /\ stage \in [Streams -> {"idle"} \cup Open \cup Over]
  BY DEF IInv, TypeOK
<1>2. Open \cap Over = {} /\ "idle" \notin Over
  BY DEF Open, Over
<1>3. CASE Deliver(s) \/ Replay(s)
  <2>1. PICK n \in 1..seq :
           /\ last' = [last EXCEPT ![s] = n] /\ written' = [written EXCEPT ![s] = written[s] + 1]
           /\ last[s] = 0 \/ n = last[s] + 1
    BY <1>3, Shows
  <2>2. seq' = seq /\ stage[s] \in Open /\ (stage' = stage \/ stage' = [stage EXCEPT ![s] = "done"])
    <3>1. CASE Replay(s)
      BY <3>1 DEF Replay, hubVars, Open
    <3>2. CASE Deliver(s)
      BY <3>2 DEF Deliver, Leave, hubVars, Open
    <3> QED BY <1>3, <3>1, <3>2
  <2>3. s \notin finished
    BY <1>2, <2>2 DEF finished
  <2>4. finished' = finished \/ finished' = finished \cup {s}
    BY <1>1, <2>2 DEF finished, Over
  <2>5. Log!See(s)
    BY <2>1, <2>2, <2>3, <2>4 DEF Log!See, finished
  <2> QED BY <2>5 DEF Log!Next
<1>4. CASE ~(Deliver(s) \/ Replay(s))
  <2>1. /\ seq' = seq /\ last' = last /\ written' = written
        /\ \/ stage' = [stage EXCEPT ![s] = stage'[s]] /\ (stage[s] \in Over => stage'[s] = stage[s])
    <3>1. CASE StartChat(s) \/ StartReader(s)
      BY <1>1, <1>2, <3>1 DEF StartChat, StartReader, Refuse, Attach, hubVars, clientVars
    <3>2. CASE GapWritten(s) \/ ReplayOver(s)
      BY <1>1, <3>2 DEF GapWritten, ReplayOver, hubVars, clientVars, Over
    <3>3. CASE Timeout(s) \/ Disconnect(s)
      BY <1>1, <3>3 DEF Timeout, Disconnect, Leave, hubVars, clientVars, Over, Open
    <3> QED BY <1>4, <3>1, <3>2, <3>3 DEF Stream
  <2>2. finished' = finished \/ finished' = finished \cup {s}
    BY <1>1, <2>1 DEF finished
  <2>3. Log!End(s) \/ UNCHANGED Log!vars
    BY <2>1, <2>2 DEF Log!End, Log!vars, finished
  <2> QED BY <2>3 DEF Log!Next
<1> QED BY <1>3, <1>4

\* The hub and its streams implement the event stream: events reach every client in
\* their order, each once, with no hole after the first.
THEOREM Refinement == Spec => ImplementsEventStream
<1>1. Init => Log!Init
  BY DEF Init, Log!Init, Over
<1>2. ASSUME IInv, [Next]_vars PROVE [Log!Next]_(Log!vars)
  <2>1. CASE publish \/ publish_done
    BY <2>1 DEF publish, publish_done, clientVars, Log!Next, Log!Append
  <2>2. CASE close \/ UNCHANGED vars
    BY <2>2 DEF close, clientVars, vars, hubVars, Log!vars
  <2> QED BY <1>2, <2>1, <2>2, StreamMaps DEF Next, Hub
<1> QED BY <1>1, <1>2, Invariance, PTL DEF Spec, ImplementsEventStream, Log!Spec

=============================================================================
