---------------------------- MODULE GatewayProofs ----------------------------
(* For any messages, any queue limit and any number of connections: what the *)
(* registry's entry means, who may be left in the queue, and how often a     *)
(* message can be executed.                                                  *)
EXTENDS GatewayProps, SequenceTheorems, TLAPS

\* Connections are made in order.
Fresh == \A c \in Conns : handler[c] # "none" => c <= conns

\* The lock: while a handler waits for the connection it replaces to close, no
\* other one does and none that is older is to register.
OneCloses ==
    \A c \in Conns : handler[c] = "closing" =>
       /\ conn \in broken
       /\ \A d \in 1..c - 1 : handler[d] \notin {"registering", "closing"}

\* The senders of the messages in the queue have been told so.
QueuedIsTold ==
    \A i \in 1..Len(pending) : route[pending[i]] \in {"offline", "failed"}

IInv ==
    TypeOK /\ Fresh /\ OneCloses /\ ServingIsRegistered /\ QueuedIsTold
    /\ WaitsOnlyForReconnect

-----------------------------------------------------------------------------
LEMMA EnqueuedInv ==
    ASSUME TypeOK, NEW m \in Messages, enqueue_pending(m)
    PROVE  /\ pending' \in Seq(Messages) /\ Len(pending') <= MaxPending
           /\ \A i \in 1..Len(pending') :
                 pending'[i] = m \/ \E j \in 1..Len(pending) : pending'[i] = pending[j]
<1>1. PICK k \in 0..Len(pending) :
         /\ Len(pending) - k < MaxPending
         /\ pending' = Append(SubSeq(pending, k + 1, Len(pending)), m)
  BY DEF enqueue_pending
<1>2. pending \in Seq(Messages) /\ Len(pending) \in Nat /\ MaxPending \in Nat
  BY GatewayAssumption DEF TypeOK
<1> DEFINE rest == SubSeq(pending, k + 1, Len(pending))
<1>3. /\ rest \in Seq(Messages) /\ Len(rest) = Len(pending) - k
      /\ \A i \in 1..Len(rest) : rest[i] = pending[k + i]
  <2>1. /\ k + 1 \in Int /\ k + 1 > 0
        /\ k + 1 \in 1..Len(pending) + 1
    BY <1>2
  <2>2. /\ rest \in Seq(Messages)
        /\ Len(rest) = IF k + 1 <= Len(pending) THEN Len(pending) - (k + 1) + 1 ELSE 0
        /\ \A i \in 1..Len(pending) - (k + 1) + 1 : rest[i] = pending[k + 1 + i - 1]
    BY <1>2, <2>1, SubSeqProperties
  <2> QED BY <1>2, <2>2
<1>4. /\ pending' \in Seq(Messages) /\ Len(pending') = Len(rest) + 1
      /\ \A i \in 1..Len(rest) : pending'[i] = rest[i]
      /\ pending'[Len(rest) + 1] = m
  <2> HIDE DEF rest
  <2>1. pending' = Append(rest, m)
    BY <1>1 DEF rest
  <2> QED BY <1>3, <2>1, AppendProperties
<1>5. ASSUME NEW i \in 1..Len(pending')
      PROVE  pending'[i] = m \/ \E j \in 1..Len(pending) : pending'[i] = pending[j]
  <2> HIDE DEF rest
  <2>1. CASE i = Len(rest) + 1
    BY <1>4, <2>1
  <2>2. CASE i \in 1..Len(rest)
    <3>1. pending'[i] = pending[k + i] /\ k + i \in 1..Len(pending)
      BY <1>2, <1>3, <1>4, <2>2
    <3> QED BY <3>1
  <2> QED BY <1>2, <1>3, <1>4, <2>1, <2>2
<1>6. Len(pending') <= MaxPending
  <2> HIDE DEF rest
  <2>1. k \in Int /\ Len(rest) = Len(pending) - k /\ Len(pending') = Len(rest) + 1
    BY <1>3, <1>4
  <2> QED BY <1>1, <1>2, <2>1
<1> HIDE DEF rest
<1> QED BY <1>4, <1>5, <1>6


LEMMA SentType ==
    ASSUME TypeOK, NEW f \in Frames
    PROVE  send_to_device(f) \in [Conns -> Seq(Frames)]
<1>1. conn \in {0} \cup Conns /\ toDevice \in [Conns -> Seq(Frames)]
  BY DEF TypeOK
<1>2. CASE conn \in broken \cup {0}
  BY <1>1, <1>2 DEF send_to_device
<1>3. CASE conn \notin broken \cup {0}
  <2>1. Append(toDevice[conn], f) \in Seq(Frames)
    BY <1>1, <1>3, AppendProperties
  <2> QED BY <1>1, <1>3, <2>1 DEF send_to_device
<1> QED BY <1>2, <1>3

LEMMA FrameType == \A m \in Messages, b \in BOOLEAN : [msg |-> m, live |-> b] \in Frames
  BY Zenon DEF Frames

LEMMA NotSentType ==
    ASSUME TypeOK, NEW m \in Messages, NEW how \in {"offline", "failed"}, NotSent(m, how)
    PROVE  /\ route' \in [Messages -> Waits \cup Told]
           /\ pending' \in Seq(Messages) /\ Len(pending') <= MaxPending
<1>1. CASE m \in Commands
  BY <1>1 DEF NotSent, TypeOK, Waits, Told
<1>2. CASE m \notin Commands
  BY <1>2, EnqueuedInv DEF NotSent, TypeOK, Waits, Told
<1> QED BY <1>1, <1>2

\* What the senders' steps do not change keeps its type.
LEMMA SenderType ==
    ASSUME TypeOK, NEW m \in Messages,
           RouteOffline(m) \/ RouteOnline(m) \/ Sends(m) \/ Timeout(m)
    PROVE  TypeOK'
<1>1. CASE RouteOffline(m)
  <2>1. /\ route' \in [Messages -> Waits \cup Told]
        /\ pending' \in Seq(Messages) /\ Len(pending') <= MaxPending
    BY <1>1, NotSentType DEF RouteOffline
  <2> QED BY <1>1, <2>1
          DEF RouteOffline, TypeOK, serverVars, netVars, clientVars
<1>2. CASE RouteOnline(m)
  <2>1. toDevice' \in [Conns -> Seq(Frames)]
    BY <1>2, FrameType, SentType DEF RouteOnline
  <2>2. /\ route' \in [Messages -> Waits \cup Told]
        /\ sentTo' \in [Messages -> {0} \cup Conns]
    BY <1>2 DEF RouteOnline, TypeOK, Waits
  <2> QED BY <1>2, <2>1, <2>2
          DEF RouteOnline, TypeOK, serverVars, clientVars
<1>3. CASE SendReturns(m)
  BY <1>3 DEF SendReturns, TypeOK, Waits, serverVars, netVars, clientVars
<1>4. CASE SendFails(m)
  <2>1. /\ route' \in [Messages -> Waits \cup Told]
        /\ pending' \in Seq(Messages) /\ Len(pending') <= MaxPending
    BY <1>4, NotSentType DEF SendFails
  <2> QED BY <1>4, <2>1
          DEF SendFails, TypeOK, serverVars, netVars, clientVars
<1>5. CASE Timeout(m)
  BY <1>5 DEF Timeout, TypeOK, Told, serverVars, netVars, clientVars
<1> QED BY <1>1, <1>2, <1>3, <1>4, <1>5 DEF Sends

LEMMA EntersType ==
    ASSUME TypeOK, NEW c \in Conns, Enters(c)
    PROVE  /\ conn' \in {0} \cup Conns
           /\ handler' \in [Conns -> {"none", "registering", "closing", "serving", "over"}]
           /\ drained' \in [Conns -> Seq(Messages)]
           /\ pending' \in Seq(Messages) /\ Len(pending') <= MaxPending
  BY GatewayAssumption DEF Enters, TypeOK

LEMMA HandlerType ==
    ASSUME TypeOK, NEW c \in Conns, Handles(c)
    PROVE  TypeOK'
<1>1. CASE Register(c)
  BY <1>1, EntersType DEF Register, TypeOK, senderVars, netVars, clientVars
<1>2. CASE CloseOld(c)
  BY <1>2 DEF CloseOld, TypeOK, senderVars, clientVars
<1>3. CASE OldClosed(c)
  BY <1>3, EntersType DEF OldClosed, TypeOK, senderVars, netVars, clientVars
<1>4. CASE DrainSend(c)
  <2>1. drained[c] \in Seq(Messages) /\ drained[c] # <<>>
    BY <1>4 DEF DrainSend, TypeOK
  <2>2. Head(drained[c]) \in Messages /\ Tail(drained[c]) \in Seq(Messages)
    BY <2>1, HeadTailProperties
  <2>3. toDevice' \in [Conns -> Seq(Frames)]
    BY <1>4, <2>2, FrameType, SentType DEF DrainSend
  <2>4. drained' \in [Conns -> Seq(Messages)]
    BY <1>4, <2>2 DEF DrainSend, TypeOK
  <2> QED BY <1>4, <2>3, <2>4 DEF DrainSend, TypeOK, senderVars, clientVars
<1>5. CASE Resolve(c)
  <2>1. PICK f \in toServer[c] :
           /\ toServer' = [toServer EXCEPT ![c] = @ \ {f}]
           /\ route' = IF f.live /\ route[f.msg] = "waiting"
                         THEN [route EXCEPT ![f.msg] = "answered"] ELSE route
    BY <1>5 DEF Resolve
  <2>2. toServer' \in [Conns -> SUBSET Frames]
    BY <2>1 DEF TypeOK
  <2>3. route' \in [Messages -> Waits \cup Told]
    BY <2>1 DEF TypeOK, Told
  <2> QED BY <1>5, <2>2, <2>3 DEF Resolve, TypeOK, serverVars, clientVars
<1>6. CASE Unregister(c)
  BY <1>6 DEF Unregister, TypeOK, senderVars, netVars, clientVars
<1> QED BY <1>1, <1>2, <1>3, <1>4, <1>5, <1>6 DEF Handles

LEMMA ClientType ==
    ASSUME TypeOK, Connect \/ Receive \/ Execute \/ ClientNotices \/ Break \/ DeviceStops
    PROVE  TypeOK'
<1>1. CASE Connect
  <2>1. conns' \in Conns /\ conns' \in 0..MaxConns /\ cc' \in Conns
    BY <1>1, GatewayAssumption DEF Connect, TypeOK, Conns
  <2> QED BY <1>1, <2>1 DEF Connect, TypeOK, senderVars, netVars
<1>2. CASE Receive
  <2>1. cc \in Conns /\ toDevice[cc] \in Seq(Frames) /\ toDevice[cc] # <<>>
    BY <1>2 DEF Receive, TypeOK
  <2>2. Head(toDevice[cc]) \in Frames /\ Tail(toDevice[cc]) \in Seq(Frames)
    BY <2>1, HeadTailProperties
  <2>3. [conn |-> cc, frame |-> Head(toDevice[cc])] \in Jobs
    BY <2>1, <2>2 DEF Jobs
  <2>4. jobs' \in Seq(Jobs)
    BY <1>2, <2>3, AppendProperties DEF Receive, TypeOK
  <2>5. toDevice' \in [Conns -> Seq(Frames)]
    BY <1>2, <2>1, <2>2 DEF Receive, TypeOK
  <2> QED BY <1>2, <2>4, <2>5 DEF Receive, TypeOK, senderVars, serverVars
<1>3. CASE Execute
  <2> DEFINE j == Head(jobs)
  <2>1. j \in Jobs /\ Tail(jobs) \in Seq(Jobs)
    BY <1>3, HeadTailProperties DEF Execute, TypeOK
  <2>2. j.conn \in Conns /\ j.frame \in Frames /\ j.frame.msg \in Messages
    BY <2>1 DEF Jobs, Frames
  <2>3. /\ ran' = [ran EXCEPT ![j.frame.msg] = @ + 1]
        /\ toServer' = IF j.conn \in broken THEN toServer
                       ELSE [toServer EXCEPT ![j.conn] = @ \cup {j.frame}]
        /\ jobs' = Tail(jobs)
    BY <1>3 DEF Execute
  <2> HIDE DEF j
  <2>4. ran' \in [Messages -> Nat]
    BY <2>2, <2>3 DEF TypeOK
  <2>5. toServer' \in [Conns -> SUBSET Frames]
    BY <2>2, <2>3 DEF TypeOK
  <2> QED BY <1>3, <2>1, <2>3, <2>4, <2>5 DEF Execute, TypeOK, senderVars, serverVars
<1>4. CASE ClientNotices
  BY <1>4 DEF ClientNotices, TypeOK, senderVars, serverVars
<1>5. CASE Break
  BY <1>5 DEF Break, TypeOK, senderVars, serverVars, clientVars
<1>6. CASE DeviceStops
  BY <1>6 DEF DeviceStops, TypeOK, senderVars, serverVars
<1> QED BY <1>1, <1>2, <1>3, <1>4, <1>5, <1>6


-----------------------------------------------------------------------------
\* The queue grows by a message whose sender is told; what was in it stays told.
LEMMA NotSentQueue ==
    ASSUME IInv, NEW m \in Messages, NEW how \in {"offline", "failed"}, NotSent(m, how),
           route[m] \in {"none", "sending"}
    PROVE  /\ QueuedIsTold'
           /\ \A i \in 1..Len(pending') :
                 \/ pending'[i] = m /\ route'[m] = how
                 \/ \E j \in 1..Len(pending) :
                       pending'[i] = pending[j] /\ route'[pending'[i]] = route[pending[j]]
<1>1. /\ route \in [Messages -> Waits \cup Told] /\ pending \in Seq(Messages)
      /\ \A i \in 1..Len(pending) :
            pending[i] \in Messages /\ route[pending[i]] \in {"offline", "failed"}
  BY ElementOfSeq DEF IInv, TypeOK, QueuedIsTold
<1>2. CASE m \in Commands
  BY <1>1, <1>2 DEF NotSent, QueuedIsTold
<1>3. CASE m \notin Commands
  <2>1. /\ route' = [route EXCEPT ![m] = how]
        /\ \A i \in 1..Len(pending') :
              pending'[i] = m \/ \E j \in 1..Len(pending) : pending'[i] = pending[j]
    BY <1>3, EnqueuedInv DEF NotSent, IInv
  <2> QED BY <1>1, <2>1 DEF QueuedIsTold
<1> QED BY <1>2, <1>3

LEMMA SenderInv ==
    ASSUME IInv, NEW m \in Messages,
           RouteOffline(m) \/ RouteOnline(m) \/ Sends(m) \/ Timeout(m)
    PROVE  IInv'
<1>1. TypeOK' /\ conn' = conn /\ handler' = handler /\ broken' = broken /\ conns' = conns
  BY SenderType DEF IInv, RouteOffline, RouteOnline, Sends, SendReturns, SendFails, Timeout,
     serverVars, netVars, clientVars
<1>2. Fresh' /\ OneCloses' /\ ServingIsRegistered'
  BY <1>1 DEF IInv, Fresh, OneCloses, ServingIsRegistered
<1>3. CASE RouteOffline(m)
  <2>1. QueuedIsTold'
    BY <1>3, NotSentQueue DEF RouteOffline
  <2>2. conn' = 0
    BY <1>1, <1>3 DEF RouteOffline
  <2>3. WaitsOnlyForReconnect'
    BY <2>2 DEF WaitsOnlyForReconnect
  <2> QED BY <1>1, <1>2, <2>1, <2>3 DEF IInv
<1>4. CASE SendFails(m)
  <2>1. /\ QueuedIsTold'
        /\ \A i \in 1..Len(pending') :
              \/ pending'[i] = m /\ route'[m] = "failed"
              \/ \E j \in 1..Len(pending) :
                    pending'[i] = pending[j] /\ route'[pending'[i]] = route[pending[j]]
    BY <1>4, NotSentQueue DEF SendFails
  <2>2. sentTo' = sentTo /\ sentTo[m] \in broken
    BY <1>4 DEF SendFails
  <2>3. WaitsOnlyForReconnect'
    BY <1>1, <2>1, <2>2 DEF IInv, WaitsOnlyForReconnect
  <2> QED BY <1>1, <1>2, <2>1, <2>3 DEF IInv
<1>5. CASE RouteOnline(m) \/ SendReturns(m) \/ Timeout(m)
  <2>1. /\ pending' = pending /\ route[m] \in {"none", "sending", "waiting"}
        /\ \A n \in Messages \ {m} : route'[n] = route[n] /\ sentTo'[n] = sentTo[n]
    BY <1>5 DEF RouteOnline, SendReturns, Timeout, IInv, TypeOK
  <2>2. \A i \in 1..Len(pending) : pending[i] \in Messages \ {m}
    BY <2>1, ElementOfSeq DEF IInv, TypeOK, QueuedIsTold
  <2>3. QueuedIsTold' /\ WaitsOnlyForReconnect'
    BY <1>1, <2>1, <2>2 DEF IInv, QueuedIsTold, WaitsOnlyForReconnect
  <2> QED BY <1>1, <1>2, <2>3 DEF IInv
<1> QED BY <1>3, <1>4, <1>5 DEF Sends

\* The handler that enters is the one registered, and finds no other one whose
\* connection is not gone.
LEMMA EntersInv ==
    ASSUME IInv, TypeOK', NEW c \in Conns, Enters(c),
           conn \in broken \cup {0}, broken' = broken, conns' = conns,
           handler[c] \in {"registering", "closing"}, MayRegister(c) \/ handler[c] = "closing",
           \A d \in Conns \ {c} : handler[d] # "closing"
    PROVE  IInv'
<1>1. /\ conn' = c /\ pending' = <<>> /\ handler'[c] = "serving"
      /\ \A d \in Conns \ {c} : handler'[d] = handler[d]
  BY DEF Enters, IInv, TypeOK
<1>2. Fresh'
  BY <1>1 DEF IInv, Fresh
<1>3. OneCloses'
  BY <1>1 DEF OneCloses
<1>4. ServingIsRegistered'
  <2>1. ASSUME NEW d \in Conns, handler'[d] = "serving", d \notin broken' PROVE d = c
    <3>1. CASE d # c
      <4>1. conn = d
        BY <1>1, <2>1, <3>1 DEF IInv, ServingIsRegistered
      <4>2. d # 0
        BY DEF Conns
      <4> QED BY <2>1, <4>1, <4>2
    <3> QED BY <3>1
  <2> QED BY <1>1, <2>1 DEF ServingIsRegistered
<1>5. QueuedIsTold' /\ WaitsOnlyForReconnect'
  <2>1. Len(pending') = 0
    BY <1>1
  <2> QED BY <2>1 DEF QueuedIsTold, WaitsOnlyForReconnect
<1> QED BY <1>2, <1>3, <1>4, <1>5 DEF IInv

LEMMA HandlerInv ==
    ASSUME IInv, NEW c \in Conns, Handles(c)
    PROVE  IInv'
<1>1. TypeOK' /\ TypeOK
  BY HandlerType DEF IInv
<1>2. \A d \in Conns : handler[d] = "closing" => conn \in broken /\ conn # 0
  BY <1>1 DEF IInv, OneCloses, TypeOK, Conns
<1>3. CASE Register(c)
  BY <1>1, <1>2, <1>3, EntersInv
     DEF Register, MayRegister, netVars, clientVars
<1>4. CASE CloseOld(c)
  <2>1. /\ handler[c] = "registering" /\ conn' = conn /\ conn \in Conns
        /\ \A d \in 1..c - 1 : handler[d] \notin {"registering", "closing"}
        /\ broken' = broken \cup {conn} /\ handler'[c] = "closing"
        /\ \A d \in Conns \ {c} : handler'[d] = handler[d]
        /\ pending' = pending /\ route' = route /\ sentTo' = sentTo /\ conns' = conns
    BY <1>1, <1>4 DEF CloseOld, MayRegister, TypeOK, senderVars, clientVars
  <2>2. Fresh'
    BY <2>1 DEF IInv, Fresh
  <2>3. OneCloses'
    <3>1. ASSUME NEW d \in Conns, handler'[d] = "closing", NEW e \in 1..d - 1
          PROVE  handler'[e] \notin {"registering", "closing"}
      <4>1. e \in Conns /\ e < d
        BY GatewayAssumption DEF Conns
      <4>2. CASE d = c
        BY <2>1, <4>1, <4>2
      <4>3. CASE d # c
        <5>1. handler[e] \notin {"registering", "closing"}
          BY <2>1, <3>1, <4>3 DEF IInv, OneCloses
        <5> QED BY <2>1, <4>1, <5>1
      <4> QED BY <4>2, <4>3
    <3> QED BY <2>1, <3>1 DEF OneCloses
  <2>4. ServingIsRegistered'
    BY <2>1 DEF IInv, ServingIsRegistered
  <2>5. QueuedIsTold' /\ WaitsOnlyForReconnect'
    BY <2>1 DEF IInv, QueuedIsTold, WaitsOnlyForReconnect
  <2> QED BY <1>1, <2>2, <2>3, <2>4, <2>5 DEF IInv
<1>5. CASE OldClosed(c)
  <2>1. handler[c] = "closing" /\ Enters(c) /\ broken' = broken /\ conns' = conns
    BY <1>5 DEF OldClosed, netVars, clientVars
  <2>2. ASSUME NEW d \in Conns \ {c} PROVE handler[d] # "closing"
    <3>1. d \in 1..c - 1 \/ c \in 1..d - 1
      BY GatewayAssumption DEF Conns
    <3> QED BY <2>1, <3>1 DEF IInv, OneCloses
  <2> QED BY <1>1, <1>2, <2>1, <2>2, EntersInv
<1>6. CASE DrainSend(c) \/ Resolve(c)
  <2>1. /\ conn' = conn /\ handler' = handler /\ broken' = broken /\ conns' = conns
        /\ pending' = pending /\ sentTo' = sentTo
    BY <1>6 DEF DrainSend, Resolve, senderVars, serverVars, clientVars
  <2>2. \A m \in Messages : route[m] \in {"offline", "failed"} => route'[m] = route[m]
    BY <1>1, <1>6 DEF DrainSend, Resolve, senderVars, TypeOK
  <2>3. \A i \in 1..Len(pending) : pending[i] \in Messages
    BY <1>1, ElementOfSeq DEF TypeOK
  <2>4. Fresh' /\ OneCloses' /\ ServingIsRegistered'
    BY <2>1 DEF IInv, Fresh, OneCloses, ServingIsRegistered
  <2>5. QueuedIsTold' /\ WaitsOnlyForReconnect'
    BY <2>1, <2>2, <2>3 DEF IInv, QueuedIsTold, WaitsOnlyForReconnect
  <2> QED BY <1>1, <2>4, <2>5 DEF IInv
<1>7. CASE Unregister(c)
  <2>1. /\ handler[c] = "serving" /\ c \in broken /\ ~Locked
        /\ conn' = IF conn = c THEN 0 ELSE conn
        /\ broken' = broken /\ conns' = conns /\ handler'[c] = "over"
        /\ \A d \in Conns \ {c} : handler'[d] = handler[d]
        /\ pending' = pending /\ route' = route /\ sentTo' = sentTo
    BY <1>1, <1>7 DEF Unregister, TypeOK, senderVars, netVars, clientVars
  <2>2. Fresh'
    BY <2>1 DEF IInv, Fresh
  <2>3. OneCloses'
    BY <2>1 DEF OneCloses, Locked
  <2>4. ServingIsRegistered'
    BY <2>1 DEF IInv, ServingIsRegistered
  <2>5. QueuedIsTold' /\ WaitsOnlyForReconnect'
    BY <2>1 DEF IInv, QueuedIsTold, WaitsOnlyForReconnect
  <2> QED BY <1>1, <2>2, <2>3, <2>4, <2>5 DEF IInv
<1> QED BY <1>3, <1>4, <1>5, <1>6, <1>7 DEF Handles

LEMMA ClientInv ==
    ASSUME IInv, Connect \/ Receive \/ Execute \/ ClientNotices \/ Break \/ DeviceStops
    PROVE  IInv'
<1>1. /\ TypeOK /\ TypeOK' /\ conn' = conn /\ pending' = pending
      /\ route' = route /\ sentTo' = sentTo
  BY ClientType DEF IInv, Connect, Receive, Execute, ClientNotices, Break, DeviceStops,
     senderVars, serverVars
<1>2. broken \subseteq broken'
  BY DEF Connect, Receive, Execute, ClientNotices, Break, DeviceStops, netVars
<1>3. QueuedIsTold' /\ WaitsOnlyForReconnect'
  BY <1>1, <1>2 DEF IInv, QueuedIsTold, WaitsOnlyForReconnect
<1>4. CASE Connect
  <2>1. /\ conns' = conns + 1 /\ conns \in Nat /\ conns' \in Conns /\ broken' = broken
        /\ handler'[conns'] = "registering"
        /\ \A d \in Conns \ {conns'} : handler'[d] = handler[d]
    BY <1>1, <1>4, GatewayAssumption DEF Connect, TypeOK, Conns, netVars
  <2>2. Fresh'
    BY <2>1 DEF IInv, Fresh, Conns
  <2>3. OneCloses'
    <3>1. ASSUME NEW d \in Conns, handler'[d] = "closing"
          PROVE  /\ handler[d] = "closing"
                 /\ \A e \in 1..d - 1 : handler'[e] = handler[e]
      <4>1. handler[d] = "closing"
        BY <2>1, <3>1
      <4>2. d <= conns
        BY <4>1 DEF IInv, Fresh
      <4> QED BY <2>1, <4>1, <4>2, GatewayAssumption DEF Conns
    <3> QED BY <1>1, <2>1, <3>1 DEF IInv, OneCloses
  <2>4. ServingIsRegistered'
    BY <1>1, <2>1 DEF IInv, ServingIsRegistered
  <2> QED BY <1>1, <1>3, <2>2, <2>3, <2>4 DEF IInv
<1>5. CASE ~Connect
  <2>1. handler' = handler /\ conns' = conns
    BY <1>5 DEF Receive, Execute, ClientNotices, Break, DeviceStops, serverVars, clientVars
  <2>2. Fresh' /\ OneCloses' /\ ServingIsRegistered'
    BY <1>1, <1>2, <2>1 DEF IInv, Fresh, OneCloses, ServingIsRegistered
  <2> QED BY <1>1, <1>3, <2>2 DEF IInv
<1> QED BY <1>4, <1>5

LEMMA InitInv == ASSUME Init PROVE IInv
<1>1. TypeOK
  BY GatewayAssumption DEF Init, TypeOK, Waits
<1>2. Fresh /\ OneCloses /\ ServingIsRegistered
  BY DEF Init, Fresh, OneCloses, ServingIsRegistered
<1>3. Len(pending) = 0
  BY DEF Init
<1>4. QueuedIsTold /\ WaitsOnlyForReconnect
  BY <1>3 DEF QueuedIsTold, WaitsOnlyForReconnect
<1> QED BY <1>1, <1>2, <1>4 DEF IInv

LEMMA NextInv == ASSUME IInv, [Next]_vars PROVE IInv'
<1>1. CASE Next
  BY <1>1, SenderInv, HandlerInv, ClientInv DEF Next
<1>2. CASE UNCHANGED vars
  BY <1>2 DEF vars, senderVars, serverVars, netVars, clientVars, IInv, TypeOK, Fresh, OneCloses,
     ServingIsRegistered, QueuedIsTold, WaitsOnlyForReconnect
<1> QED BY <1>1, <1>2

LEMMA InvariantHolds == Spec => []IInv
  BY InitInv, NextInv, PTL DEF Spec

-----------------------------------------------------------------------------
\* Every variable keeps its type.
THEOREM TypeCorrect == Spec => []TypeOK
<1>1. IInv => TypeOK
  BY DEF IInv
<1> QED BY <1>1, InvariantHolds, PTL

\* A live connection that is served is the registered one, however many
\* connections come and go.
THEOREM ServingCorrect == Spec => []ServingIsRegistered
<1>1. IInv => ServingIsRegistered
  BY DEF IInv
<1> QED BY <1>1, InvariantHolds, PTL

\* Only a message whose send failed waits while the device is connected.
THEOREM WaitsCorrect == Spec => []WaitsOnlyForReconnect
<1>1. IInv => WaitsOnlyForReconnect
  BY DEF IInv
<1> QED BY <1>1, InvariantHolds, PTL

-----------------------------------------------------------------------------
(* Who holds a copy of which message.                                       *)

\* The queues a message passes on its way, and what each holds: the live frame
\* that the sender sent, or the copy that waited in the queue.
Queues == {<<"pending", 0>>, <<"jobs", 0>>} \cup ({"drained", "toDevice"} \X Conns)

Live(m) == [msg |-> m, live |-> TRUE]
Late(m) == [msg |-> m, live |-> FALSE]

Held ==
    [q \in Queues |->
        IF q[1] = "pending" THEN [i \in 1..Len(pending) |-> Late(pending[i])]
        ELSE IF q[1] = "jobs" THEN [i \in 1..Len(jobs) |-> jobs[i].frame]
        ELSE IF q[1] = "drained"
          THEN [i \in 1..Len(drained[q[2]]) |-> Late(drained[q[2]][i])]
        ELSE toDevice[q[2]]]

Occurs(v, f) == \E q \in DOMAIN v : \E i \in 1..Len(v[q]) : v[q][i] = f

Once(v) ==
    \A q, r \in DOMAIN v : \A i \in 1..Len(v[q]), j \in 1..Len(v[r]) :
       v[q][i] = v[r][j] => q = r /\ i = j

Waiting(f) == IF Occurs(Held, f) THEN 1 ELSE 0

\* How often a message can be executed at most, by what its sender was told.
Allowed(m) == IF route[m] = "none" THEN 0 ELSE IF route[m] = "failed" THEN 2 ELSE 1

\* A copy that is still to be executed counts as one that was.
Counted ==
    \A m \in Messages :
       /\ ran[m] + Waiting(Live(m)) + Waiting(Late(m)) <= Allowed(m)
       /\ Occurs(Held, Live(m)) => route[m] \notin {"none", "offline"}
       /\ Occurs(Held, Late(m)) => route[m] \in {"offline", "failed"}

CInv == TypeOK /\ Once(Held) /\ Counted

\* From v to w, an entry is appended to a queue; the first n of one go; the first
\* of one goes to the end of another; one is emptied into another.
Appends(v, w, q, f) ==
    /\ \A r \in Queues \ {q} : w[r] = v[r]
    /\ Len(w[q]) = Len(v[q]) + 1 /\ w[q][Len(v[q]) + 1] = f
    /\ \A i \in 1..Len(v[q]) : w[q][i] = v[q][i]

Drops(v, w, q, n) ==
    /\ \A r \in Queues \ {q} : w[r] = v[r]
    /\ Len(w[q]) = Len(v[q]) - n
    /\ \A i \in 1..Len(w[q]) : w[q][i] = v[q][n + i]

Passes(v, w, p, q) ==
    /\ \A r \in Queues \ {p, q} : w[r] = v[r]
    /\ Len(w[p]) = Len(v[p]) - 1
    /\ \A i \in 1..Len(w[p]) : w[p][i] = v[p][1 + i]
    /\ Len(w[q]) = Len(v[q]) + 1 /\ w[q][Len(v[q]) + 1] = v[p][1]
    /\ \A i \in 1..Len(v[q]) : w[q][i] = v[q][i]

Empties(v, w, p, q) ==
    /\ \A r \in Queues \ {p, q} : w[r] = v[r]
    /\ w[p] = <<>> /\ w[q] = v[p]

LEMMA Appended ==
    ASSUME NEW v \in [Queues -> Seq(Frames)], NEW w \in [Queues -> Seq(Frames)],
           NEW q \in Queues, NEW f \in Frames, Appends(v, w, q, f), Once(v), ~Occurs(v, f)
    PROVE  Once(w) /\ \A g : Occurs(w, g) => Occurs(v, g) \/ g = f
<1> USE DEF Appends
<1>1. DOMAIN w = Queues
  OBVIOUS
<1>2. DOMAIN v = Queues /\ \A r \in Queues : Len(v[r]) \in Nat
  OBVIOUS
<1>3. ASSUME NEW r \in Queues, NEW i \in 1..Len(w[r])
      PROVE  \/ i \in 1..Len(v[r]) /\ w[r][i] = v[r][i]
             \/ r = q /\ i = Len(v[q]) + 1 /\ w[r][i] = f
  <2>1. CASE r = q
    <3>1. i \in 1..Len(v[q]) \/ i = Len(v[q]) + 1
      BY <1>2, <2>1
    <3> QED BY <2>1, <3>1
  <2>2. CASE r # q
    BY <2>2
  <2> QED BY <2>1, <2>2
<1>0. \A r, s \in Queues : \A i \in 1..Len(v[r]), j \in 1..Len(v[s]) :
         v[r][i] = v[s][j] => r = s /\ i = j
  BY DEF Once
<1>4. \A r \in Queues : \A i \in 1..Len(v[r]) : v[r][i] # f
  BY <1>2 DEF Occurs
<1>5. Once(w)
  <2>1. ASSUME NEW r \in Queues, NEW s \in Queues, NEW i \in 1..Len(w[r]), NEW j \in 1..Len(w[s]),
               w[r][i] = w[s][j]
        PROVE  r = s /\ i = j
    <3>1. /\ \/ i \in 1..Len(v[r]) /\ w[r][i] = v[r][i]
             \/ r = q /\ i = Len(v[q]) + 1 /\ w[r][i] = f
          /\ \/ j \in 1..Len(v[s]) /\ w[s][j] = v[s][j]
             \/ s = q /\ j = Len(v[q]) + 1 /\ w[s][j] = f
      BY <1>3
    <3>2. CASE w[r][i] = f
      BY <1>4, <2>1, <3>1, <3>2
    <3>3. CASE w[r][i] # f
      BY <1>0, <2>1, <3>1, <3>3
    <3> QED BY <3>2, <3>3
  <2> QED BY <1>1, <2>1 DEF Once
<1>6. ASSUME NEW g, Occurs(w, g) PROVE Occurs(v, g) \/ g = f
  BY <1>1, <1>2, <1>3, <1>6 DEF Occurs
<1> QED BY <1>5, <1>6

\* The first n entries of a queue go.
LEMMA Dropped ==
    ASSUME NEW v \in [Queues -> Seq(Frames)], NEW w \in [Queues -> Seq(Frames)],
           NEW q \in Queues, NEW n \in Nat, n <= Len(v[q]), Drops(v, w, q, n), Once(v)
    PROVE  /\ Once(w) /\ \A g : Occurs(w, g) => Occurs(v, g)
           /\ \A i \in 1..n : ~Occurs(w, v[q][i])
<1> USE DEF Drops
<1>0. \A r, s \in Queues : \A i \in 1..Len(v[r]), j \in 1..Len(v[s]) :
         v[r][i] = v[s][j] => r = s /\ i = j
  BY DEF Once
<1>1. DOMAIN v = Queues /\ DOMAIN w = Queues /\ \A r \in Queues : Len(v[r]) \in Nat
  OBVIOUS
<1> DEFINE at(r, i) == IF r = q THEN n + i ELSE i
<1>2. ASSUME NEW r \in Queues, NEW i \in 1..Len(w[r])
      PROVE  at(r, i) \in 1..Len(v[r]) /\ w[r][i] = v[r][at(r, i)]
  BY <1>1
<1>3. \A r \in Queues : \A i, j \in 1..Len(w[r]) : at(r, i) = at(r, j) => i = j
  BY <1>1
<1>4. \A i \in 1..Len(w[q]) : at(q, i) > n
  BY <1>1
<1> HIDE DEF at
<1>5. Once(w)
  <2>1. ASSUME NEW r \in Queues, NEW s \in Queues, NEW i \in 1..Len(w[r]), NEW j \in 1..Len(w[s]),
               w[r][i] = w[s][j]
        PROVE  r = s /\ i = j
    <3>1. r = s /\ at(r, i) = at(s, j)
      <4>1. /\ at(r, i) \in 1..Len(v[r]) /\ at(s, j) \in 1..Len(v[s])
            /\ v[r][at(r, i)] = v[s][at(s, j)]
        BY <1>2, <2>1
      <4> QED BY <1>0, <4>1
    <3> QED BY <1>3, <3>1
  <2> QED BY <1>1, <2>1 DEF Once
<1>6. ASSUME NEW g, Occurs(w, g) PROVE Occurs(v, g)
  BY <1>1, <1>2, <1>6 DEF Occurs
<1>7. ASSUME NEW i \in 1..n, Occurs(w, v[q][i]) PROVE FALSE
  <2>1. PICK r \in Queues : \E j \in 1..Len(w[r]) : w[r][j] = v[q][i]
    BY <1>1, <1>7 DEF Occurs
  <2>2. PICK j \in 1..Len(w[r]) : w[r][j] = v[q][i]
    BY <2>1
  <2>3. i \in 1..Len(v[q])
    BY <1>1
  <2>4. r = q /\ at(r, j) = i
    <3>1. at(r, j) \in 1..Len(v[r]) /\ v[r][at(r, j)] = v[q][i]
      BY <1>2, <2>2
    <3> QED BY <1>0, <2>3, <3>1
  <2> QED BY <1>4, <2>2, <2>4
<1> QED BY <1>5, <1>6, <1>7

\* The first entry of a queue goes to the end of another one.
LEMMA Passed ==
    ASSUME NEW v \in [Queues -> Seq(Frames)], NEW w \in [Queues -> Seq(Frames)],
           NEW p \in Queues, NEW q \in Queues, p # q, Len(v[p]) > 0, Passes(v, w, p, q), Once(v)
    PROVE  Once(w) /\ \A g : Occurs(w, g) => Occurs(v, g)
<1> USE DEF Passes
<1> DEFINE u == [v EXCEPT ![p] = w[p]]
<1>1. u \in [Queues -> Seq(Frames)] /\ u[p] = w[p] /\ \A r \in Queues \ {p} : u[r] = v[r]
  OBVIOUS
<1>2. Len(v[p]) \in Nat /\ 1 <= Len(v[p]) /\ DOMAIN v = Queues
  OBVIOUS
<1> HIDE DEF u
<1>3. Drops(v, u, p, 1)
  BY <1>1 DEF Drops
<1>4. Appends(u, w, q, v[p][1]) /\ v[p][1] \in Frames
  <2>1. u[q] = v[q] /\ u[p] = w[p] /\ \A r \in Queues \ {p, q} : u[r] = w[r]
    BY <1>1
  <2>2. \A r \in Queues \ {q} : w[r] = u[r]
    BY <2>1
  <2> QED BY <1>2, <2>1, <2>2 DEF Appends
<1>5. /\ Once(u) /\ \A g : Occurs(u, g) => Occurs(v, g)
      /\ ~Occurs(u, v[p][1])
  <2> HIDE DEF Passes
  <2>1. Once(u) /\ (\A g : Occurs(u, g) => Occurs(v, g)) /\ \A i \in 1..1 : ~Occurs(u, v[p][i])
    BY <1>1, <1>2, <1>3, Dropped
  <2> QED BY <2>1
<1>6. Once(w) /\ \A g : Occurs(w, g) => Occurs(u, g) \/ g = v[p][1]
  <2> HIDE DEF Passes
  <2>1. /\ u \in [Queues -> Seq(Frames)] /\ v[p][1] \in Frames /\ Once(u)
        /\ Appends(u, w, q, v[p][1]) /\ ~Occurs(u, v[p][1])
    BY <1>1, <1>4, <1>5
  <2>2. PICK f \in Frames : f = v[p][1]
    BY <2>1
  <2>3. Appends(u, w, q, f) /\ ~Occurs(u, f)
    BY <2>1, <2>2
  <2>4. Once(w) /\ \A g : Occurs(w, g) => Occurs(u, g) \/ g = f
    BY <2>1, <2>3, Appended
  <2> QED BY <2>2, <2>4
<1>7. Occurs(v, v[p][1])
  BY <1>2 DEF Occurs
<1> QED BY <1>5, <1>6, <1>7

\* A queue is emptied into another one, which loses what it held.
LEMMA Moved ==
    ASSUME NEW v \in [Queues -> Seq(Frames)], NEW w \in [Queues -> Seq(Frames)],
           NEW p \in Queues, NEW q \in Queues, p # q, Empties(v, w, p, q), Once(v)
    PROVE  Once(w) /\ \A g : Occurs(w, g) => Occurs(v, g)
<1> USE DEF Empties
<1>0. \A r, s \in Queues : \A i \in 1..Len(v[r]), j \in 1..Len(v[s]) :
         v[r][i] = v[s][j] => r = s /\ i = j
  BY DEF Once
<1>1. DOMAIN v = Queues /\ DOMAIN w = Queues /\ Len(w[p]) = 0
  OBVIOUS
<1> DEFINE at(r) == IF r = q THEN p ELSE r
<1>2. \A r \in Queues, i \in Nat : i \in 1..Len(w[r]) =>
         at(r) \in Queues /\ at(r) = (IF r = q THEN p ELSE r) /\ i \in 1..Len(v[at(r)]) /\ w[r][i] = v[at(r)][i]
  BY <1>1
<1>3. \A r, s \in Queues \ {p} : at(r) = at(s) => r = s
  OBVIOUS
<1> HIDE DEF at
<1>4. ASSUME NEW r \in Queues, NEW s \in Queues, NEW i \in 1..Len(w[r]), NEW j \in 1..Len(w[s]),
             w[r][i] = w[s][j]
      PROVE  r = s /\ i = j
  <2>1. r # p /\ s # p
    BY <1>1
  <2>2. /\ at(r) \in Queues /\ at(s) \in Queues /\ i \in 1..Len(v[at(r)]) /\ j \in 1..Len(v[at(s)])
        /\ v[at(r)][i] = v[at(s)][j]
    BY <1>1, <1>2, <1>4
  <2>3. at(r) = at(s) /\ i = j
    BY <1>0, <2>2
  <2> QED BY <1>3, <2>1, <2>3
<1>5. ASSUME NEW g, Occurs(w, g) PROVE Occurs(v, g)
  BY <1>1, <1>2, <1>5 DEF Occurs
<1> QED BY <1>1, <1>4, <1>5 DEF Once

\* What is held: the entries of each queue.
HeldIsSo ==
    /\ Held \in [Queues -> Seq(Frames)]
    /\ Len(Held[<<"pending", 0>>]) = Len(pending)
    /\ \A i \in 1..Len(pending) : Held[<<"pending", 0>>][i] = Late(pending[i])
    /\ Len(Held[<<"jobs", 0>>]) = Len(jobs)
    /\ \A i \in 1..Len(jobs) : Held[<<"jobs", 0>>][i] = jobs[i].frame
    /\ \A c \in Conns :
          /\ Len(Held[<<"drained", c>>]) = Len(drained[c])
          /\ \A i \in 1..Len(drained[c]) : Held[<<"drained", c>>][i] = Late(drained[c][i])
          /\ Held[<<"toDevice", c>>] = toDevice[c]

LEMMA HeldEntries == TypeOK => HeldIsSo
<1> SUFFICES ASSUME TypeOK PROVE HeldIsSo
  OBVIOUS
<1>1. /\ pending \in Seq(Messages) /\ jobs \in Seq(Jobs)
      /\ \A c \in Conns : drained[c] \in Seq(Messages) /\ toDevice[c] \in Seq(Frames)
  BY DEF TypeOK
<1>2. \A m \in Messages : Late(m) \in Frames
  BY FrameType DEF Late
<1>3. /\ <<"pending", 0>> \in Queues /\ <<"jobs", 0>> \in Queues
      /\ \A c \in Conns : <<"drained", c>> \in Queues /\ <<"toDevice", c>> \in Queues
  BY DEF Queues
<1>4. ASSUME NEW s \in Seq(Messages)
      PROVE  /\ [i \in 1..Len(s) |-> Late(s[i])] \in Seq(Frames)
             /\ Len([i \in 1..Len(s) |-> Late(s[i])]) = Len(s)
  <2>1. Len(s) \in Nat /\ \A i \in 1..Len(s) : s[i] \in Messages
    BY ElementOfSeq
  <2>2. \A i \in 1..Len(s) : Late(s[i]) \in Frames
    BY <1>2, <2>1
  <2> DEFINE t == [i \in 1..Len(s) |-> Late(s[i])]
  <2>3. t \in [1..Len(s) -> Frames]
    BY <2>2
  <2> HIDE DEF t
  <2>4. t \in Seq(Frames) /\ Len(t) = Len(s)
    BY <2>1, <2>3
  <2> QED BY <2>4 DEF t
<1>5. /\ [i \in 1..Len(jobs) |-> jobs[i].frame] \in Seq(Frames)
      /\ Len([i \in 1..Len(jobs) |-> jobs[i].frame]) = Len(jobs)
  <2>1. Len(jobs) \in Nat /\ \A i \in 1..Len(jobs) : jobs[i] \in Jobs
    BY <1>1, ElementOfSeq
  <2>2. \A i \in 1..Len(jobs) : jobs[i].frame \in Frames
    BY <2>1 DEF Jobs
  <2> QED BY <2>1, <2>2
<1>6. /\ Held[<<"pending", 0>>] = [i \in 1..Len(pending) |-> Late(pending[i])]
      /\ Held[<<"jobs", 0>>] = [i \in 1..Len(jobs) |-> jobs[i].frame]
      /\ \A c \in Conns :
            /\ Held[<<"drained", c>>] = [i \in 1..Len(drained[c]) |-> Late(drained[c][i])]
            /\ Held[<<"toDevice", c>>] = toDevice[c]
  BY <1>3 DEF Held
<1>7. \A q \in Queues : Held[q] \in Seq(Frames)
  <2>1. ASSUME NEW q \in Queues PROVE Held[q] \in Seq(Frames)
    <3>1. CASE q = <<"pending", 0>>
      BY <1>1, <1>4, <1>6, <3>1
    <3>2. CASE q = <<"jobs", 0>>
      BY <1>5, <1>6, <3>2
    <3>3. ASSUME NEW c \in Conns, q = <<"drained", c>> PROVE Held[q] \in Seq(Frames)
      BY <1>1, <1>4, <1>6, <3>3
    <3>4. ASSUME NEW c \in Conns, q = <<"toDevice", c>> PROVE Held[q] \in Seq(Frames)
      BY <1>1, <1>6, <3>4
    <3> QED BY <3>1, <3>2, <3>3, <3>4 DEF Queues
  <2> QED BY <2>1
<1>8. Held \in [Queues -> Seq(Frames)]
  BY <1>7 DEF Held
<1>9. /\ Len(Held[<<"pending", 0>>]) = Len(pending)
      /\ \A i \in 1..Len(pending) : Held[<<"pending", 0>>][i] = Late(pending[i])
  BY <1>1, <1>4, <1>6
<1>10. /\ Len(Held[<<"jobs", 0>>]) = Len(jobs)
       /\ \A i \in 1..Len(jobs) : Held[<<"jobs", 0>>][i] = jobs[i].frame
  BY <1>5, <1>6
<1>11. \A c \in Conns :
          /\ Len(Held[<<"drained", c>>]) = Len(drained[c])
          /\ \A i \in 1..Len(drained[c]) :
                Held[<<"drained", c>>][i] = Late(drained[c][i])
  <2> SUFFICES ASSUME NEW c \in Conns
               PROVE  /\ Len(Held[<<"drained", c>>]) = Len(drained[c])
                      /\ \A i \in 1..Len(drained[c]) :
                            Held[<<"drained", c>>][i] = Late(drained[c][i])
    OBVIOUS
  <2>1. /\ Len(Held[<<"drained", c>>]) = Len(drained[c])
        /\ Held[<<"drained", c>>] = [i \in 1..Len(drained[c]) |-> Late(drained[c][i])]
    BY <1>1, <1>4, <1>6
  <2> QED BY <2>1
<1> QED BY <1>6, <1>8, <1>9, <1>10, <1>11 DEF HeldIsSo

\* Only the queues whose variables change differ.
LEMMA HeldUnchanged ==
    /\ pending' = pending => Held'[<<"pending", 0>>] = Held[<<"pending", 0>>]
    /\ jobs' = jobs => Held'[<<"jobs", 0>>] = Held[<<"jobs", 0>>]
    /\ \A c \in Conns :
          /\ drained'[c] = drained[c] => Held'[<<"drained", c>>] = Held[<<"drained", c>>]
          /\ toDevice'[c] = toDevice[c] => Held'[<<"toDevice", c>>] = Held[<<"toDevice", c>>]
  BY DEF Held, Queues

-----------------------------------------------------------------------------
Settled == {"waiting", "answered", "timedout", "refused"}

\* No copy is added, nothing is executed, and a sender at most learns something
\* other than that the send failed.
LEMMA FewerCounted ==
    ASSUME CInv, TypeOK', Once(Held'), ran' = ran,
           \A f \in Frames : Occurs(Held', f) => Occurs(Held, f),
           \A m \in Messages :
              \/ route'[m] = route[m]
              \/ route[m] \in {"none", "sending", "waiting"} /\ route'[m] \in Settled
    PROVE  CInv'
<1>1. ASSUME NEW m \in Messages
      PROVE  /\ ran'[m] + Waiting(Live(m))' + Waiting(Late(m))' <= Allowed(m)'
             /\ Occurs(Held', Live(m)) => route'[m] \notin {"none", "offline"}
             /\ Occurs(Held', Late(m)) => route'[m] \in {"offline", "failed"}
  <2>0. Live(m) \in Frames /\ Late(m) \in Frames
    BY FrameType DEF Live, Late
  <2>1. ran[m] \in Nat
    BY DEF CInv, TypeOK
  <2>2. /\ ran[m] + Waiting(Live(m)) + Waiting(Late(m)) <= Allowed(m)
        /\ Occurs(Held, Live(m)) => route[m] \notin {"none", "offline"}
        /\ Occurs(Held, Late(m)) => route[m] \in {"offline", "failed"}
    BY DEF CInv, Counted
  <2>3. /\ Waiting(Live(m)) \in {0, 1} /\ Waiting(Live(m))' \in {0, 1}
        /\ Waiting(Late(m)) \in {0, 1} /\ Waiting(Late(m))' \in {0, 1}
        /\ Waiting(Live(m))' <= Waiting(Live(m))
        /\ Waiting(Late(m))' <= Waiting(Late(m))
    <3>2. \A f \in Frames : Waiting(f) \in {0, 1} /\ Waiting(f)' \in {0, 1} /\ Waiting(f)' <= Waiting(f)
      BY DEF Waiting
    <3>3. Live(m)' = Live(m) /\ Late(m)' = Late(m)
      BY DEF Live, Late
    <3> QED BY <2>0, <3>2, <3>3
  <2>4. Allowed(m)' \in {0, 1, 2} /\ Allowed(m) \in {0, 1, 2} /\ Allowed(m) <= Allowed(m)'
    BY DEF Allowed, Settled
  <2>5. ran'[m] + Waiting(Live(m))' + Waiting(Late(m))' <= Allowed(m)'
    BY <2>1, <2>2, <2>3, <2>4
  <2> QED BY <2>0, <2>2, <2>5 DEF Settled
<1>2. Counted'
  BY <1>1 DEF Counted
<1> QED BY <1>2 DEF CInv

LEMMA HeldEntriesNext == TypeOK' => HeldIsSo'
  BY HeldEntries, PTL

\* A frame, and how many copies of each message there are, once one more is made.
LEMMA OneMore ==
    ASSUME CInv, TypeOK', Once(Held'), ran' = ran, NEW m \in Messages,
           NEW g \in {Live(m), Late(m)}, ~Occurs(Held, g),
           \A f \in Frames : Occurs(Held', f) => Occurs(Held, f) \/ f = g,
           \A n \in Messages \ {m} : route'[n] = route[n],
           \/ route[m] = "none" /\ route'[m] = "sending" /\ g = Live(m)
           \/ route[m] = "none" /\ route'[m] = "offline" /\ g = Late(m)
           \/ route[m] = "sending" /\ route'[m] = "failed" /\ g = Late(m)
    PROVE  CInv'
<1>1. \A n \in Messages : Live(n) \in Frames /\ Late(n) \in Frames
  BY FrameType DEF Live, Late
<1>2. \A n \in Messages : Live(n) # Late(m) /\ Late(n) # Live(m)
  BY DEF Live, Late
<1>3. \A n \in Messages \ {m} : Live(n) # g /\ Late(n) # g
  BY <1>2 DEF Live, Late
<1>4. \A n \in Messages : ran[n] \in Nat
  BY DEF CInv, TypeOK
<1>5. \A f \in Frames : Waiting(f) \in {0, 1} /\ Waiting(f)' \in {0, 1}
  BY DEF Waiting
<1>6. \A f \in Frames \ {g} : Waiting(f)' <= Waiting(f)
  BY DEF Waiting
<1>8. \A n \in Messages :
         /\ ran[n] + Waiting(Live(n)) + Waiting(Late(n)) <= Allowed(n)
         /\ Occurs(Held, Live(n)) => route[n] \notin {"none", "offline"}
         /\ Occurs(Held, Late(n)) => route[n] \in {"offline", "failed"}
  BY DEF CInv, Counted
<1>9. \A n \in Messages : Waiting(Live(n))' \in {0, 1} /\ Waiting(Late(n))' \in {0, 1}
  BY <1>1, <1>5 DEF Live, Late
<1>10. ASSUME NEW n \in Messages \ {m}
       PROVE  /\ ran'[n] + Waiting(Live(n))' + Waiting(Late(n))' <= Allowed(n)'
              /\ Occurs(Held', Live(n)) => route'[n] \notin {"none", "offline"}
              /\ Occurs(Held', Late(n)) => route'[n] \in {"offline", "failed"}
  <2>1. Live(n) \in Frames \ {g} /\ Late(n) \in Frames \ {g}
    BY <1>1, <1>3
  <2>2. Waiting(Live(n))' <= Waiting(Live(n)) /\ Waiting(Late(n))' <= Waiting(Late(n))
    BY <1>6, <2>1 DEF Live, Late
  <2>3. Allowed(n)' = Allowed(n) /\ Allowed(n) \in {0, 1, 2}
    BY DEF Allowed
  <2>4. Waiting(Live(n)) \in {0, 1} /\ Waiting(Late(n)) \in {0, 1}
    BY <1>5, <2>1
  <2>5. ran'[n] + Waiting(Live(n))' + Waiting(Late(n))' <= Allowed(n)'
    BY <1>4, <1>8, <1>9, <2>2, <2>3, <2>4
  <2> QED BY <1>8, <2>1, <2>5
<1>11. /\ ran'[m] + Waiting(Live(m))' + Waiting(Late(m))' <= Allowed(m)'
       /\ Occurs(Held', Live(m)) => route'[m] \notin {"none", "offline"}
       /\ Occurs(Held', Late(m)) => route'[m] \in {"offline", "failed"}
  <2>1. /\ ran[m] + Waiting(Live(m)) + Waiting(Late(m)) <= Allowed(m)
        /\ Waiting(Live(m)) \in {0, 1} /\ Waiting(Late(m)) \in {0, 1}
        /\ Waiting(Live(m))' \in {0, 1} /\ Waiting(Late(m))' \in {0, 1}
        /\ ran[m] \in Nat /\ ran'[m] = ran[m]
    BY <1>1, <1>4, <1>5, <1>8, <1>9
  <2>2. CASE route[m] = "none" /\ route'[m] = "sending" /\ g = Live(m)
    <3>1. ~Occurs(Held', Late(m))
      BY <1>1, <1>2, <1>8, <2>2
    <3>2. Waiting(Late(m))' = 0
      BY <3>1 DEF Waiting, Late
    <3>3. Allowed(m) = 0 /\ Allowed(m)' = 1
      BY <2>2 DEF Allowed
    <3> QED BY <2>1, <2>2, <3>1, <3>2, <3>3
  <2>3. CASE route[m] = "none" /\ route'[m] = "offline" /\ g = Late(m)
    <3>1. ~Occurs(Held', Live(m))
      BY <1>1, <1>2, <1>8, <2>3
    <3>2. Waiting(Live(m))' = 0
      BY <3>1 DEF Waiting, Live
    <3>3. Allowed(m) = 0 /\ Allowed(m)' = 1
      BY <2>3 DEF Allowed
    <3> QED BY <2>1, <2>3, <3>1, <3>2, <3>3
  <2>4. CASE route[m] = "sending" /\ route'[m] = "failed" /\ g = Late(m)
    <3>1. Live(m) \in Frames \ {g}
      BY <1>1, <1>2, <2>4
    <3>2. Waiting(Live(m))' <= Waiting(Live(m))
      BY <1>6, <3>1 DEF Live
    <3>3. Waiting(Late(m)) = 0
      BY <1>8, <2>4 DEF Waiting
    <3>4. Allowed(m) = 1 /\ Allowed(m)' = 2
      BY <2>4 DEF Allowed
    <3> QED BY <2>1, <2>4, <3>2, <3>3, <3>4
  <2> QED BY <2>2, <2>3, <2>4
<1>12. Counted'
  BY <1>10, <1>11 DEF Counted
<1> QED BY <1>12 DEF CInv

LEMMA Enqueued ==
    ASSUME CInv, TypeOK', NEW m \in Messages, enqueue_pending(m), ~Occurs(Held, Late(m)),
           jobs' = jobs, drained' = drained, toDevice' = toDevice
    PROVE  Once(Held') /\ \A f \in Frames : Occurs(Held', f) => Occurs(Held, f) \/ f = Late(m)
<1> DEFINE P == <<"pending", 0>>
<1>1. TypeOK /\ Once(Held) /\ HeldIsSo /\ HeldIsSo'
  BY HeldEntries, HeldEntriesNext DEF CInv
<1>2. PICK k \in 0..Len(pending) : pending' = Append(SubSeq(pending, k + 1, Len(pending)), m)
  BY DEF enqueue_pending
<1>3. pending \in Seq(Messages) /\ Len(pending) \in Nat
  BY <1>1 DEF TypeOK
<1> DEFINE rest == SubSeq(pending, k + 1, Len(pending))
<1>4. /\ rest \in Seq(Messages) /\ Len(rest) = Len(pending) - k
      /\ \A i \in 1..Len(rest) : rest[i] = pending[k + i]
  <2>1. k + 1 \in 1..Len(pending) + 1
    BY <1>3
  <2>2. /\ rest \in Seq(Messages)
        /\ Len(rest) = IF k + 1 <= Len(pending) THEN Len(pending) - (k + 1) + 1 ELSE 0
        /\ \A i \in 1..Len(pending) - (k + 1) + 1 : rest[i] = pending[k + 1 + i - 1]
    BY <1>3, <2>1, SubSeqProperties
  <2> QED BY <1>3, <2>2
<1>5. /\ Len(pending') = Len(rest) + 1 /\ pending'[Len(rest) + 1] = m
      /\ \A i \in 1..Len(rest) : pending'[i] = rest[i]
  <2> HIDE DEF rest
  <2>1. pending' = Append(rest, m)
    BY <1>2 DEF rest
  <2> QED BY <1>4, <2>1, AppendProperties
<1> DEFINE s == [i \in 1..Len(rest) |-> Held[P][k + i]]
           u == [Held EXCEPT ![P] = s]
<1>6. P \in Queues /\ Late(m) \in Frames /\ Len(rest) \in Nat /\ k \in Nat
  <2>1. P \in Queues /\ Late(m) \in Frames /\ k \in Nat
    <3>1. P \in Queues
      BY DEF Queues
    <3>2. Late(m) \in Frames
      BY FrameType DEF Late
    <3>3. k \in Nat
      BY <1>3
    <3> QED BY <3>1, <3>2, <3>3
  <2> HIDE DEF rest
  <2> QED BY <1>4, <2>1
<1>7. /\ Held \in [Queues -> Seq(Frames)] /\ Held' \in [Queues -> Seq(Frames)]
      /\ Len(Held[P]) = Len(pending) /\ Len(Held'[P]) = Len(pending')
      /\ \A i \in 1..Len(pending') : Held'[P][i] = Late(pending'[i])
      /\ \A i \in 1..Len(pending) : Held[P][i] = Late(pending[i])
  BY <1>1 DEF HeldIsSo, Late
<1> HIDE DEF P, rest
<1>8. s \in Seq(Frames) /\ Len(s) = Len(rest)
  <2>1. \A i \in 1..Len(rest) : k + i \in 1..Len(Held[P])
    BY <1>3, <1>4, <1>7
  <2>2. \A i \in 1..Len(rest) : Held[P][k + i] \in Frames
    BY <1>6, <1>7, <2>1
  <2>3. s \in [1..Len(rest) -> Frames]
    BY <2>2
  <2> HIDE DEF s
  <2> QED BY <1>6, <2>3
<1>9. /\ u \in [Queues -> Seq(Frames)] /\ u[P] = s
      /\ \A r \in Queues \ {P} : u[r] = Held[r]
  <2> HIDE DEF s
  <2> QED BY <1>6, <1>7, <1>8
<1>10. \A i \in 1..Len(rest) : s[i] = Held[P][k + i]
  OBVIOUS
<1> HIDE DEF s, u
<1>11. Drops(Held, u, P, k)
  BY <1>4, <1>7, <1>8, <1>9, <1>10 DEF Drops
<1>12. Once(u) /\ \A g : Occurs(u, g) => Occurs(Held, g)
  <2>1. k <= Len(Held[P])
    BY <1>3, <1>7
  <2> QED BY <1>1, <1>6, <1>7, <1>9, <1>11, <2>1, Dropped
<1>13. \A r \in Queues \ {P} : Held'[r] = u[r]
  <2>1. /\ Held'[<<"jobs", 0>>] = Held[<<"jobs", 0>>]
        /\ \A c \in Conns : Held'[<<"drained", c>>] = Held[<<"drained", c>>]
        /\ \A c \in Conns : Held'[<<"toDevice", c>>] = Held[<<"toDevice", c>>]
    BY HeldUnchanged
  <2>2. \A r \in Queues \ {P} : Held'[r] = Held[r]
    BY <2>1 DEF Queues, P
  <2> QED BY <1>9, <2>2
<1>14. \A i \in 1..Len(rest) : Held'[P][i] = s[i]
  <2>1. ASSUME NEW i \in 1..Len(rest) PROVE Held'[P][i] = s[i]
    <3>1. Held'[P][i] = Late(rest[i])
      BY <1>5, <1>6, <1>7
    <3>2. k + i \in 1..Len(pending)
      BY <1>3, <1>4, <1>6
    <3>3. s[i] = Late(rest[i])
      BY <1>4, <1>7, <1>10, <3>2
    <3> QED BY <3>1, <3>3
  <2> QED BY <2>1
<1>15. Appends(u, Held', P, Late(m))
  <2>1. Held'[P][Len(rest) + 1] = Late(m)
    BY <1>5, <1>6, <1>7
  <2> QED BY <1>5, <1>7, <1>8, <1>9, <1>13, <1>14, <2>1 DEF Appends
<1>16. PICK g \in Frames : g = Late(m)
  BY <1>6
<1>17. Appends(u, Held', P, g) /\ ~Occurs(u, g)
  BY <1>12, <1>15, <1>16
<1>18. Once(Held') /\ \A f : Occurs(Held', f) => Occurs(u, f) \/ f = g
  BY <1>6, <1>7, <1>9, <1>12, <1>17, Appended
<1> QED BY <1>12, <1>16, <1>18

LEMMA NotSentCounted ==
    ASSUME CInv, TypeOK', NEW m \in Messages, NEW how \in {"offline", "failed"}, NotSent(m, how),
           \/ route[m] = "none" /\ how = "offline"
           \/ route[m] = "sending" /\ how = "failed",
           jobs' = jobs, drained' = drained, toDevice' = toDevice, ran' = ran
    PROVE  CInv'
<1>1. TypeOK /\ Once(Held) /\ Counted
  BY DEF CInv
<1>2. CASE m \in Commands
  <2>1. pending' = pending /\ route' = [route EXCEPT ![m] = "refused"]
    BY <1>2 DEF NotSent
  <2>2. Held' = Held
    BY <2>1 DEF Held
  <2>3. \A n \in Messages :
           \/ route'[n] = route[n]
           \/ route[n] \in {"none", "sending", "waiting"} /\ route'[n] \in Settled
    BY <1>1, <2>1 DEF TypeOK, Settled
  <2> QED BY <1>1, <2>2, <2>3, FewerCounted
<1>3. CASE m \notin Commands
  <2>1. route' = [route EXCEPT ![m] = how] /\ enqueue_pending(m)
    BY <1>3 DEF NotSent
  <2>2. route'[m] = how /\ \A n \in Messages \ {m} : route'[n] = route[n]
    BY <1>1, <2>1 DEF TypeOK
  <2>3. ~Occurs(Held, Late(m))
    BY <1>1 DEF Counted
  <2>4. /\ Once(Held')
        /\ \A f \in Frames : Occurs(Held', f) => Occurs(Held, f) \/ f = Late(m)
    BY <2>1, <2>3, Enqueued
  <2>5. PICK g \in {Live(m), Late(m)} : g = Late(m)
    OBVIOUS
  <2> QED BY <2>2, <2>3, <2>4, <2>5, OneMore
<1> QED BY <1>2, <1>3

\* Handlers take over the queue.
LEMMA EntersCounted ==
    ASSUME CInv, TypeOK', NEW c \in Conns, Enters(c),
           route' = route, ran' = ran, jobs' = jobs, toDevice' = toDevice
    PROVE  CInv'
<1> DEFINE P == <<"pending", 0>>
           D == <<"drained", c>>
<1>1. TypeOK /\ Once(Held) /\ HeldIsSo /\ HeldIsSo'
  BY HeldEntries, HeldEntriesNext DEF CInv
<1>2. pending' = <<>> /\ drained' = [drained EXCEPT ![c] = pending]
  BY DEF Enters
<1>3. P \in Queues /\ D \in Queues /\ P # D
  BY DEF Queues
<1>4. /\ Held[P] = [i \in 1..Len(pending) |-> Late(pending[i])]
      /\ Held'[P] = [i \in 1..Len(pending') |-> Late(pending'[i])]
      /\ Held'[D] = [i \in 1..Len(drained'[c]) |-> Late(drained'[c][i])]
  BY <1>3 DEF Held, Late
<1>5. Held'[P] = <<>>
  BY <1>2, <1>4
<1>6. drained'[c] = pending
  BY <1>1, <1>2 DEF TypeOK
<1>7. Held'[D] = Held[P]
  BY <1>4, <1>6
<1>8. \A r \in Queues \ {P, D} : Held'[r] = Held[r]
  <2>1. /\ Held'[<<"jobs", 0>>] = Held[<<"jobs", 0>>]
        /\ \A d \in Conns : Held'[<<"toDevice", d>>] = Held[<<"toDevice", d>>]
    BY HeldUnchanged
  <2>2. \A d \in Conns \ {c} : drained'[d] = drained[d]
    BY <1>1, <1>2 DEF TypeOK
  <2>3. \A d \in Conns \ {c} : Held'[<<"drained", d>>] = Held[<<"drained", d>>]
    BY <2>2, HeldUnchanged
  <2> QED BY <2>1, <2>3 DEF Queues
<1> HIDE DEF P, D
<1>9. Empties(Held, Held', P, D)
  BY <1>5, <1>7, <1>8 DEF Empties
<1>10. Once(Held') /\ \A f : Occurs(Held', f) => Occurs(Held, f)
  BY <1>1, <1>3, <1>9, Moved DEF HeldIsSo
<1> QED BY <1>10, FewerCounted

\* A queue loses its first n entries, the others stay as they are.
LEMMA DroppedCounted ==
    ASSUME CInv, TypeOK', NEW q \in Queues, NEW n \in Nat, n <= Len(Held[q]),
           Drops(Held, Held', q, n), route' = route, ran' = ran
    PROVE  CInv'
<1>1. Once(Held) /\ HeldIsSo /\ HeldIsSo'
  BY HeldEntries, HeldEntriesNext DEF CInv
<1>2. Once(Held') /\ \A f : Occurs(Held', f) => Occurs(Held, f)
  BY <1>1, Dropped DEF HeldIsSo
<1> QED BY <1>2, FewerCounted

\* The first entry of a queue goes to another one.
LEMMA PassedCounted ==
    ASSUME CInv, TypeOK', NEW p \in Queues, NEW q \in Queues, p # q, Len(Held[p]) > 0,
           Passes(Held, Held', p, q), route' = route, ran' = ran
    PROVE  CInv'
<1>1. Once(Held) /\ HeldIsSo /\ HeldIsSo'
  BY HeldEntries, HeldEntriesNext DEF CInv
<1>2. Once(Held') /\ \A f : Occurs(Held', f) => Occurs(Held, f)
  BY <1>1, Passed DEF HeldIsSo
<1> QED BY <1>2, FewerCounted

\* What is held does not change.
LEMMA SameCounted ==
    ASSUME CInv, TypeOK', pending' = pending, jobs' = jobs, drained' = drained,
           toDevice' = toDevice, ran' = ran,
           \A m \in Messages :
              \/ route'[m] = route[m]
              \/ route[m] \in {"none", "sending", "waiting"} /\ route'[m] \in Settled
    PROVE  CInv'
<1>1. Held' = Held
  BY DEF Held
<1> QED BY <1>1, FewerCounted DEF CInv

LEMMA SenderCounted ==
    ASSUME CInv, NEW m \in Messages,
           RouteOffline(m) \/ RouteOnline(m) \/ Sends(m) \/ Timeout(m)
    PROVE  CInv'
<1>1. TypeOK /\ TypeOK' /\ Once(Held) /\ HeldIsSo /\ HeldIsSo'
  BY SenderType, HeldEntries, HeldEntriesNext DEF CInv
<1>2. CASE RouteOffline(m)
  BY <1>1, <1>2, NotSentCounted DEF RouteOffline, serverVars, netVars, clientVars
<1>3. CASE SendFails(m)
  BY <1>1, <1>3, NotSentCounted DEF SendFails, serverVars, netVars, clientVars
<1>4. CASE SendReturns(m) \/ Timeout(m)
  <2>1. /\ pending' = pending /\ jobs' = jobs /\ drained' = drained
        /\ toDevice' = toDevice /\ ran' = ran
    BY <1>4 DEF SendReturns, Timeout, serverVars, netVars, clientVars
  <2>2. \A n \in Messages :
           \/ route'[n] = route[n]
           \/ route[n] \in {"none", "sending", "waiting"} /\ route'[n] \in Settled
    BY <1>1, <1>4 DEF SendReturns, Timeout, TypeOK, Settled
  <2> QED BY <1>1, <2>1, <2>2, SameCounted
<1>5. CASE RouteOnline(m)
  <2>1. /\ route[m] = "none" /\ route'[m] = "sending" /\ conn \in Conns
        /\ \A n \in Messages \ {m} : route'[n] = route[n]
        /\ toDevice' = send_to_device(Live(m))
        /\ pending' = pending /\ jobs' = jobs /\ drained' = drained /\ ran' = ran
    BY <1>1, <1>5 DEF RouteOnline, TypeOK, serverVars, clientVars, Live
  <2>2. ~Occurs(Held, Live(m))
    BY <2>1 DEF CInv, Counted
  <2>3. Once(Held') /\ \A f \in Frames : Occurs(Held', f) => Occurs(Held, f) \/ f = Live(m)
    <3>1. CASE conn \in broken \cup {0}
      <4>1. toDevice' = toDevice
        BY <2>1, <3>1 DEF send_to_device
      <4>2. Held' = Held
        BY <2>1, <4>1 DEF Held
      <4> QED BY <1>1, <4>2
    <3>2. CASE conn \notin broken \cup {0}
      <4> DEFINE T == <<"toDevice", conn>>
      <4>1. toDevice' = [toDevice EXCEPT ![conn] = Append(@, Live(m))]
        BY <2>1, <3>2 DEF send_to_device
      <4>2. /\ toDevice[conn] \in Seq(Frames) /\ toDevice'[conn] = Append(toDevice[conn], Live(m))
            /\ \A d \in Conns \ {conn} : toDevice'[d] = toDevice[d]
        BY <1>1, <2>1, <4>1 DEF TypeOK
      <4>3. T \in Queues /\ Live(m) \in Frames
        BY <2>1, FrameType DEF Queues, Live
      <4>4. Held[T] = toDevice[conn] /\ Held'[T] = toDevice'[conn]
        BY <1>1, <2>1 DEF HeldIsSo
      <4>5. /\ Len(Held'[T]) = Len(Held[T]) + 1 /\ Held'[T][Len(Held[T]) + 1] = Live(m)
            /\ \A i \in 1..Len(Held[T]) : Held'[T][i] = Held[T][i]
        BY <4>2, <4>3, <4>4, AppendProperties
      <4>6. \A r \in Queues \ {T} : Held'[r] = Held[r]
        <5>1. /\ Held'[<<"jobs", 0>>] = Held[<<"jobs", 0>>]
              /\ Held'[<<"pending", 0>>] = Held[<<"pending", 0>>]
              /\ \A d \in Conns : Held'[<<"drained", d>>] = Held[<<"drained", d>>]
              /\ \A d \in Conns \ {conn} : Held'[<<"toDevice", d>>] = Held[<<"toDevice", d>>]
          BY <2>1, <4>2, HeldUnchanged
        <5> QED BY <5>1 DEF Queues
      <4> HIDE DEF T
      <4>7. PICK g \in Frames : g = Live(m)
        BY <4>3
      <4>8. Appends(Held, Held', T, g) /\ ~Occurs(Held, g)
        BY <2>2, <4>5, <4>6, <4>7 DEF Appends
      <4>9. Once(Held') /\ \A f : Occurs(Held', f) => Occurs(Held, f) \/ f = g
        BY <1>1, <4>3, <4>8, Appended DEF HeldIsSo
      <4> QED BY <4>7, <4>9
    <3> QED BY <3>1, <3>2
  <2>4. PICK g \in {Live(m), Late(m)} : g = Live(m)
    OBVIOUS
  <2> QED BY <1>1, <2>1, <2>2, <2>3, <2>4, OneMore
<1> QED BY <1>2, <1>3, <1>4, <1>5 DEF Sends

LEMMA HandlerCounted ==
    ASSUME CInv, NEW c \in Conns, Handles(c)
    PROVE  CInv'
<1>1. TypeOK /\ TypeOK' /\ Once(Held) /\ HeldIsSo /\ HeldIsSo'
  BY HandlerType, HeldEntries, HeldEntriesNext DEF CInv
<1>2. CASE Register(c) \/ OldClosed(c)
  BY <1>1, <1>2, EntersCounted DEF Register, OldClosed, senderVars, netVars, clientVars
<1>3. CASE CloseOld(c) \/ Unregister(c)
  BY <1>1, <1>3, SameCounted DEF CloseOld, Unregister, senderVars, netVars, clientVars
<1>4. CASE Resolve(c)
  <2>1. /\ pending' = pending /\ jobs' = jobs /\ drained' = drained
        /\ toDevice' = toDevice /\ ran' = ran
    BY <1>4 DEF Resolve, serverVars, clientVars
  <2>2. \A n \in Messages :
           \/ route'[n] = route[n]
           \/ route[n] \in {"none", "sending", "waiting"} /\ route'[n] \in Settled
    BY <1>1, <1>4 DEF Resolve, TypeOK, Settled
  <2> QED BY <1>1, <2>1, <2>2, SameCounted
<1>5. CASE DrainSend(c)
  <2> DEFINE D == <<"drained", c>>
  <2>1. /\ drained[c] \in Seq(Messages) /\ drained[c] # <<>>
        /\ drained'[c] = Tail(drained[c])
        /\ \A d \in Conns \ {c} : drained'[d] = drained[d]
        /\ toDevice' = send_to_device(Late(Head(drained[c])))
        /\ pending' = pending /\ jobs' = jobs /\ route' = route /\ ran' = ran
    BY <1>1, <1>5 DEF DrainSend, TypeOK, senderVars, clientVars, Late
  <2>2. /\ Len(drained[c]) \in Nat /\ Len(drained[c]) > 0
        /\ Len(drained'[c]) = Len(drained[c]) - 1
        /\ \A i \in 1..Len(drained'[c]) : drained'[c][i] = drained[c][1 + i]
    BY <2>1, HeadTailProperties
  <2>3. D \in Queues
    BY DEF Queues
  <2>4. /\ Len(Held[D]) = Len(drained[c]) /\ Len(Held'[D]) = Len(drained'[c])
        /\ \A i \in 1..Len(drained[c]) : Held[D][i] = Late(drained[c][i])
        /\ \A i \in 1..Len(drained'[c]) : Held'[D][i] = Late(drained'[c][i])
    BY <1>1 DEF HeldIsSo, Late
  <2>5. \A i \in 1..Len(Held'[D]) : Held'[D][i] = Held[D][1 + i]
    <3>1. ASSUME NEW i \in 1..Len(drained'[c]) PROVE Held'[D][i] = Held[D][1 + i]
      <4>1. 1 + i \in 1..Len(drained[c]) /\ drained'[c][i] = drained[c][1 + i]
        BY <2>2
      <4> QED BY <2>4, <4>1
    <3> QED BY <2>4, <3>1
  <2>6. /\ Held'[<<"jobs", 0>>] = Held[<<"jobs", 0>>]
        /\ Held'[<<"pending", 0>>] = Held[<<"pending", 0>>]
        /\ \A d \in Conns \ {c} : Held'[<<"drained", d>>] = Held[<<"drained", d>>]
        /\ \A d \in Conns :
              toDevice'[d] = toDevice[d] => Held'[<<"toDevice", d>>] = Held[<<"toDevice", d>>]
    BY <2>1, HeldUnchanged
  <2>7. CASE conn \in broken \cup {0}
    <3>1. toDevice' = toDevice
      BY <2>1, <2>7 DEF send_to_device
    <3>2. \A r \in Queues \ {D} : Held'[r] = Held[r]
      BY <2>6, <3>1 DEF Queues
    <3> HIDE DEF D
    <3>3. Drops(Held, Held', D, 1) /\ 1 <= Len(Held[D])
      BY <2>2, <2>4, <2>5, <3>2 DEF Drops
    <3> QED BY <1>1, <2>1, <2>3, <3>3, DroppedCounted
  <2>8. CASE conn \notin broken \cup {0}
    <3> DEFINE T == <<"toDevice", conn>>
    <3>1. conn \in Conns
      BY <1>1, <2>8 DEF TypeOK
    <3>2. /\ toDevice[conn] \in Seq(Frames)
          /\ toDevice'[conn] = Append(toDevice[conn], Late(Head(drained[c])))
          /\ \A d \in Conns \ {conn} : toDevice'[d] = toDevice[d]
      BY <1>1, <2>1, <2>8, <3>1 DEF send_to_device, TypeOK
    <3>3. T \in Queues /\ D # T
      BY <3>1 DEF Queues
    <3>4. Held[T] = toDevice[conn] /\ Held'[T] = toDevice'[conn]
      BY <1>1, <3>1 DEF HeldIsSo
    <3>5. Head(drained[c]) = drained[c][1] /\ Held[D][1] = Late(Head(drained[c]))
      <4>1. Head(drained[c]) = drained[c][1]
        BY <2>1
      <4>2. 1 \in 1..Len(drained[c])
        BY <2>2
      <4> QED BY <2>4, <4>1, <4>2
    <3>6. Held[D][1] \in Frames
      <4>1. Head(drained[c]) \in Messages
        BY <2>1, HeadTailProperties
      <4> QED BY <3>5, <4>1, FrameType DEF Late
    <3>7. /\ Len(Held'[T]) = Len(Held[T]) + 1 /\ Held'[T][Len(Held[T]) + 1] = Held[D][1]
          /\ \A i \in 1..Len(Held[T]) : Held'[T][i] = Held[T][i]
      BY <3>2, <3>4, <3>5, <3>6, AppendProperties
    <3>8. \A r \in Queues \ {D, T} : Held'[r] = Held[r]
      <4>1. \A d \in Conns \ {conn} : Held'[<<"toDevice", d>>] = Held[<<"toDevice", d>>]
        BY <2>6, <3>2
      <4> QED BY <2>6, <4>1 DEF Queues
    <3> HIDE DEF D, T
    <3>9. Passes(Held, Held', D, T) /\ Len(Held[D]) > 0
      BY <2>2, <2>4, <2>5, <3>7, <3>8 DEF Passes
    <3> QED BY <1>1, <2>1, <2>3, <3>3, <3>9, PassedCounted
  <2> QED BY <2>7, <2>8
<1> QED BY <1>2, <1>3, <1>4, <1>5 DEF Handles

\* A task ends: the copy it had is gone, and the message was executed once more.
LEMMA ExecuteCounted == ASSUME CInv, Execute PROVE CInv'
<1> DEFINE J == <<"jobs", 0>>
           g == Head(jobs).frame
<1>1. TypeOK /\ TypeOK' /\ Once(Held) /\ Counted /\ HeldIsSo /\ HeldIsSo'
  BY ClientType, HeldEntries, HeldEntriesNext DEF CInv
<1>2. /\ jobs \in Seq(Jobs) /\ jobs # <<>> /\ jobs' = Tail(jobs)
      /\ ran' = [ran EXCEPT ![g.msg] = @ + 1]
      /\ route' = route /\ pending' = pending /\ drained' = drained /\ toDevice' = toDevice
  BY <1>1 DEF Execute, TypeOK, senderVars, serverVars
<1>3. /\ Len(jobs) \in Nat /\ Len(jobs) > 0 /\ Len(jobs') = Len(jobs) - 1
      /\ \A i \in 1..Len(jobs') : jobs'[i] = jobs[1 + i]
      /\ Head(jobs) = jobs[1] /\ jobs[1] \in Jobs
  <2>1. Len(jobs) \in Nat /\ Len(jobs) > 0 /\ Head(jobs) = jobs[1] /\ Head(jobs) \in Jobs
    BY <1>2, HeadTailProperties
  <2> QED BY <1>2, <2>1, HeadTailProperties
<1>4. g \in Frames /\ g.msg \in Messages /\ g \in {Live(g.msg), Late(g.msg)}
  <2>1. g \in Frames
    BY <1>3 DEF Jobs
  <2>2. g.msg \in Messages /\ g.live \in BOOLEAN /\ g = [msg |-> g.msg, live |-> g.live]
    BY <2>1 DEF Frames
  <2>3. CASE g.live = TRUE
    BY <2>1, <2>2, <2>3 DEF Live
  <2>4. CASE g.live = FALSE
    BY <2>1, <2>2, <2>4 DEF Late
  <2> QED BY <2>2, <2>3, <2>4
<1>5. /\ J \in Queues /\ Len(Held[J]) = Len(jobs) /\ Len(Held'[J]) = Len(jobs')
      /\ \A i \in 1..Len(jobs) : Held[J][i] = jobs[i].frame
      /\ \A i \in 1..Len(jobs') : Held'[J][i] = jobs'[i].frame
  BY <1>1 DEF HeldIsSo, Queues
<1>6. Held[J][1] = g
  BY <1>3, <1>5
<1>7. \A r \in Queues \ {J} : Held'[r] = Held[r]
  <2>1. /\ Held'[<<"pending", 0>>] = Held[<<"pending", 0>>]
        /\ \A c \in Conns : Held'[<<"drained", c>>] = Held[<<"drained", c>>]
        /\ \A c \in Conns : Held'[<<"toDevice", c>>] = Held[<<"toDevice", c>>]
    BY <1>2, HeldUnchanged
  <2> QED BY <2>1 DEF Queues
<1> HIDE DEF J, g
<1>8. Drops(Held, Held', J, 1) /\ 1 <= Len(Held[J])
  <2>1. \A i \in 1..Len(jobs') : Held'[J][i] = Held[J][1 + i]
    BY <1>3, <1>5
  <2> QED BY <1>3, <1>5, <1>7, <2>1 DEF Drops
<1>9. /\ Once(Held') /\ \A f : Occurs(Held', f) => Occurs(Held, f)
      /\ ~Occurs(Held', g) /\ Occurs(Held, g)
  <2>1. /\ Once(Held') /\ \A f : Occurs(Held', f) => Occurs(Held, f)
        /\ \A i \in 1..1 : ~Occurs(Held', Held[J][i])
    BY <1>1, <1>5, <1>8, Dropped DEF HeldIsSo
  <2>2. Occurs(Held, g)
    <3>1. J \in DOMAIN Held /\ 1 \in 1..Len(Held[J])
      BY <1>1, <1>3, <1>5 DEF HeldIsSo
    <3> QED BY <1>6, <3>1 DEF Occurs
  <2> QED BY <1>6, <2>1, <2>2
<1>10. ASSUME NEW n \in Messages
       PROVE  /\ ran'[n] + Waiting(Live(n))' + Waiting(Late(n))' <= Allowed(n)'
              /\ Occurs(Held', Live(n)) => route'[n] \notin {"none", "offline"}
              /\ Occurs(Held', Late(n)) => route'[n] \in {"offline", "failed"}
  <2>1. /\ ran[n] + Waiting(Live(n)) + Waiting(Late(n)) <= Allowed(n)
        /\ Occurs(Held, Live(n)) => route[n] \notin {"none", "offline"}
        /\ Occurs(Held, Late(n)) => route[n] \in {"offline", "failed"}
        /\ ran[n] \in Nat /\ Allowed(n) \in {0, 1, 2} /\ Allowed(n)' = Allowed(n)
    BY <1>1, <1>2 DEF Counted, Allowed, TypeOK
  <2>2. /\ Waiting(Live(n)) = IF Occurs(Held, Live(n)) THEN 1 ELSE 0
        /\ Waiting(Late(n)) = IF Occurs(Held, Late(n)) THEN 1 ELSE 0
        /\ Waiting(Live(n))' = IF Occurs(Held', Live(n)) THEN 1 ELSE 0
        /\ Waiting(Late(n))' = IF Occurs(Held', Late(n)) THEN 1 ELSE 0
    BY DEF Waiting, Live, Late
  <2>3. CASE n = g.msg
    <3>1. ran'[n] = ran[n] + 1
      BY <1>1, <1>2, <1>4, <2>3 DEF TypeOK
    <3>2. CASE g = Live(n)
      BY <1>2, <1>9, <2>1, <2>2, <3>1, <3>2
    <3>3. CASE g = Late(n)
      BY <1>2, <1>9, <2>1, <2>2, <3>1, <3>3
    <3> QED BY <1>4, <2>3, <3>2, <3>3
  <2>4. CASE n # g.msg
    <3>1. ran'[n] = ran[n]
      BY <1>1, <1>2, <1>4, <2>4 DEF TypeOK
    <3> QED BY <1>2, <1>9, <2>1, <2>2, <3>1
  <2> QED BY <2>3, <2>4
<1>11. Counted'
  BY <1>10 DEF Counted
<1> QED BY <1>1, <1>9, <1>11 DEF CInv

LEMMA ReceiveCounted == ASSUME CInv, Receive PROVE CInv'
<1> DEFINE J == <<"jobs", 0>>
           T == <<"toDevice", cc>>
           j == [conn |-> cc, frame |-> Head(toDevice[cc])]
<1>1. TypeOK /\ TypeOK' /\ HeldIsSo /\ HeldIsSo'
  BY ClientType, HeldEntries, HeldEntriesNext DEF CInv
<1>2. /\ cc \in Conns /\ toDevice[cc] \in Seq(Frames) /\ toDevice[cc] # <<>>
      /\ toDevice'[cc] = Tail(toDevice[cc])
      /\ \A d \in Conns \ {cc} : toDevice'[d] = toDevice[d]
      /\ jobs \in Seq(Jobs) /\ jobs' = Append(jobs, j)
      /\ route' = route /\ pending' = pending /\ drained' = drained /\ ran' = ran
  BY <1>1 DEF Receive, TypeOK, senderVars, serverVars
<1>3. /\ Len(toDevice[cc]) \in Nat /\ Len(toDevice[cc]) > 0
      /\ Head(toDevice[cc]) = toDevice[cc][1] /\ Head(toDevice[cc]) \in Frames
  BY <1>2, HeadTailProperties
<1>4. /\ Len(toDevice'[cc]) = Len(toDevice[cc]) - 1
      /\ \A i \in 1..Len(toDevice'[cc]) : toDevice'[cc][i] = toDevice[cc][1 + i]
  BY <1>2, <1>3, HeadTailProperties
<1>5. /\ Len(jobs) \in Nat /\ Len(jobs') = Len(jobs) + 1 /\ jobs'[Len(jobs) + 1] = j
      /\ \A i \in 1..Len(jobs) : jobs'[i] = jobs[i]
  <2>1. j \in Jobs
    BY <1>2, <1>3 DEF Jobs
  <2> HIDE DEF j
  <2> QED BY <1>2, <2>1, AppendProperties
<1>6. /\ J \in Queues /\ T \in Queues /\ T # J
      /\ Held[T] = toDevice[cc] /\ Held'[T] = toDevice'[cc]
      /\ Len(Held[J]) = Len(jobs) /\ Len(Held'[J]) = Len(jobs')
      /\ \A i \in 1..Len(jobs) : Held[J][i] = jobs[i].frame
      /\ \A i \in 1..Len(jobs') : Held'[J][i] = jobs'[i].frame
  BY <1>1, <1>2 DEF HeldIsSo, Queues
<1>7. \A r \in Queues \ {T, J} : Held'[r] = Held[r]
  <2>1. /\ Held'[<<"pending", 0>>] = Held[<<"pending", 0>>]
        /\ \A d \in Conns : Held'[<<"drained", d>>] = Held[<<"drained", d>>]
        /\ \A d \in Conns \ {cc} : Held'[<<"toDevice", d>>] = Held[<<"toDevice", d>>]
    BY <1>2, HeldUnchanged
  <2> QED BY <2>1 DEF Queues
<1>8. Held'[J][Len(jobs) + 1] = Held[T][1]
  BY <1>3, <1>5, <1>6
<1> HIDE DEF J, T, j
<1>9. \A i \in 1..Len(jobs) : Held'[J][i] = Held[J][i]
  BY <1>5, <1>6
<1>10. Passes(Held, Held', T, J) /\ Len(Held[T]) > 0
  BY <1>3, <1>4, <1>5, <1>6, <1>7, <1>8, <1>9 DEF Passes
<1> QED BY <1>1, <1>2, <1>6, <1>10, PassedCounted

\* Queues are lost with what they hold.
LEMMA LostCounted ==
    ASSUME CInv, TypeOK', \A q \in Queues : Held'[q] = Held[q] \/ Held'[q] = <<>>,
           route' = route, ran' = ran
    PROVE  CInv'
<1>1. Once(Held) /\ HeldIsSo /\ HeldIsSo'
  BY HeldEntries, HeldEntriesNext DEF CInv
<1>2. DOMAIN Held = Queues /\ DOMAIN Held' = Queues
  BY <1>1 DEF HeldIsSo
<1>3. \A q \in Queues, i \in Nat : i \in 1..Len(Held'[q]) => Held'[q] = Held[q]
  <2>1. ASSUME NEW q \in Queues, NEW i \in Nat, i \in 1..Len(Held'[q]) PROVE Held'[q] # <<>>
    BY <2>1
  <2> QED BY <2>1
<1>4. \A q \in Queues : Len(Held'[q]) \in Nat
  BY <1>1 DEF HeldIsSo
<1>5. Once(Held')
  BY <1>1, <1>2, <1>3, <1>4 DEF Once
<1>6. \A f : Occurs(Held', f) => Occurs(Held, f)
  BY <1>2, <1>3, <1>4 DEF Occurs
<1> QED BY <1>5, <1>6, FewerCounted

LEMMA ClientCounted ==
    ASSUME CInv, Connect \/ Receive \/ Execute \/ ClientNotices \/ Break \/ DeviceStops
    PROVE  CInv'
<1>1. TypeOK /\ TypeOK'
  BY ClientType DEF CInv
<1>2. CASE Connect \/ Break
  BY <1>1, <1>2, SameCounted DEF Connect, Break, senderVars, serverVars, netVars, clientVars
<1>3. CASE ClientNotices \/ DeviceStops
  <2>1. /\ route' = route /\ ran' = ran /\ pending' = pending /\ drained' = drained
        /\ jobs' = jobs \/ jobs' = <<>>
        /\ \A c \in Conns : toDevice'[c] = toDevice[c] \/ toDevice'[c] = <<>>
    BY <1>1, <1>3 DEF ClientNotices, DeviceStops, TypeOK, senderVars, serverVars
  <2>2. HeldIsSo'
    BY <1>1, HeldEntriesNext
  <2>3. Held'[<<"jobs", 0>>] = Held[<<"jobs", 0>>] \/ Held'[<<"jobs", 0>>] = <<>>
    <3>1. CASE jobs' = <<>>
      <4>1. Held'[<<"jobs", 0>>] \in Seq(Frames) /\ Len(Held'[<<"jobs", 0>>]) = 0
        BY <2>2, <3>1 DEF HeldIsSo, Queues
      <4> QED BY <4>1, EmptySeq
    <3> QED BY <2>1, <3>1, HeldUnchanged
  <2>4. ASSUME NEW c \in Conns
        PROVE  \/ Held'[<<"toDevice", c>>] = Held[<<"toDevice", c>>]
               \/ Held'[<<"toDevice", c>>] = <<>>
    BY <2>1, <2>2, HeldUnchanged DEF HeldIsSo
  <2>5. /\ Held'[<<"pending", 0>>] = Held[<<"pending", 0>>]
        /\ \A c \in Conns : Held'[<<"drained", c>>] = Held[<<"drained", c>>]
    BY <2>1, HeldUnchanged
  <2>6. \A q \in Queues : Held'[q] = Held[q] \/ Held'[q] = <<>>
    BY <2>3, <2>4, <2>5 DEF Queues
  <2> QED BY <1>1, <2>1, <2>6, LostCounted
<1> QED BY <1>2, <1>3, ExecuteCounted, ReceiveCounted

LEMMA InitCounted == ASSUME Init PROVE CInv
<1>1. TypeOK /\ HeldIsSo
  BY InitInv, HeldEntries DEF IInv
<1>2. \A q \in Queues : Len(Held[q]) = 0
  <2>1. /\ pending = <<>> /\ jobs = <<>>
        /\ \A c \in Conns : drained[c] = <<>> /\ toDevice[c] = <<>>
    BY DEF Init
  <2>2. /\ Len(Held[<<"pending", 0>>]) = 0 /\ Len(Held[<<"jobs", 0>>]) = 0
        /\ \A c \in Conns : Len(Held[<<"drained", c>>]) = 0 /\ Len(Held[<<"toDevice", c>>]) = 0
    BY <1>1, <2>1 DEF HeldIsSo
  <2>3. ASSUME NEW q \in Queues PROVE Len(Held[q]) = 0
    <3>1. CASE q \in {<<"pending", 0>>, <<"jobs", 0>>}
      BY <2>2, <3>1
    <3>2. CASE q \in {"drained", "toDevice"} \X Conns
      <4>1. PICK kind \in {"drained", "toDevice"}, c \in Conns : q = <<kind, c>>
        BY <3>2
      <4> QED BY <2>2, <4>1
    <3> QED BY <3>1, <3>2 DEF Queues
  <2> QED BY <2>3
<1>3. DOMAIN Held = Queues
  BY <1>1 DEF HeldIsSo
<1>4. Once(Held) /\ \A f : ~Occurs(Held, f)
  BY <1>2, <1>3 DEF Once, Occurs
<1>5. Counted
  <2>1. ASSUME NEW m \in Messages
        PROVE  /\ ran[m] = 0 /\ Allowed(m) = 0
               /\ Waiting(Live(m)) = 0 /\ Waiting(Late(m)) = 0
    BY <1>4 DEF Init, Waiting, Allowed
  <2>2. ASSUME NEW m \in Messages
        PROVE  /\ ran[m] + Waiting(Live(m)) + Waiting(Late(m)) <= Allowed(m)
               /\ ~Occurs(Held, Live(m)) /\ ~Occurs(Held, Late(m))
    BY <1>4, <2>1
  <2> QED BY <2>2 DEF Counted
<1> QED BY <1>1, <1>4, <1>5 DEF CInv

LEMMA CountedHolds == Spec => []CInv
<1>1. CInv /\ [Next]_vars => CInv'
  <2>1. ASSUME CInv, Next PROVE CInv'
    BY <2>1, SenderCounted, HandlerCounted, ClientCounted DEF Next
  <2>2. ASSUME CInv, UNCHANGED vars PROVE CInv'
    <3>1. TypeOK'
      BY <2>2 DEF CInv, TypeOK, vars, senderVars, serverVars, netVars, clientVars
    <3> QED BY <2>2, <3>1, SameCounted DEF vars, senderVars, serverVars, netVars, clientVars
  <2> QED BY <2>1, <2>2
<1> QED BY <1>1, InitCounted, PTL DEF Spec

\* No message is executed twice unless its send failed, and none a third time,
\* whatever is lost, queued again or drained to which connection.
THEOREM TwiceCorrect == Spec => []TwiceOnlyIfFailed
<1>1. CInv => TwiceOnlyIfFailed
  <2>1. ASSUME CInv, NEW m \in Messages PROVE (ran[m] > 1 => route[m] = "failed") /\ ran[m] <= 2
    <3>1. ran[m] \in Nat /\ ran[m] + Waiting(Live(m)) + Waiting(Late(m)) <= Allowed(m)
      BY <2>1 DEF CInv, Counted, TypeOK
    <3>2. Waiting(Live(m)) \in {0, 1} /\ Waiting(Late(m)) \in {0, 1}
      BY DEF Waiting
    <3> QED BY <3>1, <3>2 DEF Allowed
  <2> QED BY <2>1 DEF TwiceOnlyIfFailed
<1> QED BY <1>1, CountedHolds, PTL

=============================================================================
