------------------------------- MODULE Gateway -------------------------------
(***************************************************************************)
(* One device and the messages sent to it through the IM gateway: the      *)
(* router and the HTTP command (gateway/router.py, app.py), the device     *)
(* registry with its offline queue (device_manager.py), a websocket        *)
(* handler per connection (app.py), and the device's client, which         *)
(* connects again whenever its connection ends (client.py).                *)
(*                                                                         *)
(* A connection that is broken takes no more frames; what is under way on  *)
(* it may still be read until the reader notices.  A frame carries a       *)
(* correlation id: the live one, which the router waits for, or a fresh    *)
(* one made when the queue is drained, which nobody waits for.             *)
(***************************************************************************)
EXTENDS Naturals, Sequences

CONSTANTS
    Messages,
    Commands,       \* the messages that come by POST /api/command
    MaxPending,     \* MAX_PENDING
    MaxConns        \* bound: connections the client makes; the last one lasts

ASSUME GatewayAssumption ==
    Commands \subseteq Messages /\ MaxPending \in Nat \ {0} /\ MaxConns \in Nat \ {0}

VARIABLES
    route,      \* where the sender's call for each message is
    sentTo,     \* the connection the message was sent over
    pending,    \* _pending of the device
    conn,       \* _connections of the device: 0 if it has no entry
    handler,    \* where the handler of each connection is
    drained,    \* the drained messages each handler has still to send
    broken,     \* connections that are gone
    toDevice,   \* frames under way to the device
    toServer,   \* replies under way to the gateway
    conns,      \* connections made
    cc,         \* the client's connection: 0 if it has none
    jobs,       \* the client's tasks, in the order they get its semaphore
    ran         \* turns executed for each message

senderVars == <<route, sentTo>>
serverVars == <<conn, handler, drained>>
netVars == <<broken, toDevice, toServer>>
clientVars == <<conns, cc, jobs, ran>>
vars == <<senderVars, pending, serverVars, netVars, clientVars>>

Conns == 1..MaxConns
Frames == [msg : Messages, live : BOOLEAN]
Jobs == [conn : Conns, frame : Frames]
Waits == {"none", "sending", "waiting"}
Told == {"answered", "timedout", "offline", "failed", "refused"}

TypeOK ==
    /\ route \in [Messages -> Waits \cup Told]
    /\ sentTo \in [Messages -> {0} \cup Conns]
    /\ pending \in Seq(Messages) /\ Len(pending) <= MaxPending
    /\ conn \in {0} \cup Conns
    /\ handler \in [Conns -> {"none", "registering", "closing", "serving", "over"}]
    /\ drained \in [Conns -> Seq(Messages)]
    /\ broken \subseteq Conns
    /\ toDevice \in [Conns -> Seq(Frames)]
    /\ toServer \in [Conns -> SUBSET Frames]
    /\ conns \in 0..MaxConns
    /\ cc \in {0} \cup Conns
    /\ jobs \in Seq(Jobs)
    /\ ran \in [Messages -> Nat]

Init ==
    /\ route = [m \in Messages |-> "none"] /\ sentTo = [m \in Messages |-> 0]
    /\ pending = <<>>
    /\ conn = 0
    /\ handler = [c \in Conns |-> "none"] /\ drained = [c \in Conns |-> <<>>]
    /\ broken = {}
    /\ toDevice = [c \in Conns |-> <<>>] /\ toServer = [c \in Conns |-> {}]
    /\ conns = 0 /\ cc = 0 /\ jobs = <<>> /\ ran = [m \in Messages |-> 0]

-----------------------------------------------------------------------------
(* The registry's operations.                                               *)

\* The oldest go when the queue is full, and any that are too old.
enqueue_pending(m) ==
    \E k \in 0..Len(pending) :
       /\ Len(pending) - k < MaxPending
       /\ pending' = Append(SubSeq(pending, k + 1, Len(pending)), m)

\* The frames under way once f was sent to the registered connection.  Writing
\* to a broken one may seem to succeed.
send_to_device(f) ==
    IF conn \in broken \cup {0} THEN toDevice
    ELSE [toDevice EXCEPT ![conn] = Append(@, f)]

\* One handler at a time holds the device's lock over an await.
Locked == \E c \in Conns : handler[c] = "closing"

\* The handlers get to register() in the order of their connections: a connection
\* is accepted before the client can make the next, and the lock is fair.
MayRegister(c) ==
    /\ handler[c] = "registering"
    /\ \A d \in 1..c - 1 : handler[d] \notin {"registering", "closing"}

-----------------------------------------------------------------------------
(* route() and POST /api/command.                                           *)

\* The sender is told that the message was not sent: it is queued, except a
\* command, which is refused.
NotSent(m, how) ==
    IF m \in Commands
      THEN route' = [route EXCEPT ![m] = "refused"] /\ UNCHANGED pending
      ELSE route' = [route EXCEPT ![m] = how] /\ enqueue_pending(m)

RouteOffline(m) ==
    /\ route[m] = "none"
    /\ conn = 0
    /\ NotSent(m, "offline")
    /\ UNCHANGED <<sentTo, serverVars, netVars, clientVars>>

RouteOnline(m) ==
    /\ route[m] = "none"
    /\ conn # 0
    /\ route' = [route EXCEPT ![m] = "sending"]
    /\ sentTo' = [sentTo EXCEPT ![m] = conn]
    /\ toDevice' = send_to_device([msg |-> m, live |-> TRUE])
    /\ UNCHANGED <<pending, serverVars, broken, toServer, clientVars>>

\* The waiter is registered when the send has returned.
SendReturns(m) ==
    /\ route[m] = "sending"
    /\ route' = [route EXCEPT ![m] = "waiting"]
    /\ UNCHANGED <<sentTo, pending, serverVars, netVars, clientVars>>

\* Seeded fault: a send that failed is taken for a connection that was missing.
SendFailsOffline(m) ==
    /\ route[m] = "sending"
    /\ sentTo[m] \in broken
    /\ NotSent(m, "offline")
    /\ UNCHANGED <<sentTo, serverVars, netVars, clientVars>>

\* The send raised, whether or not the device was given the frame.
SendFails(m) ==
    /\ route[m] = "sending"
    /\ sentTo[m] \in broken
    /\ NotSent(m, "failed")
    /\ UNCHANGED <<sentTo, serverVars, netVars, clientVars>>

Timeout(m) ==
    /\ route[m] = "waiting"
    /\ route' = [route EXCEPT ![m] = "timedout"]
    /\ UNCHANGED <<sentTo, pending, serverVars, netVars, clientVars>>

-----------------------------------------------------------------------------
(* The websocket handler of a connection.                                   *)

\* Seeded fault: the queue is read and not emptied.
EntersKeepingQueue(c) ==
    /\ conn' = c
    /\ drained' = [drained EXCEPT ![c] = pending]
    /\ handler' = [handler EXCEPT ![c] = "serving"]
    /\ UNCHANGED pending

\* register() ends and the queue is drained.
Enters(c) ==
    /\ conn' = c
    /\ drained' = [drained EXCEPT ![c] = pending]
    /\ pending' = <<>>
    /\ handler' = [handler EXCEPT ![c] = "serving"]

Register(c) ==
    /\ MayRegister(c)
    /\ conn = 0
    /\ Enters(c)
    /\ UNCHANGED <<senderVars, netVars, clientVars>>

\* register() closes the connection it replaces, and waits for that.
CloseOld(c) ==
    /\ MayRegister(c)
    /\ conn # 0
    /\ broken' = broken \cup {conn}
    /\ handler' = [handler EXCEPT ![c] = "closing"]
    /\ UNCHANGED <<senderVars, pending, conn, drained, toDevice, toServer, clientVars>>

OldClosed(c) ==
    /\ handler[c] = "closing"
    /\ Enters(c)
    /\ UNCHANGED <<senderVars, netVars, clientVars>>

\* A drained message goes to whatever connection is registered now, and it is not
\* looked at whether it went.
DrainSend(c) ==
    /\ handler[c] = "serving" /\ drained[c] # <<>>
    /\ drained' = [drained EXCEPT ![c] = Tail(@)]
    /\ toDevice' = send_to_device([msg |-> Head(drained[c]), live |-> FALSE])
    /\ UNCHANGED <<senderVars, pending, conn, handler, broken, toServer, clientVars>>

\* A reply finds the one who waits for it, or nobody.
Resolve(c) ==
    /\ handler[c] = "serving" /\ drained[c] = <<>>
    /\ \E f \in toServer[c] :
          /\ toServer' = [toServer EXCEPT ![c] = @ \ {f}]
          /\ route' = IF f.live /\ route[f.msg] = "waiting"
                        THEN [route EXCEPT ![f.msg] = "answered"] ELSE route
    /\ UNCHANGED <<sentTo, pending, serverVars, broken, toDevice, clientVars>>

\* Seeded fault: whatever is registered is removed.
UnregisterAny(c) ==
    /\ handler[c] = "serving" /\ drained[c] = <<>> /\ c \in broken
    /\ ~Locked
    /\ conn' = 0
    /\ handler' = [handler EXCEPT ![c] = "over"]
    /\ UNCHANGED <<senderVars, pending, drained, netVars, clientVars>>

\* The handler notices that its connection is gone.
Unregister(c) ==
    /\ handler[c] = "serving" /\ drained[c] = <<>> /\ c \in broken
    /\ ~Locked
    /\ conn' = IF conn = c THEN 0 ELSE conn
    /\ handler' = [handler EXCEPT ![c] = "over"]
    /\ UNCHANGED <<senderVars, pending, drained, netVars, clientVars>>

-----------------------------------------------------------------------------
(* The client, and the network.                                             *)

Connect ==
    /\ cc = 0
    /\ conns < MaxConns
    /\ conns' = conns + 1
    /\ cc' = conns'
    /\ handler' = [handler EXCEPT ![conns'] = "registering"]
    /\ UNCHANGED <<senderVars, pending, conn, drained, netVars, jobs, ran>>

\* Seeded fault: a frame that comes during a turn is dropped.
ReceiveUnlessBusy ==
    /\ cc # 0
    /\ toDevice[cc] # <<>>
    /\ toDevice' = [toDevice EXCEPT ![cc] = Tail(@)]
    /\ jobs' = IF jobs = <<>> THEN <<[conn |-> cc, frame |-> Head(toDevice[cc])]>> ELSE jobs
    /\ UNCHANGED <<senderVars, pending, serverVars, broken, toServer, conns, cc, ran>>

\* Every frame gets a task of its own, which outlives the connection.
Receive ==
    /\ cc # 0
    /\ toDevice[cc] # <<>>
    /\ toDevice' = [toDevice EXCEPT ![cc] = Tail(@)]
    /\ jobs' = Append(jobs, [conn |-> cc, frame |-> Head(toDevice[cc])])
    /\ UNCHANGED <<senderVars, pending, serverVars, broken, toServer, conns, cc, ran>>

\* A task gets the semaphore, executes the turn and answers, with the result or
\* with an error, over the connection the frame came by.
Execute ==
    /\ jobs # <<>>
    /\ LET j == Head(jobs)
       IN  /\ ran' = [ran EXCEPT ![j.frame.msg] = @ + 1]
           /\ toServer' = IF j.conn \in broken THEN toServer
                          ELSE [toServer EXCEPT ![j.conn] = @ \cup {j.frame}]
    /\ jobs' = Tail(jobs)
    /\ UNCHANGED <<senderVars, pending, serverVars, broken, toDevice, conns, cc>>

ClientNotices ==
    /\ cc \in broken
    /\ cc' = 0
    /\ toDevice' = [toDevice EXCEPT ![cc] = <<>>]
    /\ UNCHANGED <<senderVars, pending, serverVars, broken, toServer, conns, jobs, ran>>

Break ==
    /\ cc \notin broken \cup {0}
    /\ conns < MaxConns
    /\ broken' = broken \cup {cc}
    /\ UNCHANGED <<senderVars, pending, serverVars, toDevice, toServer, clientVars>>

\* The device's process ends, and its tasks with it; it is started again.
DeviceStops ==
    /\ cc # 0
    /\ conns < MaxConns
    /\ broken' = broken \cup {cc}
    /\ cc' = 0 /\ jobs' = <<>>
    /\ toDevice' = [toDevice EXCEPT ![cc] = <<>>]
    /\ UNCHANGED <<senderVars, pending, serverVars, toServer, conns, ran>>

-----------------------------------------------------------------------------
Sends(m) == SendReturns(m) \/ SendFails(m)
Handles(c) ==
    Register(c) \/ CloseOld(c) \/ OldClosed(c) \/ DrainSend(c) \/ Resolve(c) \/ Unregister(c)

Next ==
    \/ \E m \in Messages : RouteOffline(m) \/ RouteOnline(m) \/ Sends(m) \/ Timeout(m)
    \/ \E c \in Conns : Handles(c)
    \/ Connect \/ Receive \/ Execute \/ ClientNotices
    \/ Break \/ DeviceStops

Spec == Init /\ [][Next]_vars

\* The event loops go on, sends return and the client's turns end.  Nobody need
\* send a message, nothing need break, and the client need not connect again.
FairSpec ==
    /\ Spec
    /\ \A m \in Messages : WF_vars(Sends(m)) /\ WF_vars(Timeout(m))
    /\ \A c \in Conns : WF_vars(Handles(c))
    /\ WF_vars(Receive) /\ WF_vars(Execute) /\ WF_vars(ClientNotices)

\* run_forever: the client is not told to stop.
ReconnectSpec == FairSpec /\ WF_vars(Connect)

=============================================================================
