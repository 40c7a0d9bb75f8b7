----------------------------- MODULE GatewayProps -----------------------------
(* What the gateway promises about one device, gateway/device_manager.py,     *)
(* router.py and app.py.                                                      *)
EXTENDS Gateway

\* A handler whose connection is not gone is the registered one: neither the end
\* of an older connection nor one that is being replaced takes its entry.  (The
\* test `is ws` of unregister and the lock of register.)
ServingIsRegistered ==
    \A c \in Conns : handler[c] = "serving" /\ c \notin broken => conn = c

\* A message waits in the queue of a device that is connected only if sending it
\* over an earlier connection failed, after the queue had been drained.  (Between
\* the test of is_online and the drain there is no await.)
WaitsOnlyForReconnect ==
    \A i \in 1..Len(pending) :
       conn \notin broken \cup {0} =>
          route[pending[i]] = "failed" /\ sentTo[pending[i]] # conn

\* A message is executed twice only if sending it failed and it was queued as
\* well; a command, which is not queued, never is.  (drain_pending pops.)
TwiceOnlyIfFailed ==
    \A m \in Messages :
       /\ ran[m] > 1 => route[m] = "failed"
       /\ ran[m] <= 2

\* What a reconnect takes from the queue is executed unless that connection goes:
\* it is sent to whatever is registered then, may find the client at other work,
\* and is in no queue any more, so nothing but the end of the connection, which
\* the drain does not look at, may lose it.  A command is never in the queue.
\* (ws_device, _consume_loop.)
DrainedIsRun ==
    \A m \in Messages \ Commands, c \in Conns :
       (\E i \in 1..Len(drained[c]) : drained[c][i] = m) ~> (ran[m] > 0 \/ c \in broken)

\* What the sender of a message to an offline device is told: the command was
\* queued and will be processed when the computer comes online.
QueuedIsRun ==
    \A m \in Messages : route[m] = "offline" ~> ran[m] > 0

=============================================================================
