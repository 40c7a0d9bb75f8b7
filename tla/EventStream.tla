----------------------------- MODULE EventStream -----------------------------
(***************************************************************************)
(* What a live stream promises, whatever buffers, queues and replays are   *)
(* in between: the producer appends events to a log and may mark its end;  *)
(* each client sees, from some event on, every later event in the order of *)
(* the log, each once, until it stops seeing any.                          *)
(***************************************************************************)
EXTENDS Naturals

CONSTANT Clients

VARIABLES
    log,   \* number of events in the log
    at,    \* the event each client saw last, 0 for none
    seen,  \* how many events each client saw
    over   \* clients that see nothing more

vars == <<log, at, seen, over>>

Init ==
    /\ log = 0
    /\ at = [c \in Clients |-> 0]
    /\ seen = [c \in Clients |-> 0]
    /\ over = {}

Append == log' = log + 1 /\ UNCHANGED <<at, seen, over>>

\* The first event a client sees may be any, each later one is the next.
See(c) ==
    /\ c \notin over
    /\ \E n \in 1..log :
          /\ at[c] = 0 \/ n = at[c] + 1
          /\ at' = [at EXCEPT ![c] = n]
    /\ seen' = [seen EXCEPT ![c] = @ + 1]
    /\ over' \in {over, over \cup {c}}
    /\ UNCHANGED log

End(c) == over' = over \cup {c} /\ UNCHANGED <<log, at, seen>>

Next == Append \/ \E c \in Clients : See(c) \/ End(c)

Spec == Init /\ [][Next]_vars

=============================================================================
