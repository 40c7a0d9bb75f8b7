CONSTANTS
    m1 = m1
    m2 = m2
    m3 = m3
    Messages <- OneMessage
    Commands <- NoCommand
    MaxPending = 1
    MaxConns = 2
SPECIFICATION ReconnectSpec
PROPERTY QueuedIsRun
CHECK_DEADLOCK FALSE
