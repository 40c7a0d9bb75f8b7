CONSTANTS
    m1 = m1
    m2 = m2
    m3 = m3
    Messages <- ThreeMessages
    Commands <- OneCommand
    MaxPending = 1
    MaxConns = 2
SPECIFICATION FairSpec
INVARIANTS
    ServingIsRegistered
    WaitsOnlyForReconnect
    TwiceOnlyIfFailed
PROPERTIES
    DrainedIsRun
CHECK_DEADLOCK FALSE
