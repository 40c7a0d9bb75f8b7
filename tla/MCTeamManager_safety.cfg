SPECIFICATION FairSpec
CONSTANTS
    a1 = a1
    Agents = {a1}
    MaxConcurrent = 1
    MaxEscalation = 1
    MaxAsked = 2
INVARIANTS
    RunningIsLive
    RunBudget
PROPERTIES
    CancelIsFinal
    RunsEnd
CHECK_DEADLOCK FALSE
