SPECIFICATION TurnSpec
CONSTANTS
    MaxTurns = 2
    MaxRounds = 2
    MaxBatch = 2
    MaxInjected = 1
    MaxCalls = 3
    Texts = {FALSE}
    Persists = {TRUE}
    Retain = 2
    MaxTimeouts = 1
INVARIANTS
    PairsStayTogether
    BatchIsAnswered
    ResultsAreShown
    RowsOfOthers
PROPERTIES
    TurnAdvances
CHECK_DEADLOCK FALSE
