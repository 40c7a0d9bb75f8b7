SPECIFICATION FairSpec
CONSTANTS
    n1 = n1
    n2 = n2
    n3 = n3
    n4 = n4
    r1 = r1
    r2 = r2
    Nodes = {n1, n2, n3, n4}
    Graphs <- SomeGraphs
    Approvals = {n3}
    Runs = {r1, r2}
    MaxConcurrent = 1
    MaxControls = 2
INVARIANTS
    CompletedIsWhole
    RecordsSettle
    ActiveIsGoingOn
PROPERTIES
    RunsReturn
CHECK_DEADLOCK FALSE
