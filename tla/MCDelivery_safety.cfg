SPECIFICATION FairSpecUpToDirs
CONSTANTS
    t1 = t1
    t2 = t2
    d1 = d1
    d2 = d2
    NoRequest = NoRequest
    NoPlan = NoPlan
    Tasks = {t1, t2}
    Dirs = {d1, d2}
    NStages = 2
    MaxRetries = 2
    MaxResumes = 1
    MaxFaults = 1
INVARIANTS
    CompletedIsBuilt
    RetriesAreBounded
    RunningIsTrue
PROPERTIES
    DoneStaysDone
CHECK_DEADLOCK FALSE
