SPECIFICATION FairSpecUpToDirs
CONSTANTS
    t1 = t1
    t2 = t2
    d1 = d1
    d2 = d2
    NoRequest = NoRequest
    NoPlan = NoPlan
    Tasks = {t1}
    Dirs = {d1, d2}
    NStages = 2
    MaxRetries = 2
    MaxResumes = 1
    MaxFaults = 0
PROPERTIES
    ResumeTriesAgain
CHECK_DEADLOCK FALSE
