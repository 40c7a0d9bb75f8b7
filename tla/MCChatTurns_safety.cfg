SPECIFICATION FairSpec
CONSTANTS
    t1 = t1
    t2 = t2
    Turns = {t1, t2}
    NoHub = NoHub
    MaxOutside = 1
INVARIANTS
    RunningHasTurn
    HubIsServed
PROPERTIES
    RunningEnds
    DetachedRunIsSaved
CHECK_DEADLOCK FALSE
