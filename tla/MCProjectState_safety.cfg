SPECIFICATION FairSpec
CONSTANTS
    s1 = s1
    s2 = s2
    f1 = f1
    f2 = f2
    f3 = f3
    NoFeature = NoFeature
    Features = {f1, f2, f3}
    Sessions = {s1, s2}
    DependsOn <- ChainAndOne
    Rank <- OrderOfThree
    Overwrite = {TRUE, FALSE}
    Given = {"pending"}
    MaxInits = 2
    MaxCrashes = 1
INVARIANTS
    CommittedHasArchive
PROPERTIES
    ImplementsBoard
    VerifiedIsFinished
CHECK_DEADLOCK FALSE
