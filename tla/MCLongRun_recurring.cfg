SPECIFICATION FairSpec
CONSTANTS
    m1 = m1
    b1 = b1
    c1 = c1
    d = d
    Tasks = {c1}
    CronTasks = {c1}
    LinearTasks = {}
    BadIds = {}
    Dirs = {d}
    Dir <- OneDir
    MaxAttempts = 1
    MaxContinuations = 2
    CounterCap = 2
    MaxStops = 0
PROPERTIES
    RecurringRuns
