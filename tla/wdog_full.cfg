SPECIFICATION ObsSpec
CONSTANTS
    t1 = t1
    t2 = t2
    NoTask = NoTask
    Task <- TwoTasks
    MaxTasks = 1
    MaxLatency = 0
    Period = 1
    Ops = {}
INVARIANTS IdsExclusive
