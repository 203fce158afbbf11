SPECIFICATION ObsSpec
CONSTANTS
    t1 = t1
    t2 = t2
    NoTask = NoTask
    Task <- TwoTasks
    MaxTasks = 2
    MaxLatency = 0
    Period = 1
    Ops = {"suspend", "resume", "disable", "idle"}
SYMMETRY Symmetry
INVARIANTS MonitoredRegistered RebootForSilence
