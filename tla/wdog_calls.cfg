SPECIFICATION ObsFairSpec
CONSTANTS
    t1 = t1
    t2 = t2
    NoTask = NoTask
    Task <- TwoTasks
    MaxTasks = 2
    MaxLatency = 2
    Period = 2
    Ops <- AppOps
INVARIANTS TypeOK IdsExclusive MonitoredHeld HungSurvival
PROPERTIES HungDetected
