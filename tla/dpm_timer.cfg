CONSTANTS
    c1 = c1  c2 = c2  m1 = m1  n1 = n1
    NoName = NoName  NoTid = NoTid  Nobody = Nobody
    Caller = {c1, c2}
    Tid = {4, 5}
    Fixed = {4}
    Module = {m1}
    Timer = {n1}
    MaxAbnormal = 1
    QueueLen = 2
    Registered <- mcRegistered
    MaxCalls = 1
    Ops <- mcOps
SPECIFICATION FairSpec
INVARIANTS TypeOK ExpiryKept
PROPERTIES ExpiryServed SleepAgain
