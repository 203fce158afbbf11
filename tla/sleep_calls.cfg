CONSTANTS
    t1 = t1  t2 = t2  umac = umac  supp = supp  app = app
    Daemon = Daemon  NoName = NoName
    Task = {t1}
    Module = {umac, supp}
    Supp = supp
    Exempt <- mcExempt
    Uses <- mcUses1
    PortOf <- mcPort
    Ops <- opsCalls
    MaxSlots = 2
    DelayCnt = 1
    MaxTry = 0
    PdownResults = {"busy", "disconnected", "ok", "fail"}
SPECIFICATION ObsSpec
INVARIANTS TypeOK SetsKept ClearsKept AtMostOneLateAttempt
