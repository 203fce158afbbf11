CONSTANTS
    t1 = t1  t2 = t2  umac = umac  supp = supp  app = app
    Daemon = Daemon  NoName = NoName
    Task = {t1, t2}
    Module = {supp, app}
    Supp = supp
    Exempt <- mcNone
    Uses <- mcUses2
    PortOf <- mcPort
    Ops <- opsLost
    MaxSlots = 2
    DelayCnt = 2
    MaxTry = 1
    PdownResults = {"ok"}
SPECIFICATION ObsSpec
INVARIANTS SetSticks
