CONSTANTS
    t1 = t1  t2 = t2  umac = umac  supp = supp  app = app
    Daemon = Daemon  NoName = NoName
    Task = {t1}
    Module = {umac, supp}
    Supp = supp
    Exempt <- mcExempt
    Uses <- mcUses1
    PortOf <- mcPort
    Ops <- opsLive
    MaxSlots = 2
    DelayCnt = 2
    MaxTry = 1
    PdownResults = {"busy", "disconnected", "ok", "fail"}
SPECIFICATION FairSpec
PROPERTIES RunEnds ReadyIsAttempted
