CONSTANTS
    t1 = t1  t2 = t2  umac = umac  supp = supp  app = app
    Daemon = Daemon  NoName = NoName
    Task = {t1}
    Module = {supp, app}
    Supp = supp
    Exempt <- mcNone
    Uses <- mcUses1
    PortOf <- mcPort
    Ops <- opsReuse
    MaxSlots = 2
    DelayCnt = 1
    MaxTry = 1
    PdownResults = {"ok"}
SPECIFICATION Spec
PROPERTIES InitDoneIsOwn
