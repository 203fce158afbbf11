CONSTANTS
    t1 = t1  t2 = t2  umac = umac  supp = supp  app = app
    Daemon = Daemon  NoName = NoName
    Task = {t1, t2}
    Module = {umac, supp, app}
    Supp = supp
    Exempt <- mcExempt
    Uses <- mcUses1
    PortOf <- mcPort
    Ops <- opsTable
    MaxSlots = 2
    DelayCnt = 1
    MaxTry = 0
    PdownResults = {"ok"}
SYMMETRY taskSymmetry
SPECIFICATION Spec
INVARIANTS UniqueNames NamedSlotCounts
