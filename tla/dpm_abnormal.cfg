SPECIFICATION FairSpec
CONSTANTS
  RetryCnt = 3
  LastIsForever = TRUE
  MaxWait <- mcMaxWait
  IdleReady = 0
  IdleUser = 1
  Times = {3}
  CondSets <- mcCondSets
  MaxCalls = 1
INVARIANTS TypeOK BackOffKept ForcedSoon StoppedStays
PROPERTY GivesUp
