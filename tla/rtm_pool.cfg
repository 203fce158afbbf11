CONSTANTS
    t1 = t1  n1 = n1  n2 = n2
    NoTask = NoTask  NoName = NoName
    Task = {t1}
    Name = {n1, n2}
    Size = 10
    Header = 2
    MinSize = 2
    Align = 2
    Width = 64
    RecSize = 1
    Bytes = {1, 3, 20}
    Request = {}
    SleepAt <- mcSleepAt
SPECIFICATION FairSpec
INVARIANTS TypeOK ListSane SearchComplete RecordsIntact NoLeak
PROPERTIES StoreSpec CallsReturn
