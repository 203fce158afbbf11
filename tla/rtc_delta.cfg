CONSTANTS
    Id = {0, 2, 5}
    NoId = 16
    Times = {3, 5}
    Num = 3
    Den = 2
    Slice = 2
    MinSleep = 2
    MaxIsr = 3
    MaxBoot = 1
SPECIFICATION FairSpec
INVARIANTS TypeOK ListSound
PROPERTIES AlarmSpec GoesOff
