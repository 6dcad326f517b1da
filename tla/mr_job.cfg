SPECIFICATION FairSpec
CONSTANTS
    Worker = {w1, w2}
    NMap = 2
    NReduce = 2
    NRecord = 2
    Slow = FALSE
    MaxAssign = 5
    MaxCrashes = 1
CHECK_DEADLOCK FALSE
INVARIANTS
    TypeOK
    TaskNotLost
    FilesReady
    DoneMeansFinished
    OutputComplete
PROPERTY
    JobFinishes
