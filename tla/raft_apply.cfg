SPECIFICATION FairSpec
CONSTANTS
    Server = {s1, s2}
    Nil = Nil
    Snapshotting = TRUE
    SnapShotInterval = 2
    MaxElections = 1
    MaxStarts = 2
    MaxInFlight = 2
    MaxCrashes = 1
    MaxLosses = 0
    MaxCommit = 2
CHECK_DEADLOCK FALSE
PROPERTY
    CommittedIsApplied
