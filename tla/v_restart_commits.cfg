SPECIFICATION Spec
CONSTANTS
    Server = {s1, s2, s3}
    Nil = Nil
    Snapshotting = FALSE
    SnapShotInterval = 0
    MaxElections = 1
    MaxStarts = 1
    MaxInFlight = 2
    MaxCrashes = 1
    MaxLosses = 1
    MaxCommit = 1
CHECK_DEADLOCK FALSE
SYMMETRY Symmetry
VIEW View
INVARIANT
    CommittedOnMajority
