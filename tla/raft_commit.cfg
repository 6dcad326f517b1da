SPECIFICATION Spec
CONSTANTS
    Server = {s1, s2, s3}
    Nil = Nil
    Snapshotting = FALSE
    SnapShotInterval = 0
    MaxElections = 2
    MaxStarts = 2
    MaxInFlight = 2
    MaxCrashes = 0
    MaxLosses = 0
    MaxCommit = 2
CHECK_DEADLOCK FALSE
SYMMETRY Symmetry
VIEW View
INVARIANT
    CommittedOnMajority
PROPERTIES
    CommitNeverDecreases
    ImplementsReplicatedLog
