SPECIFICATION Spec
CONSTANTS
    Server = {s1, s2}
    Nil = Nil
    Snapshotting = TRUE
    SnapShotInterval = 2
    MaxElections = 1
    MaxStarts = 3
    MaxInFlight = 2
    MaxCrashes = 1
    MaxLosses = 0
    MaxCommit = 3
CHECK_DEADLOCK FALSE
SYMMETRY Symmetry
VIEW View
INVARIANTS
    AppliedInOrder
    ApplyInRange
    SnapshotMatchesLog
    ServicePrefix
