SPECIFICATION Spec
CONSTANTS
    Server = {s1, s2}
    Nil = Nil
    Snapshotting = TRUE
    SnapShotInterval = 2
    MaxElections = 1
    MaxStarts = 2
    MaxInFlight = 2
    MaxCrashes = 0
    MaxLosses = 0
    MaxCommit = 2
CHECK_DEADLOCK FALSE
SYMMETRY Symmetry
VIEW View
INVARIANT
    MatchIndexSound
