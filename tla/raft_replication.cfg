SPECIFICATION Spec
CONSTANTS
    Server = {s1, s2, s3}
    Nil = Nil
    Snapshotting = FALSE
    SnapShotInterval = 0
    MaxElections = 2
    MaxStarts = 2
    MaxInFlight = 2
    MaxCrashes = 1
    MaxLosses = 1
    MaxCommit = 0
CHECK_DEADLOCK FALSE
SYMMETRY Symmetry
VIEW ElectionView
INVARIANTS
    TypeOK
    ElectionSafety
    PersistedCurrent
    VotesPledged
    LogMatching
    BacktrackProgress
    MatchIndexSound
    LeaderCompleteness
PROPERTY
    LeaderAppendOnly
