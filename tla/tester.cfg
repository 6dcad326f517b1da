SPECIFICATION Spec
CONSTANTS
    N = 2
    None = None
    SnapShotInterval = 2
    MaxStarts = 2
    Tests <- MCTests
CHECK_DEADLOCK FALSE
INVARIANTS
    NoFalseAlarm
    RecordsAreCommitted
    OneIsCommitted
    EndsMatchConnected
