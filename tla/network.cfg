SPECIFICATION FairSpec
CONSTANTS
    CallId = {k1}
    None = None
    N = 2
    Client = {c}
    MaxChanges = 1
    MaxIterations = 2
CHECK_DEADLOCK FALSE
INVARIANTS
    AcknowledgedIsSaved
    OldEndsDisabled
    HealthyCallsSucceed
PROPERTY
    CallReturns
