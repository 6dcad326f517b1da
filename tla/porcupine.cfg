SPECIFICATION FairSpec
CONSTANTS
    Histories <- MCHistories
    Keys <- MCKeys
    WordBits = 2
CHECK_DEADLOCK FALSE
INVARIANTS
    VerdictIsTrue
    ListIsRest
    PartialsAreLegal
PROPERTY
    CheckEnds
