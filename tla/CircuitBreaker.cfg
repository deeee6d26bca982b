CONSTANTS
    Callers = {c1, c2, c3}
    FailureThreshold = 2
    Timeout = 2
    MaxFailureCount = 5
    NoFailure = NoFailure
SPECIFICATION LiveSpec
INVARIANTS
    TypeOK
    CountMatchesState
    HalfOpenHasTrial
PROPERTIES
    OpenLeavesThroughTrial
    FailsFast
    CoolDownEnds
