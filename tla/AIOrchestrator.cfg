CONSTANTS
    Requests = {r1, r2, r3}
    Chain <- MCChain
    Cancellable = TRUE
    FailureThreshold = 2
    Timeout = 1
    MaxFailureCount = 4
    NoFailure = NoFailure
SPECIFICATION LiveSpec
INVARIANTS
    TypeOK
    PlaceHeldWhileWaiting
    FirstUsableWins
PROPERTIES
    SummariesFailFast
    EveryRequestAnswered
