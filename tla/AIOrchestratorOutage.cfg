CONSTANTS
    Requests = {r1, r2, r3}
    Chain <- MCChain
    Cancellable = FALSE
    FailureThreshold = 2
    Timeout = 1
    MaxFailureCount = 4
    NoFailure = NoFailure
SPECIFICATION Spec
INVARIANT OutageOpensBreaker
