SPECIFICATION Spec
CONSTANTS
    Requests = {r1, r2, r3}
    StartUp = StartUp
    None = None
INVARIANT TypeOK
INVARIANT OwnUnitOfWork
INVARIANT ProbesSeeChecks
PROPERTY SingletonsSettle
CHECK_DEADLOCK FALSE
SYMMETRY Symmetry
