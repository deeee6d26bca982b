SPECIFICATION Spec
CONSTANTS
    Requests = {r1, r2, r3}
    Tenants = {t1, t2}
    Assets = {a1}
    SourceKeys = {k1}
    Nothing = Nothing
    Schemas = {"models", "migrated"}
    MaxFaults = 1
INVARIANT TypeOK
INVARIANT AtomicPersist
INVARIANT RowsHaveDecisions
INVARIANT EvaluationSucceeds
INVARIANT TenantIsolation
PROPERTY ImplementsLog
PROPERTY IdentityKept
PROPERTY EvaluatedIsReadable
PROPERTY ReadsMoveForward
SYMMETRY Symmetry
CHECK_DEADLOCK FALSE
