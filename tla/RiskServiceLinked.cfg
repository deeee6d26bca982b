SPECIFICATION Spec
CONSTANTS
    Requests = {r1, r2}
    Tenants = {t1}
    Assets = {a1}
    SourceKeys = {k1}
    Nothing = Nothing
    Schemas = {"models", "migrated"}
    MaxFaults = 0
INVARIANT DecisionsLinked
CHECK_DEADLOCK FALSE
