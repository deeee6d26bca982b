SPECIFICATION LiveSpec
CONSTANTS
    Requests = {r1, r2, r3}
    Tenants = {t1}
    Assets = {a1}
    SourceKeys = {k1}
    Nothing = Nothing
    Schemas = {"models"}
    MaxFaults = 1
PROPERTY RequestsEnd
CHECK_DEADLOCK FALSE
