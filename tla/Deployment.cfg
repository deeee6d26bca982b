SPECIFICATION LiveSpec
CONSTANTS
    Runs = {1, 2}
    Editions = {1, 2}
    Keys = {"a", "b"}
    Lines <- MCLines
    Malformed <- MCMalformed
    MaxFaults = 1
INVARIANTS
    TypeOK
    VersionTellsSchema
    FilesWhole
PROPERTIES
    RowsSurvive
    RunsEnd
CHECK_DEADLOCK FALSE
