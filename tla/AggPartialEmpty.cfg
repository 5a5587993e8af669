SPECIFICATION Spec
CONSTANTS
    Null = Null
    NaN = NaN
    Refused = Refused
    Fns = {"avg", "var"}
    MaxRows = 2
    Engines = {"MergeTree"}
    Nullables = {TRUE}
    Splits = {"PARTIAL"}
INVARIANT PartialStateIsPostgres
CHECK_DEADLOCK FALSE
