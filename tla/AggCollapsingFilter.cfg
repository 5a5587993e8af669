SPECIFICATION Spec
CONSTANTS
    Null = Null
    NaN = NaN
    Refused = Refused
    Fns = {"count"}
    MaxRows = 2
    Engines = {"CollapsingMergeTree"}
    Nullables = {FALSE}
    Splits = {"SIMPLE"}
INVARIANT IfTakesCondition
CHECK_DEADLOCK FALSE
