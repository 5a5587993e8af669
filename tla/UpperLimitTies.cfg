SPECIFICATION QuerySpec
CONSTANTS
    Tables <- MCTables
    Null = Null
    Contents <- MCContents
    Shapes <- PairsAndTriples
    Stages = {"upper"}
    LimitOptions = {"COUNT", "TIES"}
    WinTargets = {"column"}
    SemiNonKey = FALSE
    AntiOuterEq = FALSE
    PG16 = FALSE
INVARIANT RowsSame
CHECK_DEADLOCK FALSE
