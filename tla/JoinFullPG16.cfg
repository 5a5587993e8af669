SPECIFICATION QuerySpec
CONSTANTS
    Tables <- MCTables
    Null = Null
    Contents <- MCContents
    Shapes <- FullOnly
    Stages = {"join"}
    LimitOptions = {"COUNT"}
    WinTargets = {"column"}
    SemiNonKey = FALSE
    AntiOuterEq = FALSE
    PG16 = TRUE
INVARIANT ColumnsFound
CHECK_DEADLOCK FALSE
