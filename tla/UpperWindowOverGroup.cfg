SPECIFICATION QuerySpec
CONSTANTS
    Tables <- MCTables
    Null = Null
    Contents <- MCContents
    Shapes <- PairsAndTriples
    Stages = {"upper"}
    LimitOptions = {"COUNT"}
    WinTargets = {"column", "none"}
    SemiNonKey = FALSE
    AntiOuterEq = FALSE
    PG16 = FALSE
INVARIANT ScanRelIsScan
CHECK_DEADLOCK FALSE
