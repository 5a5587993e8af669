SPECIFICATION QuerySpec
CONSTANTS
    Tables <- MCTables
    Null = Null
    Contents <- MCContents
    Shapes <- PairsAndTriples
    Stages = {"join", "upper"}
    LimitOptions = {"COUNT"}
    WinTargets = {"column"}
    SemiNonKey = FALSE
    AntiOuterEq = FALSE
    PG16 = FALSE
INVARIANTS
    JoinRowsSame
    RowsSame
CHECK_DEADLOCK FALSE
