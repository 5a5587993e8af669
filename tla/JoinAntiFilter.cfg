SPECIFICATION QuerySpec
CONSTANTS
    Tables <- MCTables
    Null = Null
    Contents <- MCContents
    Shapes <- AntiOverOwn
    Stages = {"join"}
    LimitOptions = {"COUNT"}
    WinTargets = {"column"}
    SemiNonKey = FALSE
    AntiOuterEq = TRUE
    PG16 = FALSE
INVARIANT JoinRowsSame
CHECK_DEADLOCK FALSE
