SPECIFICATION QuerySpec
CONSTANTS
    Tables <- MCTables
    Null = Null
    Contents <- MCContents
    Shapes <- SemiOverLess
    Stages = {"join"}
    LimitOptions = {"COUNT"}
    WinTargets = {"column"}
    SemiNonKey = TRUE
    AntiOuterEq = FALSE
    PG16 = FALSE
INVARIANT JoinRowsSame
CHECK_DEADLOCK FALSE
