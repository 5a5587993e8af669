SPECIFICATION SpecWithCasts
CONSTANTS
    Null = Null
    MaxDepth = 2
INVARIANTS
    AcceptedIsDeparsed
CHECK_DEADLOCK FALSE
