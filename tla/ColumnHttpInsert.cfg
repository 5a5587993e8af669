SPECIFICATION SpecHttpInsert
CONSTANTS
    Names = {n1, n2}
    Cols = 2
    MaxAlters = 2
INVARIANT NameIsDeclared
