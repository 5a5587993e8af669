CONSTANTS
    MaxStatements = 2
    MaxRows = 3
    MaxExc = 3
    TailSize = 2
SPECIFICATION Spec
INVARIANTS
    TypeOK
    GivenInOrder
    NoSilentTruncation
    LateExceptionReported
    AbortedIsKilled
    InsertAccounted
PROPERTY
    CanceledStatementEnds
