CONSTANTS
    MaxQueries = 2
    MaxBlocks = 2
    MaxPackets = 3
SPECIFICATION Spec
INVARIANTS
    TypeOK
    OwnBlocksInOrder
    NoSilentTruncation
    CleanForReuse
    InsertAcknowledged
PROPERTIES
    FreeEnds
    CanceledScanEnds
