CONSTANTS
    MaxQueries = 2
    MaxBlocks = 1
    MaxPackets = 2
SPECIFICATION Spec
PROPERTY
    CanceledInsertEnds
