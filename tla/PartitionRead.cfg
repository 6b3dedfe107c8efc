SPECIFICATION FairSpec
CONSTANTS
    TagModulus = 4
    MaxSectors = 2
    TxSectors = 2
    TurRetries = 1
    ReadyRetries = 1
    Capacity = 4
    Numbers = 8
    MaxFaults = 2
    BlockSize = 2
    StartSector = 1
    NumSectors = 3
    MaxReads = 2
    MaxSeeks = 1
INVARIANTS AcceptsOwnStatus ReadsBytes HealthySucceeds
PROPERTY ReadsReturn
CHECK_DEADLOCK FALSE
