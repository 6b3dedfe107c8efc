SPECIFICATION FairSpec
CONSTANTS
    BootOrders <- MCOrders
    DeviceOf <- MCDevices
    MaxEntries = 2
    TFTP_MAX_RRQ_RETRIES = 3
INVARIANTS TypeOK  NoForeignImage NothingLeft BuiltinOpens 
PROPERTY Ends
CHECK_DEADLOCK FALSE
