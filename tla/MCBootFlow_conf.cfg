SPECIFICATION Spec
CONSTANTS
    BootOrders <- MCOrders
    DeviceOf <- MCDevices
    MaxEntries = 2
    TFTP_MAX_RRQ_RETRIES = 3
INVARIANT FreedOnce
CHECK_DEADLOCK FALSE
