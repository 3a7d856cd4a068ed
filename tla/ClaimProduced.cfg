SPECIFICATION ProxySafety
CONSTANTS
    MaxRecords = 2
    MaxBytes = 0
    Clients = {1, 2}
    Traffic <- StreamTraffic
    RequestMaxRecords = 3
INVARIANT
    AcknowledgedIsCounted
CHECK_DEADLOCK FALSE
