SPECIFICATION ProxySafety
CONSTANTS
    MaxRecords = 2
    MaxBytes = 0
    Clients = {1, 2}
    Traffic <- BatchTraffic
    RequestMaxRecords = 2
INVARIANT
    RejectionsCounted
CHECK_DEADLOCK FALSE
