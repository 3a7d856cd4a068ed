SPECIFICATION Spec
CONSTANTS
    MaxRecords = 2
    MaxBytes = 3
    Requests = {1, 2}
    Workloads <- TwoRecords
    MaxBatch = 2
    Pointers = {p1, p2}
    Nil = Nil
PROPERTIES
    EveryCallReturns
    ReservationsReturned
CHECK_DEADLOCK FALSE
