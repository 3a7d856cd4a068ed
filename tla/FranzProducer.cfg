SPECIFICATION Safety
CONSTANTS
    MaxRecords = 2
    MaxBytes = 3
    Requests = {1, 2}
    Workloads <- TwoCalls
    MaxBatch = 2
    Pointers = {p1, p2, p3}
    Nil = Nil
SYMMETRY PointerSymmetry
INVARIANTS
    AdmissionExact
    AdmissionBounded
    ResultsMatchRecords
    NoSharedRecord
    DoneClosedOnce
    InductiveInvariant
PROPERTIES
    ReturnedResultsStable
    ImplementsContract
CHECK_DEADLOCK FALSE
