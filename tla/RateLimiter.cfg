SPECIFICATION ThrottleSpec
CONSTANTS
    Rate = 2
    Burst = 5
    Costs <- SomeCosts
    Horizon = 4
    Clients = {c1, c2}
    Bodies <- SomeBodies
    MaxRequestBytes = 7
INVARIANTS
    GrantsWithinRate
    RefusalsJustified
    RecordsArePaidFor
CHECK_DEADLOCK FALSE
