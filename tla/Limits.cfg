SPECIFICATION DeliverySpec
CONSTANTS
    Instances <- SomeInstances
    Tokens = {"t"}
    ClusterId <- Local
    Partitions = 3
    MaxText = 8
    Unset = Unset
    Garbage = Garbage
    None = None
INVARIANTS
    AcceptedWithinAsked
    RoutesAgree
    DefaultBurstPays
    LandsWhereAsked
    CompactIsReference
CHECK_DEADLOCK FALSE
