SPECIFICATION CommandsSpec
CONSTANTS
    Workers = {w1, w2}
    CommandLines <- SomeLines
    Latencies = {1, 3}
    MaxRecords = 2
    Elapsed = {0, 2}
    Buffer = 1
    Dependencies = {"d1", "d2", "d3"}
    LicenseFiles <- SomeFiles
INVARIANTS
    NoSendAfterClose
    SummaryCountsEveryPost
    SoakFailureSemantics
    RequestLimitExact
    SoakVerdict
    ComparisonsSound
    BundleExact
PROPERTY
    ToolEnds
CHECK_DEADLOCK FALSE
