SPECIFICATION EncoderSpec
CONSTANTS
    Texts <- SomeTexts
    Subjects <- SomeSubjects
    Seeded <- SomeSeeded
    Evolutions <- SomeEvolutions
    Escaped <- SomeEscaped
    MaxSchemas = 3
    Jobs <- TwoJobs
    Work <- MixedWork
INVARIANTS
    WiresNameTheirSchema
    WiresAsAsked
    NamedSchemaIsReported
    ReportedIsOldest
CHECK_DEADLOCK FALSE
