SPECIFICATION EncoderSpec
CONSTANTS
    Texts <- NestedTexts
    Subjects <- SomeSubjects
    Seeded <- NothingSeeded
    Evolutions = {}
    Escaped <- SomeEscaped
    MaxSchemas = 2
    Jobs <- OneJob
    Work <- ProtobufWork
INVARIANTS
    IndexNamesMessage
CHECK_DEADLOCK FALSE
