SPECIFICATION ProxySpec
CONSTANTS
    MaxRecords = 2
    MaxBytes = 0
    Clients = {1, 2}
    Traffic <- MixedTraffic
    RequestMaxRecords = 2
INVARIANTS
    ObservedWhatWasSent
    OnlyTimeoutIsAmbiguous
    AnswersTruthful
    AnswersComplete
    BatchIdsProducedOnce
    AcknowledgementsCounted
    CleanExitAnswersAll
PROPERTIES
    StatusSentOnce
    ShutdownCompletes
    BodyInIsAnswered
CHECK_DEADLOCK FALSE
