SPECIFICATION FairSpec
CONSTANTS
    MaxStreams = 1
    MaxReads = 3
    Tls = TRUE
    Methods = {"CONNECT", "GET"}
INVARIANTS
    TypeOK
    NeverIdle
    AnswersInOrder
    RemoteInOrder
PROPERTIES
    StreamsReleased
    ImplementsRelay
CHECK_DEADLOCK FALSE
