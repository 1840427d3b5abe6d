SPECIFICATION FairSpec
CONSTANTS
    MaxStreams = 1
    MaxReads = 5
    Tls = FALSE
INVARIANTS
    TypeOK
    NoOverlap
    NeverIdle
    ConnectOnlyLive
    RemoteInOrder
    LocalInOrder
    ReplyTruthful
    NothingLostOnEof
    Accounting
PROPERTIES
    StreamsReleased
    QuietAfterErase
    ImplementsRelay
CHECK_DEADLOCK FALSE
