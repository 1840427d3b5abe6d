SPECIFICATION FairSpec
CONSTANTS
    MaxStreams = 1
    MaxReads = 3
    Tls = TRUE
INVARIANTS
    NeverIdle
    CloseOnlyErased
PROPERTIES
    StreamsReleased
    RequestAnswered
    ErrorEnds
CHECK_DEADLOCK FALSE
