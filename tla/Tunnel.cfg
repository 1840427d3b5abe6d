SPECIFICATION FairSpec
CONSTANTS
    MaxSessions = 1
    MaxReads = 3
INVARIANTS
    TypeOK
    NeverIdle
    OneUsePerBuffer
    NothingLostOnEof
PROPERTIES
    WindsDown
    SessionEnds
    ImplementsRelay
CHECK_DEADLOCK FALSE
