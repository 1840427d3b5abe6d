SPECIFICATION Spec
CONSTANTS
    MaxStreams = 2
    MaxReads = 2
    Tls = FALSE
INVARIANTS
    FreshId
CHECK_DEADLOCK FALSE
