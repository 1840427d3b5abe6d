SPECIFICATION Spec
CONSTANTS
    MaxStreams = 1
    MaxReads = 2
    Tls = FALSE
INVARIANTS
    RejectedNotServed
CHECK_DEADLOCK FALSE
