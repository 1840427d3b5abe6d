SPECIFICATION Spec
CONSTANTS
    MaxStreams = 1
    MaxReads = 2
    Tls = FALSE
    Methods = {"GET"}
INVARIANTS
    ResponsePumped
CHECK_DEADLOCK FALSE
