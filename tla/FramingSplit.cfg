SPECIFICATION FramedSpec
CONSTANTS
    MaxStreams = 1
    MaxReads = 3
    Tls = FALSE
    NameLengths = {4}
INVARIANTS
    ServedAsAsked
CHECK_DEADLOCK FALSE
