SPECIFICATION FramedSpec
CONSTANTS
    MaxStreams = 1
    MaxReads = 4
    Tls = FALSE
    NameLengths = {0, 3}
INVARIANTS
    ServedAsAsked
    OnlyDataRelayed
PROPERTIES
    UnsplitServed
CHECK_DEADLOCK FALSE
