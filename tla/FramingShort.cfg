SPECIFICATION FramedSpec
CONSTANTS
    MaxStreams = 1
    MaxReads = 3
    Tls = FALSE
    NameLengths = {2}
PROPERTIES
    UnsplitServed
CHECK_DEADLOCK FALSE
