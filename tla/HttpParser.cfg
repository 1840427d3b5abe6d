SPECIFICATION Spec
CONSTANTS
    Plain <- MCPlain
    Methods = {"CONNECT", "GET", "PUT"}
    Targets <- MCTargets
    HeaderLines <- MCHeaderLines
    MaxHeaders = 3
INVARIANTS
    SplitIsRuns
    ConnectTarget
    ForwardTarget
    UnknownRefused
CHECK_DEADLOCK FALSE
