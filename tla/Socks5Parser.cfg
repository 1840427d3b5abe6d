SPECIFICATION Spec
CONSTANTS
    NameLengths = {0, 2, 3, 4, 12, 255}
INVARIANTS
    GreetingExact
    VerdictExact
CHECK_DEADLOCK FALSE
