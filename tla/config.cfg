SPECIFICATION ConfigSpec
CONSTANTS
    Starts <- MCSetups
    MaxNodes = 3
CHECK_DEADLOCK FALSE
INVARIANTS OrderFree RereadSame HeaderAsGiven
