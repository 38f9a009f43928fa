SPECIFICATION Spec
CONSTANTS
    Setups <- MCSetups
    c1 = c1
    c2 = c2
    Calls = {c1, c2}
    NoCall = NoCall
    Partial = Partial
    StartingWith <- MCStartingWith
    QtcLines = 2
    MetaLines = 1
CHECK_DEADLOCK FALSE
INVARIANTS ReadBackSame OfferedUntilGiven FromOneStation
PROPERTIES LedgerKept ConfirmedIsStored
