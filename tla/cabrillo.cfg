SPECIFICATION Spec
CONSTANTS
    Setups <- MCSetups
    Calls = {K1, K2}
    MaxLog = 3
    MaxQtcs = 2
CHECK_DEADLOCK FALSE
INVARIANTS Complete RoundTrip
SYMMETRY Symmetry
