SPECIFICATION Spec
CONSTANTS
    Setups <- MCSetups
    BufferSize = 3
    LineSize = 2
    MaxErrors = 2
    MaxPieces = 5
    MaxStops = 2
CHECK_DEADLOCK FALSE
INVARIANTS InOrder
PROPERTIES Delivered
