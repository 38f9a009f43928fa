SPECIFICATION Spec
CONSTANTS
    Setups <- MCSetups
    a = a
    b = b
    f1 = f1
    f2 = f2
    f3 = f3
    Letters = {a, b}
    Query = Query
    NoText = NoText
    Text = Text
    Unset = Unset
    Freqs = {f1, f2, f3}
    NoFreq = NoFreq
    SpotAt <- MCSpotAt
CHECK_DEADLOCK FALSE
INVARIANTS ExchangeSent CallHeard MemoryKept EscapeUndoes
