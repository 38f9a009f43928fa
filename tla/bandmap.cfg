SPECIFICATION Spec
CONSTANTS
    Setups <- MCSetups
    Calls = {"c1", "c2"}
    Freqs <- MCFreqs
    Bands = {"b1", "oob", "warc"}
    OutOfBand = "oob"
    Warc = {"warc"}
    Band <- MCBand
    Mode <- MCMode
    Tolerance = 100
    Lifetime = 3
    SavePeriod = 2
CHECK_DEADLOCK FALSE
INVARIANTS SpotsRight
PROPERTIES ReportShown GrabVisitsAll
