SPECIFICATION RigSpec
CONSTANTS
    NBands = 2
    Freqs <- MCFreqs
    Band <- MCBand
    LowFreqs <- MCLowFreqs
    BandStart <- MCBandStart
    Setups <- MCSetups
INVARIANTS PttKnown
PROPERTIES PttReleased Settles AntennaFollows
