SPECIFICATION ClusterSpec
CONSTANTS
    Stations <- LanStations
    Columns = 5
    MaxLines = 5
    ViewRows = 4
    ScrollRows = 2
    MaxSpots = 6
    EntryLength = 9
    DropSpots = 2
    SpotRows = 2
CHECK_DEADLOCK FALSE
INVARIANTS SpotsWhole
