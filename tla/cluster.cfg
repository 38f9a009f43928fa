SPECIFICATION ClusterSpec
CONSTANTS
    Stations <- MCStations
    Columns = 5
    MaxLines = 5
    ViewRows = 4
    ScrollRows = 2
    MaxSpots = 6
    EntryLength = 2
    DropSpots = 2
    SpotRows = 2
CHECK_DEADLOCK FALSE
INVARIANTS LinesWhole ClusterShowsNewest
PROPERTIES LineShown
