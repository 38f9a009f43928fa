SPECIFICATION Spec
CONSTANTS
    Commands <- AllCommands
    LanCommands <- LockedCommands
    MaxLog = 3
PROPERTIES FreezesQsos PauseReturns MessageHandled QuitCompletes
\* exit() inside a pause leaves the process hanging in pthread_join.
CHECK_DEADLOCK FALSE
