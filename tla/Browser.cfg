SPECIFICATION LiveSpec
CONSTANTS
    MaxSockets = 3
    MaxCalls = 2
    MaxPending = 1
CHECK_DEADLOCK FALSE
INVARIANTS
    IdleIsQuiet
    NoStaleAudio
PROPERTIES
    StopEnds
