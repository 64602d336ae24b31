SPECIFICATION LiveSpec
CONSTANTS
    Copies = {"mine"}
    MaxSessions = 2
    MaxMishaps = 1
    MaxQueued = 1
    MaxWaits = 3
CHECK_DEADLOCK FALSE
INVARIANTS
    MicMatchesState
    NothingForgotten
    
PROPERTIES
    FinalizingEnds
