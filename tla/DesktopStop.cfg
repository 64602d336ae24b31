SPECIFICATION Spec
CONSTANTS
    Copies = {"mine"}
    MaxSessions = 1
    MaxMishaps = 1
    MaxQueued = 2
    MaxWaits = 2
CHECK_DEADLOCK FALSE
PROPERTIES
    StoppedStaysStopped
