SPECIFICATION LiveSpec
CONSTANTS
    Candidates <- BothBackends
    TargetRate = 16
CHECK_DEADLOCK FALSE
INVARIANTS
    QuietOnceStopped
    HeardAtItsRate
    NothingLeftOpen
    SilenceIsReported
PROPERTIES
    StopReturns
