SPECIFICATION LiveSpec
CONSTANTS
    Callers = {k1}
    Tunings = {small, large}
    ToClose = close
    MaxProcs = 2
    Clients = {c1, c2}
    Delays = {short}
    BaseStreams = 2
    WritesFail = TRUE
    small = small
    large = large
    short = short
    close = close
    k1 = k1
    c1 = c1
    c2 = c2
INVARIANTS
    SlotsMatch
    ShownIsRunning
    SessionFitsEngine
    OneEngineOnGpu
    NoStrayProcess
    ReadyIsLoaded
PROPERTIES
    LoadingEnds
    ExitIsNoticed
