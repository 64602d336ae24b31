SPECIFICATION Spec
CONSTANTS
    Callers = {k1, k2}
    Tunings = {small, large}
    ToClose = close
    MaxProcs = 3
    Clients = {c1}
    Delays = {short, long}
    BaseStreams = 1
    WritesFail = FALSE
    small = small
    large = large
    short = short
    long = long
    close = close
    k1 = k1
    k2 = k2
    c1 = c1
INVARIANTS
    CloseLeavesNothing
