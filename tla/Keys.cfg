SPECIFICATION LiveSpec
CONSTANTS
    a = a
    b = b
    nobody = nobody
    Keys <- KeysInUse
    Nobody = nobody
    WritesFail = TRUE
    MaxSecrets <- SecretsOf
    MaxUses <- UsesOf
    MaxStreams <- StreamsOf
INVARIANTS
    AckedIsDurable
    CleanIsWritten
    ClosedIsWritten
    SessionsNotOvercounted
PROPERTIES
    UsageReachesFile
