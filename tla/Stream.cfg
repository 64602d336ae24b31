SPECIFICATION LiveSpec
CONSTANTS
    Sounds <- MixedSounds
    SilenceLimit = 2
    RolloverLimit = 3
    PreRoll = 1
    MaxPartials = 1
    MaxChunks = 4
INVARIANTS
    FlagsAgree
    AudioInOrder
    NoSpeechLost
    CutAtSilence
    OneModelSession
PROPERTIES
    KeepsPromise
    CommitEnds
    CutIsAnswered
    LeavingEnds
