SPECIFICATION Spec
CONSTANTS
    Sounds <- UnitSounds
    SilenceLimit = 1
    RolloverLimit = 2
    PreRoll = 1
    MaxPartials = 1
    MaxChunks = 3
INVARIANT
    CommitCoversAudio
