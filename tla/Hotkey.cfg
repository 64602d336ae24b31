SPECIFICATION LiveSpec
CONSTANTS
    f9 = f9
    f10 = f10
    Keys = {f9, f10}
    Settings <- SomeSettings
    Defaults <- DefaultSettings
    Listeners = {1, 2, 3}
CHECK_DEADLOCK FALSE
INVARIANTS
    NoGhostHotkey
    SettingsInEffect
PROPERTIES
    GivenUpIsReleased
