SPECIFICATION LiveSpec
CONSTANTS
    MaxSaid = 3
    Window = 1
CHECK_DEADLOCK FALSE
INVARIANTS
    NoGaps
    AnswersArrive
PROPERTIES
    EndsAreTold
