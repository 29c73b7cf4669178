SPECIFICATION Spec
CONSTANTS
    SegmentDataSize = 19
    ModeIndices = {}
    Devices <- SomeDevices
    Keys = {"+", "-", "t", "p", "q"}
    MaxCommands = 2
    MaxAnswers = 1
    MaxTurns = 1
INVARIANTS
    TypeOK
    ScreenTrue
    CommandsWhole
    PanicHasCause
PROPERTIES
    AskedModesExist
    PlusTours
    StandbyTours
CHECK_DEADLOCK FALSE
