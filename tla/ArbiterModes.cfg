SPECIFICATION Spec
CONSTANTS
    MaxLevel = 6
    MaxMapping = 4
    MinBrightness = 2
    Values = {0, 4, 7}
    Discounts = {70, 100}
    SleepBrightness = 3
    SleepMinimumReduction = 2
    MaxWrites = 1
    Unsteady = {}
INVARIANTS
    TypeOK
    PanelShowsMode
    UserReturns
    TimersMatchModes
CHECK_DEADLOCK TRUE
