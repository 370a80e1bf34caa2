SPECIFICATION Spec
CONSTANTS
    MaxLevel = 7
    MaxMapping = 5
    MinBrightness = 1
    Values = {0, 5, 8}
    Discounts = {60, 100}
    SleepBrightness = 4
    SleepMinimumReduction = 2
    MaxWrites = 1
    Unsteady = {"scale"}
INVARIANTS
    PanelShowsMode
CHECK_DEADLOCK TRUE
