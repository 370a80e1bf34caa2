SPECIFICATION FairSpec
CONSTANTS
    c1 = c1
    Callers = {c1}
    MaxLevel = 4
    MaxSteps = 3
    Modulus = 16
    MaxTasks = 2
    FromPanel = TRUE
    StepAlone = TRUE
INVARIANTS
    TypeOK
    PanelInRange
    SettlesOnWanted
PROPERTIES
    RampApproaches
    DimmingEnds
CHECK_DEADLOCK TRUE
