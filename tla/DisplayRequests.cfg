SPECIFICATION Spec
CONSTANTS
    main = main
    c1 = c1
    Displays = {main}
    MainDisplay = main
    Callers = {c1}
    Queue = queue
    None = None
    RequestStates = {"OFF", "ON", "DIM"}
    RequestReasons = {"APPLICATION", "PRE_BRIGHT", "PRE_BRIGHT_AUTH_SUCCESS", "PRE_BRIGHT_AUTH_FAIL_SCREEN_OFF", "TIMEOUT"}
    MaxTasks = 2
    MaxDmsCalls = 2
    Faults = {"display"}
    SyncDms = TRUE
    PreBrightInOrder = TRUE
    DelayUsed = FALSE
    TimerAlone = TRUE
    Disciplined = TRUE
    ExternalUpdates = FALSE
INVARIANTS
    OnMeansPowered
    OnMeansLit
    NotifiedMatchesState
    BrightnessFollowsLitScreen
CHECK_DEADLOCK TRUE
