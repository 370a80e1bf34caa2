SPECIFICATION Spec
CONSTANTS
    main = main
    c1 = c1
    Displays = {main}
    MainDisplay = main
    Callers = {c1}
    Queue = queue
    None = None
    RequestStates = {"OFF", "ON"}
    RequestReasons = {"APPLICATION"}
    MaxTasks = 2
    MaxDmsCalls = 2
    Faults = {}
    SyncDms = TRUE
    PreBrightInOrder = FALSE
    DelayUsed = TRUE
    TimerAlone = TRUE
    Disciplined = FALSE
    ExternalUpdates = FALSE
INVARIANTS
    OnRemovesDelayedOff
CHECK_DEADLOCK TRUE
