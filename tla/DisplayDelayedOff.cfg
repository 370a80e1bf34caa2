SPECIFICATION FairSpec
CONSTANTS
    main = main
    c1 = c1
    Displays = {main}
    MainDisplay = main
    Callers = {c1}
    Queue = queue
    None = None
    RequestStates = {"OFF", "ON", "DOZE"}
    RequestReasons = {"APPLICATION"}
    MaxTasks = 2
    MaxDmsCalls = 2
    Faults = {}
    SyncDms = TRUE
    PreBrightInOrder = FALSE
    DelayUsed = TRUE
    TimerAlone = TRUE
    Disciplined = TRUE
    ExternalUpdates = FALSE
INVARIANTS
    OffMeansDark
PROPERTIES
    DelayOffResolves
CHECK_DEADLOCK TRUE
