SPECIFICATION Spec
CONSTANTS
    main = main
    c1 = c1
    c2 = c2
    Displays = {main}
    MainDisplay = main
    Callers = {c1,c2}
    Queue = queue
    None = None
    RequestStates = {"OFF", "ON", "DIM"}
    RequestReasons = {"APPLICATION"}
    MaxTasks = 2
    MaxDmsCalls = 1
    Faults = {"display", "power"}
    SyncDms = FALSE
    PreBrightInOrder = FALSE
    DelayUsed = TRUE
    TimerAlone = FALSE
    Disciplined = TRUE
    ExternalUpdates = TRUE
SYMMETRY CallerSymmetry
INVARIANTS
    TypeOK
    DelayedOffCancellable
CHECK_DEADLOCK TRUE
