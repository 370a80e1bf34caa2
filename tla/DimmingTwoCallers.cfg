SPECIFICATION Spec
CONSTANTS
    c1 = c1
    c2 = c2
    Callers = {c1, c2}
    MaxLevel = 2
    MaxSteps = 1
    Modulus = 8
    MaxTasks = 3
    FromPanel = TRUE
    StepAlone = FALSE
SYMMETRY CallerSymmetry
INVARIANTS
    RampHasTask
CHECK_DEADLOCK TRUE
