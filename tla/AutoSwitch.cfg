SPECIFICATION SwitchSpec
CONSTANTS
    NONE = NONE
    Interruptible = TRUE
INVARIANTS
    SwitchesAgree
CHECK_DEADLOCK FALSE
