SPECIFICATION ServiceSpec
CONSTANTS
    Displays = {0, 7}
    DEFAULT_DISPLAY_ID = 0
    GET_DISPLAY_ID_RETRY_COUNT = 3
    MaxStarts = 2
    NONE = NONE
    Interruptible = FALSE
    Screens = {s0, s1}
    DEFAULT_SCREEN = s0
    Absent = Absent
    MaxDeInits = 1
    MissingSymbols = {{}, {"Init"}, {"SetSceneMode"}, {"RunJsonCommand"}, {"GetDisplayState", "ClearOffset"}, {"NotifyScreenPowerStatus"}}
    Calls = {"SetBrightness", "GetDiscount", "RunJsonCommand", "GetState"}
    MultiDisplays = {1}
    DISPLAY_ID_ALL = 0
    Setters = {t1, t2}
    Listeners = {l1, l2}
    Nobody = Nobody
    Clients = {c1, c2}
    ClientOps = {"SetBrightness", "NotifyScreenPowerStatus"}
    NoOne = NoOne
    MaxIncarnations = 2
    Processes = {p1, p2, p3}
    Stubs = {p3}
    NoProcess = NoProcess
INVARIANTS
    BootBrightnessRestored
    SwitchesAgree
    EveryScreenServed
    CallsReachTheLibrary
    BrightnessFollowsScreen
    ListenersKnowState
    ListenersAgree
    DeadListenersLeave
    ProxyIsWatched
    DenialIsExplained
    DeadOwnersLetGo
PROPERTIES
    LiveOwnersKeep
    ClientsReconnect
CHECK_DEADLOCK FALSE
