SPECIFICATION AutoSpec
CONSTANTS
    Luxes = {10, 20}
    Window = 2
    MaxTime = 6
    MaxCapacity = 4
    MemoryFails = TRUE
    InitialCapacity = 2
    DefaultCapacity = 3
    Blank = Blank
    Unparsable = Unparsable
    Foreign = Foreign
    RoomLuxes <- MCRoomLuxes
    LIGHT_MAX_LUX = 20
    LIGHT_LUX_BUFFER_RANGE = 4
    LIGHT_LUX_BUFFER_MIN = 4
    INITIAL_DELTAS <- MCDeltas
    ReadingGaps = {1, 2}
    MaxClock = 8
    ThresholdFiles <- MCThresholdFiles
    Lights = {0, 3, 20, 45, 450, 7000, 40000}
    Wishes = {4, 17, 45, 120, 254, 255}
    MIN_DEFAULT_BRIGHTNESS = 4
    MAX_DEFAULT_BRIGHTNESS = 255
    FallbackBrightness = 100
    AMBIENT_VALID_MAX_LUX = 40000
    CurveFiles <- MCCurveFiles
    SENSOR_TYPE_ID_AMBIENT_LIGHT = 5
    SENSOR_TYPE_ID_AMBIENT_LIGHT1 = 16
    FULL = 1
    MAIN = 2
    EXPAND = 1
    FOLDED = 2
    HALF_FOLD = 3
    ScreenFiles <- MCScreenFiles
INVARIANTS
    TypeOK
    TimesInWindow
    NeverSticks
    ThrowsWithoutMode
    BrighterRoomBrighterScreen
    WishHolds
    NoSensorWithoutAuto
    SensorFollowsPosture
PROPERTIES
    IsLuxWindow
    FollowsSustainedLight
CHECK_DEADLOCK FALSE
