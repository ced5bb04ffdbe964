SPECIFICATION FairSpec
CONSTANTS
    x1 = x1
    Executors = {x1}
    NoExecutor = NoExecutor
    MaxTasks = 1
    INCREASE_BRIGHTNESS_ARRAY <- LongArray
    MAX_BRIGHTNESS = 5
    UINT32_MAX = 10
    DEFAULT_INCREASE_BRIGHTNESS_INTERVAL = 2
    DEFAULT_INCREASE_BRIGHTNESS_MAX = 2
    Readings <- AllReadings
    MaxParam <- LargeParam
    MAX_SCHEDULE_TIMES = 3
    Samples = {"dark", "bright"}
    MaxSamples = 3
INVARIANTS
    TypeOK
    OverrideJustified
    LuxMeasured
    OneTimerChain
PROPERTIES
    BrightnessRises
    StopCompletes
    DelayExpires
CHECK_DEADLOCK FALSE
