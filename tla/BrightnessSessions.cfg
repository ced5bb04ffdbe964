SPECIFICATION Spec
CONSTANTS
    x1 = x1
    Executors = {x1}
    NoExecutor = NoExecutor
    MaxTasks = 2
    INCREASE_BRIGHTNESS_ARRAY <- ShortArray
    MAX_BRIGHTNESS = 5
    UINT32_MAX = 10
    DEFAULT_INCREASE_BRIGHTNESS_INTERVAL = 2
    DEFAULT_INCREASE_BRIGHTNESS_MAX = 2
    Readings <- DarkScreen
    MaxParam <- SmallParam
    MAX_SCHEDULE_TIMES = 3
    Samples = {"dark"}
    MaxSamples = 2
INVARIANTS
    StoppedWhenDestroyed
    NoHandlerAfterDestruction
    SensorReleased
    SensorKept
    OneWorking
CHECK_DEADLOCK FALSE
