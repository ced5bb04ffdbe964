SPECIFICATION Spec
CONSTANTS
    INCREASE_BRIGHTNESS_ARRAY <- MCArray
    MAX_BRIGHTNESS = 255
    UINT32_MAX = 1000000000
    DEFAULT_INCREASE_BRIGHTNESS_INTERVAL = 75
    DEFAULT_INCREASE_BRIGHTNESS_MAX = 30
    Levels <- MCLevels
    Params <- MCParams
INVARIANT
    RampComplete
CHECK_DEADLOCK FALSE
