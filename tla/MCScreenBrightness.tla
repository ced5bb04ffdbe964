-------------------------- MODULE MCScreenBrightness --------------------------
(* Instances of ScreenBrightnessManager.                                   *)
EXTENDS ScreenBrightnessManager

CONSTANT x1

(* A ramp with a repeated value, as the array has; the parameter is too    *)
(* large and the maximum MAX_BRIGHTNESS.                                   *)
LongArray == <<1, 1, 3>>
LargeParam == Number(7)
AllReadings == {0, 1, INVALID_BRIGHTNESS}

(* The shortest ramp that ends at the configured maximum.                  *)
ShortArray == <<1, 3>>
SmallParam == Number(2)
DarkScreen == {0}
===============================================================================
