--------------------------- MODULE MCBrightnessRamp ---------------------------
(* The array, defaults and limits of screen_brightness_task.cpp, over all  *)
(* brightness values.  2^32 - 1 is beyond TLC's integers; any number above *)
(* MAX_BRIGHTNESS distinguishes the same cases.                            *)
EXTENDS BrightnessRampRun

MCArray ==
    <<4, 4, 5, 5, 6, 6, 7, 8, 9, 9, 10, 11, 13, 14, 15, 17, 18, 20,
      22, 24, 27, 30, 33, 36, 39, 43, 48, 52, 58, 63, 70, 77, 84, 93, 102, 112,
      124, 136, 150, 166, 181, 199, 219, 241>>

MCLevels == 0..255
MCParams == {Unreadable, Text} \cup {Number(n) : n \in {-1, 0, 3, 4, 29, 240, 255, 256, 1000000001}}
===============================================================================
