---------------------------- MODULE BrightnessRamp ----------------------------
(***************************************************************************)
(* The arithmetic of ScreenBrightnessTask: the ramp of screen brightness   *)
(* values, where it is entered, when it goes on, and how the two system    *)
(* parameters become the interval and the upper end of the ramp.           *)
(***************************************************************************)
EXTENDS Integers, Sequences

CONSTANTS INCREASE_BRIGHTNESS_ARRAY,
          MAX_BRIGHTNESS,
          UINT32_MAX,
          DEFAULT_INCREASE_BRIGHTNESS_INTERVAL,
          DEFAULT_INCREASE_BRIGHTNESS_MAX

ASSUME RampAssumption ==
    /\ INCREASE_BRIGHTNESS_ARRAY \in Seq(1..MAX_BRIGHTNESS)
    /\ \A i, j \in 1..Len(INCREASE_BRIGHTNESS_ARRAY) :
          i <= j => INCREASE_BRIGHTNESS_ARRAY[i] <= INCREASE_BRIGHTNESS_ARRAY[j]
    /\ MAX_BRIGHTNESS \in Nat
    /\ UINT32_MAX \in Nat
    /\ MAX_BRIGHTNESS <= UINT32_MAX
    /\ DEFAULT_INCREASE_BRIGHTNESS_INTERVAL \in 1..UINT32_MAX
    /\ DEFAULT_INCREASE_BRIGHTNESS_MAX \in 0..MAX_BRIGHTNESS

Size == Len(INCREASE_BRIGHTNESS_ARRAY)

(* Mutant: the first value not below the current brightness.               *)
StartIndexNotBelow(currentBrightness) ==
    IF \E i \in 1..Size : INCREASE_BRIGHTNESS_ARRAY[i] >= currentBrightness
    THEN CHOOSE i \in 1..Size :
            /\ INCREASE_BRIGHTNESS_ARRAY[i] >= currentBrightness
            /\ \A j \in 1..(i - 1) : INCREASE_BRIGHTNESS_ARRAY[j] < currentBrightness
    ELSE Size + 1

(* Index, counted from 1, of the first value above the current brightness; *)
(* Size + 1 when there is none.                                            *)
GetIncreaseBrightnessStartIndex(currentBrightness) ==
    IF \E i \in 1..Size : INCREASE_BRIGHTNESS_ARRAY[i] > currentBrightness
    THEN CHOOSE i \in 1..Size :
            /\ INCREASE_BRIGHTNESS_ARRAY[i] > currentBrightness
            /\ \A j \in 1..(i - 1) : INCREASE_BRIGHTNESS_ARRAY[j] <= currentBrightness
    ELSE Size + 1

(* Mutant: the maximum itself is left out.                                 *)
OverridesBelow(index, max) == index <= Size /\ INCREASE_BRIGHTNESS_ARRAY[index] < max

(* DoIncreaseBrightness overrides the screen, and re-arms its timer, only  *)
(* inside the array and up to the configured maximum.                      *)
Overrides(index, max) == index <= Size /\ INCREASE_BRIGHTNESS_ARRAY[index] <= max

-------------------------------------------------------------------------------
(* The system parameters.  A parameter cannot be read, is no number, or is *)
(* a number; std::stoul wraps a negative number to an unsigned long far    *)
(* above 2^32, so it saturates like every number that is too large.        *)
Unreadable == [kind |-> "unreadable"]
Text == [kind |-> "text"]
Number(n) == [kind |-> "number", value |-> n]

GetUInt32Param(param, defaultValue) ==
    IF param.kind # "number" THEN defaultValue
    ELSE IF param.value < 0 \/ param.value > UINT32_MAX THEN UINT32_MAX
    ELSE param.value

GetIncreaseBrightnessInterval(param) ==
    LET val == GetUInt32Param(param, DEFAULT_INCREASE_BRIGHTNESS_INTERVAL)
    IN  IF val = 0 THEN DEFAULT_INCREASE_BRIGHTNESS_INTERVAL ELSE val

GetIncreaseBrightnessMax(param) ==
    LET val == GetUInt32Param(param, DEFAULT_INCREASE_BRIGHTNESS_MAX)
    IN  IF val > MAX_BRIGHTNESS THEN MAX_BRIGHTNESS ELSE val
===============================================================================
