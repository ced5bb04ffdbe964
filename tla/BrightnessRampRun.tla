-------------------------- MODULE BrightnessRampRun --------------------------
(***************************************************************************)
(* One undisturbed increase: BeginIncreaseBrightness and then              *)
(* DoIncreaseBrightness each time its timer expires, for every brightness  *)
(* the screen may have and for the ways the maximum may be configured.     *)
(***************************************************************************)
EXTENDS BrightnessRamp, FiniteSets

CONSTANTS Levels,    \* brightness values GetDeviceBrightness may return
          Params     \* values of the parameter for the maximum

ASSUME RampRunAssumption ==
    /\ \A b \in Levels : b \in Nat
    /\ \A p \in Params : p.kind = "number" => p.value \in Int

VARIABLES currentBrightness, increaseBrightnessMax,
          increaseBrightnessIndex,
          armed,     \* the timer for the next step is registered
          shown      \* history: the overrides so far

rampVars == <<currentBrightness, increaseBrightnessMax, increaseBrightnessIndex, armed, shown>>

Init ==
    /\ currentBrightness \in Levels
    /\ \E p \in Params : increaseBrightnessMax = GetIncreaseBrightnessMax(p)
    /\ increaseBrightnessIndex = 0
    /\ armed = FALSE
    /\ shown = <<>>

DoIncrease(i) ==
    /\ IF Overrides(i, increaseBrightnessMax)
       THEN shown' = Append(shown, INCREASE_BRIGHTNESS_ARRAY[i]) /\ armed' = TRUE
       ELSE armed' = FALSE /\ UNCHANGED shown
    /\ increaseBrightnessIndex' = IF i <= Size THEN i + 1 ELSE i
    /\ UNCHANGED <<currentBrightness, increaseBrightnessMax>>

BeginIncrease ==
    /\ increaseBrightnessIndex = 0
    /\ DoIncrease(GetIncreaseBrightnessStartIndex(currentBrightness))

OnIncreaseBrightness == armed /\ DoIncrease(increaseBrightnessIndex)

Next == BeginIncrease \/ OnIncreaseBrightness

Spec == Init /\ [][Next]_rampVars

(* When the ramp is over the screen has been through exactly the values of *)
(* the array above the brightness it had and up to the maximum, in the     *)
(* array's order: none is skipped, repeated or out of range, whichever of  *)
(* the two ends comes first.                                               *)
Within == {i \in 1..Size : /\ currentBrightness < INCREASE_BRIGHTNESS_ARRAY[i]
                           /\ INCREASE_BRIGHTNESS_ARRAY[i] <= increaseBrightnessMax}
RampComplete ==
    increaseBrightnessIndex # 0 /\ ~armed =>
        /\ Len(shown) = Cardinality(Within)
        /\ \A i \in Within : shown[Cardinality({j \in Within : j <= i})] = INCREASE_BRIGHTNESS_ARRAY[i]
===============================================================================
