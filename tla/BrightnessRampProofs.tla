------------------------- MODULE BrightnessRampProofs -------------------------
(***************************************************************************)
(* Proofs about BrightnessRampRun, for any sorted ramp, any limits and     *)
(* defaults, any brightness of the screen and any parameter.               *)
(***************************************************************************)
EXTENDS BrightnessRampRun, FiniteSetTheorems, SequenceTheorems, WellFoundedInduction, TLAPS

A == INCREASE_BRIGHTNESS_ARRAY
Start == GetIncreaseBrightnessStartIndex(currentBrightness)

Place == Start + Len(shown)

RampTyped ==
    /\ currentBrightness \in Nat
    /\ increaseBrightnessMax \in Nat
    /\ increaseBrightnessIndex \in 0..(Size + 1)
    /\ armed \in BOOLEAN
    /\ shown \in Seq(Nat)

(* What has been shown is the part of the array from the start on, up to   *)
(* the maximum; an armed timer goes on where it ends, and without one the  *)
(* part ends at the end of the array or at the first value beyond.         *)
ShownSoFar ==
    /\ increaseBrightnessIndex = 0 => ~armed /\ shown = <<>>
    /\ increaseBrightnessIndex # 0 =>
          /\ \A k \in 1..Len(shown) : shown[k] = A[Start + k - 1]
          /\ \A i \in Start..(Place - 1) : Overrides(i, increaseBrightnessMax)
          /\ armed => increaseBrightnessIndex = Place
          /\ ~armed => ~Overrides(Place, increaseBrightnessMax)

LEMMA Constants ==
    /\ Size \in Nat
    /\ \A i \in 1..Size : A[i] \in Nat
    /\ \A i, j \in 1..Size : i <= j => A[i] <= A[j]
    /\ MAX_BRIGHTNESS \in Nat /\ UINT32_MAX \in Nat /\ DEFAULT_INCREASE_BRIGHTNESS_MAX \in Nat
BY RampAssumption DEF Size, A

(* The least of a set of numbers.                                          *)
LEMMA LeastNumber ==
    ASSUME NEW T, T \subseteq Nat, T # {}
    PROVE  \E x \in T : \A y \in T : x <= y
<1>1. PICK x \in T : \A y \in T : ~(<<y, x>> \in OpToRel(<, Nat))
  BY NatLessThanWellFounded, WFMin
<1>2. ASSUME NEW y \in T PROVE x <= y
  <2>1. ~(y < x)
    BY <1>1 DEF OpToRel
  <2>2. QED
    BY <2>1
<1>3. QED
  BY <1>2

(* The start index divides the array in the values up to the brightness    *)
(* and those above it.                                                     *)
LEMMA StartDivides ==
    ASSUME NEW b \in Nat
    PROVE  LET s == GetIncreaseBrightnessStartIndex(b)
           IN  /\ s \in 1..(Size + 1)
               /\ \A i \in 1..Size : A[i] > b <=> i >= s
<1> DEFINE T == {i \in 1..Size : A[i] > b}
           Good(i) == A[i] > b /\ \A j \in 1..(i - 1) : A[j] <= b
           s == GetIncreaseBrightnessStartIndex(b)
<1>1. CASE T = {}
  <2>1. s = Size + 1
    BY <1>1 DEF GetIncreaseBrightnessStartIndex, A
  <2>2. QED
    BY <1>1, <2>1, Constants
<1>2. CASE T # {}
  <2>1. T \subseteq Nat
    BY Constants
  <2> HIDE DEF T
  <2>2. PICK i \in T : \A y \in T : i <= y
    BY <1>2, <2>1, LeastNumber
  <2> USE DEF T
  <2>3. i \in 1..Size /\ Good(i)
    BY <2>2, Constants
  <2>4. s \in 1..Size /\ Good(s)
    <3>1. s = CHOOSE k \in 1..Size : Good(k)
      BY <1>2 DEF GetIncreaseBrightnessStartIndex, A
    <3> HIDE DEF Good, s
    <3>2. QED
      BY <2>3, <3>1
  <2>5. QED
    BY <2>4, Constants
<1>3. QED
  BY <1>1, <1>2

LEMMA StartInRange ==
    ASSUME RampTyped
    PROVE  /\ Start \in 1..(Size + 1)
           /\ \A i \in 1..Size : A[i] > currentBrightness <=> i >= Start
           /\ Len(shown) \in Nat
<1>1. currentBrightness \in Nat
  BY DEF RampTyped
<1>2. Len(shown) \in Nat
  BY LenProperties DEF RampTyped
<1>3. QED
  BY <1>1, <1>2, StartDivides DEF Start

(* The maximum is a number whatever the parameter is.                      *)
LEMMA MaxIsNumber ==
    ASSUME NEW p \in Params PROVE GetIncreaseBrightnessMax(p) \in Nat
BY RampRunAssumption, Constants DEF GetIncreaseBrightnessMax, GetUInt32Param

(* A step of the ramp at the place where what has been shown ends.         *)
LEMMA StepKeeps ==
    ASSUME RampTyped, NEW i \in 1..(Size + 1), i = Place, DoIncrease(i),
           \A k \in 1..Len(shown) : shown[k] = A[Start + k - 1],
           \A j \in Start..(i - 1) : Overrides(j, increaseBrightnessMax)
    PROVE  RampTyped' /\ ShownSoFar'
<1>1. /\ Start' = Start /\ Start \in 1..(Size + 1) /\ Len(shown) \in Nat
      /\ increaseBrightnessMax' = increaseBrightnessMax /\ currentBrightness' = currentBrightness
      /\ increaseBrightnessIndex' = IF i <= Size THEN i + 1 ELSE i
  <2>1. currentBrightness' = currentBrightness
    BY DEF DoIncrease
  <2>2. Start' = Start
    BY <2>1 DEF Start, GetIncreaseBrightnessStartIndex
  <2>3. QED
    BY <2>1, <2>2, StartInRange DEF DoIncrease
<1>2. CASE Overrides(i, increaseBrightnessMax)
  <2>1. i <= Size /\ A[i] \in Nat /\ shown' = Append(shown, A[i]) /\ armed' = TRUE /\ increaseBrightnessIndex' = i + 1
    BY <1>1, <1>2, Constants DEF DoIncrease, Overrides, A
  <2>2. /\ shown' \in Seq(Nat) /\ Len(shown') = Len(shown) + 1
        /\ \A k \in 1..Len(shown) : shown'[k] = shown[k]
        /\ shown'[Len(shown) + 1] = A[i]
    BY <2>1 DEF RampTyped
  <2>3. ASSUME NEW k \in 1..Len(shown') PROVE shown'[k] = A[Start + k - 1]
    <3>1. CASE k <= Len(shown)
      BY <1>1, <2>2, <3>1
    <3>2. CASE k = Len(shown) + 1
      BY <1>1, <2>2, <3>2 DEF Place
    <3>3. QED
      BY <1>1, <2>2, <3>1, <3>2
  <2>4. \A j \in Start..i : Overrides(j, increaseBrightnessMax)
    BY <1>1, <1>2
  <2>5. RampTyped'
    BY <1>1, <2>1, <2>2, Constants DEF RampTyped
  <2>6. Place' = i + 1
    BY <1>1, <2>2 DEF Place
  <2>7. QED
    BY <1>1, <2>1, <2>3, <2>4, <2>5, <2>6 DEF ShownSoFar, Overrides
<1>3. CASE ~Overrides(i, increaseBrightnessMax)
  <2>1. shown' = shown /\ armed' = FALSE /\ increaseBrightnessIndex' \in 1..(Size + 1)
    BY <1>1, <1>3, Constants DEF DoIncrease
  <2>2. RampTyped'
    <3>1. Size' = Size
      BY DEF Size
    <3>2. increaseBrightnessIndex' \in 0..(Size' + 1)
      BY <2>1, <3>1, Constants
    <3>3. QED
      BY <1>1, <2>1, <3>2 DEF RampTyped
  <2>3. Place' = Place
    BY <1>1, <2>1 DEF Place
  <2>4. QED
    BY <1>1, <1>3, <2>1, <2>2, <2>3, Constants DEF ShownSoFar, Overrides
<1>4. QED
  BY <1>2, <1>3

(* The ramp shows every value of the array above the brightness of the     *)
(* screen and up to the maximum, once and in order, for any sorted array:  *)
(* repeated values, a maximum between two values, beyond the last or below *)
(* the first, and a screen that is brighter than all of them included.     *)
THEOREM RampCorrect == Spec => []RampComplete
<1>1. Init => RampTyped /\ ShownSoFar
  <2>1. SUFFICES ASSUME Init PROVE RampTyped /\ ShownSoFar
    OBVIOUS
  <2>2. increaseBrightnessMax \in Nat
    BY <2>1, MaxIsNumber DEF Init
  <2>3. currentBrightness \in Nat /\ <<>> \in Seq(Nat) /\ 0 \in 0..(Size + 1)
    BY <2>1, RampRunAssumption, Constants, EmptySeq DEF Init
  <2>4. QED
    BY <2>1, <2>2, <2>3 DEF Init, RampTyped, ShownSoFar
<1>2. RampTyped /\ ShownSoFar /\ [Next]_rampVars => (RampTyped /\ ShownSoFar)'
  <2> SUFFICES ASSUME RampTyped, ShownSoFar, [Next]_rampVars PROVE (RampTyped /\ ShownSoFar)'
    OBVIOUS
  <2>1. Start \in 1..(Size + 1)
    BY StartInRange
  <2>2. CASE BeginIncrease
    <3>1. shown = <<>> /\ DoIncrease(Start)
      BY <2>2 DEF BeginIncrease, ShownSoFar, Start
    <3>2. Len(shown) = 0 /\ Place = Start
      BY <2>1, <3>1 DEF Place
    <3>3. QED
      BY <2>1, <3>1, <3>2, StepKeeps
  <2>3. CASE OnIncreaseBrightness
    <3>1. /\ increaseBrightnessIndex = Place /\ increaseBrightnessIndex \in 1..(Size + 1)
          /\ DoIncrease(increaseBrightnessIndex)
      BY <2>3, Constants DEF OnIncreaseBrightness, ShownSoFar, RampTyped
    <3>2. QED
      BY <3>1, StepKeeps DEF ShownSoFar, OnIncreaseBrightness
  <2>4. CASE UNCHANGED rampVars
    <3>1. Start' = Start
      BY <2>4 DEF rampVars, Start, GetIncreaseBrightnessStartIndex
    <3>2. QED
      BY <2>4, <3>1 DEF rampVars, RampTyped, ShownSoFar, Place, Overrides
  <2>5. QED
    BY <2>2, <2>3, <2>4 DEF Next
<1>3. RampTyped /\ ShownSoFar => RampComplete
  <2> SUFFICES ASSUME RampTyped, ShownSoFar, increaseBrightnessIndex # 0, ~armed
               PROVE  /\ Len(shown) = Cardinality(Within)
                      /\ \A i \in Within : shown[Cardinality({j \in Within : j <= i})] = A[i]
    BY DEF RampComplete, A
  <2>1. /\ Start \in 1..(Size + 1) /\ Len(shown) \in Nat /\ Place = Start + Len(shown)
        /\ \A i \in 1..Size : A[i] > currentBrightness <=> i >= Start
    BY StartInRange DEF Place
  <2>2. \A i \in 1..Size : i >= Place => A[i] > increaseBrightnessMax
    <3>1. Place <= Size => A[Place] > increaseBrightnessMax
      BY <2>1, Constants DEF ShownSoFar, Overrides, A, RampTyped
    <3>2. QED
      BY <2>1, <3>1, Constants DEF RampTyped
  <2>3. Within = Start..(Place - 1)
    <3>1. \A i \in Start..(Place - 1) : i \in 1..Size /\ A[i] <= increaseBrightnessMax
      BY <2>1, Constants DEF ShownSoFar, Overrides, A
    <3>2. QED
      BY <2>1, <2>2, <3>1, Constants DEF Within, A, RampTyped
  <2>4. Cardinality(Within) = Len(shown)
    <3>1. Start \in Int /\ Place - 1 \in Int
      BY <2>1, Constants
    <3>2. Cardinality(Start..(Place - 1)) = IF Start > Place - 1 THEN 0 ELSE (Place - 1) - Start + 1
      BY <3>1, FS_Interval
    <3>3. QED
      BY <2>1, <2>3, <3>1, <3>2, Constants
  <2>5. ASSUME NEW i \in Within PROVE shown[Cardinality({j \in Within : j <= i})] = A[i]
    <3>1. i \in Start..(Place - 1) /\ {j \in Within : j <= i} = Start..i
      BY <2>1, <2>3
    <3>2. Start \in Int /\ i \in Int /\ Start <= i
      BY <2>1, <3>1, Constants
    <3>3. Cardinality(Start..i) = i - Start + 1
      BY <3>2, FS_Interval
    <3>4. i - Start + 1 \in 1..Len(shown) /\ Start + (i - Start + 1) - 1 = i
      BY <2>1, <3>1, <3>2
    <3>5. QED
      BY <3>1, <3>3, <3>4 DEF ShownSoFar
  <2>6. QED
    BY <2>4, <2>5
<1>4. QED
  BY <1>1, <1>2, <1>3, PTL DEF Spec
===============================================================================
