--------------------- MODULE ScreenBrightnessManagerProofs ---------------------
(***************************************************************************)
(* Proofs about ScreenBrightnessTask and ScreenBrightnessManager, for any  *)
(* number of tasks, executors and samples, any ramp, parameter and reading *)
(* of the screen, and any limit of a drain that the theorem allows.        *)
(***************************************************************************)
EXTENDS ScreenBrightnessManager, SequenceTheorems, FiniteSetTheorems, FunctionTheorems,
        WellFoundedInduction, TLAPS

W2 == "S_WAIT_AMBIENT_LIGHT_INFO_AND_START_DELAY"
WL == "S_WAIT_AMBIENT_LIGHT_INFO"
WD == "S_WAIT_START_DELAY"
IB == "S_INCREASING_BRIGHTNESS"
LIGHT == "E_RECEIVE_AMBIENT_LIGHT_INFO"
DELAY == "E_START_DELAY_EXPIRED"

(* What the proofs use of the constants.                                   *)
LEMMA Constants ==
    /\ MaxTasks \in Nat /\ MaxSamples \in Nat /\ NoExecutor \notin Executors
    /\ MAX_SCHEDULE_TIMES \in Nat /\ MAX_SCHEDULE_TIMES >= 1
    /\ MAX_BRIGHTNESS \in Nat /\ Size \in Nat
    /\ \A i \in 1..Size : INCREASE_BRIGHTNESS_ARRAY[i] \in 1..MAX_BRIGHTNESS
    /\ \A b \in Readings : b \in 0..MAX_BRIGHTNESS \cup {INVALID_BRIGHTNESS}
    /\ Samples \subseteq {"dark", "bright"}
    /\ \A i, j \in 1..Size : i <= j => INCREASE_BRIGHTNESS_ARRAY[i] <= INCREASE_BRIGHTNESS_ARRAY[j]
<1>1. INCREASE_BRIGHTNESS_ARRAY \in Seq(1..MAX_BRIGHTNESS) /\ MAX_BRIGHTNESS \in Nat
  BY RampAssumption
<1>2. Size \in Nat /\ \A i \in 1..Size : INCREASE_BRIGHTNESS_ARRAY[i] \in 1..MAX_BRIGHTNESS
  BY <1>1 DEF Size
<1>3. \A i, j \in 1..Size : i <= j => INCREASE_BRIGHTNESS_ARRAY[i] <= INCREASE_BRIGHTNESS_ARRAY[j]
  BY RampAssumption DEF Size
<1>4. QED
  BY <1>1, <1>2, <1>3, TaskAssumption, ManagerAssumption DEF INVALID_BRIGHTNESS

LEMMA TaskNumbers == \A s \in Tasks : s \in Nat /\ s >= 1 /\ s # NoTask
BY Constants DEF Tasks, NoTask

-------------------------------------------------------------------------------
(* The transition table, spelled out: an event that is in no row leaves    *)
(* the state as it is.                                                     *)
LEMMA Table ==
    ASSUME NEW st \in State, NEW e \in Event
    PROVE  NextState(st, e) =
               CASE st = "S_INIT" -> IF e = "E_START" THEN W2 ELSE "S_INIT"
                 [] st = W2 -> CASE e = DELAY -> WL [] e = LIGHT -> WD [] e = "E_STOP" -> "S_END" [] OTHER -> W2
                 [] st = WL -> CASE e = LIGHT -> IB [] e = "E_STOP" -> "S_END" [] OTHER -> WL
                 [] st = WD -> CASE e = DELAY -> IB [] e = "E_STOP" -> "S_END" [] OTHER -> WD
                 [] st = IB -> IF e = "E_STOP" THEN "S_END" ELSE IB
                 [] st = "S_END" -> "S_END"
<1> DEFINE Rows == {<<"S_INIT", "E_START", W2>>,
                 <<W2, DELAY, WL>>, <<W2, LIGHT, WD>>, <<WL, LIGHT, IB>>, <<WD, DELAY, IB>>,
                 <<IB, "E_INCREASE_BRIGHTNESS", IB>>,
                 <<W2, "E_STOP", "S_END">>, <<WL, "E_STOP", "S_END">>,
                 <<WD, "E_STOP", "S_END">>, <<IB, "E_STOP", "S_END">>,
                 <<"S_END", "E_STOP", "S_END">>,
                 <<WD, LIGHT, WD>>, <<IB, LIGHT, IB>>, <<"S_END", LIGHT, "S_END">>}
           Row(x) == CHOOSE r \in Rows : <<r[1], r[2]>> = x
<1>1. Transition = [x \in {<<r[1], r[2]>> : r \in Rows} |-> Row(x)[3]]
  BY DEF Transition, W2, WL, WD, IB, LIGHT, DELAY
<1>2. \A r, q \in Rows : r[1] = q[1] /\ r[2] = q[2] => r = q
  BY DEF W2, WL, WD, IB, LIGHT, DELAY
<1>3. ASSUME NEW r \in Rows
      PROVE  NextState(r[1], r[2]) = r[3]
  <2> HIDE DEF Rows
  <2>1. Row(<<r[1], r[2]>>) = r
    BY <1>2
  <2>2. <<r[1], r[2]>> \in {<<q[1], q[2]>> : q \in Rows}
    OBVIOUS
  <2> HIDE DEF Row
  <2>3. <<r[1], r[2]>> \in DOMAIN Transition /\ Transition[<<r[1], r[2]>>] = r[3]
    BY <1>1, <2>1, <2>2
  <2>4. QED
    BY <2>3 DEF NextState
<1>4. ASSUME \A r \in Rows : ~(r[1] = st /\ r[2] = e)
      PROVE  NextState(st, e) = st
  <2> HIDE DEF Rows, Row
  <2>1. <<st, e>> \notin DOMAIN Transition
    BY <1>1, <1>4
  <2>2. QED
    BY <2>1 DEF NextState
<1>5. QED
  BY <1>3, <1>4 DEF State, Event, W2, WL, WD, IB, LIGHT, DELAY

-------------------------------------------------------------------------------
(* Operators of the model.                                                 *)

LEMMA LeastNumber ==
    ASSUME NEW T, T \subseteq Nat, T # {}
    PROVE  \E x \in T : \A y \in T : x <= y
<1>1. PICK x \in T : \A y \in T : ~(<<y, x>> \in OpToRel(<, Nat))
  BY NatLessThanWellFounded, WFMin
<1>2. ASSUME NEW y \in T PROVE x <= y
  <2>1. ~(y < x)
    BY <1>1 DEF OpToRel
  <2>2. QED
    BY <2>1
<1>3. QED
  BY <1>2

(* GetIncreaseBrightnessStartIndex: the first value above b.               *)
LEMMA StartIndex ==
    ASSUME NEW b \in Int
    PROVE  LET i == GetIncreaseBrightnessStartIndex(b)
           IN  /\ i \in 1..(Size + 1)
               /\ i <= Size => INCREASE_BRIGHTNESS_ARRAY[i] > b
<1> DEFINE A == INCREASE_BRIGHTNESS_ARRAY
           T == {i \in 1..Size : A[i] > b}
           Good(i) == A[i] > b /\ \A j \in 1..(i - 1) : A[j] <= b
<1>1. Size \in Nat /\ \A i \in 1..Size : A[i] \in Int
  BY Constants
<1>2. CASE T = {}
  <2>1. GetIncreaseBrightnessStartIndex(b) = Size + 1
    BY <1>2 DEF GetIncreaseBrightnessStartIndex
  <2>2. QED
    BY <1>1, <2>1
<1>3. CASE T # {}
  <2>1. T \subseteq Nat
    BY <1>1
  <2> HIDE DEF T
  <2>2. PICK i \in T : \A y \in T : i <= y
    BY <1>3, <2>1, LeastNumber
  <2>3. i \in 1..Size /\ Good(i)
    BY <1>1, <2>2 DEF T
  <2>4. GetIncreaseBrightnessStartIndex(b) = CHOOSE j \in 1..Size : Good(j)
    BY <2>3 DEF GetIncreaseBrightnessStartIndex
  <2> HIDE DEF Good
  <2>5. GetIncreaseBrightnessStartIndex(b) \in 1..Size /\ Good(GetIncreaseBrightnessStartIndex(b))
    BY <2>3, <2>4
  <2>6. QED
    BY <1>1, <2>5 DEF Good
<1>4. QED
  BY <1>2, <1>3

(* A push, and what handling an event leaves of a machine's queue.         *)
LEMMA QueuePushed ==
    ASSUME NEW q \in Seq(Event), NEW e \in Event
    PROVE  /\ Append(q, e) \in Seq(Event) /\ Len(q) \in Nat /\ Len(Append(q, e)) = Len(q) + 1
           /\ \A i \in 1..Len(q) : Append(q, e)[i] = q[i]
           /\ Append(q, e)[Len(q) + 1] = e
           /\ DOMAIN q = 1..Len(q) /\ DOMAIN Append(q, e) = 1..(Len(q) + 1)
BY LenProperties, AppendProperties

Adds == {<<>>, <<"E_STOP">>}

LEMMA QueueHandled ==
    ASSUME NEW q \in Seq(Event), q # <<>>, NEW es \in Adds
    PROVE  LET r == Tail(q) \o es
           IN  /\ Head(q) = q[1] /\ Head(q) \in Event /\ Len(q) \in Nat /\ Len(q) >= 1
               /\ r \in Seq(Event) /\ Len(r) = Len(q) - 1 + Len(es) /\ Len(es) \in {0, 1}
               /\ DOMAIN r = 1..Len(r) /\ DOMAIN q = 1..Len(q)
               /\ \A i \in 1..(Len(q) - 1) : r[i] = q[i + 1]
               /\ Len(es) = 1 => r[Len(q)] = "E_STOP"
<1>1. es \in Seq(Event) /\ Len(es) \in {0, 1} /\ (Len(es) = 1 => es[1] = "E_STOP")
  <2>1. CASE es = <<>>
    BY <2>1
  <2>2. CASE es = <<"E_STOP">>
    <3>1. "E_STOP" \in Event
      BY DEF Event
    <3>2. QED
      BY <2>2, <3>1
  <2>3. QED
    BY <2>1, <2>2 DEF Adds
<1>2. Head(q) = q[1] /\ Len(q) \in Nat /\ Len(q) >= 1 /\ DOMAIN q = 1..Len(q) /\ q[1] \in Event
  BY LenProperties
<1>3. /\ Tail(q) \in Seq(Event) /\ Len(Tail(q)) = Len(q) - 1
      /\ \A i \in 1..Len(Tail(q)) : Tail(q)[i] = q[i + 1]
  BY <1>2, HeadTailProperties
<1>4. /\ Tail(q) \o es \in Seq(Event)
      /\ Len(Tail(q) \o es) = Len(Tail(q)) + Len(es)
      /\ \A i \in 1 .. Len(Tail(q)) + Len(es) : (Tail(q) \o es)[i] =
            IF i <= Len(Tail(q)) THEN Tail(q)[i] ELSE es[i - Len(Tail(q))]
  BY <1>1, <1>3, ConcatProperties
<1>5. DOMAIN (Tail(q) \o es) = 1..Len(Tail(q) \o es)
  BY <1>4
<1>6. \A i \in 1..(Len(q) - 1) : (Tail(q) \o es)[i] = q[i + 1]
  BY <1>1, <1>2, <1>3, <1>4
<1>7. Len(es) = 1 => (Tail(q) \o es)[Len(q)] = "E_STOP"
  BY <1>1, <1>2, <1>3, <1>4
<1>8. QED
  BY <1>1, <1>2, <1>3, <1>4, <1>5, <1>6, <1>7

-------------------------------------------------------------------------------
(* Types, one part for each group of variables.                            *)
PoolTask == [kind : {"drain", "wake"}, task : Tasks]
LifeTyped == life \in [Tasks -> Life] /\ refs \in [Tasks -> SUBSET Holder] /\ destroyer \in [Tasks -> Holder]
MachineTyped == state \in [Tasks -> State] /\ pending \in [Tasks -> Seq(Event)]
DataTyped ==
    /\ lux \in [Tasks -> Lux]
    /\ index \in [Tasks -> 1..(Size + 1)]
    /\ brightness \in [Tasks -> 0..MAX_BRIGHTNESS \cup {INVALID_BRIGHTNESS}]
TimerTyped ==
    /\ timer \in [Tasks -> Event \cup {"off"}]
    /\ timerPc \in [Tasks -> {"idle", "lock", "push", "post", "drop", "destruct"}]
    /\ timerEvent \in [Tasks -> Event \cup {"off"}]
PoolTyped == tasks \in Seq(PoolTask) /\ running \in Tasks \cup {NoTask} /\ runTimes \in Nat
DeviceTyped == sensor \in {"off", "subscribed", "active"} /\ screen \in 0..MAX_BRIGHTNESS
SensorTyped ==
    /\ sensorPc \in {"idle", "load", "copy", "set", "push", "post", "drop", "destruct"}
    /\ sensorTask \in Tasks \cup {NoTask}
    /\ sensorLux \in Lux
    /\ samples \in 0..MaxSamples
    /\ raced \in BOOLEAN
ManagerTyped ==
    /\ executorInProc \in Executors \cup {NoExecutor}
    /\ taskInProc \in Tasks \cup {NoTask}
    /\ op \in [pc : {"idle", "startPost", "publish", "stopPost", "reset", "destruct"},
               executor : Executors \cup {NoExecutor}, task : Tasks \cup {NoTask}]

LEMMA TypeParts ==
    TypeOK <=> /\ LifeTyped /\ MachineTyped /\ DataTyped /\ TimerTyped /\ PoolTyped /\ DeviceTyped
               /\ SensorTyped /\ ManagerTyped
BY DEF TypeOK, LifeTyped, MachineTyped, DataTyped, TimerTyped, PoolTyped, DeviceTyped, SensorTyped,
       ManagerTyped, PoolTask

(* A thread that is at work on a task knows it.                            *)
HoldersKnown ==
    /\ \A s \in Tasks : timerPc[s] \in {"lock", "push"} => timerEvent[s] \in Event
    /\ sensorPc \notin {"idle", "load"} => sensorTask \in Tasks
    /\ op.pc # "idle" => op.task \in Tasks
    /\ op.pc = "idle" => op = Idle

Typed == TypeOK /\ HoldersKnown

-------------------------------------------------------------------------------
(* Who changes which variables.                                            *)
LEMMA Steps ==
    ASSUME Next
    PROVE  \/ \E x \in Executors : Begin(x) \/ End(x)
           \/ ManagerStep
           \/ /\ UNCHANGED managerVars
              /\ \/ SensorReport \/ PoolStep \/ SensorStep(taskInProc)
                 \/ \E s \in Tasks : TimerStep(s) \/ DestructStep(s)
BY DEF Next, Command, Sample, CommandGoesOn, PoolThread, SensorThread, TimerThread, Destructor

LEMMA LifeChanges ==
    ASSUME Next
    PROVE  \/ UNCHANGED lifeVars
           \/ (\E x \in Executors : Begin(x)) \/ Reset
           \/ /\ UNCHANGED managerVars
              /\ \/ TakeWake \/ SensorCopy \/ SensorDrop
                 \/ \E s \in Tasks : TimerLock(s) \/ TimerDrop(s) \/ DestructEnsure(s) \/ DestructDone(s)
BY Steps DEF End, ManagerStep, StartPost, Publish, StopPost, Return, SensorReport,
     PoolStep, TakeDrain, HandleEvent, DrainEnds, SensorStep, SensorLoad, SensorSet, SensorPush, SensorPost,
     SensorReturn, TimerStep, TimerFires, TimerPush, TimerPost, TimerReturn, DestructStep, lifeVars, taskVars

LEMMA MachineChanges ==
    ASSUME Next
    PROVE  \/ UNCHANGED machineVars
           \/ \E x \in Executors : Begin(x) \/ End(x)
           \/ /\ UNCHANGED managerVars
              /\ \/ HandleEvent \/ SensorPush
                 \/ \E s \in Tasks : TimerPush(s) \/ DestructDone(s)
BY Steps DEF ManagerStep, StartPost, Publish, StopPost, Reset, Return, SensorReport,
     PoolStep, TakeDrain, TakeWake, DrainEnds, SensorStep, SensorLoad, SensorCopy, SensorSet, SensorPost,
     SensorDrop, SensorReturn, TimerStep, TimerFires, TimerLock, TimerPost, TimerDrop, TimerReturn,
     DestructStep, DestructEnsure, machineVars, taskVars

LEMMA DataChanges ==
    ASSUME Next
    PROVE  UNCHANGED dataVars \/ HandleEvent \/ SensorSet \/ \E s \in Tasks : DestructDone(s)
BY Steps DEF Begin, End, ManagerStep, StartPost, Publish, StopPost, Reset, Return, SensorReport,
     PoolStep, TakeDrain, TakeWake, DrainEnds, SensorStep, SensorLoad, SensorCopy, SensorPush, SensorPost,
     SensorDrop, SensorReturn, TimerStep, TimerFires, TimerLock, TimerPush, TimerPost, TimerDrop, TimerReturn,
     DestructStep, DestructEnsure, dataVars, taskVars

LEMMA TimerChanges ==
    ASSUME Next
    PROVE  UNCHANGED timerVars \/ HandleEvent \/ \E s \in Tasks : TimerStep(s) \/ DestructEnsure(s)
BY Steps DEF Begin, End, ManagerStep, StartPost, Publish, StopPost, Reset, Return, SensorReport,
     PoolStep, TakeDrain, TakeWake, DrainEnds, SensorStep, SensorLoad, SensorCopy, SensorSet, SensorPush,
     SensorPost, SensorDrop, SensorReturn, DestructStep, DestructDone, timerVars, taskVars

LEMMA PoolChanges ==
    ASSUME Next
    PROVE  \/ UNCHANGED poolVars
           \/ StartPost \/ StopPost
           \/ /\ UNCHANGED managerVars
              /\ PoolStep \/ SensorPost \/ \E s \in Tasks : TimerPost(s) \/ DestructEnsure(s)
BY Steps DEF Begin, End, ManagerStep, Publish, Reset, Return, SensorReport,
     SensorStep, SensorLoad, SensorCopy, SensorSet, SensorPush,
     SensorDrop, SensorReturn, TimerStep, TimerFires, TimerLock, TimerPush, TimerDrop, TimerReturn,
     DestructStep, DestructDone, poolVars, taskVars

LEMMA DeviceChanges ==
    ASSUME Next
    PROVE  UNCHANGED deviceVars \/ HandleEvent
BY Steps DEF Begin, End, ManagerStep, StartPost, Publish, StopPost, Reset, Return, SensorReport,
     PoolStep, TakeDrain, TakeWake, DrainEnds, SensorStep, SensorLoad, SensorCopy, SensorSet, SensorPush, SensorPost,
     SensorDrop, SensorReturn, TimerStep, TimerFires, TimerLock, TimerPush, TimerPost, TimerDrop, TimerReturn,
     DestructStep, DestructEnsure, DestructDone, deviceVars, taskVars

LEMMA SensorChanges ==
    ASSUME Next
    PROVE  UNCHANGED sensorVars \/ (UNCHANGED managerVars /\ (SensorReport \/ SensorStep(taskInProc)))
BY Steps DEF Begin, End, ManagerStep, StartPost, Publish, StopPost, Reset, Return,
     PoolStep, TakeDrain, TakeWake, HandleEvent, DrainEnds, TimerStep, TimerFires, TimerLock, TimerPush, TimerPost,
     TimerDrop, TimerReturn, DestructStep, DestructEnsure, DestructDone, sensorVars, taskVars

-------------------------------------------------------------------------------
(* What handling an event does.                                            *)
LEMMA EventHandled ==
    ASSUME TypeOK, HandleEvent
    PROVE  LET s == running
               e == Head(pending[running])
           IN  /\ s \in Tasks /\ pending[s] # <<>> /\ pending[s] \in Seq(Event) /\ e \in Event
               /\ state[s] \in State /\ Handlers(s, e)
               /\ state' = [state EXCEPT ![s] = NextState(state[s], e)]
               /\ \E es \in Adds :
                     /\ pending' = [pending EXCEPT ![s] = Tail(pending[s]) \o es]
                     /\ tasks' = IF es = <<>> THEN tasks ELSE Append(tasks, Drain(s))
<1> DEFINE s == running
           e == Head(pending[running])
<1>1. s \in Tasks /\ pending[s] # <<>> /\ pending[s] \in Seq(Event)
  BY DEF TypeOK, HandleEvent
<1>2. e \in Event
  BY <1>1, QueueHandled DEF Adds
<1>3. Handlers(s, e) /\ state' = [state EXCEPT ![s] = NextState(state[s], e)] /\ state[s] \in State
  BY <1>1 DEF HandleEvent, TypeOK
<1>4. \E es \in Adds : Scheduled(s, es)
  <2> HIDE DEF s, e
  <2>1. <<>> \in Adds /\ <<"E_STOP">> \in Adds
    BY DEF Adds
  <2>2. QED
    BY <1>3, <2>1 DEF Handlers, StartProcess, BeginIncreaseBrightness, EndProcess
<1>5. QED
  BY <1>1, <1>2, <1>3, <1>4 DEF Scheduled

(* What the handlers do to the timer and the devices.                      *)
LEMMA DoIncreaseTypes ==
    ASSUME NEW s \in Tasks, NEW i \in 1..(Size + 1), TimerTyped, DeviceTyped, index \in [Tasks -> 1..(Size + 1)],
           DoIncreaseBrightness(s, i)
    PROVE  /\ timer' \in [Tasks -> Event \cup {"off"}]
           /\ index' \in [Tasks -> 1..(Size + 1)]
           /\ screen' \in 0..MAX_BRIGHTNESS
<1>1. Size \in Nat /\ MAX_BRIGHTNESS \in Nat /\ \A j \in 1..Size : INCREASE_BRIGHTNESS_ARRAY[j] \in 1..MAX_BRIGHTNESS
  BY Constants
<1>2. screen' \in 0..MAX_BRIGHTNESS
  BY <1>1 DEF DoIncreaseBrightness, Overrides, DeviceTyped
<1>3. index' \in [Tasks -> 1..(Size + 1)]
  <2>1. (IF i <= Size THEN i + 1 ELSE i) \in 1..(Size + 1)
    BY <1>1
  <2>2. QED
    BY <2>1 DEF DoIncreaseBrightness
<1>4. timer' \in [Tasks -> Event \cup {"off"}]
  BY DEF DoIncreaseBrightness, TimerTyped, Event
<1>5. QED
  BY <1>2, <1>3, <1>4

LEMMA HandlerTypes ==
    ASSUME TypeOK, NEW s \in Tasks, NEW e \in Event, Handlers(s, e)
    PROVE  /\ timer' \in [Tasks -> Event \cup {"off"}]
           /\ index' \in [Tasks -> 1..(Size + 1)]
           /\ brightness' \in [Tasks -> 0..MAX_BRIGHTNESS \cup {INVALID_BRIGHTNESS}]
           /\ DeviceTyped'
<1>1. TimerTyped /\ DeviceTyped /\ DataTyped
  BY TypeParts
<1>2. Restored \in 0..MAX_BRIGHTNESS
  BY Constants DEF Restored
<1>3. CASE StartProcess(s)
  BY <1>1, <1>3 DEF StartProcess, SubscribeSensor, TimerTyped, DeviceTyped, DataTyped, Event
<1>4. CASE EndProcess(s)
  BY <1>1, <1>2, <1>4 DEF EndProcess, TimerTyped, DeviceTyped, DataTyped
<1>5. CASE UNCHANGED <<timer, index, brightness, sensor, screen>>
  BY <1>1, <1>5 DEF TimerTyped, DeviceTyped, DataTyped
<1>6. CASE DoIncreaseBrightness(s, index[s]) /\ UNCHANGED <<brightness, sensor>>
  BY <1>1, <1>6, DoIncreaseTypes DEF DeviceTyped, DataTyped
<1>7. CASE BeginIncreaseBrightness(s) /\ ~UNCHANGED <<timer, index, brightness, sensor, screen>>
  <2>1. PICK b \in Readings :
             /\ brightness' = [brightness EXCEPT ![s] = b]
             /\ UNCHANGED sensor
             /\ IF b = INVALID_BRIGHTNESS
                THEN UNCHANGED <<timer, index, screen>>
                ELSE DoIncreaseBrightness(s, GetIncreaseBrightnessStartIndex(b))
    BY <1>7 DEF BeginIncreaseBrightness
  <2>2. b \in 0..MAX_BRIGHTNESS \cup {INVALID_BRIGHTNESS}
    BY Constants
  <2>3. brightness' \in [Tasks -> 0..MAX_BRIGHTNESS \cup {INVALID_BRIGHTNESS}]
    BY <1>1, <2>1, <2>2 DEF DataTyped
  <2>4. CASE b = INVALID_BRIGHTNESS
    BY <1>1, <2>1, <2>3, <2>4 DEF TimerTyped, DeviceTyped, DataTyped
  <2>5. CASE b # INVALID_BRIGHTNESS
    <3>1. b \in Int
      BY <2>2, <2>5, Constants
    <3>2. GetIncreaseBrightnessStartIndex(b) \in 1..(Size + 1)
      BY <3>1, StartIndex
    <3>3. QED
      BY <1>1, <2>1, <2>3, <2>5, <3>2, DoIncreaseTypes DEF DeviceTyped, DataTyped
  <2>6. QED
    BY <2>4, <2>5
<1>8. QED
  BY <1>3, <1>4, <1>5, <1>6, <1>7 DEF Handlers

-------------------------------------------------------------------------------
(* The types are kept, group by group.                                     *)
LEMMA OpFacts ==
    ASSUME ManagerTyped
    PROVE  /\ op.pc \in {"idle", "startPost", "publish", "stopPost", "reset", "destruct"}
           /\ op.executor \in Executors \cup {NoExecutor} /\ op.task \in Tasks \cup {NoTask}
BY DEF ManagerTyped

LEMMA PoolTasks == ASSUME NEW s \in Tasks PROVE Drain(s) \in PoolTask /\ Wake(s) \in PoolTask
BY DEF Drain, Wake, PoolTask

LEMMA LifeKept == ASSUME Typed, Next PROVE LifeTyped'
<1> USE DEF LifeTyped
<1>1. LifeTyped
  BY TypeParts DEF Typed
<1>2. ASSUME NEW s \in Tasks, NEW h \in Holder, DropRef(s, h) PROVE LifeTyped'
  BY <1>1, <1>2 DEF DropRef, Life
<1>3. CASE UNCHANGED lifeVars
  BY <1>1, <1>3 DEF lifeVars
<1>4. ASSUME NEW x \in Executors, Begin(x) PROVE LifeTyped'
  BY <1>1, <1>4 DEF Begin, Life, Holder
<1>5. CASE Reset
  BY <1>2, <1>5 DEF Reset, Typed, HoldersKnown, Holder
<1>6. CASE TakeWake
  BY <1>1, <1>6 DEF TakeWake, Life
<1>7. CASE SensorCopy
  BY <1>1, <1>7 DEF SensorCopy, Holder
<1>8. CASE SensorDrop
  BY <1>2, <1>8 DEF SensorDrop, Typed, HoldersKnown, Holder
<1>9. ASSUME NEW s \in Tasks, TimerLock(s) \/ TimerDrop(s) \/ DestructEnsure(s) \/ DestructDone(s) PROVE LifeTyped'
  <2>1. CASE TimerLock(s)
    BY <1>1, <2>1 DEF TimerLock, Holder
  <2>2. CASE TimerDrop(s)
    BY <1>2, <2>2 DEF TimerDrop, Holder
  <2>3. CASE DestructEnsure(s) \/ DestructDone(s)
    BY <1>1, <2>3 DEF DestructEnsure, DestructDone, Life
  <2>4. QED
    BY <1>9, <2>1, <2>2, <2>3
<1> HIDE DEF LifeTyped
<1>10. QED
  BY <1>3, <1>4, <1>5, <1>6, <1>7, <1>8, <1>9, LifeChanges

LEMMA MachineKept == ASSUME Typed, Next PROVE MachineTyped'
<1>1. MachineTyped /\ TypeOK
  BY TypeParts DEF Typed
<1>2. ASSUME NEW s \in Tasks, NEW e \in Event, Push(s, e), UNCHANGED state PROVE MachineTyped'
  <2>1. Append(pending[s], e) \in Seq(Event)
    BY <1>1, QueuePushed DEF MachineTyped
  <2>2. QED
    BY <1>1, <1>2, <2>1 DEF Push, MachineTyped
<1>3. CASE UNCHANGED machineVars
  BY <1>1, <1>3 DEF machineVars, MachineTyped
<1>4. ASSUME NEW x \in Executors, Begin(x) \/ End(x) PROVE MachineTyped'
  <2>1. CASE Begin(x)
    BY <1>2, <2>1 DEF Begin, Event
  <2>2. CASE End(x)
    BY <1>1, <1>2, <2>2 DEF End, Event, TypeOK, MachineTyped
  <2>3. QED
    BY <1>4, <2>1, <2>2
<1>5. CASE HandleEvent
  <2> DEFINE s == running
             e == Head(pending[running])
  <2>1. PICK es \in Adds : pending' = [pending EXCEPT ![s] = Tail(pending[s]) \o es]
    BY <1>1, <1>5, EventHandled
  <2>2. /\ s \in Tasks /\ pending[s] # <<>> /\ pending[s] \in Seq(Event) /\ e \in Event
        /\ state' = [state EXCEPT ![s] = NextState(state[s], e)]
    BY <1>1, <1>5, EventHandled
  <2> HIDE DEF s, e
  <2>3. Tail(pending[s]) \o es \in Seq(Event)
    BY <2>2, QueueHandled
  <2>4. NextState(state[s], e) \in State
    <3>1. state[s] \in State
      BY <1>1, <2>2 DEF MachineTyped
    <3>2. QED
      BY <2>2, <3>1, Table DEF State, Event, W2, WL, WD, IB, LIGHT, DELAY
  <2>5. QED
    BY <1>1, <2>1, <2>2, <2>3, <2>4 DEF MachineTyped
<1>6. CASE SensorPush
  BY <1>2, <1>6 DEF SensorPush, Typed, HoldersKnown, Event
<1>7. ASSUME NEW s \in Tasks, TimerPush(s) \/ DestructDone(s) PROVE MachineTyped'
  <2>1. CASE TimerPush(s)
    BY <1>2, <2>1 DEF TimerPush, Typed, HoldersKnown
  <2>2. CASE DestructDone(s)
    <3>1. <<>> \in Seq(Event)
      OBVIOUS
    <3>2. QED
      BY <1>1, <2>2, <3>1 DEF DestructDone, MachineTyped
  <2>3. QED
    BY <1>7, <2>1, <2>2
<1>8. QED
  BY <1>3, <1>4, <1>5, <1>6, <1>7, MachineChanges

LEMMA DataDeviceKept == ASSUME Typed, Next PROVE DataTyped' /\ DeviceTyped'
<1>1. DataTyped /\ DeviceTyped /\ TypeOK
  BY TypeParts DEF Typed
<1>2. CASE HandleEvent
  <2>1. DeviceTyped' /\ index' \in [Tasks -> 1..(Size + 1)]
        /\ brightness' \in [Tasks -> 0..MAX_BRIGHTNESS \cup {INVALID_BRIGHTNESS}]
    BY <1>1, <1>2, EventHandled, HandlerTypes
  <2>2. lux' = lux
    BY <1>2 DEF HandleEvent
  <2>3. QED
    BY <1>1, <2>1, <2>2 DEF DataTyped
<1>3. ASSUME ~HandleEvent PROVE DeviceTyped'
  BY <1>1, <1>3, DeviceChanges DEF deviceVars, DeviceTyped
<1>4. ASSUME UNCHANGED dataVars PROVE DataTyped'
  BY <1>1, <1>4 DEF dataVars, DataTyped
<1>5. ASSUME SensorSet PROVE DataTyped'
  BY <1>1, <1>5 DEF SensorSet, DataTyped, TypeOK
<1>6. ASSUME NEW s \in Tasks, DestructDone(s) PROVE DataTyped'
  <2>1. 1 \in 1..(Size + 1) /\ 0 \in 0..MAX_BRIGHTNESS \cup {INVALID_BRIGHTNESS} /\ "invalid" \in Lux
    BY Constants DEF Lux
  <2>2. QED
    BY <1>1, <1>6, <2>1 DEF DestructDone, DataTyped
<1>7. QED
  BY <1>2, <1>3, <1>4, <1>5, <1>6, DataChanges

LEMMA TimerKept ==
    ASSUME Typed, Next
    PROVE  TimerTyped' /\ \A s \in Tasks : timerPc'[s] \in {"lock", "push"} => timerEvent'[s] \in Event
<1> DEFINE Known == \A s \in Tasks : timerPc[s] \in {"lock", "push"} => timerEvent[s] \in Event
<1>1. TimerTyped /\ Known /\ TypeOK
  BY TypeParts DEF Typed, HoldersKnown
<1>2. CASE UNCHANGED timerVars
  BY <1>1, <1>2 DEF timerVars, TimerTyped
<1>3. CASE HandleEvent
  <2>1. timer' \in [Tasks -> Event \cup {"off"}]
    BY <1>1, <1>3, EventHandled, HandlerTypes
  <2>2. timerPc' = timerPc /\ timerEvent' = timerEvent
    BY <1>3 DEF HandleEvent
  <2>3. QED
    BY <1>1, <2>1, <2>2 DEF TimerTyped
<1>4. ASSUME NEW s \in Tasks, TimerStep(s) \/ DestructEnsure(s) PROVE TimerTyped' /\ Known'
  <2>1. CASE TimerFires(s)
    BY <1>1, <2>1 DEF TimerFires, TimerTyped
  <2>2. CASE TimerLock(s) \/ TimerPush(s)
    BY <1>1, <2>2 DEF TimerLock, TimerPush, TimerTyped
  <2>3. CASE TimerPost(s) \/ TimerDrop(s) \/ TimerReturn(s)
    BY <1>1, <2>3 DEF TimerPost, TimerDrop, TimerReturn, AfterDrop, TimerTyped
  <2>4. CASE DestructEnsure(s)
    BY <1>1, <2>4 DEF DestructEnsure, TimerTyped
  <2>5. QED
    BY <1>4, <2>1, <2>2, <2>3, <2>4 DEF TimerStep
<1>5. QED
  BY <1>2, <1>3, <1>4, TimerChanges

LEMMA PoolKept == ASSUME Typed, Next PROVE PoolTyped'
<1>1. PoolTyped /\ TypeOK
  BY TypeParts DEF Typed
<1>2. ASSUME NEW x \in PoolTask PROVE Append(tasks, x) \in Seq(PoolTask)
  BY <1>1 DEF PoolTyped
<1>3. ASSUME tasks # <<>> PROVE Head(tasks) \in PoolTask /\ Head(tasks).task \in Tasks /\ Tail(tasks) \in Seq(PoolTask)
  <2>1. Head(tasks) \in PoolTask /\ Tail(tasks) \in Seq(PoolTask)
    BY <1>1, <1>3, HeadTailProperties DEF PoolTyped
  <2>2. QED
    BY <2>1 DEF PoolTask
<1>4. ASSUME NEW s \in Tasks, Post(s), UNCHANGED <<running, runTimes>> PROVE PoolTyped'
  BY <1>1, <1>2, <1>4, PoolTasks DEF Post, PoolTyped
<1>5. CASE UNCHANGED poolVars
  BY <1>1, <1>5 DEF poolVars, PoolTyped
<1>6. CASE StartPost \/ StopPost
  BY <1>4, <1>6 DEF StartPost, StopPost, Typed, HoldersKnown
<1>7. CASE TakeDrain
  BY <1>1, <1>3, <1>7 DEF TakeDrain, PoolTyped
<1>8. CASE TakeWake
  BY <1>1, <1>3, <1>8 DEF TakeWake, PoolTyped
<1>9. CASE HandleEvent
  <2>1. running \in Tasks /\ (tasks' = tasks \/ tasks' = Append(tasks, Drain(running)))
    BY <1>1, <1>9, EventHandled
  <2>2. tasks' \in Seq(PoolTask)
    BY <1>1, <1>2, <2>1, PoolTasks DEF PoolTyped
  <2>3. running' \in Tasks \cup {NoTask} /\ runTimes' \in Nat
    BY <1>1, <1>9, Constants DEF HandleEvent, PoolTyped
  <2>4. QED
    BY <2>2, <2>3 DEF PoolTyped
<1>10. CASE DrainEnds
  BY <1>1, <1>10 DEF DrainEnds, PoolTyped
<1>11. CASE SensorPost
  BY <1>4, <1>11 DEF SensorPost, Typed, HoldersKnown
<1>12. ASSUME NEW s \in Tasks, TimerPost(s) \/ DestructEnsure(s) PROVE PoolTyped'
  BY <1>1, <1>2, <1>4, <1>12, PoolTasks DEF TimerPost, DestructEnsure, PoolTyped
<1>13. QED
  BY <1>5, <1>6, <1>7, <1>8, <1>9, <1>10, <1>11, <1>12, PoolChanges DEF PoolStep

LEMMA SensorKeptTyped ==
    ASSUME Typed, Next
    PROVE  SensorTyped' /\ (sensorPc' \notin {"idle", "load"} => sensorTask' \in Tasks)
<1> DEFINE Known == sensorPc \notin {"idle", "load"} => sensorTask \in Tasks
<1>1. SensorTyped /\ Known /\ taskInProc \in Tasks \cup {NoTask} /\ NoTask \notin Tasks
  BY TypeParts, TaskNumbers DEF Typed, HoldersKnown, ManagerTyped
<1>2. CASE UNCHANGED sensorVars
  BY <1>1, <1>2 DEF sensorVars, SensorTyped
<1>3. CASE SensorReport
  <2>1. samples' \in 0..MaxSamples /\ sensorLux' \in Lux
    BY <1>1, <1>3, Constants DEF SensorReport, SensorTyped, Lux
  <2>2. QED
    BY <1>1, <1>3, <2>1 DEF SensorReport, SensorTyped
<1>4. CASE SensorLoad(taskInProc)
  BY <1>1, <1>4 DEF SensorLoad, SensorTyped, Lux
<1>5. CASE SensorCopy
  BY <1>1, <1>5 DEF SensorCopy, SensorTyped
<1>6. CASE SensorSet \/ SensorPush \/ SensorPost
  BY <1>1, <1>6 DEF SensorSet, SensorPush, SensorPost, SensorTyped, Lux
<1>7. CASE SensorDrop \/ SensorReturn
  BY <1>1, <1>7 DEF SensorDrop, AfterDrop, SensorReturn, SensorTyped
<1>8. QED
  BY <1>2, <1>3, <1>4, <1>5, <1>6, <1>7, SensorChanges DEF SensorStep

LEMMA ManagerKept ==
    ASSUME Typed, Next
    PROVE  ManagerTyped' /\ (op'.pc # "idle" => op'.task \in Tasks) /\ (op'.pc = "idle" => op' = Idle)
<1> DEFINE P == {"idle", "startPost", "publish", "stopPost", "reset", "destruct"}
           Op(p, x, s) == [pc |-> p, executor |-> x, task |-> s]
           Known == (op.pc # "idle" => op.task \in Tasks) /\ (op.pc = "idle" => op = Idle)
<1>1. ManagerTyped /\ Known /\ op.pc \in P /\ op.executor \in Executors \cup {NoExecutor}
      /\ op = Op(op.pc, op.executor, op.task)
  <2>1. ManagerTyped /\ Known
    BY TypeParts DEF Typed, HoldersKnown
  <2>2. QED
    BY <2>1 DEF ManagerTyped
<1>2. ASSUME NEW p \in P, p # "idle", NEW x \in Executors \cup {NoExecutor}, NEW s \in Tasks, op' = Op(p, x, s),
             executorInProc' \in Executors \cup {NoExecutor}, taskInProc' \in Tasks \cup {NoTask}
      PROVE  ManagerTyped' /\ Known'
  BY <1>2 DEF ManagerTyped
<1>3. ASSUME op' = Idle, executorInProc' \in Executors \cup {NoExecutor}, taskInProc' \in Tasks \cup {NoTask}
      PROVE  ManagerTyped' /\ Known'
  BY <1>3 DEF ManagerTyped, Idle
<1>4. CASE UNCHANGED managerVars
  BY <1>1, <1>4 DEF managerVars, ManagerTyped
<1> DEFINE Others == executorInProc' \in Executors \cup {NoExecutor} /\ taskInProc' \in Tasks \cup {NoTask}
<1>5. ASSUME NEW x \in Executors, Begin(x) PROVE ManagerTyped' /\ Known'
  <2>1. Others
    BY <1>1, <1>5 DEF Begin, ManagerTyped
  <2>2. PICK s \in Tasks : op' = Op("startPost", x, s)
    BY <1>5 DEF Begin
  <2>3. QED
    BY <1>2, <2>1, <2>2
<1>6. ASSUME NEW x \in Executors, End(x) PROVE ManagerTyped' /\ Known'
  <2>1. Others
    BY <1>1, <1>6 DEF End, ManagerTyped
  <2>2. CASE taskInProc # NoTask
    <3>1. taskInProc \in Tasks /\ op' = Op("stopPost", x, taskInProc)
      BY <1>1, <1>6, <2>2 DEF End, ManagerTyped
    <3>2. QED
      BY <1>2, <2>1, <3>1
  <2>3. CASE taskInProc = NoTask
    BY <1>1, <1>3, <1>6, <2>1, <2>3 DEF End
  <2>4. QED
    BY <2>2, <2>3
<1>7. CASE Publish \/ Return
  <2>1. Others /\ op' = Idle
    BY <1>1, <1>7 DEF Publish, Return, ManagerTyped
  <2>2. QED
    BY <1>3, <2>1
<1>8. CASE StartPost \/ StopPost
  <2>1. Others /\ op.task \in Tasks
    BY <1>1, <1>8 DEF StartPost, StopPost, ManagerTyped
  <2>2. PICK p \in {"publish", "reset"} : op' = [op EXCEPT !.pc = p]
    BY <1>8 DEF StartPost, StopPost
  <2>3. op' = Op(p, op.executor, op.task)
    BY <1>1, <2>2
  <2>4. QED
    BY <1>1, <1>2, <2>1, <2>3
<1>9. CASE Reset
  <2>1. Others /\ op.task \in Tasks
    BY <1>1, <1>9 DEF Reset, ManagerTyped
  <2>2. op' = Idle \/ op' = [op EXCEPT !.pc = "destruct"]
    BY <1>9 DEF Reset
  <2>3. CASE op' = Idle
    BY <1>3, <2>1, <2>3
  <2>4. CASE op' = [op EXCEPT !.pc = "destruct"]
    <3>1. op' = Op("destruct", op.executor, op.task)
      BY <1>1, <2>4
    <3>2. QED
      BY <1>1, <1>2, <2>1, <3>1
  <2>5. QED
    BY <2>2, <2>3, <2>4
<1>10. QED
  BY <1>4, <1>5, <1>6, <1>7, <1>8, <1>9, Steps DEF ManagerStep

LEMMA TypedInit == ASSUME Init PROVE Typed
<1>1. /\ LifeTyped /\ MachineTyped /\ TimerTyped
  BY DEF Init, TaskInit, LifeTyped, MachineTyped, TimerTyped, Life, Holder, State
<1>2. DataTyped /\ DeviceTyped
  BY Constants DEF Init, TaskInit, DataTyped, DeviceTyped, Lux, Restored
<1>3. PoolTyped /\ SensorTyped
  <2>1. PoolTyped
    BY DEF Init, TaskInit, PoolTyped
  <2>2. 0 \in 0..MaxSamples
    BY Constants
  <2>3. SensorTyped
    BY <2>2 DEF Init, TaskInit, SensorTyped, Lux
  <2>4. QED
    BY <2>1, <2>3
<1>4. ManagerTyped /\ HoldersKnown
  BY DEF Init, TaskInit, ManagerTyped, HoldersKnown, Idle
<1>5. QED
  BY <1>1, <1>2, <1>3, <1>4, TypeParts DEF Typed

LEMMA TypedStep == ASSUME Typed, [Next]_vars PROVE Typed'
<1>1. CASE Next
  <2>1. /\ LifeTyped' /\ MachineTyped' /\ DataTyped' /\ DeviceTyped' /\ TimerTyped' /\ PoolTyped'
        /\ SensorTyped' /\ ManagerTyped'
    BY <1>1, LifeKept, MachineKept, DataDeviceKept, TimerKept, PoolKept, SensorKeptTyped, ManagerKept
  <2>2. TypeOK'
    BY <2>1 DEF TypeOK, LifeTyped, MachineTyped, DataTyped, TimerTyped, PoolTyped, DeviceTyped, SensorTyped,
                ManagerTyped, PoolTask
  <2>3. HoldersKnown'
    BY <1>1, TimerKept, SensorKeptTyped, ManagerKept DEF HoldersKnown
  <2>4. QED
    BY <2>2, <2>3 DEF Typed
<1>2. CASE UNCHANGED vars
  BY <1>2 DEF vars, taskVars, managerVars, lifeVars, machineVars, dataVars, timerVars, poolVars, deviceVars,
              sensorVars, Typed, TypeOK, HoldersKnown
<1>3. QED
  BY <1>1, <1>2

(* The screen brightness component is type correct: in every reachable     *)
(* state every variable of the tasks, the pool, the sensor's callback and  *)
(* the manager has its type; in particular the index never leaves the      *)
(* ramp by more than one, and a timer's callback always has an event.      *)
THEOREM BrightnessTypeCorrect == Spec => []TypeOK
<1>1. Init => Typed
  BY TypedInit
<1>2. Typed /\ [Next]_vars => Typed'
  BY TypedStep
<1>3. Typed => TypeOK
  BY DEF Typed
<1>4. QED
  BY <1>1, <1>2, <1>3, PTL DEF Spec

-------------------------------------------------------------------------------
(* The sensor.                                                             *)
LEMMA SensorReleasedStep == ASSUME Typed, SensorReleased, [Next]_vars PROVE SensorReleased'
<1>1. CASE HandleEvent
  <2> DEFINE s == running
             e == Head(pending[running])
  <2>1. /\ s \in Tasks /\ e \in Event /\ state[s] \in State /\ Handlers(s, e)
        /\ state' = [state EXCEPT ![s] = NextState(state[s], e)]
    BY <1>1, EventHandled DEF Typed
  <2>2. state'[s] = NextState(state[s], e) /\ \A r \in Tasks \ {s} : state'[r] = state[r]
    BY <2>1 DEF Typed, TypeOK
  <2> HIDE DEF s, e
  <2>3. CASE state[s] = "S_INIT" /\ e = "E_START"
    <3>1. NextState(state[s], e) \in Working
      BY <2>1, <2>3, Table DEF Working, State, W2, WL, WD, IB
    <3>2. QED
      BY <2>1, <2>2, <3>1 DEF SensorReleased
  <2>4. CASE ~(state[s] = "S_INIT" /\ e = "E_START") /\ Enters(s, e, "S_END")
    <3>1. ~Enters(s, e, "S_INCREASING_BRIGHTNESS") /\ ~(state[s] = IB /\ e = "E_INCREASE_BRIGHTNESS")
      BY <2>1, <2>4, Table DEF Enters, IB
    <3>2. sensor' = "off"
      BY <2>1, <2>4, <3>1 DEF Handlers, EndProcess, IB
    <3>3. QED
      BY <3>2 DEF SensorReleased
  <2>5. CASE ~(state[s] = "S_INIT" /\ e = "E_START") /\ ~Enters(s, e, "S_END")
    <3>1. sensor' = sensor
      BY <2>1, <2>5 DEF Handlers, BeginIncreaseBrightness
    <3>2. state[s] \in Working => state'[s] \in Working
      BY <2>1, <2>2, <2>5, Table DEF Enters, Working, State, Event, W2, WL, WD, IB, LIGHT, DELAY
    <3>3. QED
      BY <2>2, <3>1, <3>2 DEF SensorReleased
  <2>6. QED
    BY <2>3, <2>4, <2>5
<1>2. CASE UNCHANGED <<deviceVars, state>>
  BY <1>2 DEF deviceVars, SensorReleased
<1>3. Next => HandleEvent \/ UNCHANGED <<deviceVars, state>>
  <2>1. SUFFICES ASSUME Next, ~HandleEvent PROVE UNCHANGED <<deviceVars, state>>
    OBVIOUS
  <2>2. UNCHANGED deviceVars
    BY <2>1, DeviceChanges
  <2>3. UNCHANGED state
    BY <2>1, MachineChanges DEF machineVars, Begin, End, SensorPush, TimerPush, DestructDone
  <2>4. QED
    BY <2>2, <2>3
<1>4. UNCHANGED vars => UNCHANGED <<deviceVars, state>>
  BY DEF vars, taskVars, deviceVars, machineVars
<1>5. QED
  BY <1>1, <1>2, <1>3, <1>4

(* The ambient light sensor is never left subscribed or activated when no  *)
(* task is between its start and its end, whichever of the calls of        *)
(* SubscribeSensor fails and whatever the machine handles afterwards.      *)
THEOREM SensorReleasedCorrect == Spec => []SensorReleased
<1>1. Init => Typed /\ SensorReleased
  BY TypedInit DEF Init, TaskInit, SensorReleased
<1>2. Typed /\ SensorReleased /\ [Next]_vars => Typed' /\ SensorReleased'
  BY TypedStep, SensorReleasedStep
<1>3. QED
  BY <1>1, <1>2, PTL DEF Spec

-------------------------------------------------------------------------------
(* The chain of timer events.                                              *)
Armed(s) == timer[s] # "off"
Fired(s) == timerPc[s] \in {"lock", "push"}
Queued(s, i) == i \in DOMAIN pending[s] /\ IsTimerEvent(pending[s][i])

(* A registered timer, a callback before its push and a queued timer event *)
(* exclude each other, and there is none of them where the next step of    *)
(* the machine would register a timer without having consumed one.         *)
Chain(s) ==
    /\ Armed(s) => ~Fired(s) /\ \A i \in DOMAIN pending[s] : ~Queued(s, i)
    /\ Fired(s) => \A i \in DOMAIN pending[s] : ~Queued(s, i)
    /\ \A i, j \in DOMAIN pending[s] : Queued(s, i) /\ Queued(s, j) => i = j
    /\ state[s] \in {"S_INIT", WL} => ~Armed(s) /\ ~Fired(s) /\ \A i \in DOMAIN pending[s] : ~Queued(s, i)
OneChain == \A s \in Tasks : Chain(s)

(* The handlers register a timer only for a timer event or from a state    *)
(* without a chain.                                                        *)
LEMMA HandlerTimer ==
    ASSUME TypeOK, NEW s \in Tasks, NEW e \in Event, Handlers(s, e)
    PROVE  \/ timer' = timer
           \/ timer' = [timer EXCEPT ![s] = "off"]
           \/ /\ \E x \in {DELAY, "E_INCREASE_BRIGHTNESS"} : timer' = [timer EXCEPT ![s] = x]
              /\ state[s] \in {"S_INIT", WL} \/ IsTimerEvent(e)
              /\ NextState(state[s], e) \notin {"S_INIT", WL}
<1>1. state[s] \in State /\ DELAY \in Event /\ "E_INCREASE_BRIGHTNESS" \in Event
  BY DEF TypeOK, Event, DELAY
<1>2. ASSUME NEW i, DoIncreaseBrightness(s, i)
      PROVE  timer' = timer \/ timer' = [timer EXCEPT ![s] = "E_INCREASE_BRIGHTNESS"]
  BY <1>2 DEF DoIncreaseBrightness
<1>3. CASE state[s] = "S_INIT" /\ e = "E_START" /\ StartProcess(s)
  <2>1. NextState(state[s], e) \notin {"S_INIT", WL}
    BY <1>1, <1>3, Table DEF W2, WL, WD, IB
  <2>2. timer' = timer \/ timer' = [timer EXCEPT ![s] = DELAY]
    BY <1>3 DEF StartProcess, DELAY
  <2>3. QED
    BY <1>1, <1>3, <2>1, <2>2
<1>4. CASE Enters(s, e, IB) /\ BeginIncreaseBrightness(s)
  <2>1. (state[s] = WL \/ IsTimerEvent(e)) /\ NextState(state[s], e) \notin {"S_INIT", WL}
    BY <1>1, <1>4, Table DEF Enters, IsTimerEvent, State, Event, W2, WL, WD, IB, LIGHT, DELAY
  <2>2. timer' = timer \/ timer' = [timer EXCEPT ![s] = "E_INCREASE_BRIGHTNESS"]
    BY <1>2, <1>4 DEF BeginIncreaseBrightness
  <2>3. QED
    BY <1>1, <2>1, <2>2
<1>5. CASE state[s] = IB /\ e = "E_INCREASE_BRIGHTNESS" /\ DoIncreaseBrightness(s, index[s])
  <2>1. IsTimerEvent(e) /\ NextState(state[s], e) \notin {"S_INIT", WL}
    BY <1>1, <1>5, Table DEF IsTimerEvent, W2, WL, WD, IB
  <2>2. QED
    BY <1>1, <1>2, <1>5, <2>1
<1>6. CASE EndProcess(s) \/ UNCHANGED timer
  BY <1>6 DEF EndProcess
<1>7. QED
  BY <1>3, <1>4, <1>5, <1>6 DEF Handlers, IB

LEMMA ChainHandled ==
    ASSUME Typed, NEW s \in Tasks, Chain(s), HandleEvent
    PROVE  Chain(s)'
<1>1. timerPc' = timerPc /\ TypeOK
  BY DEF HandleEvent, Typed
<1> DEFINE e == Head(pending[running])
<1>2. PICK es \in Adds : pending' = [pending EXCEPT ![running] = Tail(pending[running]) \o es]
  BY <1>1, EventHandled
<1>3. /\ running \in Tasks /\ pending[running] # <<>> /\ pending[running] \in Seq(Event) /\ e \in Event
      /\ state[running] \in State /\ Handlers(running, e)
      /\ state' = [state EXCEPT ![running] = NextState(state[running], e)]
  BY <1>1, EventHandled
<1>4. timer \in [Tasks -> Event \cup {"off"}] /\ state \in [Tasks -> State] /\ pending \in [Tasks -> Seq(Event)]
  BY <1>1 DEF TypeOK
<1> HIDE DEF e
<1>5. CASE s # running
  <2>1. timer'[s] = timer[s]
    BY <1>1, <1>3, <1>4, <1>5, HandlerTimer
  <2>2. state'[s] = state[s] /\ pending'[s] = pending[s] /\ timerPc'[s] = timerPc[s]
    BY <1>1, <1>2, <1>3, <1>4, <1>5
  <2>3. QED
    BY <2>1, <2>2 DEF Chain, Armed, Fired, Queued
<1>6. CASE s = running
  <2> DEFINE q == pending[s]
             r == Tail(pending[s]) \o es
  <2>1. /\ q \in Seq(Event) /\ e = q[1] /\ Len(q) \in Nat /\ Len(q) >= 1
        /\ Len(r) = Len(q) - 1 + Len(es) /\ Len(es) \in {0, 1}
        /\ DOMAIN r = 1..Len(r) /\ DOMAIN q = 1..Len(q)
        /\ \A i \in 1..(Len(q) - 1) : r[i] = q[i + 1]
        /\ Len(es) = 1 => r[Len(q)] = "E_STOP"
    BY <1>3, <1>6, QueueHandled DEF e
  <2>2. pending'[s] = r /\ state'[s] = NextState(state[s], e) /\ timerPc'[s] = timerPc[s]
    BY <1>1, <1>2, <1>3, <1>4, <1>6
  <2> HIDE DEF q, r
  <2>3. \A i \in DOMAIN r : IsTimerEvent(r[i]) => i + 1 \in DOMAIN q /\ IsTimerEvent(q[i + 1])
    <3>1. TAKE i \in DOMAIN r
    <3>2. i \in Nat /\ i >= 1 /\ i <= Len(q) - 1 + Len(es)
      BY <2>1
    <3>3. CASE i <= Len(q) - 1
      BY <2>1, <3>2, <3>3
    <3>4. CASE i > Len(q) - 1
      <4> DEFINE n == Len(q)
                 m == Len(es)
      <4>1. Len(q) \in Nat /\ (Len(es) = 0 \/ Len(es) = 1)
        BY <2>1
      <4> HIDE DEF n, m
      <4>2. n \in Nat /\ (m = 0 \/ m = 1) /\ i \in Nat /\ i <= n - 1 + m /\ i > n - 1
        BY <3>2, <3>4, <4>1 DEF n, m
      <4>3. i = n /\ m = 1
        BY <4>2
      <4>4. i = Len(q) /\ Len(es) = 1
        BY <4>3 DEF n, m
      <4>5. QED
        BY <2>1, <4>4 DEF IsTimerEvent
    <3>5. QED
      BY <2>1, <3>2, <3>3, <3>4
  <2>4. IsTimerEvent(e) => \A i \in DOMAIN r : ~IsTimerEvent(r[i])
    <3>1. SUFFICES ASSUME IsTimerEvent(e), NEW i \in DOMAIN r, IsTimerEvent(r[i]) PROVE FALSE
      OBVIOUS
    <3>2. i \in Nat /\ i >= 1 /\ i + 1 \in DOMAIN q /\ IsTimerEvent(q[i + 1]) /\ 1 \in DOMAIN q /\ IsTimerEvent(q[1])
      BY <2>1, <2>3, <3>1
    <3>3. i + 1 = 1
      BY <3>2 DEF Chain, Queued, q
    <3>4. QED
      BY <3>2, <3>3
  <2>5. IsTimerEvent(e) => ~Armed(s) /\ ~Fired(s)
    <3>1. 1 \in DOMAIN q /\ e = q[1]
      BY <2>1
    <3>2. QED
      BY <3>1 DEF Chain, Queued, q
  <2>6. (\A i \in DOMAIN q : ~IsTimerEvent(q[i])) => \A i \in DOMAIN r : ~IsTimerEvent(r[i])
    BY <2>3
  <2>7. \A i, j \in DOMAIN r : IsTimerEvent(r[i]) /\ IsTimerEvent(r[j]) => i = j
    <3>1. SUFFICES ASSUME NEW i \in DOMAIN r, NEW j \in DOMAIN r, IsTimerEvent(r[i]), IsTimerEvent(r[j])
                   PROVE  i = j
      OBVIOUS
    <3>2. i + 1 = j + 1
      BY <2>3, <3>1 DEF Chain, Queued, q
    <3>3. i \in Int /\ j \in Int
      BY <2>1
    <3>4. QED
      BY <3>2, <3>3
  <2>8. NextState(state[s], e) \in {"S_INIT", WL} => state[s] = NextState(state[s], e) \/ IsTimerEvent(e)
    <3>1. state[s] \in State
      BY <1>3, <1>6
    <3>2. QED
      BY <1>3, <3>1, Table DEF IsTimerEvent, State, Event, W2, WL, WD, IB, LIGHT, DELAY
  <2> DEFINE Calm == \A i \in DOMAIN q : ~IsTimerEvent(q[i])
             Calm2 == \A i \in DOMAIN r : ~IsTimerEvent(r[i])
  <2>9. /\ Armed(s) => ~Fired(s) /\ Calm
        /\ Fired(s) => Calm
        /\ state[s] \in {"S_INIT", WL} => ~Armed(s) /\ ~Fired(s) /\ Calm
    BY DEF Chain, Queued, q
  <2>10. (Calm => Calm2) /\ (IsTimerEvent(e) => Calm2)
    BY <2>4, <2>6
  <2> HIDE DEF Calm, Calm2
  <2>11. Fired(s)' <=> Fired(s)
    BY <2>2 DEF Fired
  <2>12. \/ timer'[s] = timer[s]
         \/ timer'[s] = "off"
         \/ /\ state[s] \in {"S_INIT", WL} \/ IsTimerEvent(e)
            /\ NextState(state[s], e) \notin {"S_INIT", WL}
    BY <1>1, <1>3, <1>4, <1>6, HandlerTimer
  <2>13. /\ Armed(s)' => ~Fired(s)' /\ Calm2
         /\ Fired(s)' => Calm2
         /\ state'[s] \in {"S_INIT", WL} => ~Armed(s)' /\ ~Fired(s)' /\ Calm2
    BY <2>2, <2>5, <2>8, <2>9, <2>10, <2>11, <2>12 DEF Armed
  <2>14. QED
    BY <2>2, <2>7, <2>13 DEF Chain, Queued, Calm2
<1>7. QED
  BY <1>5, <1>6

(* A push that is no timer event, or that is the end of a callback.        *)
LEMMA ChainPushed ==
    ASSUME MachineTyped, NEW s \in Tasks, NEW r \in Tasks, NEW e \in Event, Chain(s), Push(r, e), UNCHANGED <<state, timer>>,
           \/ UNCHANGED timerPc /\ ~IsTimerEvent(e)
           \/ timerPc[r] = "push" /\ timerPc' = [timerPc EXCEPT ![r] = "post"] /\ TimerTyped
    PROVE  Chain(s)'
<1>1. CASE s # r
  <2>1. pending'[s] = pending[s] /\ timerPc'[s] = timerPc[s]
    BY <1>1 DEF Push, MachineTyped, TimerTyped
  <2>2. QED
    BY <2>1 DEF Chain, Armed, Fired, Queued
<1>2. CASE s = r
  <2> DEFINE q == pending[s]
             n == Len(q)
  <2>1. q \in Seq(Event) /\ pending'[s] = Append(q, e)
    BY <1>2 DEF Push, MachineTyped
  <2>2. /\ n \in Nat /\ DOMAIN q = 1..n /\ DOMAIN Append(q, e) = 1..(n + 1)
        /\ \A i \in 1..n : Append(q, e)[i] = q[i]
        /\ Append(q, e)[n + 1] = e
    BY <2>1, QueuePushed
  <2>3. CASE UNCHANGED timerPc /\ ~IsTimerEvent(e)
    <3>1. \A i \in DOMAIN Append(q, e) : IsTimerEvent(Append(q, e)[i]) => i \in DOMAIN q /\ IsTimerEvent(q[i])
      BY <2>2, <2>3
    <3> HIDE DEF q
    <3>2. QED
      BY <2>1, <2>3, <3>1 DEF Chain, Armed, Fired, Queued, q
  <2>4. CASE timerPc[r] = "push" /\ timerPc' = [timerPc EXCEPT ![r] = "post"] /\ TimerTyped
    <3>1. timerPc'[s] = "post" /\ Fired(s)
      BY <1>2, <2>4 DEF Fired, TimerTyped
    <3>2. ~Armed(s) /\ state[s] \notin {"S_INIT", WL} /\ \A i \in DOMAIN q : ~IsTimerEvent(q[i])
      BY <3>1 DEF Chain, Queued
    <3>3. \A i \in DOMAIN Append(q, e) : IsTimerEvent(Append(q, e)[i]) => i = n + 1
      BY <2>2, <3>2
    <3>4. QED
      BY <2>1, <3>1, <3>2, <3>3 DEF Chain, Armed, Fired, Queued
  <2>5. QED
    BY <2>3, <2>4
<1>3. QED
  BY <1>1, <1>2

LEMMA ChainStep == ASSUME Typed, OneChain, [Next]_vars PROVE OneChain'
<1> SUFFICES ASSUME NEW s \in Tasks PROVE Chain(s)'
  BY DEF OneChain
<1>1. TypeOK /\ MachineTyped /\ TimerTyped /\ Chain(s)
  BY TypeParts DEF Typed, OneChain
<1>2. CASE UNCHANGED <<machineVars, timerVars>>
  BY <1>1, <1>2 DEF machineVars, timerVars, Chain, Armed, Fired, Queued
<1>3. ASSUME NEW x \in Executors, Begin(x) \/ End(x) PROVE Chain(s)'
  <2>1. UNCHANGED <<state, timer, timerPc>>
    BY <1>3 DEF Begin, End, timerVars
  <2>2. UNCHANGED pending \/ \E r \in Tasks : Push(r, "E_START") \/ Push(r, "E_STOP")
    BY <1>1, <1>3 DEF Begin, End, TypeOK
  <2>3. CASE UNCHANGED pending
    BY <1>1, <2>1, <2>3 DEF Chain, Armed, Fired, Queued
  <2>4. ASSUME NEW r \in Tasks, Push(r, "E_START") \/ Push(r, "E_STOP") PROVE Chain(s)'
    <3>1. PICK e \in {"E_START", "E_STOP"} : Push(r, e)
      BY <2>4
    <3>2. e \in Event /\ ~IsTimerEvent(e)
      BY DEF Event, IsTimerEvent
    <3>3. QED
      BY <1>1, <2>1, <3>1, <3>2, ChainPushed
  <2>5. QED
    BY <2>2, <2>3, <2>4
<1>4. CASE HandleEvent
  BY <1>1, <1>4, ChainHandled
<1>5. CASE SensorPush
  <2>1. UNCHANGED <<state, timer, timerPc>> /\ sensorTask \in Tasks /\ Push(sensorTask, LIGHT)
    BY <1>5 DEF SensorPush, timerVars, LIGHT, Typed, HoldersKnown
  <2>2. LIGHT \in Event /\ ~IsTimerEvent(LIGHT)
    BY DEF Event, IsTimerEvent, LIGHT
  <2>3. QED
    BY <1>1, <2>1, <2>2, ChainPushed
<1>6. ASSUME NEW r \in Tasks, TimerStep(r) \/ DestructEnsure(r) \/ DestructDone(r) PROVE Chain(s)'
  <2>1. CASE TimerFires(r)
    <3>1. CASE s # r
      BY <1>1, <2>1, <3>1 DEF TimerFires, TimerTyped, machineVars, Chain, Armed, Fired, Queued
    <3>2. CASE s = r
      BY <1>1, <2>1, <3>2 DEF TimerFires, TimerTyped, machineVars, Chain, Armed, Fired, Queued
    <3>3. QED
      BY <3>1, <3>2
  <2>2. CASE TimerPush(r)
    <3>1. TimerTyped /\ timerEvent[r] \in Event
      BY <1>1, <2>2 DEF TimerTyped, TimerPush, Typed, HoldersKnown
    <3>2. /\ Push(r, timerEvent[r]) /\ UNCHANGED <<state, timer>>
          /\ timerPc[r] = "push" /\ timerPc' = [timerPc EXCEPT ![r] = "post"]
      BY <2>2 DEF TimerPush
    <3>3. QED
      BY <1>1, <3>1, <3>2, ChainPushed
  <2>3. CASE TimerLock(r) \/ TimerPost(r) \/ TimerDrop(r) \/ TimerReturn(r)
    <3>1. UNCHANGED <<machineVars, timer>> /\ (Fired(s)' => Fired(s))
      BY <1>1, <2>3 DEF TimerLock, TimerPost, TimerDrop, TimerReturn, AfterDrop, TimerTyped, Fired
    <3>2. QED
      BY <1>1, <3>1 DEF machineVars, Chain, Armed, Queued
  <2>4. CASE DestructEnsure(r)
    <3>1. UNCHANGED <<machineVars, timerPc>> /\ (Armed(s)' => Armed(s))
      BY <1>1, <2>4 DEF DestructEnsure, TimerTyped, Armed
    <3>2. QED
      BY <1>1, <3>1 DEF machineVars, Chain, Fired, Queued
  <2>5. CASE DestructDone(r)
    <3>1. UNCHANGED <<state, timerVars>> /\ (pending'[s] = pending[s] \/ pending'[s] = <<>>)
      BY <1>1, <2>5 DEF DestructDone, MachineTyped
    <3>2. CASE pending'[s] = pending[s]
      BY <1>1, <3>1, <3>2 DEF timerVars, Chain, Armed, Fired, Queued
    <3>3. CASE pending'[s] = <<>>
      <4>1. DOMAIN pending'[s] = {}
        BY <3>3
      <4>2. QED
        BY <1>1, <3>1, <4>1 DEF timerVars, Chain, Armed, Fired, Queued
    <3>4. QED
      BY <3>1, <3>2, <3>3
  <2>6. QED
    BY <1>6, <2>1, <2>2, <2>3, <2>4, <2>5 DEF TimerStep
<1>7. CASE UNCHANGED vars
  BY <1>2, <1>7 DEF vars, taskVars
<1>8. QED
  BY <1>2, <1>3, <1>4, <1>5, <1>6, <1>7, MachineChanges, TimerChanges DEF TimerStep

LEMMA ChainCounted == ASSUME Typed, OneChain PROVE OneTimerChain
<1> SUFFICES ASSUME NEW s \in Tasks
             PROVE  (IF timer[s] # "off" THEN 1 ELSE 0) + (IF timerPc[s] \in {"lock", "push"} THEN 1 ELSE 0)
                       + Cardinality({i \in DOMAIN pending[s] : IsTimerEvent(pending[s][i])}) <= 1
  BY DEF OneTimerChain
<1> DEFINE Q == {i \in DOMAIN pending[s] : IsTimerEvent(pending[s][i])}
<1>1. Chain(s)
  BY DEF OneChain
<1>2. CASE Q = {}
  <2>1. Cardinality(Q) = 0
    BY <1>2, FS_EmptySet
  <2>2. ~(Armed(s) /\ Fired(s))
    BY <1>1 DEF Chain
  <2> HIDE DEF Q
  <2>3. (IF timer[s] # "off" THEN 1 ELSE 0) + (IF timerPc[s] \in {"lock", "push"} THEN 1 ELSE 0) + Cardinality(Q) <= 1
    BY <2>1, <2>2 DEF Armed, Fired
  <2>4. QED
    BY <2>3 DEF Q
<1>3. CASE Q # {}
  <2>1. PICK i \in Q : TRUE
    BY <1>3
  <2>2. Q = {i}
    BY <1>1, <2>1 DEF Chain, Queued
  <2>3. ~Armed(s) /\ ~Fired(s)
    BY <1>1, <2>1 DEF Chain, Queued
  <2> HIDE DEF Q
  <2>4. Cardinality(Q) = 1
    BY <2>2, FS_Singleton
  <2>5. (IF timer[s] # "off" THEN 1 ELSE 0) + (IF timerPc[s] \in {"lock", "push"} THEN 1 ELSE 0) + Cardinality(Q) <= 1
    BY <2>3, <2>4 DEF Armed, Fired
  <2>6. QED
    BY <2>5 DEF Q
<1>4. QED
  BY <1>2, <1>3

(* A task never has two chains of timer events: the registered timer, the  *)
(* callback that has fired and not yet scheduled and the timer event in    *)
(* the queue exclude each other, so no step of the ramp is taken twice.    *)
THEOREM OneTimerChainCorrect == Spec => []OneTimerChain
<1>1. Init => Typed /\ OneChain
  <2>1. SUFFICES ASSUME Init, NEW s \in Tasks PROVE Chain(s)
    BY TypedInit DEF OneChain
  <2>2. timer[s] = "off" /\ timerPc[s] = "idle" /\ pending[s] = <<>>
    BY <2>1 DEF Init, TaskInit
  <2>3. DOMAIN pending[s] = {}
    BY <2>2
  <2>4. QED
    BY <2>2, <2>3 DEF Chain, Armed, Fired
<1>2. Typed /\ OneChain /\ [Next]_vars => Typed' /\ OneChain'
  BY TypedStep, ChainStep
<1>3. Typed /\ OneChain => OneTimerChain
  BY ChainCounted
<1>4. QED
  BY <1>1, <1>2, <1>3, PTL DEF Spec

-------------------------------------------------------------------------------
(* Counting the drains of a task in a prefix of the pool's queue.          *)
OneIf(b) == IF b THEN 1 ELSE 0
DrainsIn(q, s, k) == {i \in 1..k : q[i] = Drain(s)}
Count(q, s, k) == Cardinality(DrainsIn(q, s, k))

LEMMA CountType ==
    ASSUME NEW q \in Seq(PoolTask), NEW s \in Tasks, NEW k \in Nat
    PROVE  Count(q, s, k) \in Nat /\ IsFiniteSet(DrainsIn(q, s, k))
<1>1. IsFiniteSet(1..k)
  BY FS_Interval
<1>2. DrainsIn(q, s, k) \in SUBSET (1..k)
  BY DEF DrainsIn
<1>3. QED
  BY <1>1, <1>2, FS_Subset, FS_CardinalityType DEF Count

LEMMA CountEmpty ==
    ASSUME NEW q, NEW s PROVE Count(q, s, 0) = 0
<1>1. DrainsIn(q, s, 0) = {}
  BY DEF DrainsIn
<1>2. QED
  BY <1>1, FS_EmptySet DEF Count

(* A post leaves the prefixes alone and adds a drain at the end.           *)
LEMMA CountAppend ==
    ASSUME NEW q \in Seq(PoolTask), NEW x \in PoolTask, NEW s \in Tasks
    PROVE  /\ \A k \in 0..Len(q) : Count(Append(q, x), s, k) = Count(q, s, k)
           /\ Count(Append(q, x), s, Len(q) + 1) = Count(q, s, Len(q)) + OneIf(x = Drain(s))
<1>1. /\ Len(q) \in Nat
      /\ \A i \in 1..Len(q) : Append(q, x)[i] = q[i]
      /\ Append(q, x)[Len(q) + 1] = x
  BY LenProperties, AppendProperties
<1>2. ASSUME NEW k \in 0..Len(q) PROVE Count(Append(q, x), s, k) = Count(q, s, k)
  <2>1. DrainsIn(Append(q, x), s, k) = DrainsIn(q, s, k)
    BY <1>1 DEF DrainsIn
  <2>2. QED
    BY <2>1 DEF Count
<1>3. CASE x = Drain(s)
  <2>1. DrainsIn(Append(q, x), s, Len(q) + 1) = DrainsIn(q, s, Len(q)) \cup {Len(q) + 1}
    BY <1>1, <1>3 DEF DrainsIn
  <2>2. Len(q) + 1 \notin DrainsIn(q, s, Len(q))
    BY <1>1 DEF DrainsIn
  <2>3. IsFiniteSet(DrainsIn(q, s, Len(q)))
    BY <1>1, CountType
  <2>4. QED
    BY <1>2, <1>3, <2>1, <2>2, <2>3, FS_AddElement DEF Count, OneIf
<1>4. CASE x # Drain(s)
  <2>1. DrainsIn(Append(q, x), s, Len(q) + 1) = DrainsIn(q, s, Len(q))
    BY <1>1, <1>4 DEF DrainsIn
  <2>2. Count(q, s, Len(q)) \in Nat
    BY <1>1, CountType
  <2>3. QED
    BY <1>2, <1>4, <2>1, <2>2 DEF Count, OneIf
<1>5. QED
  BY <1>3, <1>4

(* Taking the first of the queue takes a drain when it is one.             *)
LEMMA CountTail ==
    ASSUME NEW q \in Seq(PoolTask), q # <<>>, NEW s \in Tasks, NEW k \in 1..Len(q)
    PROVE  Count(Tail(q), s, k - 1) = Count(q, s, k) - OneIf(q[1] = Drain(s))
<1> DEFINE D == DrainsIn(q, s, k)
           E == DrainsIn(Tail(q), s, k - 1)
           f == [i \in E |-> i + 1]
<1>1. /\ Len(q) \in Nat /\ Tail(q) \in Seq(PoolTask) /\ Len(Tail(q)) = Len(q) - 1
      /\ \A i \in 1..(Len(q) - 1) : Tail(q)[i] = q[i + 1]
  <2>1. Len(q) \in Nat /\ Len(q) >= 1
    OBVIOUS
  <2>2. QED
    BY <2>1, HeadTailProperties
<1>2. k \in Nat /\ k >= 1 /\ k <= Len(q) /\ k - 1 \in Nat
  BY <1>1
<1>3. IsFiniteSet(D) /\ Cardinality(D) \in Nat /\ IsFiniteSet(E) /\ Cardinality(E) \in Nat
  BY <1>1, <1>2, CountType DEF Count
<1>4. \A i \in E : i \in Nat /\ i >= 1 /\ i + 1 \in D \ {1}
  BY <1>1, <1>2 DEF DrainsIn
<1>5. \A j \in D \ {1} : j \in Nat /\ j - 1 \in E
  BY <1>1, <1>2 DEF DrainsIn
<1>6. 1 \in D <=> q[1] = Drain(s)
  BY <1>2 DEF DrainsIn
<1> HIDE DEF D, E
<1>7. f \in Bijection(E, D \ {1})
  <2>1. f \in [E -> D \ {1}]
    BY <1>4
  <2>2. \A i, j \in E : f[i] = f[j] => i = j
    BY <1>4
  <2>3. \A j \in D \ {1} : \E i \in E : f[i] = j
    <3>1. TAKE j \in D \ {1}
    <3>2. j - 1 \in E /\ f[j - 1] = j
      BY <1>5
    <3>3. QED
      BY <3>2
  <2> HIDE DEF f
  <2>4. f \in Injection(E, D \ {1})
    BY <2>1, <2>2, Fun_IsInj
  <2>5. f \in Surjection(E, D \ {1})
    BY <2>1, <2>3, Fun_IsSurj
  <2>6. QED
    BY <2>4, <2>5 DEF Bijection
<1>8. Cardinality(D \ {1}) = Cardinality(E)
  BY <1>3, <1>7, FS_Bijection DEF ExistsBijection
<1>9. Cardinality(D \ {1}) = IF 1 \in D THEN Cardinality(D) - 1 ELSE Cardinality(D)
  BY <1>3, FS_RemoveElement
<1>10. Cardinality(E) = Cardinality(D) - OneIf(q[1] = Drain(s))
  BY <1>3, <1>6, <1>8, <1>9 DEF OneIf
<1>11. QED
  BY <1>10 DEF Count, D, E

(* Products by the limit of a drain.                                       *)
LEMMA Differences == \A a, b \in Nat : b < a => a - b \in Nat
OBVIOUS

LEMMA Products ==
    ASSUME NEW m \in Nat, m >= 1, NEW d \in Nat
    PROVE  m * d \in Nat /\ m * d >= d /\ (d >= 1 => m * (d - 1) = m * d - m)
<1>1. m * d \in Nat /\ m * d >= d
  <2>1. (m - 1) * d >= 0 /\ m * d = (m - 1) * d + d
    OBVIOUS
  <2>2. QED
    BY <2>1
<1>2. m * (d - 1) = m * d - m
  OBVIOUS
<1>3. QED
  BY <1>1, <1>2

-------------------------------------------------------------------------------
(* Who holds a task, and where it is in its life.                          *)
TimerHolds(s) == timerPc[s] \in {"push", "post", "drop"} => "timer" \in refs[s]
SensorHolds == sensorPc \in {"set", "push", "post", "drop"} => "sensor" \in refs[sensorTask]
OpHolds == op.pc \in {"startPost", "publish", "stopPost", "reset"} => "manager" \in refs[op.task]
ManagerHolds == taskInProc # NoTask => "manager" \in refs[taskInProc]
NoneHolds(s) == life[s] # "alive" => refs[s] = {}
Held ==
    /\ \A s \in Tasks : NoneHolds(s) /\ TimerHolds(s)
    /\ SensorHolds /\ OpHolds /\ ManagerHolds

(* A wake-up is in the queue once, while its task waits for it.            *)
WakeWaits ==
    \A s \in Tasks : \A k \in 1..Len(tasks) : tasks[k] = Wake(s) =>
        /\ life[s] = "wait"
        /\ \A j \in 1..Len(tasks) : tasks[j] = Wake(s) => j = k

LEMMA QueueTasks ==
    /\ \A r, s \in Tasks : Drain(r) # Wake(s) /\ (Wake(r) = Wake(s) => r = s) /\ (Drain(r) = Drain(s) => r = s)
    /\ \A x \in PoolTask : /\ x.task \in Tasks
                           /\ x.kind = "wake" => x = Wake(x.task)
                           /\ x.kind = "drain" => x = Drain(x.task)
                           /\ x.kind \in {"wake", "drain"}
BY DEF Drain, Wake, PoolTask

(* What is at the head of the queue when it is taken.                      *)
LEMMA Taken ==
    ASSUME PoolTyped, tasks # <<>>
    PROVE  /\ Len(tasks) \in Nat /\ Len(tasks) >= 1 /\ Head(tasks) = tasks[1] /\ tasks[1] \in PoolTask
           /\ Head(tasks).task \in Tasks
           /\ Head(tasks).kind = "wake" => tasks[1] = Wake(Head(tasks).task)
           /\ Head(tasks).kind = "drain" => tasks[1] = Drain(Head(tasks).task)
           /\ Tail(tasks) \in Seq(PoolTask) /\ Len(Tail(tasks)) = Len(tasks) - 1
           /\ \A i \in 1..(Len(tasks) - 1) : Tail(tasks)[i] = tasks[i + 1]
<1>1. Len(tasks) \in Nat /\ Len(tasks) >= 1 /\ Head(tasks) = tasks[1] /\ tasks[1] \in PoolTask
  BY DEF PoolTyped
<1>2. /\ Tail(tasks) \in Seq(PoolTask) /\ Len(Tail(tasks)) = Len(tasks) - 1
      /\ \A i \in 1..Len(Tail(tasks)) : Tail(tasks)[i] = tasks[i + 1]
  BY <1>1, HeadTailProperties DEF PoolTyped
<1>3. QED
  BY <1>1, <1>2, QueueTasks

(* How the queue changes.                                                  *)
LEMMA QueueMoves ==
    ASSUME Typed, Next
    PROVE  \/ tasks' = tasks
           \/ \E s \in Tasks : tasks' = Append(tasks, Drain(s))
           \/ tasks # <<>> /\ tasks' = Tail(tasks) /\ running = NoTask /\ (TakeDrain \/ TakeWake)
           \/ \E s \in Tasks : tasks' = Append(tasks, Wake(s)) /\ DestructEnsure(s)
<1>1. CASE UNCHANGED poolVars
  BY <1>1 DEF poolVars
<1>2. CASE StartPost \/ StopPost
  BY <1>2 DEF StartPost, StopPost, Post, Typed, HoldersKnown
<1>3. CASE TakeDrain \/ TakeWake
  BY <1>3 DEF TakeDrain, TakeWake
<1>4. CASE HandleEvent
  BY <1>4, EventHandled DEF Typed
<1>5. CASE DrainEnds
  BY <1>5 DEF DrainEnds
<1>6. CASE SensorPost
  BY <1>6 DEF SensorPost, Post, Typed, HoldersKnown
<1>7. ASSUME NEW s \in Tasks, TimerPost(s) PROVE tasks' = Append(tasks, Drain(s))
  BY <1>7 DEF TimerPost, Post
<1>8. ASSUME NEW s \in Tasks, DestructEnsure(s) PROVE tasks' = Append(tasks, Wake(s))
  BY <1>8 DEF DestructEnsure
<1>9. QED
  BY <1>1, <1>2, <1>3, <1>4, <1>5, <1>6, <1>7, <1>8, PoolChanges DEF PoolStep

(* Where a task of the queue after the step was before it.                 *)
LEMMA QueuedBefore ==
    ASSUME Typed, Next, NEW k \in 1..Len(tasks')
    PROVE  \/ k \in 1..Len(tasks) /\ tasks'[k] = tasks[k] /\ ~(TakeDrain \/ TakeWake)
           \/ /\ k = Len(tasks) + 1
              /\ \E s \in Tasks : tasks'[k] = Drain(s) \/ (tasks'[k] = Wake(s) /\ DestructEnsure(s))
           \/ k + 1 \in 1..Len(tasks) /\ tasks'[k] = tasks[k + 1] /\ tasks # <<>> /\ (TakeDrain \/ TakeWake)
<1>1. PoolTyped
  BY TypeParts DEF Typed
<1>2. Len(tasks) \in Nat
  BY <1>1 DEF PoolTyped
<1>3. ASSUME NEW x \in PoolTask, tasks' = Append(tasks, x)
      PROVE  \/ k \in 1..Len(tasks) /\ tasks'[k] = tasks[k]
             \/ k = Len(tasks) + 1 /\ tasks'[k] = x
  BY <1>1, <1>2, <1>3, AppendProperties DEF PoolTyped
<1>4. ~(TakeDrain \/ TakeWake) \/ (tasks # <<>> /\ tasks' = Tail(tasks))
  BY DEF TakeDrain, TakeWake
<1>5. CASE tasks # <<>> /\ tasks' = Tail(tasks) /\ (TakeDrain \/ TakeWake)
  BY <1>1, <1>5, Taken
<1>6. ASSUME ~(TakeDrain \/ TakeWake)
      PROVE  \/ tasks' = tasks
             \/ \E s \in Tasks : tasks' = Append(tasks, Drain(s))
             \/ \E s \in Tasks : tasks' = Append(tasks, Wake(s)) /\ DestructEnsure(s)
  BY <1>6, QueueMoves
<1>7. QED
  BY <1>2, <1>3, <1>4, <1>5, <1>6, PoolTasks

(* How a task's life goes on.                                              *)
LEMMA LifeMoves ==
    ASSUME Typed, Held, WakeWaits, Next, NEW s \in Tasks
    PROVE  \/ life'[s] = life[s]
           \/ /\ life[s] = "none" /\ life'[s] = "alive" /\ refs'[s] = {"manager"}
              /\ \E x \in Executors : Begin(x)
              /\ pending'[s] = Append(pending[s], "E_START")
              /\ op'.pc = "startPost" /\ op'.task = s
           \/ life[s] = "alive" /\ life'[s] = "shutdown" /\ refs'[s] = {}
           \/ life[s] = "shutdown" /\ life'[s] = "wait" /\ DestructEnsure(s)
           \/ life[s] = "wait" /\ life'[s] = "woken" /\ TakeWake /\ tasks[1] = Wake(s) /\ tasks # <<>>
           \/ life[s] = "woken" /\ life'[s] = "dead" /\ DestructDone(s)
<1>1. LifeTyped /\ PoolTyped /\ MachineTyped /\ \A r \in Tasks : NoneHolds(r)
  BY TypeParts DEF Typed, Held
<1>2. ASSUME NEW r \in Tasks, NEW h \in Holder, DropRef(r, h)
      PROVE  life'[s] = life[s] \/ (life[s] = "alive" /\ life'[s] = "shutdown" /\ refs'[s] = {})
  <2>1. CASE s # r \/ refs[r] # {h}
    BY <1>1, <1>2, <2>1 DEF DropRef, LifeTyped
  <2>2. CASE s = r /\ refs[r] = {h}
    BY <1>1, <1>2, <2>2 DEF DropRef, LifeTyped, NoneHolds
  <2>3. QED
    BY <2>1, <2>2
<1>3. CASE UNCHANGED lifeVars
  BY <1>3 DEF lifeVars
<1>4. ASSUME NEW x \in Executors, Begin(x)
      PROVE  \/ life'[s] = life[s]
             \/ /\ life[s] = "none" /\ life'[s] = "alive" /\ refs'[s] = {"manager"}
                /\ pending'[s] = Append(pending[s], "E_START")
                /\ op'.pc = "startPost" /\ op'.task = s
  <2>1. PICK r \in Tasks : /\ life[r] = "none"
                           /\ life' = [life EXCEPT ![r] = "alive"]
                           /\ refs' = [refs EXCEPT ![r] = {"manager"}]
                           /\ Push(r, "E_START")
                           /\ op' = [pc |-> "startPost", executor |-> x, task |-> r]
    BY <1>4 DEF Begin
  <2>2. CASE r # s
    BY <1>1, <2>1, <2>2 DEF LifeTyped
  <2>3. CASE r = s
    BY <1>1, <2>1, <2>3 DEF LifeTyped, MachineTyped, Push
  <2>4. QED
    BY <2>2, <2>3
<1>5. CASE Reset \/ SensorDrop
  BY <1>2, <1>5 DEF Reset, SensorDrop, Typed, HoldersKnown, Holder
<1>6. CASE TakeWake
  <2>1. /\ tasks # <<>> /\ Head(tasks).kind = "wake" /\ life' = [life EXCEPT ![Head(tasks).task] = "woken"]
        /\ Head(tasks).task \in Tasks /\ tasks[1] = Wake(Head(tasks).task)
    BY <1>1, <1>6, Taken DEF TakeWake
  <2>2. 1 \in 1..Len(tasks)
    BY <1>1, <2>1, Taken
  <2>3. QED
    BY <1>1, <1>6, <2>1, <2>2 DEF LifeTyped, WakeWaits
<1>7. CASE SensorCopy
  BY <1>7 DEF SensorCopy
<1>8. ASSUME NEW r \in Tasks, TimerLock(r) PROVE life'[s] = life[s]
  BY <1>8 DEF TimerLock
<1>9. ASSUME NEW r \in Tasks, TimerDrop(r)
      PROVE  life'[s] = life[s] \/ (life[s] = "alive" /\ life'[s] = "shutdown" /\ refs'[s] = {})
  BY <1>2, <1>9 DEF TimerDrop, Holder
<1>10. ASSUME NEW r \in Tasks, DestructEnsure(r)
       PROVE  life'[s] = life[s] \/ (r = s /\ life[s] = "shutdown" /\ life'[s] = "wait")
  BY <1>1, <1>10 DEF DestructEnsure, LifeTyped
<1>11. ASSUME NEW r \in Tasks, DestructDone(r)
       PROVE  life'[s] = life[s] \/ (r = s /\ life[s] = "woken" /\ life'[s] = "dead")
  BY <1>1, <1>11 DEF DestructDone, LifeTyped
<1>12. QED
  BY <1>3, <1>4, <1>5, <1>6, <1>7, <1>8, <1>9, <1>10, <1>11, LifeChanges

LEMMA WakeWaitsStep == ASSUME Typed, Held, WakeWaits, Next PROVE WakeWaits'
<1> SUFFICES ASSUME NEW s \in Tasks, NEW k \in 1..Len(tasks'), tasks'[k] = Wake(s)
             PROVE  life'[s] = "wait" /\ \A j \in 1..Len(tasks') : tasks'[j] = Wake(s) => j = k
  BY DEF WakeWaits
<1>1. PoolTyped /\ Len(tasks) \in Nat
  BY TypeParts DEF Typed, PoolTyped
<1>2. CASE TakeDrain \/ TakeWake
  <2>1. tasks # <<>> /\ k + 1 \in 1..Len(tasks) /\ tasks[k + 1] = Wake(s)
    BY <1>2, QueuedBefore DEF TakeDrain, TakeWake
  <2>2. life[s] = "wait" /\ \A j \in 1..Len(tasks) : tasks[j] = Wake(s) => j = k + 1
    BY <2>1 DEF WakeWaits
  <2>3. tasks[1] # Wake(s)
    <3>1. 1 \in 1..Len(tasks) /\ k + 1 # 1
      BY <1>1, <2>1
    <3>2. QED
      BY <2>2, <3>1
  <2>4. ~(\E x \in Executors : Begin(x)) /\ life'[s] = "wait"
    <3>1. life'[s] = life[s]
      BY <2>2, <2>3, LifeMoves
    <3>2. QED
      BY <2>2, <3>1, <1>2 DEF Begin, TakeDrain, TakeWake, poolVars
  <2>5. ASSUME NEW j \in 1..Len(tasks'), tasks'[j] = Wake(s) PROVE j = k
    <3>1. j + 1 \in 1..Len(tasks) /\ tasks[j + 1] = Wake(s)
      BY <1>2, <2>5, QueuedBefore DEF TakeDrain, TakeWake
    <3>2. j + 1 = k + 1
      BY <2>2, <3>1
    <3>3. j \in Int /\ k \in Int
      OBVIOUS
    <3>4. QED
      BY <3>2, <3>3
  <2>6. QED
    BY <2>4, <2>5
<1>3. CASE ~(TakeDrain \/ TakeWake)
  <2>1. ASSUME NEW j \in 1..Len(tasks'), tasks'[j] = Wake(s)
        PROVE  (j \in 1..Len(tasks) /\ tasks[j] = Wake(s)) \/ (j = Len(tasks) + 1 /\ DestructEnsure(s))
    BY <1>3, <2>1, QueuedBefore, QueueTasks
  <2>2. CASE DestructEnsure(s)
    <3>1. life[s] = "shutdown" /\ life'[s] = "wait"
      BY <2>2, TypeParts DEF DestructEnsure, Typed, LifeTyped
    <3>2. \A j \in 1..Len(tasks) : tasks[j] # Wake(s)
      BY <3>1 DEF WakeWaits
    <3>3. QED
      BY <2>1, <3>1, <3>2
  <2>3. CASE ~DestructEnsure(s)
    <3>1. k \in 1..Len(tasks) /\ tasks[k] = Wake(s)
      BY <2>1, <2>3
    <3>2. life[s] = "wait" /\ \A j \in 1..Len(tasks) : tasks[j] = Wake(s) => j = k
      BY <3>1 DEF WakeWaits
    <3>3. life'[s] = "wait"
      BY <1>3, <3>2, LifeMoves
    <3>4. QED
      BY <2>1, <2>3, <3>2, <3>3
  <2>4. QED
    BY <2>2, <2>3
<1>4. QED
  BY <1>2, <1>3

(* A reference is lost only where its holder lets go of it.                *)
LEMMA RefsLost ==
    ASSUME Typed, Held, Next, NEW s \in Tasks, NEW h \in refs[s], h \notin refs'[s]
    PROVE  \/ h = "timer" /\ TimerDrop(s)
           \/ h = "sensor" /\ SensorDrop /\ sensorTask = s
           \/ h = "manager" /\ Reset /\ op.task = s
<1>1. LifeTyped /\ \A r \in Tasks : NoneHolds(r)
  BY TypeParts DEF Typed, Held
<1>2. ASSUME NEW r \in Tasks, NEW g \in Holder, DropRef(r, g) PROVE r = s /\ g = h
  BY <1>1, <1>2 DEF DropRef, LifeTyped
<1>3. CASE UNCHANGED lifeVars
  BY <1>3 DEF lifeVars
<1>4. ASSUME NEW x \in Executors, Begin(x) PROVE FALSE
  BY <1>1, <1>4 DEF Begin, LifeTyped, NoneHolds
<1>5. ASSUME Reset PROVE h = "manager" /\ op.task = s
  BY <1>2, <1>5 DEF Reset, Typed, HoldersKnown, Holder
<1>6. ASSUME SensorDrop PROVE h = "sensor" /\ sensorTask = s
  BY <1>2, <1>6 DEF SensorDrop, Typed, HoldersKnown, Holder
<1>7. ASSUME SensorCopy PROVE FALSE
  BY <1>1, <1>7 DEF SensorCopy, LifeTyped
<1>8. ASSUME TakeWake PROVE FALSE
  BY <1>8 DEF TakeWake
<1>9. ASSUME NEW r \in Tasks, TimerLock(r) \/ DestructEnsure(r) \/ DestructDone(r) PROVE FALSE
  BY <1>1, <1>9 DEF TimerLock, DestructEnsure, DestructDone, LifeTyped
<1>10. ASSUME NEW r \in Tasks, TimerDrop(r) PROVE h = "timer" /\ r = s
  BY <1>2, <1>10 DEF TimerDrop, Holder
<1>11. QED
  BY <1>3, <1>4, <1>5, <1>6, <1>7, <1>8, <1>9, <1>10, LifeChanges

LEMMA HeldStep == ASSUME Typed, Held, WakeWaits, Next PROVE Held'
<1>1. LifeTyped /\ TimerTyped /\ PoolTyped
  BY TypeParts DEF Typed
<1>2. ASSUME NEW s \in Tasks PROVE NoneHolds(s)'
  <2>1. SUFFICES ASSUME life'[s] # "alive" PROVE refs'[s] = {}
    BY DEF NoneHolds
  <2>2. (life'[s] = "shutdown" /\ refs'[s] = {}) \/ life[s] # "alive"
    BY <2>1, LifeMoves
  <2>3. CASE life[s] # "alive"
    <3>1. refs[s] = {}
      BY <2>3 DEF Held, NoneHolds
    <3>2. CASE UNCHANGED lifeVars
      BY <3>1, <3>2 DEF lifeVars
    <3>3. ASSUME NEW r \in Tasks, NEW h \in Holder, DropRef(r, h) PROVE refs'[s] = {}
      BY <1>1, <3>1, <3>3 DEF DropRef, LifeTyped
    <3>4. CASE Reset \/ SensorDrop
      BY <3>3, <3>4 DEF Reset, SensorDrop, Typed, HoldersKnown, Holder
    <3>5. ASSUME NEW x \in Executors, Begin(x) PROVE refs'[s] = {}
      BY <1>1, <2>1, <3>1, <3>5 DEF Begin, LifeTyped
    <3>6. CASE TakeWake \/ SensorCopy
      BY <1>1, <2>3, <3>1, <3>6 DEF TakeWake, SensorCopy, LifeTyped
    <3>7. ASSUME NEW r \in Tasks, TimerLock(r) \/ DestructEnsure(r) \/ DestructDone(r) PROVE refs'[s] = {}
      BY <1>1, <2>3, <3>1, <3>7 DEF TimerLock, DestructEnsure, DestructDone, LifeTyped
    <3>8. ASSUME NEW r \in Tasks, TimerDrop(r) PROVE refs'[s] = {}
      BY <3>3, <3>8 DEF TimerDrop, Holder
    <3>9. QED
      BY <3>2, <3>4, <3>5, <3>6, <3>7, <3>8, LifeChanges
  <2>4. QED
    BY <2>2, <2>3
<1>3. ASSUME NEW s \in Tasks PROVE TimerHolds(s)'
  <2>1. SUFFICES ASSUME timerPc'[s] \in {"push", "post", "drop"} PROVE "timer" \in refs'[s]
    BY DEF TimerHolds
  <2>2. CASE timerPc[s] \in {"push", "post", "drop"}
    <3>1. "timer" \in refs[s]
      BY <2>2 DEF Held, TimerHolds
    <3>2. ~TimerDrop(s)
      BY <1>1, <2>1 DEF TimerDrop, AfterDrop, TimerTyped
    <3>3. QED
      BY <3>1, <3>2, RefsLost
  <2>3. CASE timerPc[s] \notin {"push", "post", "drop"}
    <3>1. TimerLock(s) /\ life[s] = "alive"
      BY <1>1, <2>1, <2>3, TimerChanges DEF timerVars, HandleEvent, TimerStep, TimerFires, TimerLock, TimerPush,
         TimerPost, TimerDrop, AfterDrop, TimerReturn, DestructEnsure, TimerTyped
    <3>2. QED
      BY <1>1, <3>1 DEF TimerLock, LifeTyped
  <2>4. QED
    BY <2>2, <2>3
<1>4. SensorHolds'
  <2>1. SUFFICES ASSUME sensorPc' \in {"set", "push", "post", "drop"} PROVE "sensor" \in refs'[sensorTask']
    BY DEF SensorHolds
  <2>2. CASE sensorPc \in {"set", "push", "post", "drop"}
    <3>1. "sensor" \in refs[sensorTask] /\ sensorTask \in Tasks
      BY <2>2 DEF Held, SensorHolds, Typed, HoldersKnown
    <3>2. ~SensorDrop
      BY <2>1 DEF SensorDrop, AfterDrop
    <3>3. sensorTask' = sensorTask
      BY <2>2, <3>2, SensorChanges DEF sensorVars, SensorReport, SensorStep, SensorLoad, SensorCopy, SensorSet,
         SensorPush, SensorPost, SensorReturn
    <3>4. QED
      BY <3>1, <3>2, <3>3, RefsLost
  <2>3. CASE sensorPc \notin {"set", "push", "post", "drop"}
    <3>1. SensorCopy /\ life[sensorTask] = "alive"
      BY <2>1, <2>3, SensorChanges DEF sensorVars, SensorReport, SensorStep, SensorLoad, SensorCopy, SensorSet,
         SensorPush, SensorPost, SensorDrop, SensorReturn
    <3>2. sensorTask \in Tasks /\ sensorTask' = sensorTask
      BY <3>1 DEF SensorCopy, Typed, HoldersKnown
    <3>3. QED
      BY <1>1, <3>1, <3>2 DEF SensorCopy, LifeTyped
  <2>4. QED
    BY <2>2, <2>3
<1>5. OpHolds' /\ ManagerHolds'
  <2>1. ManagerTyped /\ ManagerTyped'
    BY TypeParts, ManagerKept DEF Typed
  <2>2. CASE UNCHANGED managerVars
    <3>1. op' = op /\ taskInProc' = taskInProc /\ ~Reset
      BY <2>1, <2>2 DEF managerVars, Reset, Idle, ManagerTyped
    <3>2. ASSUME NEW s \in Tasks, "manager" \in refs[s] PROVE "manager" \in refs'[s]
      BY <3>1, <3>2, RefsLost
    <3>3. QED
      BY <2>1, <3>1, <3>2 DEF Held, OpHolds, ManagerHolds, ManagerTyped, Typed, HoldersKnown
  <2>3. ASSUME NEW x \in Executors, Begin(x) PROVE OpHolds' /\ ManagerHolds'
    <3>1. PICK s \in Tasks : refs' = [refs EXCEPT ![s] = {"manager"}] /\ op' = [pc |-> "startPost", executor |-> x, task |-> s]
      BY <2>3 DEF Begin
    <3>2. taskInProc' = NoTask
      BY <2>3 DEF Begin
    <3>3. QED
      BY <1>1, <3>1, <3>2 DEF OpHolds, ManagerHolds, LifeTyped
  <2>4. ASSUME NEW x \in Executors, End(x) PROVE OpHolds' /\ ManagerHolds'
    <3>1. refs' = refs /\ taskInProc' = taskInProc
      BY <2>4 DEF End, lifeVars
    <3>2. op' = op \/ (taskInProc # NoTask /\ op' = [pc |-> "stopPost", executor |-> x, task |-> taskInProc])
      BY <2>4 DEF End
    <3>3. QED
      BY <3>1, <3>2 DEF Held, OpHolds, ManagerHolds
  <2>5. CASE StartPost \/ StopPost
    <3>1. refs' = refs /\ taskInProc' = taskInProc /\ op'.task = op.task /\ op.pc \in {"startPost", "stopPost"}
      BY <2>1, <2>5 DEF StartPost, StopPost, lifeVars, ManagerTyped
    <3>2. QED
      BY <3>1 DEF Held, OpHolds, ManagerHolds
  <2>6. CASE Publish
    <3>1. refs' = refs /\ taskInProc' = op.task /\ op' = Idle /\ op.pc = "publish"
      BY <2>6 DEF Publish, taskVars, lifeVars
    <3>2. QED
      BY <3>1 DEF Held, OpHolds, ManagerHolds, Idle
  <2>7. CASE Reset
    <3>1. taskInProc' = NoTask /\ op'.pc \in {"idle", "destruct"}
      BY <2>1, <2>7 DEF Reset, Idle, ManagerTyped
    <3>2. QED
      BY <3>1 DEF OpHolds, ManagerHolds
  <2>8. CASE Return
    <3>1. refs' = refs /\ taskInProc' = taskInProc /\ op' = Idle
      BY <2>8 DEF Return, taskVars, lifeVars
    <3>2. QED
      BY <3>1 DEF Held, OpHolds, ManagerHolds, Idle
  <2>9. QED
    BY <2>2, <2>3, <2>4, <2>5, <2>6, <2>7, <2>8, Steps DEF ManagerStep
<1>6. QED
  BY <1>2, <1>3, <1>4, <1>5 DEF Held

-------------------------------------------------------------------------------
(* The queue of a machine: E_START is handled first, and the stop of a     *)
(* task that the manager lets go of is handled or in the queue.            *)
StartFirst(s) == state[s] = "S_INIT" => pending[s] # <<>> /\ pending[s][1] = "E_START"
Started == \A s \in Tasks : (life[s] = "none" => pending[s] = <<>>) /\ (life[s] # "none" => StartFirst(s))
StopAt(s, i) == i \in 1..Len(pending[s]) /\ pending[s][i] = "E_STOP"
StopComing(s) == state[s] = "S_END" \/ \E i \in Nat : StopAt(s, i)
LetGo(s) == "manager" \notin refs[s] \/ (op.task = s /\ op.pc \in {"stopPost", "reset"})
StopScheduled == \A s \in Tasks : life[s] # "none" /\ LetGo(s) => StopComing(s)

LEMMA MachineMoves ==
    ASSUME Typed, Held, Next, NEW s \in Tasks
    PROVE  \/ state'[s] = state[s] /\ pending'[s] = pending[s]
           \/ /\ state'[s] = state[s] /\ life'[s] = "alive"
              /\ \E e \in Event : /\ pending'[s] = Append(pending[s], e)
                                  /\ life[s] = "none" => e = "E_START"
                                  /\ \/ e # LIGHT
                                     \/ SensorPush /\ sensorTask = s
                                     \/ TimerPush(s) /\ timerEvent[s] = LIGHT
           \/ HandleEvent /\ running = s
           \/ DestructDone(s) /\ state'[s] = state[s] /\ pending'[s] = <<>>
<1>1. MachineTyped /\ LifeTyped /\ TypeOK /\ \A r \in Tasks : NoneHolds(r) /\ TimerHolds(r)
  BY TypeParts DEF Typed, Held
<1>2. ASSUME NEW r \in Tasks, NEW e \in Event, Push(r, e), UNCHANGED <<state, life>>, life[r] = "alive"
      PROVE  \/ state'[s] = state[s] /\ pending'[s] = pending[s]
             \/ /\ state'[s] = state[s] /\ life'[s] = "alive"
                /\ pending'[s] = Append(pending[s], e) /\ life[s] # "none" /\ r = s
  BY <1>1, <1>2 DEF Push, MachineTyped
<1>3. CASE UNCHANGED machineVars
  BY <1>3 DEF machineVars
<1>4. ASSUME NEW x \in Executors, Begin(x)
      PROVE  \/ state'[s] = state[s] /\ pending'[s] = pending[s]
             \/ /\ state'[s] = state[s] /\ life'[s] = "alive"
                /\ pending'[s] = Append(pending[s], "E_START")
  BY <1>1, <1>4 DEF Begin, Push, MachineTyped, LifeTyped
<1>5. ASSUME NEW x \in Executors, End(x), taskInProc # NoTask
      PROVE  \/ state'[s] = state[s] /\ pending'[s] = pending[s]
             \/ /\ state'[s] = state[s] /\ life'[s] = "alive"
                /\ pending'[s] = Append(pending[s], "E_STOP") /\ life[s] # "none"
  <2>1. taskInProc \in Tasks /\ "manager" \in refs[taskInProc]
    BY <1>1, <1>5 DEF TypeOK, Held, ManagerHolds
  <2>2. life[taskInProc] = "alive"
    BY <1>1, <2>1 DEF NoneHolds
  <2>3. Push(taskInProc, "E_STOP") /\ UNCHANGED <<state, life>> /\ "E_STOP" \in Event
    BY <1>5 DEF End, lifeVars, Event
  <2>4. QED
    BY <1>2, <2>1, <2>2, <2>3
<1>6. ASSUME NEW x \in Executors, End(x), taskInProc = NoTask
      PROVE  state'[s] = state[s] /\ pending'[s] = pending[s]
  BY <1>6 DEF End
<1>7. CASE HandleEvent
  <2>1. CASE running = s
    BY <1>7, <2>1
  <2>2. CASE running # s
    BY <1>1, <1>7, <2>2, EventHandled DEF MachineTyped
  <2>3. QED
    BY <2>1, <2>2
<1>8. CASE SensorPush
  <2>1. sensorTask \in Tasks /\ "sensor" \in refs[sensorTask]
    BY <1>8 DEF SensorPush, Typed, HoldersKnown, Held, SensorHolds
  <2>2. life[sensorTask] = "alive"
    BY <1>1, <2>1 DEF NoneHolds
  <2>3. Push(sensorTask, LIGHT) /\ UNCHANGED <<state, life>> /\ LIGHT \in Event
    BY <1>8 DEF SensorPush, lifeVars, Event, LIGHT
  <2>4. QED
    BY <1>2, <1>8, <2>1, <2>2, <2>3
<1>9. ASSUME NEW r \in Tasks, TimerPush(r)
      PROVE  \/ state'[s] = state[s] /\ pending'[s] = pending[s]
             \/ /\ state'[s] = state[s] /\ life'[s] = "alive"
                /\ pending'[s] = Append(pending[s], timerEvent[r]) /\ life[s] # "none"
                /\ timerEvent[r] \in Event /\ r = s
  <2>1. "timer" \in refs[r] /\ timerEvent[r] \in Event
    BY <1>1, <1>9 DEF TimerPush, TimerHolds, Typed, HoldersKnown
  <2>2. life[r] = "alive"
    BY <1>1, <2>1 DEF NoneHolds
  <2>3. Push(r, timerEvent[r]) /\ UNCHANGED <<state, life>>
    BY <1>9 DEF TimerPush, lifeVars
  <2>4. QED
    BY <1>2, <2>1, <2>2, <2>3
<1>10. ASSUME NEW r \in Tasks, DestructDone(r)
       PROVE  \/ state'[s] = state[s] /\ pending'[s] = pending[s]
              \/ r = s /\ state'[s] = state[s] /\ pending'[s] = <<>>
  BY <1>1, <1>10 DEF DestructDone, MachineTyped
<1>11. "E_START" \in Event /\ "E_STOP" \in Event /\ "E_START" # LIGHT /\ "E_STOP" # LIGHT
  BY DEF Event, LIGHT
<1>12. QED
  BY <1>3, <1>4, <1>5, <1>6, <1>7, <1>8, <1>9, <1>10, <1>11, MachineChanges

(* The machine whose event is handled.                                     *)
LEMMA EventOf ==
    ASSUME Typed, Started, HandleEvent, NEW s \in Tasks, running = s
    PROVE  /\ life[s] # "none" /\ life'[s] = life[s] /\ state'[s] # "S_INIT"
           /\ state[s] = "S_END" => state'[s] = "S_END"
           /\ StopAt(s, 1) => state'[s] = "S_END"
           /\ \A i \in Nat : StopAt(s, i) /\ i # 1 => StopAt(s, i - 1)'
           /\ Len(pending[s]) \in Nat /\ Len(pending[s]) >= 1
           /\ \/ Len(pending'[s]) = Len(pending[s]) - 1 /\ tasks' = tasks
              \/ Len(pending'[s]) = Len(pending[s]) /\ tasks' = Append(tasks, Drain(s))
<1> DEFINE e == Head(pending[s])
           q == pending[s]
<1>1. TypeOK /\ pending \in [Tasks -> Seq(Event)] /\ state \in [Tasks -> State]
  BY DEF Typed, TypeOK
<1>2. PICK es \in Adds : /\ pending' = [pending EXCEPT ![s] = Tail(q) \o es]
                         /\ tasks' = IF es = <<>> THEN tasks ELSE Append(tasks, Drain(s))
  BY <1>1, EventHandled
<1>3. /\ pending[s] # <<>> /\ q \in Seq(Event) /\ e \in Event /\ state[s] \in State
      /\ state' = [state EXCEPT ![s] = NextState(state[s], e)]
  BY <1>1, EventHandled
<1> DEFINE r == Tail(q) \o es
<1>4. /\ e = q[1] /\ Len(q) \in Nat /\ Len(q) >= 1
      /\ Len(r) = Len(q) - 1 + Len(es) /\ Len(es) \in {0, 1}
      /\ \A i \in 1..(Len(q) - 1) : r[i] = q[i + 1]
  BY <1>3, QueueHandled
<1>5. pending'[s] = r /\ state'[s] = NextState(state[s], e)
  BY <1>1, <1>2, <1>3
<1>6. life[s] # "none" /\ life'[s] = life[s] /\ (state[s] = "S_INIT" => e = "E_START")
  BY <1>3, <1>4 DEF Started, StartFirst, HandleEvent, lifeVars
<1> HIDE DEF q, r, e
<1>7. NextState(state[s], e) # "S_INIT" /\ (state[s] = "S_END" => NextState(state[s], e) = "S_END")
      /\ (e = "E_STOP" => NextState(state[s], e) = "S_END")
  BY <1>3, <1>6, Table DEF State, Event, W2, WL, WD, IB, LIGHT, DELAY
<1>8. StopAt(s, 1) => e = "E_STOP"
  BY <1>4 DEF StopAt, q
<1>9. ASSUME NEW i \in Nat, StopAt(s, i), i # 1 PROVE StopAt(s, i - 1)'
  <2> DEFINE n == Len(q)
             m == Len(es)
             n2 == Len(r)
  <2>1. n \in Nat /\ (m = 0 \/ m = 1) /\ n2 = n - 1 + m /\ i \in 1..n /\ q[i] = "E_STOP"
    BY <1>4, <1>9 DEF StopAt, q
  <2>2. \A j \in 1..(n - 1) : r[j] = q[j + 1]
    BY <1>4
  <2> HIDE DEF n, m, n2
  <2>3. i - 1 \in 1..(n - 1) /\ i - 1 \in 1..n2 /\ (i - 1) + 1 = i
    BY <1>9, <2>1
  <2>4. i - 1 \in 1..n2 /\ r[i - 1] = "E_STOP"
    BY <2>1, <2>2, <2>3
  <2>5. QED
    BY <1>5, <2>4 DEF StopAt, n2
<1>10. \/ Len(r) = Len(q) - 1 /\ tasks' = tasks
       \/ Len(r) = Len(q) /\ tasks' = Append(tasks, Drain(s))
  <2>1. es = <<>> <=> Len(es) = 0
    BY DEF Adds
  <2> DEFINE n == Len(q)
             m == Len(es)
             n2 == Len(r)
  <2>2. n \in Nat /\ (m = 0 \/ m = 1) /\ n2 = n - 1 + m
    BY <1>4
  <2>3. (m = 0 => tasks' = tasks) /\ (m = 1 => tasks' = Append(tasks, Drain(s)))
    BY <1>2, <2>1
  <2> HIDE DEF n, m, n2
  <2>4. (n2 = n - 1 /\ tasks' = tasks) \/ (n2 = n /\ tasks' = Append(tasks, Drain(s)))
    BY <2>2, <2>3
  <2>5. QED
    BY <2>4 DEF n, n2
<1>11. QED
  BY <1>4, <1>5, <1>6, <1>7, <1>8, <1>9, <1>10 DEF q

LEMMA StartedStep == ASSUME Typed, Held, WakeWaits, Started, StoppedWhenDestroyed, Next PROVE Started'
<1> SUFFICES ASSUME NEW s \in Tasks
             PROVE  (life'[s] = "none" => pending'[s] = <<>>) /\ (life'[s] # "none" => StartFirst(s)')
  BY DEF Started
<1>1. MachineTyped /\ pending[s] \in Seq(Event) /\ "E_START" \in Event
  BY TypeParts DEF Typed, MachineTyped, Event
<1>2. ASSUME NEW e \in Event, pending'[s] = Append(pending[s], e)
      PROVE  /\ pending'[s] # <<>>
             /\ pending[s] # <<>> => pending'[s][1] = pending[s][1]
             /\ pending[s] = <<>> => pending'[s][1] = e
  <2>1. /\ Len(pending[s]) \in Nat /\ Len(pending'[s]) = Len(pending[s]) + 1
        /\ \A i \in 1..Len(pending[s]) : pending'[s][i] = pending[s][i]
        /\ pending'[s][Len(pending[s]) + 1] = e
    BY <1>1, <1>2, QueuePushed
  <2>2. pending'[s] # <<>>
    BY <2>1
  <2>3. CASE pending[s] = <<>>
    BY <2>1, <2>2, <2>3
  <2>4. CASE pending[s] # <<>>
    <3>1. 1 \in 1..Len(pending[s])
      BY <1>1, <2>4
    <3>2. QED
      BY <2>1, <2>2, <2>4, <3>1
  <2>5. QED
    BY <2>3, <2>4
<1>3. CASE life[s] = "none" /\ life'[s] # "none"
  <2>1. pending'[s] = Append(pending[s], "E_START") /\ pending[s] = <<>>
    BY <1>3, LifeMoves DEF Started
  <2>2. QED
    BY <1>1, <1>2, <1>3, <2>1 DEF StartFirst
<1>4. CASE life[s] = "none" /\ life'[s] = "none"
  <2>1. pending[s] = <<>>
    BY <1>4 DEF Started
  <2>2. ~(HandleEvent /\ running = s)
    BY <1>4, EventOf
  <2>3. pending'[s] = <<>>
    BY <1>4, <2>1, <2>2, MachineMoves
  <2>4. QED
    BY <1>4, <2>3
<1>5. CASE life[s] # "none"
  <2>1. life'[s] # "none" /\ StartFirst(s)
    BY <1>5, LifeMoves DEF Started
  <2>2. CASE state'[s] = state[s] /\ pending'[s] = pending[s]
    BY <2>1, <2>2 DEF StartFirst
  <2>3. ASSUME state'[s] = state[s], NEW e \in Event, pending'[s] = Append(pending[s], e) PROVE StartFirst(s)'
    BY <1>2, <2>1, <2>3 DEF StartFirst
  <2>4. CASE HandleEvent /\ running = s
    BY <2>4, EventOf DEF StartFirst
  <2>5. CASE DestructDone(s) /\ state'[s] = state[s]
    BY <2>5 DEF DestructDone, StoppedWhenDestroyed, StartFirst
  <2>6. QED
    BY <2>1, <2>2, <2>3, <2>4, <2>5, MachineMoves
<1>6. QED
  BY <1>3, <1>4, <1>5

(* What is to stop a machine stays until it has stopped it.                *)
LEMMA StopKept ==
    ASSUME Typed, Held, Started, StoppedWhenDestroyed, Next, NEW s \in Tasks
    PROVE  /\ state[s] = "S_END" => state'[s] = "S_END"
           /\ \A i \in Nat : StopAt(s, i) =>
                 \/ state'[s] = "S_END"
                 \/ StopAt(s, i)' /\ ~(HandleEvent /\ running = s)
                 \/ StopAt(s, i - 1)' /\ HandleEvent /\ running = s
<1>1. pending[s] \in Seq(Event)
  BY TypeParts DEF Typed, MachineTyped
<1>2. CASE state'[s] = state[s] /\ pending'[s] = pending[s] /\ ~(HandleEvent /\ running = s)
  BY <1>2 DEF StopAt
<1>3. ASSUME NEW e \in Event, state'[s] = state[s], pending'[s] = Append(pending[s], e), ~(HandleEvent /\ running = s)
      PROVE  /\ state[s] = "S_END" => state'[s] = "S_END"
             /\ \A i \in Nat : StopAt(s, i) => StopAt(s, i)'
  <2>1. /\ Len(pending[s]) \in Nat /\ Len(pending'[s]) = Len(pending[s]) + 1
        /\ \A i \in 1..Len(pending[s]) : pending'[s][i] = pending[s][i]
    BY <1>1, <1>3, QueuePushed
  <2>2. QED
    BY <1>3, <2>1 DEF StopAt
<1>4. CASE HandleEvent /\ running = s
  BY <1>4, EventOf
<1>5. CASE DestructDone(s) /\ state'[s] = state[s]
  BY <1>5 DEF DestructDone, StoppedWhenDestroyed
<1>6. QED
  BY <1>2, <1>3, <1>4, <1>5, MachineMoves

LEMMA StopScheduledStep ==
    ASSUME Typed, Held, WakeWaits, Started, StoppedWhenDestroyed, StopScheduled, Next
    PROVE  StopScheduled'
<1> SUFFICES ASSUME NEW s \in Tasks, life'[s] # "none", LetGo(s)' PROVE StopComing(s)'
  BY DEF StopScheduled
<1>1. ManagerTyped /\ MachineTyped
  BY TypeParts DEF Typed
<1>2. ASSUME life[s] # "none", LetGo(s) PROVE StopComing(s)'
  <2>1. StopComing(s)
    BY <1>2 DEF StopScheduled
  <2>2. \A i \in Nat : StopAt(s, i) => i - 1 \in Nat
    BY DEF StopAt
  <2>3. QED
    BY <2>1, <2>2, StopKept DEF StopComing
<1>3. life[s] # "none"
  <2>1. SUFFICES ASSUME life[s] = "none" PROVE FALSE
    OBVIOUS
  <2>2. refs'[s] = {"manager"} /\ op'.pc = "startPost"
    BY <2>1, LifeMoves
  <2>3. QED
    BY <2>2 DEF LetGo
<1>4. CASE "manager" \notin refs'[s]
  <2>1. CASE "manager" \notin refs[s]
    BY <1>2, <1>3, <2>1 DEF LetGo
  <2>2. CASE "manager" \in refs[s]
    <3>1. Reset /\ op.task = s
      BY <1>4, <2>2, RefsLost
    <3>2. LetGo(s)
      BY <3>1 DEF Reset, LetGo
    <3>3. QED
      BY <1>2, <1>3, <3>2
  <2>3. QED
    BY <2>1, <2>2
<1>5. CASE op'.task = s /\ op'.pc \in {"stopPost", "reset"}
  <2>1. CASE UNCHANGED managerVars
    BY <1>2, <1>3, <1>5, <2>1 DEF managerVars, LetGo
  <2>2. ASSUME NEW x \in Executors, Begin(x) PROVE FALSE
    BY <1>5, <2>2 DEF Begin
  <2>3. ASSUME NEW x \in Executors, End(x) PROVE StopComing(s)'
    <3>1. CASE taskInProc # NoTask
      <4>1. taskInProc = s /\ pending'[s] = Append(pending[s], "E_STOP") /\ pending[s] \in Seq(Event)
        BY <1>1, <1>5, <2>3, <3>1 DEF End, Push, ManagerTyped, MachineTyped
      <4>2. "E_STOP" \in Event
        BY DEF Event
      <4>3. /\ Len(pending[s]) \in Nat /\ Len(pending'[s]) = Len(pending[s]) + 1
            /\ pending'[s][Len(pending[s]) + 1] = "E_STOP"
        BY <4>1, <4>2, QueuePushed
      <4>4. PICK n \in Nat : n \in 1..n /\ n = Len(pending'[s]) /\ pending'[s][n] = "E_STOP"
        <5>1. Len(pending[s]) + 1 \in Nat /\ Len(pending[s]) + 1 \in 1..(Len(pending[s]) + 1)
          BY <4>3
        <5>2. QED
          BY <4>3, <5>1
      <4>5. StopAt(s, n)'
        BY <4>4 DEF StopAt
      <4>6. QED
        BY <4>4, <4>5 DEF StopComing
    <3>2. CASE taskInProc = NoTask
      <4>1. op' = op
        BY <2>3, <3>2 DEF End
      <4>2. QED
        BY <1>2, <1>3, <1>5, <4>1 DEF LetGo
    <3>3. QED
      BY <3>1, <3>2
  <2>4. CASE StartPost
    BY <1>1, <1>5, <2>4 DEF StartPost, ManagerTyped
  <2>5. CASE StopPost
    <3>1. op.pc = "stopPost" /\ op'.task = op.task
      BY <1>1, <2>5 DEF StopPost, ManagerTyped
    <3>2. QED
      BY <1>2, <1>3, <1>5, <3>1 DEF LetGo
  <2>6. CASE Publish \/ Return
    BY <1>5, <2>6 DEF Publish, Return, Idle
  <2>7. CASE Reset
    BY <1>1, <1>5, <2>7 DEF Reset, Idle, ManagerTyped
  <2>8. QED
    BY <2>1, <2>2, <2>3, <2>4, <2>5, <2>6, <2>7, Steps DEF ManagerStep
<1>6. QED
  BY <1>4, <1>5 DEF LetGo

-------------------------------------------------------------------------------
(* Every event in the queue of a machine that is not yet being destroyed   *)
(* has a drain: in the pool's queue, running, or about to be posted.       *)
DrainCount(s) == Count(tasks, s, Len(tasks))
TimerPosting(s) == OneIf(timerPc[s] = "post")
SensorPosting(s) == OneIf(sensorPc = "post" /\ sensorTask = s)
OpPosting(s) == OneIf(op.pc \in {"startPost", "stopPost"} /\ op.task = s)
Posting(s) == TimerPosting(s) + SensorPosting(s) + OpPosting(s)
Balanced(s) == Len(pending[s]) <= DrainCount(s) + OneIf(running = s) + Posting(s)
DrainPerEvent == \A s \in Tasks : life[s] \in {"none", "alive", "shutdown"} => Balanced(s)

(* The limit of a drain.                                                   *)
RunTimes == runTimes < MAX_SCHEDULE_TIMES /\ (running = NoTask => runTimes = 0)

LEMMA RunTimesStep == ASSUME Typed, RunTimes, Next PROVE RunTimes'
<1>1. MAX_SCHEDULE_TIMES \in Nat /\ MAX_SCHEDULE_TIMES >= 1 /\ runTimes \in Nat
  BY Constants DEF Typed, TypeOK
<1>2. CASE UNCHANGED <<running, runTimes>>
  BY <1>2 DEF RunTimes
<1>3. CASE TakeDrain
  BY <1>1, <1>3 DEF TakeDrain, RunTimes
<1>4. CASE HandleEvent
  <2>1. CASE runTimes + 1 >= MAX_SCHEDULE_TIMES
    BY <1>1, <1>4, <2>1 DEF HandleEvent, RunTimes
  <2>2. CASE ~(runTimes + 1 >= MAX_SCHEDULE_TIMES)
    <3>1. runTimes' = runTimes + 1 /\ running' = running /\ running # NoTask
      BY <1>4, <2>2 DEF HandleEvent
    <3>2. QED
      BY <1>1, <2>2, <3>1 DEF RunTimes
  <2>3. QED
    BY <2>1, <2>2
<1>5. CASE DrainEnds
  BY <1>1, <1>5 DEF DrainEnds, RunTimes
<1>6. \/ UNCHANGED <<running, runTimes>>
      \/ TakeDrain \/ HandleEvent \/ DrainEnds
  BY PoolChanges DEF poolVars, StartPost, StopPost, PoolStep, TakeWake, SensorPost, TimerPost, DestructEnsure
<1>7. QED
  BY <1>2, <1>3, <1>4, <1>5, <1>6

LEMMA DrainCountMoves ==
    ASSUME PoolTyped, NEW s \in Tasks
    PROVE  /\ DrainCount(s) \in Nat
           /\ tasks' = tasks => DrainCount(s)' = DrainCount(s)
           /\ \A r \in Tasks : tasks' = Append(tasks, Drain(r)) => DrainCount(s)' = DrainCount(s) + OneIf(r = s)
           /\ \A r \in Tasks : tasks' = Append(tasks, Wake(r)) => DrainCount(s)' = DrainCount(s)
           /\ tasks # <<>> /\ tasks' = Tail(tasks) => DrainCount(s)' = DrainCount(s) - OneIf(tasks[1] = Drain(s))
<1>1. tasks \in Seq(PoolTask) /\ Len(tasks) \in Nat
  BY DEF PoolTyped
<1>2. DrainCount(s) \in Nat
  BY <1>1, CountType DEF DrainCount
<1>3. tasks' = tasks => DrainCount(s)' = DrainCount(s)
  BY DEF DrainCount
<1>4. ASSUME NEW x \in PoolTask, tasks' = Append(tasks, x) PROVE DrainCount(s)' = DrainCount(s) + OneIf(x = Drain(s))
  <2>1. Len(tasks') = Len(tasks) + 1
    BY <1>1, <1>4, AppendProperties
  <2>2. QED
    BY <1>1, <1>4, <2>1, CountAppend DEF DrainCount
<1>5. ASSUME NEW r \in Tasks, tasks' = Append(tasks, Drain(r)) PROVE DrainCount(s)' = DrainCount(s) + OneIf(r = s)
  <2>1. Drain(r) = Drain(s) <=> r = s
    BY QueueTasks
  <2>2. DrainCount(s)' = DrainCount(s) + OneIf(Drain(r) = Drain(s))
    BY <1>4, <1>5, PoolTasks
  <2>3. QED
    BY <2>1, <2>2 DEF OneIf
<1>6. ASSUME NEW r \in Tasks, tasks' = Append(tasks, Wake(r)) PROVE DrainCount(s)' = DrainCount(s)
  <2>1. DrainCount(s)' = DrainCount(s) + OneIf(Wake(r) = Drain(s))
    BY <1>4, <1>6, PoolTasks
  <2>2. QED
    BY <1>2, <2>1, QueueTasks DEF OneIf
<1>7. ASSUME tasks # <<>>, tasks' = Tail(tasks) PROVE DrainCount(s)' = DrainCount(s) - OneIf(tasks[1] = Drain(s))
  <2>1. Len(tasks) >= 1 /\ Len(tasks') = Len(tasks) - 1
    BY <1>7, Taken
  <2>2. Len(tasks) \in 1..Len(tasks)
    BY <1>1, <2>1
  <2>3. Count(Tail(tasks), s, Len(tasks) - 1) = Count(tasks, s, Len(tasks)) - OneIf(tasks[1] = Drain(s))
    BY <1>1, <1>7, <2>2, CountTail
  <2>4. QED
    BY <1>7, <2>1, <2>3 DEF DrainCount
<1>8. QED
  BY <1>2, <1>3, <1>5, <1>6, <1>7

LEMMA PostingType ==
    ASSUME NEW s
    PROVE  /\ TimerPosting(s) \in {0, 1} /\ SensorPosting(s) \in {0, 1} /\ OpPosting(s) \in {0, 1}
           /\ OneIf(running = s) \in {0, 1} /\ Posting(s) \in Nat
<1>1. /\ TimerPosting(s) \in {0, 1} /\ SensorPosting(s) \in {0, 1} /\ OpPosting(s) \in {0, 1}
      /\ OneIf(running = s) \in {0, 1}
  BY DEF TimerPosting, SensorPosting, OpPosting, OneIf
<1>2. QED
  BY <1>1 DEF Posting

(* A push by one of the three threads, and its post.                       *)
LEMMA BalancedPush ==
    ASSUME MachineTyped, PoolTyped, NEW s \in Tasks, Balanced(s), NEW r \in Tasks, NEW e \in Event, Push(r, e),
           UNCHANGED <<tasks, running>>, Posting(s)' = Posting(s) + OneIf(r = s)
    PROVE  Balanced(s)'
<1>1. pending[s] \in Seq(Event) /\ Len(pending[s]) \in Nat
  BY DEF MachineTyped
<1>2. DrainCount(s) \in Nat /\ DrainCount(s)' = DrainCount(s)
  BY DrainCountMoves
<1>3. Posting(s) \in Nat /\ OneIf(running = s) \in Nat /\ OneIf(running' = s) = OneIf(running = s)
  BY PostingType
<1>4. Len(pending'[s]) = Len(pending[s]) + OneIf(r = s)
  <2>1. CASE r = s
    <3>1. pending'[s] = Append(pending[s], e)
      BY <2>1 DEF Push, MachineTyped
    <3>2. QED
      BY <1>1, <2>1, <3>1, QueuePushed DEF OneIf
  <2>2. CASE r # s
    <3>1. pending'[s] = pending[s]
      BY <2>2 DEF Push, MachineTyped
    <3>2. QED
      BY <1>1, <2>2, <3>1 DEF OneIf
  <2>3. QED
    BY <2>1, <2>2
<1>5. OneIf(r = s) \in Nat
  BY DEF OneIf
<1>6. Len(pending[s]) <= DrainCount(s) + OneIf(running = s) + Posting(s)
  BY DEF Balanced
<1>7. Len(pending'[s]) <= DrainCount(s)' + OneIf(running' = s) + Posting(s)'
  BY <1>1, <1>2, <1>3, <1>4, <1>5, <1>6
<1>8. QED
  BY <1>7 DEF Balanced

LEMMA BalancedPost ==
    ASSUME MachineTyped, PoolTyped, NEW s \in Tasks, Balanced(s), NEW r \in Tasks, Post(r),
           UNCHANGED <<pending, running>>, Posting(s)' = Posting(s) - OneIf(r = s)
    PROVE  Balanced(s)'
<1>1. Len(pending[s]) \in Nat
  BY DEF MachineTyped
<1>2. DrainCount(s) \in Nat /\ DrainCount(s)' = DrainCount(s) + OneIf(r = s)
  BY DrainCountMoves DEF Post
<1>3. Posting(s) \in Nat /\ OneIf(running = s) \in Nat /\ OneIf(running' = s) = OneIf(running = s)
  BY PostingType
<1>4. OneIf(r = s) \in Nat
  BY DEF OneIf
<1>5. Len(pending[s]) <= DrainCount(s) + OneIf(running = s) + Posting(s)
  BY DEF Balanced
<1>6. Len(pending'[s]) <= DrainCount(s)' + OneIf(running' = s) + Posting(s)'
  BY <1>1, <1>2, <1>3, <1>4, <1>5
<1>7. QED
  BY <1>6 DEF Balanced

LEMMA BalancedPool ==
    ASSUME Typed, Started, RunTimes, NEW s \in Tasks, Balanced(s), PoolStep, life[s] # "dead", Posting(s)' = Posting(s)
    PROVE  Balanced(s)'
<1> DEFINE n == Len(pending[s])
           n2 == Len(pending'[s])
           d == DrainCount(s)
           d2 == DrainCount(s)'
           r == OneIf(running = s)
           r2 == OneIf(running' = s)
           p == Posting(s)
           p2 == Posting(s)'
<1>1. MachineTyped /\ PoolTyped /\ NoTask \notin Tasks
  BY TypeParts, TaskNumbers DEF Typed
<1>2. n \in Nat /\ d \in Nat /\ p \in Nat /\ r \in {0, 1} /\ r2 \in {0, 1} /\ p2 = p /\ n <= d + r + p
  BY <1>1, DrainCountMoves, PostingType DEF MachineTyped, Balanced, OneIf
<1>3. SUFFICES n2 <= d2 + r2 + p2
  BY DEF Balanced
<1>4. CASE TakeDrain
  <2>1. /\ tasks # <<>> /\ tasks' = Tail(tasks) /\ n2 = n /\ Head(tasks).kind = "drain" /\ running = NoTask
        /\ running' = IF life[Head(tasks).task] = "dead" THEN NoTask ELSE Head(tasks).task
    BY <1>4 DEF TakeDrain, machineVars
  <2>2. Head(tasks).task \in Tasks /\ tasks[1] = Drain(Head(tasks).task)
    BY <1>1, <2>1, Taken
  <2>3. d2 = d - OneIf(tasks[1] = Drain(s)) /\ r = 0
    BY <1>1, <2>1, DrainCountMoves DEF OneIf
  <2>4. CASE Head(tasks).task = s
    <3>1. r2 = 1 /\ d2 = d - 1
      BY <2>1, <2>2, <2>3, <2>4 DEF OneIf
    <3> HIDE DEF n, n2, d, d2, r, r2, p, p2
    <3>2. QED
      BY <1>2, <2>1, <2>3, <3>1
  <2>5. CASE Head(tasks).task # s
    <3>1. r2 = 0 /\ tasks[1] # Drain(s)
      BY <1>1, <2>1, <2>2, <2>5, QueueTasks DEF OneIf
    <3>2. d2 = d
      BY <1>2, <2>3, <3>1 DEF OneIf
    <3> HIDE DEF n, n2, d, d2, r, r2, p, p2
    <3>3. QED
      BY <1>2, <2>1, <2>3, <3>1, <3>2
  <2>6. QED
    BY <2>4, <2>5
<1>5. CASE TakeWake
  <2>1. tasks # <<>> /\ tasks' = Tail(tasks) /\ n2 = n /\ Head(tasks).kind = "wake" /\ r2 = r
    BY <1>5 DEF TakeWake, machineVars
  <2>2. Head(tasks).task \in Tasks /\ tasks[1] = Wake(Head(tasks).task)
    BY <1>1, <2>1, Taken
  <2>3. d2 = d
    <3>1. d2 = d - OneIf(tasks[1] = Drain(s))
      BY <1>1, <2>1, DrainCountMoves
    <3>2. tasks[1] # Drain(s)
      BY <2>2, QueueTasks
    <3>3. QED
      BY <1>2, <3>1, <3>2 DEF OneIf
  <2> HIDE DEF n, n2, d, d2, r, r2, p, p2
  <2>4. QED
    BY <1>2, <2>1, <2>3
<1>6. CASE HandleEvent /\ running = s
  <2>1. r = 1
    BY <1>6 DEF OneIf
  <2>2. n >= 1 /\ ((n2 = n - 1 /\ tasks' = tasks) \/ (n2 = n /\ tasks' = Append(tasks, Drain(s))))
    BY <1>6, EventOf
  <2>3. (n2 = n - 1 /\ d2 = d) \/ (n2 = n /\ d2 = d + 1)
    <3>1. tasks' = tasks => d2 = d
      BY <1>1, DrainCountMoves
    <3>2. tasks' = Append(tasks, Drain(s)) => d2 = d + 1
      BY <1>1, DrainCountMoves DEF OneIf
    <3>3. QED
      BY <2>2, <3>1, <3>2
  <2> HIDE DEF n, n2, d, d2, r, r2, p, p2
  <2>4. QED
    BY <1>2, <2>1, <2>2, <2>3
<1>7. CASE HandleEvent /\ running # s
  <2>1. running \in Tasks /\ (tasks' = tasks \/ tasks' = Append(tasks, Drain(running))) /\ pending'[s] = pending[s]
    BY <1>1, <1>7, EventHandled DEF Typed, MachineTyped
  <2>2. d2 = d
    <3>1. tasks' = tasks => d2 = d
      BY <1>1, DrainCountMoves
    <3>2. tasks' = Append(tasks, Drain(running)) => d2 = d
      BY <1>1, <1>2, <1>7, <2>1, DrainCountMoves DEF OneIf
    <3>3. QED
      BY <2>1, <3>1, <3>2
  <2>3. r = 0 /\ r2 = 0
    BY <1>1, <1>7 DEF HandleEvent, OneIf
  <2>4. n2 = n
    BY <2>1
  <2> HIDE DEF n, n2, d, d2, r, r2, p, p2
  <2>5. QED
    BY <1>2, <2>2, <2>3, <2>4
<1>8. CASE DrainEnds
  <2>1. running # NoTask /\ pending[running] = <<>> /\ running' = NoTask /\ tasks' = tasks /\ n2 = n
    BY <1>8 DEF DrainEnds, machineVars
  <2>2. d2 = d
    BY <1>1, <2>1, DrainCountMoves
  <2>3. CASE running = s
    <3>1. n2 = 0
      BY <2>1, <2>3
    <3> HIDE DEF n, n2, d, d2, r, r2, p, p2
    <3>2. QED
      BY <1>2, <2>2, <3>1
  <2>4. CASE running # s
    <3>1. r = 0 /\ r2 = 0
      BY <1>1, <2>1, <2>4 DEF OneIf
    <3> HIDE DEF n, n2, d, d2, r, r2, p, p2
    <3>2. QED
      BY <1>2, <2>1, <2>2, <3>1
  <2>5. QED
    BY <2>3, <2>4
<1>9. QED
  BY <1>4, <1>5, <1>6, <1>7, <1>8 DEF PoolStep

LEMMA DrainPerEventStep ==
    ASSUME Typed, Held, WakeWaits, Started, RunTimes, DrainPerEvent, Next
    PROVE  DrainPerEvent'
<1> SUFFICES ASSUME NEW s \in Tasks, life'[s] \in {"none", "alive", "shutdown"} PROVE Balanced(s)'
  BY DEF DrainPerEvent
<1>1. MachineTyped /\ PoolTyped /\ TimerTyped /\ ManagerTyped /\ SensorTyped
  BY TypeParts DEF Typed
<1>2. life[s] \in {"none", "alive", "shutdown"} /\ Balanced(s)
  BY LifeMoves DEF DrainPerEvent
<1> DEFINE tp == TimerPosting(s)
           tp2 == TimerPosting(s)'
           sp == SensorPosting(s)
           sp2 == SensorPosting(s)'
           mp == OpPosting(s)
           mp2 == OpPosting(s)'
<1>3. /\ tp \in {0, 1} /\ sp \in {0, 1} /\ mp \in {0, 1} /\ tp2 \in {0, 1} /\ sp2 \in {0, 1} /\ mp2 \in {0, 1}
      /\ Posting(s) = tp + sp + mp /\ Posting(s)' = tp2 + sp2 + mp2
  BY DEF Posting, TimerPosting, SensorPosting, OpPosting, OneIf
<1>4. /\ UNCHANGED managerVars => mp2 = mp
      /\ UNCHANGED sensorVars => sp2 = sp
      /\ UNCHANGED timerVars => tp2 = tp
  BY DEF managerVars, sensorVars, timerVars, TimerPosting, SensorPosting, OpPosting
<1>5. ASSUME UNCHANGED <<pending, tasks, running>>, Posting(s)' = Posting(s) PROVE Balanced(s)'
  <2>1. DrainCount(s)' = DrainCount(s)
    BY <1>1, <1>5, DrainCountMoves
  <2>2. QED
    BY <1>2, <1>5, <2>1 DEF Balanced
<1>6. "E_START" \in Event /\ "E_STOP" \in Event /\ LIGHT \in Event
  BY DEF Event, LIGHT
<1>7. ASSUME NEW x \in Executors, Begin(x) PROVE Balanced(s)'
  <2>1. PICK r \in Tasks : Push(r, "E_START") /\ op' = [pc |-> "startPost", executor |-> x, task |-> r]
    BY <1>7 DEF Begin
  <2>2. UNCHANGED <<tasks, running, sensorVars, timerVars>> /\ op = Idle
    BY <1>7 DEF Begin, poolVars
  <2>3. tp2 = tp /\ sp2 = sp /\ mp = 0 /\ mp2 = OneIf(r = s)
    BY <1>4, <2>1, <2>2 DEF OpPosting, OneIf, Idle
  <2>4. Posting(s)' = Posting(s) + OneIf(r = s)
    <3> HIDE DEF tp, tp2, sp, sp2, mp, mp2
    <3>1. QED
      BY <1>3, <2>3
  <2>5. QED
    BY <1>1, <1>2, <1>6, <2>1, <2>2, <2>4, BalancedPush
<1>8. ASSUME NEW x \in Executors, End(x) PROVE Balanced(s)'
  <2>1. UNCHANGED <<tasks, running, sensorVars, timerVars>> /\ op = Idle
    BY <1>8 DEF End, poolVars
  <2>2. CASE taskInProc = NoTask
    <3>1. pending' = pending /\ op' = op
      BY <1>8, <2>2 DEF End
    <3>2. Posting(s)' = Posting(s)
      BY <1>3, <1>4, <2>1, <3>1 DEF OpPosting
    <3>3. QED
      BY <1>5, <2>1, <3>1, <3>2
  <2>3. CASE taskInProc # NoTask
    <3>1. PICK r \in Tasks : Push(r, "E_STOP") /\ op' = [pc |-> "stopPost", executor |-> x, task |-> r]
      BY <1>1, <1>8, <2>3 DEF End, ManagerTyped
    <3>2. tp2 = tp /\ sp2 = sp /\ mp = 0 /\ mp2 = OneIf(r = s)
      BY <1>4, <2>1, <3>1 DEF OpPosting, OneIf, Idle
    <3>3. Posting(s)' = Posting(s) + OneIf(r = s)
      <4> HIDE DEF tp, tp2, sp, sp2, mp, mp2
      <4>1. QED
        BY <1>3, <3>2
    <3>4. QED
      BY <1>1, <1>2, <1>6, <2>1, <3>1, <3>3, BalancedPush
  <2>4. QED
    BY <2>2, <2>3
<1>9. CASE StartPost \/ StopPost
  <2>1. /\ op.task \in Tasks /\ Post(op.task) /\ UNCHANGED <<pending, running, sensorVars, timerVars>>
        /\ op.pc \in {"startPost", "stopPost"} /\ op'.pc \notin {"startPost", "stopPost"}
    BY <1>1, <1>9 DEF StartPost, StopPost, machineVars, Typed, HoldersKnown, ManagerTyped
  <2>2. tp2 = tp /\ sp2 = sp /\ mp = OneIf(op.task = s) /\ mp2 = 0
    BY <1>4, <2>1 DEF OpPosting, OneIf
  <2>3. Posting(s)' = Posting(s) - OneIf(op.task = s)
    <3> HIDE DEF tp, tp2, sp, sp2, mp, mp2
    <3>1. QED
      BY <1>3, <2>2
  <2>4. QED
    BY <1>1, <1>2, <2>1, <2>3, BalancedPost
<1>10. CASE Publish \/ Reset \/ Return
  <2>1. /\ UNCHANGED <<pending, tasks, running, sensorVars, timerVars>>
        /\ op.pc \notin {"startPost", "stopPost"} /\ op'.pc \notin {"startPost", "stopPost"}
    BY <1>1, <1>10 DEF Publish, Reset, Return, taskVars, machineVars, poolVars, Idle, ManagerTyped
  <2>2. mp = 0 /\ mp2 = 0
    BY <2>1 DEF OpPosting, OneIf
  <2>3. QED
    BY <1>3, <1>4, <1>5, <2>1, <2>2
<1>11. ASSUME UNCHANGED managerVars, SensorReport \/ SensorStep(taskInProc) PROVE Balanced(s)'
  <2>1. mp2 = mp /\ UNCHANGED <<running, timerVars>> /\ tp2 = tp
    BY <1>4, <1>11 DEF SensorReport, SensorStep, SensorLoad, SensorCopy, SensorSet, SensorPush, SensorPost,
                       SensorDrop, SensorReturn, poolVars
  <2>2. CASE SensorPush
    <3>1. sensorTask \in Tasks /\ Push(sensorTask, LIGHT) /\ UNCHANGED tasks
      BY <2>2 DEF SensorPush, LIGHT, poolVars, Typed, HoldersKnown
    <3>2. sp = 0 /\ sp2 = OneIf(sensorTask = s)
      BY <2>2 DEF SensorPush, SensorPosting, OneIf
    <3>3. Posting(s)' = Posting(s) + OneIf(sensorTask = s)
      <4> HIDE DEF tp, tp2, sp, sp2, mp, mp2
      <4>1. QED
        BY <1>3, <2>1, <3>2
    <3>4. QED
      BY <1>1, <1>2, <1>6, <2>1, <3>1, <3>3, BalancedPush
  <2>3. CASE SensorPost
    <3>1. sensorTask \in Tasks /\ Post(sensorTask) /\ UNCHANGED pending
      BY <2>3 DEF SensorPost, machineVars, Typed, HoldersKnown
    <3>2. sp = OneIf(sensorTask = s) /\ sp2 = 0
      BY <2>3 DEF SensorPost, SensorPosting, OneIf
    <3>3. Posting(s)' = Posting(s) - OneIf(sensorTask = s)
      <4> HIDE DEF tp, tp2, sp, sp2, mp, mp2
      <4>1. QED
        BY <1>3, <2>1, <3>2
    <3>4. QED
      BY <1>1, <1>2, <2>1, <3>1, <3>3, BalancedPost
  <2>4. CASE SensorReport \/ SensorLoad(taskInProc) \/ SensorCopy \/ SensorSet \/ SensorDrop \/ SensorReturn
    <3>1. UNCHANGED <<pending, tasks>> /\ sensorPc # "post" /\ sensorPc' # "post"
      BY <2>4 DEF SensorReport, SensorLoad, SensorCopy, SensorSet, SensorDrop, AfterDrop, SensorReturn,
                  poolVars, machineVars
    <3>2. sp = 0 /\ sp2 = 0
      BY <3>1 DEF SensorPosting, OneIf
    <3>3. QED
      BY <1>3, <1>5, <2>1, <3>1, <3>2
  <2>5. QED
    BY <1>11, <2>2, <2>3, <2>4 DEF SensorStep
<1>12. ASSUME UNCHANGED managerVars, NEW r \in Tasks, TimerStep(r) PROVE Balanced(s)'
  <2>1. mp2 = mp /\ UNCHANGED <<running, sensorVars>> /\ sp2 = sp
    BY <1>4, <1>12 DEF TimerStep, TimerFires, TimerLock, TimerPush, TimerPost, TimerDrop, TimerReturn, poolVars
  <2>2. CASE TimerPush(r)
    <3>1. Push(r, timerEvent[r]) /\ timerEvent[r] \in Event /\ UNCHANGED tasks
      BY <2>2 DEF TimerPush, poolVars, Typed, HoldersKnown
    <3>2. tp2 = tp + OneIf(r = s)
      <4>1. CASE r = s
        BY <1>1, <2>2, <4>1 DEF TimerPush, TimerPosting, OneIf, TimerTyped
      <4>2. CASE r # s
        BY <1>1, <1>3, <2>2, <4>2 DEF TimerPush, TimerPosting, OneIf, TimerTyped
      <4>3. QED
        BY <4>1, <4>2
    <3>3. Posting(s)' = Posting(s) + OneIf(r = s)
      <4>1. OneIf(r = s) \in {0, 1}
        BY DEF OneIf
      <4> HIDE DEF tp, tp2, sp, sp2, mp, mp2
      <4>2. QED
        BY <1>3, <2>1, <3>2, <4>1
    <3>4. QED
      BY <1>1, <1>2, <2>1, <3>1, <3>3, BalancedPush
  <2>3. CASE TimerPost(r)
    <3>1. Post(r) /\ UNCHANGED pending
      BY <2>3 DEF TimerPost, machineVars
    <3>2. tp2 = tp - OneIf(r = s)
      <4>1. CASE r = s
        BY <1>1, <2>3, <4>1 DEF TimerPost, TimerPosting, OneIf, TimerTyped
      <4>2. CASE r # s
        BY <1>1, <1>3, <2>3, <4>2 DEF TimerPost, TimerPosting, OneIf, TimerTyped
      <4>3. QED
        BY <4>1, <4>2
    <3>3. Posting(s)' = Posting(s) - OneIf(r = s)
      <4>1. OneIf(r = s) \in {0, 1}
        BY DEF OneIf
      <4> HIDE DEF tp, tp2, sp, sp2, mp, mp2
      <4>2. QED
        BY <1>3, <2>1, <3>2, <4>1
    <3>4. QED
      BY <1>1, <1>2, <2>1, <3>1, <3>3, BalancedPost
  <2>4. CASE TimerFires(r) \/ TimerLock(r) \/ TimerDrop(r) \/ TimerReturn(r)
    <3>1. UNCHANGED <<pending, tasks>> /\ (timerPc'[s] = "post" <=> timerPc[s] = "post")
      BY <1>1, <2>4 DEF TimerFires, TimerLock, TimerDrop, AfterDrop, TimerReturn, poolVars, machineVars, TimerTyped
    <3>2. tp2 = tp
      BY <3>1 DEF TimerPosting, OneIf
    <3>3. QED
      BY <1>3, <1>5, <2>1, <3>1, <3>2
  <2>5. QED
    BY <1>12, <2>2, <2>3, <2>4 DEF TimerStep
<1>13. ASSUME UNCHANGED managerVars, PoolStep PROVE Balanced(s)'
  <2>1. UNCHANGED sensorVars /\ timerPc' = timerPc
    BY <1>13 DEF PoolStep, TakeDrain, TakeWake, HandleEvent, DrainEnds, timerVars
  <2>2. tp2 = tp /\ sp2 = sp /\ mp2 = mp
    BY <1>4, <1>13, <2>1 DEF TimerPosting
  <2>3. Posting(s)' = Posting(s) /\ life[s] # "dead"
    BY <1>2, <1>3, <2>2
  <2>4. QED
    BY <1>2, <1>13, <2>3, BalancedPool
<1>14. ASSUME UNCHANGED managerVars, NEW r \in Tasks, DestructStep(r) PROVE Balanced(s)'
  <2>1. UNCHANGED <<running, sensorVars>> /\ timerPc' = timerPc
    BY <1>14 DEF DestructStep, DestructEnsure, DestructDone, poolVars, timerVars
  <2>2. tp2 = tp /\ sp2 = sp /\ mp2 = mp
    BY <1>4, <1>14, <2>1 DEF TimerPosting
  <2>3. Posting(s)' = Posting(s)
    BY <1>3, <2>2
  <2>4. CASE DestructEnsure(r)
    <3>1. pending' = pending /\ tasks' = Append(tasks, Wake(r))
      BY <2>4 DEF DestructEnsure, machineVars
    <3>2. DrainCount(s)' = DrainCount(s)
      BY <1>1, <3>1, DrainCountMoves
    <3>3. QED
      BY <1>2, <2>1, <2>3, <3>1, <3>2 DEF Balanced
  <2>5. CASE DestructDone(r)
    <3>1. tasks' = tasks /\ r # s
      BY <1>2, <2>5, TypeParts DEF DestructDone, poolVars
    <3>2. pending'[s] = pending[s]
      BY <1>1, <2>5, <3>1 DEF DestructDone, MachineTyped
    <3>3. DrainCount(s)' = DrainCount(s)
      BY <1>1, <3>1, DrainCountMoves
    <3>4. QED
      BY <1>2, <2>1, <2>3, <3>2, <3>3 DEF Balanced
  <2>6. QED
    BY <1>14, <2>4, <2>5 DEF DestructStep
<1>15. QED
  BY <1>7, <1>8, <1>9, <1>10, <1>11, <1>12, <1>13, <1>14, Steps DEF ManagerStep

-------------------------------------------------------------------------------
(* How many events of s the pool will handle before it takes the task at   *)
(* position k of its queue, when every drain runs up to its limit; and     *)
(* that the stop is among them.                                            *)
Capacity(s, k) == (IF running = s THEN MAX_SCHEDULE_TIMES - runTimes ELSE 0) + MAX_SCHEDULE_TIMES * Count(tasks, s, k)
Covered(s, k) == state[s] = "S_END" \/ \E i \in Nat : StopAt(s, i) /\ i <= Capacity(s, k)
WakeCovered == \A s \in Tasks : \A k \in 1..Len(tasks) : tasks[k] = Wake(s) => Covered(s, k)

LEMMA CapacityMoves ==
    ASSUME Typed, RunTimes, Next, NEW s \in Tasks, NEW k \in 0..Len(tasks)
    PROVE  /\ Capacity(s, k) \in Nat
           /\ ~(TakeDrain \/ TakeWake) /\ HandleEvent /\ running = s =>
                 Capacity(s, k)' \in Nat /\ Capacity(s, k)' >= Capacity(s, k) - 1
           /\ ~(TakeDrain \/ TakeWake) /\ ~((HandleEvent \/ DrainEnds) /\ running = s) =>
                 Capacity(s, k)' = Capacity(s, k)
           /\ (TakeDrain \/ TakeWake) /\ k >= 1 /\ life[s] # "dead" => Capacity(s, k - 1)' = Capacity(s, k)
<1> DEFINE M == MAX_SCHEDULE_TIMES
           c == Count(tasks, s, k)
           u == IF running = s THEN M - runTimes ELSE 0
           u2 == IF running' = s THEN M - runTimes' ELSE 0
<1>1. /\ M \in Nat /\ M >= 1 /\ runTimes \in Nat /\ runTimes < M
      /\ PoolTyped /\ NoTask \notin Tasks /\ (running = NoTask => runTimes = 0)
      /\ tasks \in Seq(PoolTask) /\ Len(tasks) \in Nat /\ k \in Nat
  BY TypeParts, Constants, TaskNumbers DEF Typed, RunTimes, PoolTyped
<1>2. c \in Nat /\ M * c \in Nat /\ u \in Nat
  <2>1. c \in Nat
    BY <1>1, CountType
  <2>2. M * c \in Nat
    BY <1>1, <2>1, Products
  <2>3. u \in Nat
    BY <1>1
  <2>4. QED
    BY <2>1, <2>2, <2>3
<1>3. Capacity(s, k) = u + M * c /\ Capacity(s, k)' = u2 + M * Count(tasks', s, k)
  BY DEF Capacity
<1>4. ASSUME ~(TakeDrain \/ TakeWake) PROVE Capacity(s, k)' = u2 + M * c
  <2>1. Count(tasks', s, k) = c
    <3>1. ASSUME NEW x \in PoolTask, tasks' = Append(tasks, x) PROVE Count(tasks', s, k) = c
      BY <1>1, <3>1, CountAppend
    <3>2. tasks' = tasks \/ \E x \in PoolTask : tasks' = Append(tasks, x)
      BY <1>4, QueueMoves, PoolTasks
    <3>3. QED
      BY <3>1, <3>2
  <2>2. QED
    BY <1>3, <2>1
<1>5. ASSUME ~(TakeDrain \/ TakeWake), HandleEvent, running = s
      PROVE  Capacity(s, k)' \in Nat /\ Capacity(s, k)' >= Capacity(s, k) - 1
  <2>1. u2 \in Nat /\ u2 >= u - 1
    <3>1. CASE runTimes + 1 >= M
      <4>1. running' = NoTask
        BY <1>5, <3>1 DEF HandleEvent
      <4>2. u2 = 0 /\ u <= 1
        BY <1>1, <1>5, <3>1, <4>1
      <4>3. QED
        BY <1>2, <4>2
    <3>2. CASE ~(runTimes + 1 >= M)
      <4>1. running' = s /\ runTimes' = runTimes + 1
        BY <1>5, <3>2 DEF HandleEvent
      <4>2. QED
        BY <1>1, <1>5, <3>2, <4>1
    <3>3. QED
      BY <3>1, <3>2
  <2> DEFINE v == M * c
  <2>2. v \in Nat /\ Capacity(s, k) = u + v /\ Capacity(s, k)' = u2 + v
    BY <1>2, <1>3, <1>4, <1>5
  <2> HIDE DEF u, u2, v
  <2>3. QED
    BY <1>2, <2>1, <2>2
<1>6. ASSUME ~(TakeDrain \/ TakeWake), ~((HandleEvent \/ DrainEnds) /\ running = s)
      PROVE  Capacity(s, k)' = Capacity(s, k)
  <2>1. u2 = u
    <3>1. CASE UNCHANGED <<running, runTimes>>
      BY <3>1
    <3>2. CASE HandleEvent
      BY <1>1, <1>6, <3>2 DEF HandleEvent
    <3>3. CASE DrainEnds
      BY <1>1, <1>6, <3>3 DEF DrainEnds
    <3>4. UNCHANGED <<running, runTimes>> \/ HandleEvent \/ DrainEnds
      BY <1>6, PoolChanges DEF poolVars, StartPost, StopPost, PoolStep, SensorPost, TimerPost, DestructEnsure
    <3>5. QED
      BY <3>1, <3>2, <3>3, <3>4
  <2>2. QED
    BY <1>3, <1>4, <1>6, <2>1
<1>7. ASSUME TakeDrain \/ TakeWake, k >= 1, life[s] # "dead" PROVE Capacity(s, k - 1)' = Capacity(s, k)
  <2>1. /\ tasks # <<>> /\ tasks' = Tail(tasks) /\ running = NoTask /\ runTimes' = runTimes
    BY <1>7 DEF TakeDrain, TakeWake
  <2>2. k \in 1..Len(tasks)
    BY <1>1, <1>7
  <2>3. Count(tasks', s, k - 1) = c - OneIf(tasks[1] = Drain(s))
    BY <1>1, <2>1, <2>2, CountTail
  <2>4. u = 0 /\ Capacity(s, k - 1)' = u2 + M * Count(tasks', s, k - 1)
    BY <1>1, <2>1 DEF Capacity
  <2>5. /\ Head(tasks).kind = "wake" => tasks[1] = Wake(Head(tasks).task)
        /\ Head(tasks).kind = "drain" => tasks[1] = Drain(Head(tasks).task)
        /\ Head(tasks).task \in Tasks
    BY <1>1, <2>1, Taken
  <2>6. CASE tasks[1] = Drain(s)
    <3>1. TakeDrain /\ Head(tasks).task = s
      BY <1>7, <2>5, <2>6, QueueTasks DEF TakeDrain, TakeWake
    <3>2. running' = s
      BY <1>7, <3>1 DEF TakeDrain
    <3>3. u2 = M
      BY <1>1, <2>1, <3>2
    <3>4. Count(tasks', s, k - 1) = c - 1 /\ c >= 1
      <4>1. Count(tasks', s, k - 1) = c - 1
        BY <2>3, <2>6 DEF OneIf
      <4>2. tasks' \in Seq(PoolTask) /\ k - 1 \in Nat
        BY <1>1, <1>7, <2>1, Taken
      <4>3. Count(tasks', s, k - 1) \in Nat
        BY <4>2, CountType
      <4>4. QED
        BY <1>2, <4>1, <4>3
    <3>5. M * (c - 1) = M * c - M
      BY <1>1, <1>2, <3>4, Products
    <3> DEFINE v == M * c
    <3>6. v \in Nat /\ Capacity(s, k) = v /\ Capacity(s, k - 1)' = M + (v - M)
      BY <1>2, <1>3, <2>4, <3>3, <3>4, <3>5
    <3> HIDE DEF v
    <3>7. QED
      BY <1>1, <3>6
  <2>7. CASE tasks[1] # Drain(s)
    <3>1. running' # s
      BY <1>1, <1>7, <2>1, <2>5, <2>7 DEF TakeDrain, TakeWake
    <3>2. u2 = 0 /\ Count(tasks', s, k - 1) = c
      BY <1>2, <2>3, <2>7, <3>1 DEF OneIf
    <3>3. QED
      BY <1>3, <2>4, <3>2
  <2>8. QED
    BY <2>6, <2>7
<1>8. Capacity(s, k) \in Nat
  BY <1>2, <1>3
<1>9. QED
  BY <1>5, <1>6, <1>7, <1>8

(* What is covered stays covered, the positions in the queue moving up     *)
(* when its first is taken.                                                *)
LEMMA CoveredKept ==
    ASSUME Typed, Held, Started, StoppedWhenDestroyed, RunTimes, Next, NEW s \in Tasks,
           NEW k \in 0..Len(tasks), Covered(s, k)
    PROVE  /\ ~(TakeDrain \/ TakeWake) => Covered(s, k)'
           /\ (TakeDrain \/ TakeWake) /\ k >= 1 => Covered(s, k - 1)'
<1>1. CASE state[s] = "S_END"
  BY <1>1, StopKept DEF Covered
<1>2. CASE state[s] # "S_END"
  <2>1. PICK i \in Nat : StopAt(s, i) /\ i <= Capacity(s, k)
    BY <1>2 DEF Covered
  <2>2. Capacity(s, k) \in Nat /\ life[s] # "dead"
    BY <1>2, CapacityMoves DEF StoppedWhenDestroyed
  <2>3. i - 1 \in Nat
    BY <2>1 DEF StopAt
  <2>4. CASE state'[s] = "S_END"
    BY <2>4 DEF Covered
  <2>5. CASE StopAt(s, i)' /\ ~(HandleEvent /\ running = s)
    <3>1. ~(DrainEnds /\ running = s)
      BY <2>1 DEF DrainEnds, StopAt
    <3>2. ~(TakeDrain \/ TakeWake) => Capacity(s, k)' = Capacity(s, k)
      BY <2>5, <3>1, CapacityMoves
    <3>3. (TakeDrain \/ TakeWake) /\ k >= 1 => Capacity(s, k - 1)' = Capacity(s, k)
      BY <2>2, CapacityMoves
    <3>4. QED
      BY <2>1, <2>5, <3>2, <3>3 DEF Covered
  <2>6. CASE StopAt(s, i - 1)' /\ HandleEvent /\ running = s
    <3>1. ~(TakeDrain \/ TakeWake)
      BY <2>6 DEF HandleEvent, TakeDrain, TakeWake
    <3>2. Capacity(s, k)' \in Nat /\ Capacity(s, k)' >= Capacity(s, k) - 1
      BY <2>6, <3>1, CapacityMoves
    <3>3. i - 1 <= Capacity(s, k)'
      BY <2>1, <2>2, <3>2
    <3>4. QED
      BY <2>3, <2>6, <3>1, <3>3 DEF Covered
  <2>7. QED
    BY <2>1, <2>4, <2>5, <2>6, StopKept
<1>3. QED
  BY <1>1, <1>2

(* When nobody holds a task any more, all its events have a drain in the   *)
(* queue, so the stop is covered.                                          *)
LEMMA CoveredAtEnd ==
    ASSUME Typed, Held, RunTimes, DrainPerEvent, StopScheduled, NEW s \in Tasks, life[s] = "shutdown"
    PROVE  Covered(s, Len(tasks))
<1>1. PoolTyped /\ MachineTyped /\ refs[s] = {}
  BY TypeParts DEF Typed, Held, NoneHolds
<1>2. TimerPosting(s) = 0 /\ SensorPosting(s) = 0 /\ OpPosting(s) = 0
  BY <1>1 DEF Held, TimerHolds, SensorHolds, OpHolds, TimerPosting, SensorPosting, OpPosting, OneIf
<1>3. Posting(s) = 0
  BY <1>2 DEF Posting
<1>4. CASE state[s] = "S_END"
  BY <1>4 DEF Covered
<1>5. CASE state[s] # "S_END"
  <2>1. PICK i \in Nat : StopAt(s, i)
    BY <1>1, <1>5 DEF StopScheduled, LetGo, StopComing
  <2> DEFINE M == MAX_SCHEDULE_TIMES
             n == Len(pending[s])
             c == Count(tasks, s, Len(tasks))
             v == M * c
             r == OneIf(running = s)
             u == IF running = s THEN M - runTimes ELSE 0
  <2>2. M \in Nat /\ M >= 1 /\ runTimes \in Nat /\ runTimes < M /\ n \in Nat
    BY <1>1, Constants DEF RunTimes, PoolTyped, MachineTyped
  <2>3. c \in Nat /\ v \in Nat /\ v >= c
    <3>1. c \in Nat
      BY <1>1, DrainCountMoves DEF DrainCount
    <3>2. QED
      BY <2>2, <3>1, Products
  <2>4. i <= n /\ n <= c + r
    <3>1. i \in 1..n
      BY <2>1 DEF StopAt
    <3>2. Balanced(s) /\ r \in Nat
      BY DEF DrainPerEvent, OneIf
    <3>3. n <= c + r + 0
      BY <1>3, <3>2 DEF Balanced, DrainCount
    <3> HIDE DEF n, c, r
    <3>4. QED
      BY <2>2, <2>3, <3>1, <3>2, <3>3
  <2>5. r \in Nat /\ u \in Nat /\ r <= u
    BY <2>2 DEF OneIf
  <2>6. Capacity(s, Len(tasks)) = u + v
    BY DEF Capacity
  <2> HIDE DEF n, c, v, r, u
  <2>7. i <= Capacity(s, Len(tasks))
    BY <2>2, <2>3, <2>4, <2>5, <2>6
  <2>8. QED
    BY <2>1, <2>7 DEF Covered
<1>6. QED
  BY <1>4, <1>5

LEMMA WakeCoveredStep ==
    ASSUME Typed, Held, Started, StoppedWhenDestroyed, RunTimes, DrainPerEvent, StopScheduled, WakeCovered, Next
    PROVE  WakeCovered'
<1> SUFFICES ASSUME NEW s \in Tasks, NEW k \in 1..Len(tasks'), tasks'[k] = Wake(s) PROVE Covered(s, k)'
  BY DEF WakeCovered
<1>1. PoolTyped /\ Len(tasks) \in Nat /\ tasks \in Seq(PoolTask)
  BY TypeParts DEF Typed, PoolTyped
<1>2. CASE k \in 1..Len(tasks) /\ tasks'[k] = tasks[k] /\ ~(TakeDrain \/ TakeWake)
  <2>1. Covered(s, k)
    BY <1>2 DEF WakeCovered
  <2>2. k \in 0..Len(tasks)
    BY <1>1, <1>2
  <2>3. QED
    BY <1>2, <2>1, <2>2, CoveredKept
<1>3. CASE k = Len(tasks) + 1 /\ DestructEnsure(s)
  <2>1. life[s] = "shutdown" /\ ~(TakeDrain \/ TakeWake) /\ tasks' = Append(tasks, Wake(s))
    <3>1. life[s] = "shutdown" /\ tasks' = Append(tasks, Wake(s))
      BY <1>3 DEF DestructEnsure
    <3>2. Len(tasks') = Len(tasks) + 1
      BY <1>1, <3>1, PoolTasks, AppendProperties
    <3>3. TakeDrain \/ TakeWake => Len(tasks') = Len(tasks) - 1
      BY <1>1, Taken DEF TakeDrain, TakeWake
    <3>4. QED
      BY <1>1, <3>1, <3>2, <3>3
  <2>2. PICK n \in 0..Len(tasks) : n = Len(tasks)
    BY <1>1
  <2>3. Covered(s, n)
    BY <2>1, <2>2, CoveredAtEnd
  <2>4. Covered(s, n)'
    BY <2>1, <2>3, CoveredKept
  <2>5. Count(tasks', s, k) = Count(tasks', s, n)
    <3>1. Count(tasks', s, n) = Count(tasks, s, n)
      BY <1>1, <2>1, CountAppend, PoolTasks
    <3>2. Count(tasks', s, k) = Count(tasks, s, n) + OneIf(Wake(s) = Drain(s))
      BY <1>1, <1>3, <2>1, <2>2, CountAppend, PoolTasks
    <3>3. Count(tasks, s, n) \in Nat
      BY <1>1, <2>2, CountType
    <3>4. QED
      BY <3>1, <3>2, <3>3, QueueTasks DEF OneIf
  <2>6. Capacity(s, k)' = Capacity(s, n)'
    BY <2>5 DEF Capacity
  <2>7. QED
    BY <2>4, <2>6 DEF Covered
<1>4. CASE k + 1 \in 1..Len(tasks) /\ tasks'[k] = tasks[k + 1] /\ (TakeDrain \/ TakeWake)
  <2>1. Covered(s, k + 1)
    BY <1>4 DEF WakeCovered
  <2>2. k + 1 \in 0..Len(tasks) /\ k + 1 >= 1 /\ (k + 1) - 1 = k
    BY <1>1, <1>4
  <2>3. Covered(s, (k + 1) - 1)'
    BY <1>4, <2>1, <2>2, CoveredKept
  <2>4. QED
    BY <2>2, <2>3
<1>5. QED
  BY <1>2, <1>3, <1>4, QueuedBefore, QueueTasks

LEMMA StoppedStep ==
    ASSUME Typed, Held, WakeWaits, Started, StoppedWhenDestroyed, RunTimes, WakeCovered, Next
    PROVE  StoppedWhenDestroyed'
<1> SUFFICES ASSUME NEW s \in Tasks, life'[s] \in {"woken", "dead"} PROVE state'[s] = "S_END"
  BY DEF StoppedWhenDestroyed
<1>1. CASE life[s] \in {"woken", "dead"}
  BY <1>1, StopKept DEF StoppedWhenDestroyed
<1>2. CASE life[s] \notin {"woken", "dead"}
  <2>1. TakeWake /\ tasks[1] = Wake(s) /\ tasks # <<>>
    BY <1>2, LifeMoves
  <2>2. /\ PoolTyped /\ tasks \in Seq(PoolTask) /\ Len(tasks) \in Nat /\ 1 \in 1..Len(tasks)
        /\ MAX_SCHEDULE_TIMES \in Nat /\ NoTask \notin Tasks
    BY <2>1, TypeParts, Taken, Constants, TaskNumbers DEF Typed, PoolTyped
  <2>3. Covered(s, 1)
    BY <2>1, <2>2 DEF WakeCovered
  <2>4. Count(tasks, s, 1) = 0
    <3>1. Count(Tail(tasks), s, 1 - 1) = Count(tasks, s, 1) - OneIf(tasks[1] = Drain(s))
      BY <2>1, <2>2, CountTail
    <3>2. Count(Tail(tasks), s, 0) = 0 /\ tasks[1] # Drain(s) /\ Count(tasks, s, 1) \in Nat
      BY <2>1, <2>2, CountEmpty, CountType, QueueTasks
    <3>3. QED
      BY <3>1, <3>2 DEF OneIf
  <2>5. running # s
    BY <2>1, <2>2 DEF TakeWake
  <2>6. Capacity(s, 1) = 0
    BY <2>2, <2>4, <2>5 DEF Capacity
  <2>7. state[s] = "S_END"
    BY <2>3, <2>6 DEF Covered, StopAt
  <2>8. QED
    BY <2>7, StopKept
<1>3. QED
  BY <1>1, <1>2

(* The inductive invariant of the destruction of tasks.                    *)
StopInv ==
    /\ Typed /\ Held /\ WakeWaits /\ Started /\ StopScheduled
    /\ RunTimes /\ DrainPerEvent /\ WakeCovered /\ StoppedWhenDestroyed

LEMMA StopInvInit == ASSUME Init PROVE StopInv
<1>1. Typed
  BY TypedInit
<1>2. /\ \A s \in Tasks : life[s] = "none" /\ refs[s] = {} /\ timerPc[s] = "idle" /\ pending[s] = <<>>
      /\ sensorPc = "idle" /\ op.pc = "idle" /\ taskInProc = NoTask /\ running = NoTask /\ runTimes = 0
      /\ tasks = <<>>
  BY DEF Init, TaskInit, Idle
<1>3. Held /\ Started /\ StopScheduled /\ StoppedWhenDestroyed
  BY <1>2 DEF Held, NoneHolds, TimerHolds, SensorHolds, OpHolds, ManagerHolds, Started, StopScheduled,
              StoppedWhenDestroyed
<1>4. WakeWaits /\ WakeCovered
  <2>1. 1..Len(tasks) = {}
    BY <1>2
  <2>2. QED
    BY <2>1 DEF WakeWaits, WakeCovered
<1>5. RunTimes
  BY <1>2, Constants DEF RunTimes
<1>6. DrainPerEvent
  <2>1. SUFFICES ASSUME NEW s \in Tasks PROVE Balanced(s)
    BY DEF DrainPerEvent
  <2>2. Len(pending[s]) = 0 /\ DrainCount(s) \in Nat /\ Posting(s) \in Nat /\ OneIf(running = s) \in {0, 1}
    BY <1>1, <1>2, TypeParts, DrainCountMoves, PostingType DEF Typed
  <2>3. QED
    BY <2>2 DEF Balanced
<1>7. QED
  BY <1>1, <1>3, <1>4, <1>5, <1>6 DEF StopInv

LEMMA StopInvStep == ASSUME StopInv, [Next]_vars PROVE StopInv'
<1>1. CASE Next
  <2>1. Typed' /\ Held' /\ WakeWaits' /\ Started' /\ RunTimes'
    BY <1>1, TypedStep, HeldStep, WakeWaitsStep, StartedStep, RunTimesStep DEF StopInv
  <2>2. StopScheduled' /\ DrainPerEvent'
    BY <1>1, StopScheduledStep, DrainPerEventStep DEF StopInv
  <2>3. WakeCovered' /\ StoppedWhenDestroyed'
    BY <1>1, WakeCoveredStep, StoppedStep DEF StopInv
  <2>4. QED
    BY <2>1, <2>2, <2>3 DEF StopInv
<1>2. CASE UNCHANGED vars
  <2>1. Typed'
    BY <1>2, TypedStep DEF StopInv
  <2>2. UNCHANGED <<life, refs, state, pending, timerPc, tasks, running, runTimes, sensorPc, sensorTask, op, taskInProc>>
    BY <1>2 DEF vars, taskVars, managerVars, lifeVars, machineVars, timerVars, poolVars, sensorVars
  <2>3. Held' /\ Started' /\ StopScheduled' /\ StoppedWhenDestroyed' /\ WakeWaits' /\ RunTimes'
    BY <2>2 DEF StopInv, Held, NoneHolds, TimerHolds, SensorHolds, OpHolds, ManagerHolds, Started, StartFirst,
                StopScheduled, LetGo, StopComing, StopAt, StoppedWhenDestroyed, WakeWaits, RunTimes
  <2>4. DrainPerEvent'
    BY <2>2 DEF StopInv, DrainPerEvent, Balanced, DrainCount, Posting, TimerPosting, SensorPosting, OpPosting
  <2>5. WakeCovered'
    BY <2>2 DEF StopInv, WakeCovered, Covered, Capacity, StopAt
  <2>6. QED
    BY <2>1, <2>3, <2>4, <2>5 DEF StopInv
<1>3. QED
  BY <1>1, <1>2

LEMMA StopInvariant == Spec => []StopInv
<1>1. Init => StopInv
  BY StopInvInit
<1>2. StopInv /\ [Next]_vars => StopInv'
  BY StopInvStep
<1>3. QED
  BY <1>1, <1>2, PTL DEF Spec

(* Whatever the timer, the sensor and the manager scheduled, whichever     *)
(* thread drops the last reference and however small the limit of a drain, *)
(* the machine of a task is in S_END when the wait of ~ScreenBrightnessTask*)
(* is over.                                                                *)
THEOREM StoppedCorrect == Spec => []StoppedWhenDestroyed
<1>1. StopInv => StoppedWhenDestroyed
  BY DEF StopInv
<1>2. QED
  BY <1>1, StopInvariant, PTL

-------------------------------------------------------------------------------
(* The light level.  The event that says it was received is scheduled only *)
(* after the value was set, and only by the sensor.                        *)
LightKnown(s) == state[s] \in {WD, IB} => lux[s] # "invalid"
LightQueued(s) == \A i \in 1..Len(pending[s]) : pending[s][i] = LIGHT => lux[s] # "invalid" \/ state[s] = "S_END"
LightTimer(s) == timer[s] # LIGHT /\ timerEvent[s] # LIGHT
LightSensor ==
    /\ sensorPc = "push" => lux[sensorTask] # "invalid"
    /\ sensorPc \in {"load", "copy", "set"} => sensorLux # "invalid"
Light == LightSensor /\ \A s \in Tasks : LightKnown(s) /\ LightQueued(s) /\ LightTimer(s)

LEMMA LuxMoves ==
    ASSUME StopInv, LightSensor, Next, NEW s \in Tasks
    PROVE  (lux[s] # "invalid" => lux'[s] # "invalid" \/ (DestructDone(s) /\ state[s] = "S_END" /\ state'[s] = "S_END"))
<1>1. DataTyped
  BY TypeParts DEF StopInv, Typed
<1>2. CASE UNCHANGED dataVars \/ HandleEvent
  BY <1>2 DEF dataVars, HandleEvent
<1>3. CASE SensorSet
  BY <1>1, <1>3 DEF SensorSet, LightSensor, DataTyped
<1>4. ASSUME NEW r \in Tasks, DestructDone(r)
      PROVE  lux'[s] = lux[s] \/ (r = s /\ state[s] = "S_END" /\ state'[s] = "S_END")
  BY <1>1, <1>4 DEF DestructDone, DataTyped, StopInv, StoppedWhenDestroyed
<1>5. QED
  BY <1>2, <1>3, <1>4, DataChanges

LEMMA LightStep == ASSUME StopInv, Light, [Next]_vars PROVE Light'
<1>1. Typed /\ Held /\ Started /\ StoppedWhenDestroyed /\ WakeWaits
  BY DEF StopInv
<1>2. MachineTyped /\ TimerTyped /\ DataTyped /\ TypeOK /\ LightSensor
  BY <1>1, TypeParts DEF Typed, Light
<1>3. CASE UNCHANGED vars
  BY <1>3 DEF vars, taskVars, machineVars, dataVars, timerVars, sensorVars, Light, LightKnown, LightQueued, LightTimer,
              LightSensor
<1>4. ASSUME Next, NEW s \in Tasks PROVE LightTimer(s)'
  <2>1. LightTimer(s)
    BY DEF Light
  <2>2. CASE UNCHANGED timerVars
    BY <2>1, <2>2 DEF timerVars, LightTimer
  <2>3. CASE HandleEvent
    <3>1. running \in Tasks /\ Handlers(running, Head(pending[running])) /\ Head(pending[running]) \in Event
      BY <1>2, <2>3, EventHandled
    <3>2. timer'[s] # LIGHT
      BY <1>2, <2>1, <3>1, HandlerTimer DEF TimerTyped, LightTimer, DELAY, LIGHT
    <3>3. QED
      BY <2>1, <2>3, <3>2 DEF HandleEvent, LightTimer
  <2>4. ASSUME NEW r \in Tasks, TimerStep(r) \/ DestructEnsure(r) PROVE LightTimer(s)'
    BY <1>2, <2>1, <2>4 DEF TimerStep, TimerFires, TimerLock, TimerPush, TimerPost, TimerDrop, TimerReturn,
                            DestructEnsure, TimerTyped, LightTimer, LIGHT
  <2>5. QED
    BY <1>4, <2>2, <2>3, <2>4, TimerChanges
<1>5. ASSUME Next, NEW s \in Tasks PROVE LightKnown(s)' /\ LightQueued(s)'
  <2>1. LightKnown(s) /\ LightQueued(s) /\ LightTimer(s) /\ pending[s] \in Seq(Event) /\ Len(pending[s]) \in Nat
    BY <1>2 DEF Light, MachineTyped
  <2>2. lux[s] # "invalid" => lux'[s] # "invalid" \/ (DestructDone(s) /\ state[s] = "S_END" /\ state'[s] = "S_END")
    BY <1>2, <1>5, LuxMoves
  <2>3. state[s] = "S_END" => state'[s] = "S_END"
    BY <1>1, <1>5, StopKept
  <2>4. CASE state'[s] = state[s] /\ pending'[s] = pending[s]
    BY <2>1, <2>2, <2>4 DEF LightKnown, LightQueued, WD, IB
  <2>5. ASSUME state'[s] = state[s], NEW e \in Event, pending'[s] = Append(pending[s], e),
               \/ e # LIGHT
               \/ SensorPush /\ sensorTask = s
               \/ TimerPush(s) /\ timerEvent[s] = LIGHT
        PROVE  LightKnown(s)' /\ LightQueued(s)'
    <3>1. /\ Len(pending'[s]) = Len(pending[s]) + 1
          /\ \A i \in 1..Len(pending[s]) : pending'[s][i] = pending[s][i]
          /\ pending'[s][Len(pending[s]) + 1] = e
      BY <2>1, <2>5, QueuePushed
    <3>2. e = LIGHT => lux'[s] # "invalid" \/ state'[s] = "S_END"
      BY <1>2, <2>1, <2>2, <2>5 DEF LightTimer, LightSensor, SensorPush
    <3>3. ASSUME NEW i \in 1..Len(pending'[s]), pending'[s][i] = LIGHT
          PROVE  lux'[s] # "invalid" \/ state'[s] = "S_END"
      <4>1. CASE i \in 1..Len(pending[s])
        BY <2>1, <2>2, <2>3, <3>1, <3>3, <4>1 DEF LightQueued
      <4>2. CASE i = Len(pending[s]) + 1
        BY <3>1, <3>2, <3>3, <4>2
      <4>3. QED
        BY <2>1, <3>1, <4>1, <4>2
    <3>4. QED
      BY <2>1, <2>2, <2>5, <3>3 DEF LightKnown, LightQueued, WD, IB
  <2>6. CASE HandleEvent /\ running = s
    <3> DEFINE e == Head(pending[s])
               q == pending[s]
    <3>1. PICK es \in Adds : pending' = [pending EXCEPT ![s] = Tail(q) \o es]
      BY <1>2, <2>6, EventHandled
    <3>2. /\ q # <<>> /\ e \in Event /\ state[s] \in State /\ lux' = lux
          /\ state'[s] = NextState(state[s], e)
      BY <1>2, <2>6, EventHandled DEF HandleEvent, MachineTyped
    <3> DEFINE r == Tail(q) \o es
    <3>3. /\ e = q[1] /\ Len(q) \in Nat /\ Len(q) >= 1
          /\ Len(r) = Len(q) - 1 + Len(es) /\ Len(es) \in {0, 1}
          /\ \A i \in 1..(Len(q) - 1) : r[i] = q[i + 1]
          /\ Len(es) = 1 => r[Len(q)] = "E_STOP"
      BY <2>1, <3>2, QueueHandled
    <3>4. pending'[s] = r
      BY <1>2, <3>1 DEF MachineTyped
    <3>5. e = LIGHT => lux[s] # "invalid" \/ state[s] = "S_END"
      <4>1. 1 \in 1..Len(q)
        BY <3>3
      <4>2. QED
        BY <2>1, <3>3, <4>1 DEF LightQueued
    <3> HIDE DEF e, q, r
    <3>6. state'[s] \in {WD, IB} => state[s] \in {WD, IB} \/ (e = LIGHT /\ state[s] # "S_END")
      BY <3>2, Table DEF State, Event, W2, WL, WD, IB, LIGHT, DELAY
    <3>7. LightKnown(s)'
      BY <2>1, <3>2, <3>5, <3>6 DEF LightKnown
    <3>8. ASSUME NEW i \in 1..Len(r), r[i] = LIGHT PROVE lux[s] # "invalid" \/ state[s] = "S_END"
      <4> DEFINE n == Len(q)
                 m == Len(es)
                 n2 == Len(r)
      <4>1. n \in Nat /\ n >= 1 /\ (m = 0 \/ m = 1) /\ n2 = n - 1 + m /\ i \in 1..n2
        BY <3>3
      <4>2. (\A j \in 1..(n - 1) : r[j] = q[j + 1]) /\ (m = 1 => r[n] = "E_STOP")
        BY <3>3
      <4> HIDE DEF n, m, n2
      <4>3. i \in 1..(n - 1) \/ (i = n /\ m = 1)
        BY <4>1
      <4>4. i \in 1..(n - 1) /\ i + 1 \in 1..n
        BY <3>8, <4>1, <4>2, <4>3 DEF LIGHT
      <4>5. q[i + 1] = LIGHT
        BY <3>8, <4>2, <4>4
      <4>6. QED
        BY <2>1, <4>4, <4>5 DEF LightQueued, q, n
    <3>9. LightQueued(s)'
      BY <2>3, <3>2, <3>4, <3>8 DEF LightQueued
    <3>10. QED
      BY <3>7, <3>9
  <2>7. CASE DestructDone(s) /\ state'[s] = state[s] /\ pending'[s] = <<>>
    <3>1. state'[s] = "S_END"
      BY <1>1, <2>7 DEF DestructDone, StoppedWhenDestroyed
    <3>2. QED
      BY <3>1 DEF LightKnown, LightQueued, WD, IB
  <2>8. QED
    BY <1>1, <1>5, <2>4, <2>5, <2>6, <2>7, MachineMoves
<1>6. ASSUME Next PROVE LightSensor'
  <2>1. ASSUME sensorPc' = "push" PROVE lux'[sensorTask'] # "invalid"
    <3>1. CASE sensorPc = "push" /\ sensorTask' = sensorTask
      <4>1. sensorTask \in Tasks /\ life[sensorTask] = "alive"
        BY <1>1, <3>1 DEF Typed, HoldersKnown, Held, SensorHolds, NoneHolds
      <4>2. ~DestructDone(sensorTask)
        BY <4>1 DEF DestructDone
      <4>3. QED
        BY <1>2, <1>6, <3>1, <4>1, <4>2, LuxMoves DEF LightSensor
    <3>2. CASE SensorSet
      <4>1. sensorTask \in Tasks /\ sensorTask' = sensorTask /\ sensorLux # "invalid"
        BY <1>1, <1>2, <3>2 DEF SensorSet, Typed, HoldersKnown, LightSensor
      <4>2. QED
        BY <1>2, <3>2, <4>1 DEF SensorSet, DataTyped
    <3>3. SensorSet \/ (sensorPc = "push" /\ sensorTask' = sensorTask)
      BY <1>6, <2>1, SensorChanges DEF sensorVars, SensorReport, SensorStep, SensorLoad, SensorCopy, SensorPush,
         SensorPost, SensorDrop, AfterDrop, SensorReturn
    <3>4. QED
      BY <3>1, <3>2, <3>3
  <2>2. ASSUME sensorPc' \in {"load", "copy", "set"} PROVE sensorLux' # "invalid"
    <3>1. CASE SensorReport
      BY <3>1, Constants DEF SensorReport
    <3>2. CASE ~SensorReport
      BY <1>2, <1>6, <2>2, <3>2, SensorChanges DEF sensorVars, SensorStep, SensorLoad, SensorCopy, SensorSet,
         SensorPush, SensorPost, SensorDrop, AfterDrop, SensorReturn, LightSensor
    <3>3. QED
      BY <3>1, <3>2
  <2>3. QED
    BY <2>1, <2>2 DEF LightSensor
<1>7. QED
  BY <1>3, <1>4, <1>5, <1>6 DEF Light

(* The brightness is increased only on a light level that the sensor       *)
(* measured: E_RECEIVE_AMBIENT_LIGHT_INFO never overtakes the value, and   *)
(* INVALID_AMBIENT_LIGHT_LUX, which is below the threshold, is never       *)
(* compared with it.                                                       *)
THEOREM LuxMeasuredCorrect == Spec => []LuxMeasured
<1>1. Init => Light
  <2>1. SUFFICES ASSUME Init PROVE Light
    OBVIOUS
  <2>2. sensorPc = "idle" /\ \A s \in Tasks : state[s] = "S_INIT" /\ pending[s] = <<>> /\ timer[s] = "off" /\ timerEvent[s] = "off"
    BY <2>1 DEF Init, TaskInit
  <2>3. \A s \in Tasks : 1..Len(pending[s]) = {}
    BY <2>2
  <2>4. QED
    BY <2>2, <2>3 DEF Light, LightSensor, LightKnown, LightQueued, LightTimer, WD, IB, LIGHT
<1>2. StopInv /\ Light /\ [Next]_vars => Light'
  BY LightStep
<1>3. Light => LuxMeasured
  BY DEF Light, LightKnown, LuxMeasured, IB
<1>4. QED
  BY <1>1, <1>2, <1>3, StopInvariant, PTL DEF Spec

-------------------------------------------------------------------------------
(* The screen.  From its index on, the ramp of a task is above the         *)
(* brightness that it found.                                               *)
Above(s) == \A j \in index[s]..Size : brightness[s] < INCREASE_BRIGHTNESS_ARRAY[j]
RampAbove == \A s \in Tasks : Above(s)

(* Where an override comes from.                                           *)
LEMMA HandlerScreen ==
    ASSUME TypeOK, RampAbove, NEW s \in Tasks, NEW e \in Event, Handlers(s, e)
    PROVE  /\ Above(s)'
           /\ \A r \in Tasks \ {s} : index'[r] = index[r] /\ brightness'[r] = brightness[r]
           /\ \/ screen' = screen /\ ~Enters(s, e, "S_END")
                 /\ (state[s] = IB => brightness'[s] = brightness[s])
              \/ screen' = Restored
              \/ /\ NextState(state[s], e) = IB
                 /\ brightness'[s] < screen' /\ screen' <= increaseBrightnessMax
<1> DEFINE A == INCREASE_BRIGHTNESS_ARRAY
<1>1. /\ Size \in Nat /\ MAX_BRIGHTNESS \in Nat /\ \A j \in 1..Size : A[j] \in Int /\ A[j] >= 1
      /\ \A i, j \in 1..Size : i <= j => A[i] <= A[j]
  BY Constants
<1>2. /\ index \in [Tasks -> 1..(Size + 1)] /\ brightness \in [Tasks -> 0..MAX_BRIGHTNESS \cup {INVALID_BRIGHTNESS}]
      /\ Above(s) /\ state[s] \in State
  BY DEF TypeOK, RampAbove
<1>3. index[s] \in 1..(Size + 1) /\ index[s] \in Nat /\ index[s] >= 1 /\ brightness[s] \in Int
  BY <1>1, <1>2 DEF INVALID_BRIGHTNESS
<1>4. ASSUME UNCHANGED <<index, brightness>> PROVE Above(s)'
  BY <1>2, <1>4 DEF Above
<1>5. CASE StartProcess(s) /\ state[s] = "S_INIT" /\ e = "E_START"
  <2>1. ~Enters(s, e, "S_END") /\ state[s] # IB
    BY <1>2, <1>5, Table DEF Enters, W2, WL, WD, IB
  <2>2. UNCHANGED <<index, brightness, screen>>
    BY <1>5 DEF StartProcess
  <2>3. QED
    BY <1>4, <2>1, <2>2
<1>6. CASE EndProcess(s)
  BY <1>4, <1>6 DEF EndProcess
<1>7. CASE UNCHANGED <<index, brightness, screen>> /\ ~Enters(s, e, "S_END")
  BY <1>4, <1>7
<1>8. ASSUME NEW i \in 1..(Size + 1), DoIncreaseBrightness(s, i), NextState(state[s], e) = IB, brightness'[s] \in Int,
             \A j \in i..Size : brightness'[s] < A[j]
      PROVE  /\ Above(s)'
             /\ \A r \in Tasks \ {s} : index'[r] = index[r]
             /\ \/ screen' = screen
                \/ brightness'[s] < screen' /\ screen' <= increaseBrightnessMax
  <2>1. index'[s] = (IF i <= Size THEN i + 1 ELSE i) /\ \A r \in Tasks \ {s} : index'[r] = index[r]
    BY <1>2, <1>8 DEF DoIncreaseBrightness
  <2>2. \A j \in index'[s]..Size : j \in i..Size
    BY <1>1, <2>1
  <2>3. Above(s)'
    BY <1>8, <2>2 DEF Above
  <2>4. CASE Overrides(i, increaseBrightnessMax)
    <3>1. screen' = A[i] /\ i \in i..Size /\ A[i] <= increaseBrightnessMax
      BY <1>1, <1>8, <2>4 DEF DoIncreaseBrightness, Overrides
    <3>2. QED
      BY <1>8, <2>1, <2>3, <3>1
  <2>5. CASE ~Overrides(i, increaseBrightnessMax)
    BY <1>8, <2>1, <2>3, <2>5 DEF DoIncreaseBrightness
  <2>6. QED
    BY <2>4, <2>5
<1>9. CASE DoIncreaseBrightness(s, index[s]) /\ UNCHANGED brightness /\ state[s] = IB /\ e = "E_INCREASE_BRIGHTNESS"
  <2>1. NextState(state[s], e) = IB /\ ~Enters(s, e, "S_END")
    BY <1>2, <1>9, Table DEF Enters, W2, WL, WD, IB
  <2>2. \A j \in index[s]..Size : brightness'[s] < A[j]
    BY <1>2, <1>9 DEF Above
  <2>3. /\ Above(s)'
        /\ \A r \in Tasks \ {s} : index'[r] = index[r]
        /\ \/ screen' = screen
           \/ brightness'[s] < screen' /\ screen' <= increaseBrightnessMax
    BY <1>3, <1>8, <1>9, <2>1, <2>2
  <2>4. QED
    BY <1>9, <2>1, <2>3
<1>10. CASE BeginIncreaseBrightness(s) /\ Enters(s, e, IB)
  <2>1. NextState(state[s], e) = IB /\ ~Enters(s, e, "S_END") /\ state[s] # IB
    BY <1>10 DEF Enters, IB
  <2>2. CASE ~ShouldBeginIncreaseBrightness(lux[s])
    BY <1>7, <1>10, <2>1, <2>2 DEF BeginIncreaseBrightness
  <2>3. CASE ShouldBeginIncreaseBrightness(lux[s])
    <3>1. PICK b \in Readings :
             /\ brightness' = [brightness EXCEPT ![s] = b]
             /\ IF b = INVALID_BRIGHTNESS
                THEN UNCHANGED <<timer, index, screen>>
                ELSE DoIncreaseBrightness(s, GetIncreaseBrightnessStartIndex(b))
      BY <1>10, <2>3 DEF BeginIncreaseBrightness
    <3>2. b \in Int /\ brightness'[s] = b /\ \A r \in Tasks \ {s} : brightness'[r] = brightness[r]
      <4>1. b \in 0..MAX_BRIGHTNESS \cup {INVALID_BRIGHTNESS}
        BY Constants
      <4>2. QED
        BY <1>1, <1>2, <3>1, <4>1 DEF INVALID_BRIGHTNESS
    <3>3. CASE b = INVALID_BRIGHTNESS
      <4>1. index' = index /\ screen' = screen /\ brightness'[s] = -1
        BY <3>1, <3>2, <3>3 DEF INVALID_BRIGHTNESS
      <4>2. Above(s)'
        BY <1>1, <1>3, <4>1 DEF Above
      <4>3. QED
        BY <2>1, <3>2, <4>1, <4>2
    <3>4. CASE b # INVALID_BRIGHTNESS
      <4>1. PICK i \in 1..(Size + 1) : i = GetIncreaseBrightnessStartIndex(b) /\ (i <= Size => A[i] > b)
        BY <3>2, StartIndex
      <4>2. \A j \in i..Size : brightness'[s] < A[j]
        BY <1>1, <3>2, <4>1
      <4>3. /\ Above(s)'
            /\ \A r \in Tasks \ {s} : index'[r] = index[r]
            /\ \/ screen' = screen
               \/ brightness'[s] < screen' /\ screen' <= increaseBrightnessMax
        BY <1>8, <2>1, <3>1, <3>2, <3>4, <4>1, <4>2
      <4>4. QED
        BY <2>1, <3>2, <4>3
    <3>5. QED
      BY <3>3, <3>4
  <2>4. QED
    BY <2>2, <2>3
<1>11. QED
  BY <1>5, <1>6, <1>7, <1>9, <1>10 DEF Handlers, IB

LEMMA OverrideStep ==
    ASSUME StopInv, RampAbove, OverrideJustified, [Next]_vars
    PROVE  RampAbove' /\ OverrideJustified'
<1> DEFINE Justifies(s) == state[s] = IB /\ brightness[s] < screen /\ screen <= increaseBrightnessMax
<1>1. Typed /\ TypeOK /\ StoppedWhenDestroyed /\ DataTyped /\ MachineTyped
  BY TypeParts DEF StopInv, Typed
<1>2. OverrideJustified <=> (screen # Restored => \E s \in Tasks : Justifies(s))
  BY DEF OverrideJustified, IB
<1>3. OverrideJustified' <=> (screen' # Restored => \E s \in Tasks : Justifies(s)')
  BY DEF OverrideJustified, IB
<1>4. CASE UNCHANGED <<state, index, brightness, screen>>
  BY <1>4 DEF RampAbove, Above, OverrideJustified
<1>5. CASE HandleEvent
  <2>1. PICK s \in Tasks, e \in Event :
              /\ state[s] \in State /\ Handlers(s, e)
              /\ state' = [state EXCEPT ![s] = NextState(state[s], e)]
    BY <1>1, <1>5, EventHandled
  <2>2. state'[s] = NextState(state[s], e) /\ \A r \in Tasks \ {s} : state'[r] = state[r]
    BY <1>1, <2>1 DEF MachineTyped
  <2>3. /\ Above(s)'
        /\ \A r \in Tasks \ {s} : index'[r] = index[r] /\ brightness'[r] = brightness[r]
        /\ \/ screen' = screen /\ ~Enters(s, e, "S_END")
              /\ (state[s] = IB => brightness'[s] = brightness[s])
           \/ screen' = Restored
           \/ /\ NextState(state[s], e) = IB
              /\ brightness'[s] < screen' /\ screen' <= increaseBrightnessMax
    BY <1>1, <2>1, HandlerScreen
  <2>4. RampAbove'
    <3>1. ASSUME NEW r \in Tasks, r # s PROVE Above(r)'
      BY <2>3, <3>1 DEF RampAbove, Above
    <3>2. ASSUME NEW r \in Tasks, r = s PROVE Above(r)'
      BY <2>3, <3>2 DEF Above
    <3>3. QED
      BY <3>1, <3>2 DEF RampAbove
  <2>5. CASE screen' = Restored
    BY <1>3, <2>4, <2>5
  <2>6. CASE NextState(state[s], e) = IB /\ brightness'[s] < screen' /\ screen' <= increaseBrightnessMax
    BY <1>3, <2>1, <2>2, <2>4, <2>6
  <2>7. CASE screen' = screen /\ ~Enters(s, e, "S_END") /\ (state[s] = IB => brightness'[s] = brightness[s])
    <3>1. state[s] = IB => NextState(state[s], e) = IB
      BY <2>1, <2>7, Table DEF Enters, W2, WL, WD, IB
    <3>2. ASSUME NEW r \in Tasks, Justifies(r) PROVE Justifies(r)'
      <4>1. CASE r = s
        BY <2>2, <2>7, <3>1, <3>2, <4>1
      <4>2. CASE r # s
        BY <2>2, <2>3, <2>7, <3>2, <4>2
      <4>3. QED
        BY <4>1, <4>2
    <3>3. QED
      BY <1>2, <1>3, <2>4, <2>7, <3>2
  <2>8. QED
    BY <2>3, <2>5, <2>6, <2>7
<1>6. ASSUME NEW r \in Tasks, DestructDone(r) PROVE RampAbove' /\ OverrideJustified'
  <2>1. /\ index' = [index EXCEPT ![r] = 1] /\ brightness' = [brightness EXCEPT ![r] = 0]
        /\ state' = state /\ screen' = screen /\ state[r] = "S_END"
    BY <1>1, <1>6 DEF DestructDone, deviceVars, StoppedWhenDestroyed
  <2>2. \A j \in 1..Size : INCREASE_BRIGHTNESS_ARRAY[j] \in Int /\ 0 < INCREASE_BRIGHTNESS_ARRAY[j]
    BY Constants
  <2>3. ASSUME NEW s \in Tasks PROVE Above(s)'
    <3>1. CASE s = r
      <4>1. index'[s] = 1 /\ brightness'[s] = 0
        BY <1>1, <2>1, <3>1 DEF DataTyped
      <4>2. QED
        BY <2>2, <4>1 DEF Above
    <3>2. CASE s # r
      <4>1. index'[s] = index[s] /\ brightness'[s] = brightness[s]
        BY <1>1, <2>1, <3>2 DEF DataTyped
      <4>2. QED
        BY <4>1 DEF RampAbove, Above
    <3>3. QED
      BY <3>1, <3>2
  <2>4. ASSUME NEW s \in Tasks, Justifies(s) PROVE Justifies(s)'
    <3>1. s # r
      BY <2>1, <2>4 DEF IB
    <3>2. brightness'[s] = brightness[s]
      BY <1>1, <2>1, <3>1 DEF DataTyped
    <3>3. QED
      BY <2>1, <2>4, <3>2
  <2>5. OverrideJustified'
    BY <1>2, <1>3, <2>1, <2>4
  <2>6. QED
    BY <2>3, <2>5 DEF RampAbove
<1>7. Next => HandleEvent \/ (\E r \in Tasks : DestructDone(r)) \/ UNCHANGED <<state, index, brightness, screen>>
  <2>1. SUFFICES ASSUME Next, ~HandleEvent, \A r \in Tasks : ~DestructDone(r)
                 PROVE  UNCHANGED <<state, index, brightness, screen>>
    OBVIOUS
  <2>2. UNCHANGED <<index, brightness>>
    BY <2>1, DataChanges DEF dataVars, SensorSet
  <2>3. UNCHANGED screen
    BY <2>1, DeviceChanges DEF deviceVars
  <2>4. UNCHANGED state
    BY <2>1, MachineChanges DEF machineVars, Begin, End, SensorPush, TimerPush
  <2>5. QED
    BY <2>2, <2>3, <2>4
<1>8. UNCHANGED vars => UNCHANGED <<state, index, brightness, screen>>
  BY DEF vars, taskVars, machineVars, dataVars, deviceVars
<1>9. QED
  BY <1>4, <1>5, <1>6, <1>7, <1>8

(* An override of the screen is always that of a task that is increasing   *)
(* the brightness, above what it found and not beyond the configured       *)
(* maximum; the end of a session, however it comes about, leaves none.     *)
THEOREM OverrideCorrect == Spec => []OverrideJustified
<1>1. Init => RampAbove /\ OverrideJustified
  <2>1. SUFFICES ASSUME Init PROVE RampAbove /\ OverrideJustified
    OBVIOUS
  <2>2. \A j \in 1..Size : INCREASE_BRIGHTNESS_ARRAY[j] \in Int /\ 0 < INCREASE_BRIGHTNESS_ARRAY[j]
    BY Constants
  <2>3. screen = Restored /\ \A s \in Tasks : index[s] = 1 /\ brightness[s] = 0
    BY <2>1 DEF Init, TaskInit
  <2>4. QED
    BY <2>2, <2>3 DEF RampAbove, Above, OverrideJustified
<1>2. StopInv /\ RampAbove /\ OverrideJustified /\ [Next]_vars => RampAbove' /\ OverrideJustified'
  BY OverrideStep
<1>3. QED
  BY <1>1, <1>2, StopInvariant, PTL DEF Spec

-------------------------------------------------------------------------------
(* What a destroyed task leaves behind.  Until its stop every event that   *)
(* is handled may schedule another, from then on none does, so a stop at   *)
(* position i leaves at most i - 1 more events than are in the queue; all  *)
(* of them are handled before the wake-up.                                 *)
Flushed(s, k) ==
    \/ state[s] = "S_END" /\ Len(pending[s]) <= Capacity(s, k)
    \/ state[s] # "S_END" /\ \E i \in Nat : StopAt(s, i) /\ Len(pending[s]) + i - 1 <= Capacity(s, k)
WakeFlushed == \A s \in Tasks : \A k \in 1..Len(tasks) : tasks[k] = Wake(s) => Flushed(s, k)
NothingAfter == \A s \in Tasks : life[s] \in {"woken", "dead"} => pending[s] = <<>>

(* The handlers that lead to S_END, or stay there, schedule nothing.       *)
LEMMA EndSchedulesNothing ==
    ASSUME Typed, HandleEvent, NEW s \in Tasks, running = s, state'[s] = "S_END"
    PROVE  pending[s] # <<>> /\ Len(pending[s]) \in Nat /\ Len(pending'[s]) = Len(pending[s]) - 1
<1>1. TypeOK /\ MachineTyped
  BY TypeParts DEF Typed
<1>2. PICK e \in Event : /\ pending[s] # <<>> /\ pending[s] \in Seq(Event) /\ state[s] \in State /\ Handlers(s, e)
                         /\ state' = [state EXCEPT ![s] = NextState(state[s], e)]
  BY <1>1, EventHandled
<1>3. NextState(state[s], e) = "S_END"
  BY <1>1, <1>2 DEF MachineTyped
<1>4. Scheduled(s, <<>>)
  <2>1. ~(state[s] = "S_INIT" /\ e = "E_START")
    BY <1>2, <1>3, Table DEF State, Event, W2, WL, WD, IB, LIGHT, DELAY
  <2>2. ~Enters(s, e, "S_INCREASING_BRIGHTNESS")
    BY <1>3 DEF Enters
  <2>3. QED
    BY <1>2, <2>1, <2>2 DEF Handlers, EndProcess
<1>5. pending'[s] = Tail(pending[s]) \o <<>>
  BY <1>1, <1>4 DEF Scheduled, MachineTyped
<1>6. <<>> \in Adds /\ Len(<<>>) = 0
  BY DEF Adds
<1>7. Len(Tail(pending[s]) \o <<>>) = Len(pending[s]) - 1 + Len(<<>>) /\ Len(pending[s]) \in Nat /\ Len(pending[s]) >= 1
  BY <1>2, <1>6, QueueHandled
<1>8. QED
  BY <1>2, <1>5, <1>6, <1>7

(* While a task waits for its wake-up nobody schedules on its machine.     *)
LEMMA WaitingQueue ==
    ASSUME StopInv, Next, NEW s \in Tasks, life[s] \in {"wait", "woken", "dead"}
    PROVE  \/ state'[s] = state[s] /\ pending'[s] = pending[s]
           \/ HandleEvent /\ running = s
           \/ DestructDone(s) /\ state'[s] = state[s] /\ pending'[s] = <<>>
<1>1. life'[s] # "alive"
  BY LifeMoves DEF StopInv
<1>2. QED
  BY <1>1, MachineMoves DEF StopInv

LEMMA FlushedKept ==
    ASSUME StopInv, Next, NEW s \in Tasks, life[s] = "wait", NEW k \in 0..Len(tasks), Flushed(s, k)
    PROVE  /\ ~(TakeDrain \/ TakeWake) => Flushed(s, k)'
           /\ (TakeDrain \/ TakeWake) /\ k >= 1 => Flushed(s, k - 1)'
<1>1. /\ Typed /\ Held /\ Started /\ RunTimes /\ StoppedWhenDestroyed /\ MachineTyped
      /\ pending[s] \in Seq(Event) /\ Len(pending[s]) \in Nat
  BY TypeParts DEF StopInv, Typed, MachineTyped
<1>2. Capacity(s, k) \in Nat
  BY <1>1, CapacityMoves
<1>3. CASE HandleEvent /\ running = s
  <2>1. ~(TakeDrain \/ TakeWake)
    BY <1>3 DEF HandleEvent, TakeDrain, TakeWake
  <2> DEFINE n == Len(pending[s])
             m == Len(pending'[s])
             c == Capacity(s, k)
             d == Capacity(s, k)'
  <2>2. c \in Nat /\ d \in Nat /\ d >= c - 1
    BY <1>1, <1>2, <1>3, <2>1, CapacityMoves
  <2>3. n \in Nat /\ n >= 1 /\ (m = n - 1 \/ m = n) /\ (state'[s] = "S_END" => m = n - 1)
    <3>1. n \in Nat /\ n >= 1 /\ (m = n - 1 \/ m = n)
      BY <1>1, <1>3, EventOf
    <3>2. state'[s] = "S_END" => m = n - 1
      BY <1>1, <1>3, EndSchedulesNothing
    <3>3. QED
      BY <3>1, <3>2
  <2>4. CASE state[s] = "S_END"
    <3>1. n <= c /\ state'[s] = "S_END"
      BY <1>1, <1>3, <2>4, EventOf DEF Flushed
    <3> HIDE DEF n, m, c, d
    <3>2. m <= d
      BY <2>2, <2>3, <3>1
    <3>3. QED
      BY <2>1, <3>1, <3>2 DEF Flushed, m, d
  <2>5. CASE state[s] # "S_END"
    <3>1. PICK i \in Nat : StopAt(s, i) /\ n + i - 1 <= c
      BY <2>5 DEF Flushed
    <3>2. i >= 1 /\ i - 1 \in Nat
      BY <3>1 DEF StopAt
    <3>3. CASE state'[s] = "S_END"
      <4> HIDE DEF n, m, c, d
      <4>1. m <= d
        BY <2>2, <2>3, <3>1, <3>2, <3>3
      <4>2. QED
        BY <2>1, <3>3, <4>1 DEF Flushed, m, d
    <3>4. CASE state'[s] # "S_END"
      <4>1. StopAt(s, i - 1)'
        BY <1>1, <1>3, <3>1, <3>4, StopKept
      <4> HIDE DEF n, m, c, d
      <4>2. m + (i - 1) - 1 <= d
        <5>1. m \in Nat /\ m <= n /\ n \in Nat
          BY <2>3
        <5>2. n + i - 1 <= c /\ i \in Nat
          BY <3>1
        <5>3. QED
          BY <2>2, <5>1, <5>2
      <4>3. QED
        BY <2>1, <3>2, <3>4, <4>1, <4>2 DEF Flushed, m, d
    <3>5. QED
      BY <3>3, <3>4
  <2>6. QED
    BY <2>4, <2>5
<1>4. CASE ~(HandleEvent /\ running = s)
  <2>1. state'[s] = state[s] /\ pending'[s] = pending[s]
    BY <1>4, WaitingQueue DEF DestructDone
  <2>2. (TakeDrain \/ TakeWake) /\ k >= 1 => Capacity(s, k - 1)' = Capacity(s, k)
    BY <1>1, CapacityMoves
  <2>3. CASE DrainEnds /\ running = s /\ ~(TakeDrain \/ TakeWake)
    <3>1. pending[s] = <<>>
      BY <2>3 DEF DrainEnds
    <3>2. state[s] = "S_END" /\ Len(pending'[s]) = 0
      BY <2>1, <3>1 DEF Flushed, StopAt
    <3>3. Capacity(s, k)' \in Nat
      <4>1. tasks' = tasks /\ running' = NoTask /\ running' # s
        BY <2>3, TaskNumbers DEF DrainEnds
      <4>2. tasks \in Seq(PoolTask) /\ k \in Nat /\ MAX_SCHEDULE_TIMES \in Nat
        BY <1>1, TypeParts, Constants DEF Typed, PoolTyped
      <4>3. Count(tasks, s, k) \in Nat
        BY <4>2, CountType
      <4>4. MAX_SCHEDULE_TIMES * Count(tasks, s, k) \in Nat
        BY <4>2, <4>3, Constants, Products
      <4>5. Capacity(s, k)' = 0 + MAX_SCHEDULE_TIMES * Count(tasks, s, k)
        BY <4>1 DEF Capacity
      <4>6. QED
        BY <4>4, <4>5
    <3>4. QED
      BY <2>1, <2>3, <3>2, <3>3 DEF Flushed
  <2>4. CASE ~(DrainEnds /\ running = s)
    <3>1. ~(TakeDrain \/ TakeWake) => Capacity(s, k)' = Capacity(s, k)
      BY <1>1, <1>4, <2>4, CapacityMoves
    <3>2. QED
      BY <2>1, <2>2, <3>1 DEF Flushed, StopAt
  <2>5. DrainEnds => ~(TakeDrain \/ TakeWake)
    BY DEF DrainEnds, TakeDrain, TakeWake
  <2>6. QED
    BY <2>3, <2>4, <2>5
<1>5. QED
  BY <1>3, <1>4

(* With a limit of at least two the drains that a task has when nobody     *)
(* holds it any more handle everything its events can lead to.             *)
LEMMA FlushedAtEnd ==
    ASSUME StopInv, MAX_SCHEDULE_TIMES >= 2, NEW s \in Tasks, life[s] = "shutdown"
    PROVE  Flushed(s, Len(tasks))
<1>1. PoolTyped /\ MachineTyped /\ refs[s] = {} /\ RunTimes
  BY TypeParts DEF StopInv, Typed, Held, NoneHolds
<1>2. TimerPosting(s) = 0 /\ SensorPosting(s) = 0 /\ OpPosting(s) = 0
  BY <1>1 DEF StopInv, Held, TimerHolds, SensorHolds, OpHolds, TimerPosting, SensorPosting, OpPosting, OneIf
<1>3. Posting(s) = 0
  BY <1>2 DEF Posting
<1> DEFINE M == MAX_SCHEDULE_TIMES
           n == Len(pending[s])
           c == Count(tasks, s, Len(tasks))
           v == M * c
           r == OneIf(running = s)
           u == IF running = s THEN M - runTimes ELSE 0
<1>4. M \in Nat /\ M >= 2 /\ runTimes \in Nat /\ runTimes < M /\ n \in Nat
  BY <1>1, Constants DEF RunTimes, PoolTyped, MachineTyped
<1>5. c \in Nat /\ v \in Nat /\ v >= 2 * c
  <2>1. c \in Nat
    BY <1>1, DrainCountMoves DEF DrainCount
  <2> HIDE DEF c
  <2>2. M * c >= 2 * c
    BY <1>4, <2>1
  <2>3. M * c \in Nat
    BY <1>4, <2>1
  <2>4. QED
    BY <2>1, <2>2, <2>3
<1>6. n <= c + r
  <2>1. Balanced(s) /\ r \in Nat
    BY DEF StopInv, DrainPerEvent, OneIf
  <2>2. n <= c + r + 0
    BY <1>3, <2>1 DEF Balanced, DrainCount
  <2> HIDE DEF n, c, r
  <2>3. QED
    BY <1>4, <1>5, <2>1, <2>2
<1>7. r \in {0, 1} /\ u \in Nat /\ r <= u
  BY <1>4 DEF OneIf
<1>8. Capacity(s, Len(tasks)) = u + v
  BY DEF Capacity
<1>9. CASE state[s] = "S_END"
  <2> HIDE DEF n, c, v, r, u
  <2>1. n <= u + v
    BY <1>4, <1>5, <1>6, <1>7
  <2>2. QED
    BY <1>8, <1>9, <2>1 DEF Flushed, n
<1>10. CASE state[s] # "S_END"
  <2>1. PICK i \in Nat : StopAt(s, i)
    BY <1>1, <1>10 DEF StopInv, StopScheduled, LetGo, StopComing
  <2>2. i <= n
    BY <2>1 DEF StopAt
  <2> HIDE DEF n, c, v, r, u
  <2>3. n + i - 1 <= u + v
    BY <1>4, <1>5, <1>6, <1>7, <2>2
  <2>4. QED
    BY <1>8, <1>10, <2>1, <2>3 DEF Flushed, n
<1>11. QED
  BY <1>9, <1>10

LEMMA WakeFlushedStep ==
    ASSUME StopInv, MAX_SCHEDULE_TIMES >= 2, WakeFlushed, Next
    PROVE  WakeFlushed'
<1> SUFFICES ASSUME NEW s \in Tasks, NEW k \in 1..Len(tasks'), tasks'[k] = Wake(s) PROVE Flushed(s, k)'
  BY DEF WakeFlushed
<1>1. Typed /\ WakeWaits /\ PoolTyped /\ Len(tasks) \in Nat /\ tasks \in Seq(PoolTask)
  BY TypeParts DEF StopInv, Typed, PoolTyped
<1>2. CASE k \in 1..Len(tasks) /\ tasks'[k] = tasks[k] /\ ~(TakeDrain \/ TakeWake)
  <2>1. Flushed(s, k) /\ life[s] = "wait"
    BY <1>1, <1>2 DEF WakeFlushed, WakeWaits
  <2>2. k \in 0..Len(tasks)
    BY <1>1, <1>2
  <2>3. QED
    BY <1>2, <2>1, <2>2, FlushedKept
<1>3. CASE k = Len(tasks) + 1 /\ DestructEnsure(s)
  <2>1. life[s] = "shutdown" /\ tasks' = Append(tasks, Wake(s)) /\ UNCHANGED <<machineVars, running, runTimes>>
    BY <1>3 DEF DestructEnsure
  <2>2. PICK n \in 0..Len(tasks) : n = Len(tasks)
    BY <1>1
  <2>3. Flushed(s, n)
    BY <2>1, <2>2, FlushedAtEnd
  <2>4. Count(tasks', s, k) = Count(tasks, s, n)
    <3>1. Count(tasks', s, k) = Count(tasks, s, n) + OneIf(Wake(s) = Drain(s))
      BY <1>1, <1>3, <2>1, <2>2, CountAppend, PoolTasks
    <3>2. Count(tasks, s, n) \in Nat
      BY <1>1, <2>2, CountType
    <3>3. QED
      BY <3>1, <3>2, QueueTasks DEF OneIf
  <2>5. Capacity(s, k)' = Capacity(s, n)
    BY <2>1, <2>4 DEF Capacity
  <2>6. QED
    BY <2>1, <2>3, <2>5 DEF Flushed, StopAt, machineVars
<1>4. CASE k + 1 \in 1..Len(tasks) /\ tasks'[k] = tasks[k + 1] /\ (TakeDrain \/ TakeWake)
  <2>1. Flushed(s, k + 1) /\ life[s] = "wait"
    BY <1>1, <1>4 DEF WakeFlushed, WakeWaits
  <2>2. k + 1 \in 0..Len(tasks) /\ k + 1 >= 1 /\ (k + 1) - 1 = k
    BY <1>1, <1>4
  <2>3. Flushed(s, (k + 1) - 1)'
    BY <1>4, <2>1, <2>2, FlushedKept
  <2>4. QED
    BY <2>2, <2>3
<1>5. QED
  BY <1>1, <1>2, <1>3, <1>4, QueuedBefore, QueueTasks

LEMMA NothingAfterStep == ASSUME StopInv, WakeFlushed, NothingAfter, Next PROVE NothingAfter'
<1> SUFFICES ASSUME NEW s \in Tasks, life'[s] \in {"woken", "dead"} PROVE pending'[s] = <<>>
  BY DEF NothingAfter
<1>1. Typed /\ Held /\ WakeWaits /\ PoolTyped /\ MachineTyped
  BY TypeParts DEF StopInv, Typed
<1>2. CASE life[s] \in {"woken", "dead"}
  <2>1. pending[s] = <<>>
    BY <1>2 DEF NothingAfter
  <2>2. ~(HandleEvent /\ running = s)
    BY <2>1 DEF HandleEvent
  <2>3. QED
    BY <1>2, <2>1, <2>2, WaitingQueue
<1>3. CASE life[s] \notin {"woken", "dead"}
  <2>1. TakeWake /\ tasks[1] = Wake(s) /\ tasks # <<>> /\ life[s] = "wait"
    BY <1>1, <1>3, LifeMoves
  <2>2. /\ tasks \in Seq(PoolTask) /\ Len(tasks) \in Nat /\ 1 \in 1..Len(tasks)
        /\ MAX_SCHEDULE_TIMES \in Nat /\ NoTask \notin Tasks
    BY <1>1, <2>1, Taken, Constants, TaskNumbers DEF PoolTyped
  <2>3. Flushed(s, 1)
    BY <2>1, <2>2 DEF WakeFlushed
  <2>4. Count(tasks, s, 1) = 0
    <3>1. Count(Tail(tasks), s, 1 - 1) = Count(tasks, s, 1) - OneIf(tasks[1] = Drain(s))
      BY <2>1, <2>2, CountTail
    <3>2. Count(Tail(tasks), s, 0) = 0 /\ tasks[1] # Drain(s) /\ Count(tasks, s, 1) \in Nat
      BY <2>1, <2>2, CountEmpty, CountType, QueueTasks
    <3>3. QED
      BY <3>1, <3>2 DEF OneIf
  <2>5. running # s
    BY <2>1, <2>2 DEF TakeWake
  <2>6. Capacity(s, 1) = 0
    BY <2>2, <2>4, <2>5 DEF Capacity
  <2>7. Len(pending[s]) \in Nat /\ pending[s] \in Seq(Event)
    BY <1>1 DEF MachineTyped
  <2>8. Len(pending[s]) = 0
    BY <2>3, <2>6, <2>7 DEF Flushed, StopAt
  <2>9. pending' = pending
    BY <2>1 DEF TakeWake, machineVars
  <2>10. QED
    BY <2>7, <2>8, <2>9
<1>4. QED
  BY <1>2, <1>3

(* The handlers of a destroyed task, which hold it as a plain pointer, are *)
(* never called: with a limit of at least two events for a drain (the code *)
(* has 100), whatever its threads scheduled has been handled before the    *)
(* wait of ~ScreenBrightnessTask is over.                                  *)
THEOREM NoHandlerCorrect == MAX_SCHEDULE_TIMES >= 2 => (Spec => []NoHandlerAfterDestruction)
<1> SUFFICES ASSUME MAX_SCHEDULE_TIMES >= 2 PROVE Spec => []NoHandlerAfterDestruction
  OBVIOUS
<1>1. Init => WakeFlushed /\ NothingAfter
  <2>1. SUFFICES ASSUME Init PROVE WakeFlushed /\ NothingAfter
    OBVIOUS
  <2>2. tasks = <<>> /\ \A s \in Tasks : pending[s] = <<>>
    BY <2>1 DEF Init, TaskInit
  <2>3. 1..Len(tasks) = {}
    BY <2>2
  <2>4. QED
    BY <2>2, <2>3 DEF WakeFlushed, NothingAfter
<1>2. StopInv /\ WakeFlushed /\ NothingAfter /\ [Next]_vars => WakeFlushed' /\ NothingAfter'
  <2> SUFFICES ASSUME StopInv, WakeFlushed, NothingAfter, [Next]_vars PROVE WakeFlushed' /\ NothingAfter'
    OBVIOUS
  <2>1. CASE Next
    BY <2>1, WakeFlushedStep, NothingAfterStep
  <2>2. CASE UNCHANGED vars
    <3>1. UNCHANGED <<life, state, pending, tasks, running, runTimes>>
      BY <2>2 DEF vars, taskVars, lifeVars, machineVars, poolVars
    <3>2. QED
      BY <3>1 DEF WakeFlushed, NothingAfter, Flushed, Capacity, StopAt
  <2>3. QED
    BY <2>1, <2>2
<1>3. NothingAfter => NoHandlerAfterDestruction
  BY DEF NothingAfter, NoHandlerAfterDestruction
<1>4. QED
  BY <1>1, <1>2, <1>3, StopInvariant, PTL DEF Spec

-------------------------------------------------------------------------------
(* The order of sessions.  Only the manager's task in process, or the one  *)
(* its command has just made, has a reference of the manager.              *)
ManagerOnly ==
    /\ op.pc \in {"stopPost", "reset"} => op.task = taskInProc
    /\ op.pc \in {"startPost", "publish"} => taskInProc = NoTask
    /\ \A s \in Tasks : "manager" \in refs[s] => s = (IF op.pc \in {"startPost", "publish"} THEN op.task ELSE taskInProc)

(* The manager takes a reference only when it makes a task.                *)
LEMMA ManagerRefs ==
    ASSUME Typed, Next, NEW s \in Tasks, "manager" \in refs'[s]
    PROVE  \/ "manager" \in refs[s]
           \/ \E x \in Executors : Begin(x) /\ op'.task = s /\ life[s] = "none"
<1>1. LifeTyped
  BY TypeParts DEF Typed
<1>2. CASE UNCHANGED lifeVars
  BY <1>2 DEF lifeVars
<1>3. ASSUME NEW r \in Tasks, NEW h \in Holder, DropRef(r, h) PROVE "manager" \in refs[s]
  BY <1>1, <1>3 DEF DropRef, LifeTyped
<1>4. CASE Reset \/ SensorDrop
  BY <1>3, <1>4 DEF Reset, SensorDrop, Typed, HoldersKnown, Holder
<1>5. ASSUME NEW x \in Executors, Begin(x)
      PROVE  "manager" \in refs[s] \/ (op'.task = s /\ life[s] = "none")
  BY <1>1, <1>5 DEF Begin, LifeTyped
<1>6. CASE TakeWake \/ SensorCopy
  BY <1>1, <1>6 DEF TakeWake, SensorCopy, LifeTyped
<1>7. ASSUME NEW r \in Tasks, TimerLock(r) \/ DestructEnsure(r) \/ DestructDone(r) PROVE "manager" \in refs[s]
  BY <1>1, <1>7 DEF TimerLock, DestructEnsure, DestructDone, LifeTyped
<1>8. ASSUME NEW r \in Tasks, TimerDrop(r) PROVE "manager" \in refs[s]
  BY <1>3, <1>8 DEF TimerDrop, Holder
<1>9. QED
  BY <1>2, <1>4, <1>5, <1>6, <1>7, <1>8, LifeChanges

LEMMA ManagerOnlyStep == ASSUME Typed, ManagerOnly, Next PROVE ManagerOnly'
<1>1. ManagerTyped /\ LifeTyped /\ NoTask \notin Tasks
  BY TypeParts, TaskNumbers DEF Typed
<1>2. CASE UNCHANGED managerVars
  <2>1. op' = op /\ taskInProc' = taskInProc
    BY <1>2 DEF managerVars
  <2>2. ASSUME NEW s \in Tasks, "manager" \in refs'[s] PROVE "manager" \in refs[s]
    <3>1. ASSUME NEW x \in Executors, Begin(x) PROVE FALSE
      BY <1>1, <2>1, <3>1 DEF Begin, Idle
    <3>2. QED
      BY <2>2, <3>1, ManagerRefs
  <2>3. QED
    BY <2>1, <2>2 DEF ManagerOnly
<1>3. ASSUME NEW x \in Executors, Begin(x) PROVE ManagerOnly'
  <2>1. PICK r \in Tasks : refs' = [refs EXCEPT ![r] = {"manager"}] /\ op' = [pc |-> "startPost", executor |-> x, task |-> r]
    BY <1>3 DEF Begin
  <2>2. taskInProc' = NoTask /\ taskInProc = NoTask /\ op.pc = "idle"
    BY <1>3 DEF Begin, Idle
  <2>3. \A s \in Tasks : "manager" \in refs'[s] => s = r
    BY <1>1, <2>1, <2>2 DEF ManagerOnly, LifeTyped
  <2>4. QED
    BY <2>1, <2>2, <2>3 DEF ManagerOnly
<1>4. ASSUME NEW x \in Executors, End(x) PROVE ManagerOnly'
  <2>1. refs' = refs /\ taskInProc' = taskInProc /\ op.pc = "idle"
    BY <1>4 DEF End, lifeVars, Idle
  <2>2. op' = op \/ op' = [pc |-> "stopPost", executor |-> x, task |-> taskInProc]
    BY <1>4 DEF End
  <2>3. QED
    BY <2>1, <2>2 DEF ManagerOnly
<1>5. CASE StartPost
  <2>1. refs' = refs /\ taskInProc' = taskInProc /\ op.pc = "startPost" /\ op'.pc = "publish" /\ op'.task = op.task
    BY <1>1, <1>5 DEF StartPost, lifeVars, ManagerTyped
  <2>2. QED
    BY <2>1 DEF ManagerOnly
<1>6. CASE StopPost
  <2>1. refs' = refs /\ taskInProc' = taskInProc /\ op.pc = "stopPost" /\ op'.pc = "reset" /\ op'.task = op.task
    BY <1>1, <1>6 DEF StopPost, lifeVars, ManagerTyped
  <2>2. QED
    BY <2>1 DEF ManagerOnly
<1>7. CASE Publish
  <2>1. refs' = refs /\ taskInProc' = op.task /\ op' = Idle /\ op.pc = "publish"
    BY <1>7 DEF Publish, taskVars, lifeVars
  <2>2. QED
    BY <2>1 DEF ManagerOnly, Idle
<1>8. CASE Reset
  <2>1. /\ taskInProc' = NoTask /\ op'.pc \in {"idle", "destruct"} /\ op.pc = "reset" /\ op.task \in Tasks
        /\ refs' = [refs EXCEPT ![op.task] = @ \ {"manager"}]
    BY <1>1, <1>8 DEF Reset, Idle, ManagerTyped, DropRef, Typed, HoldersKnown
  <2>2. ASSUME NEW s \in Tasks, "manager" \in refs'[s] PROVE FALSE
    <3>1. s # op.task /\ "manager" \in refs[s]
      BY <1>1, <2>1, <2>2 DEF LifeTyped
    <3>2. QED
      BY <2>1, <3>1 DEF ManagerOnly
  <2>3. QED
    BY <2>1, <2>2 DEF ManagerOnly
<1>9. CASE Return
  <2>1. refs' = refs /\ taskInProc' = taskInProc /\ op' = Idle /\ op.pc = "destruct"
    BY <1>9 DEF Return, taskVars, lifeVars
  <2>2. QED
    BY <2>1 DEF ManagerOnly, Idle
<1>10. QED
  BY <1>2, <1>3, <1>4, <1>5, <1>6, <1>7, <1>8, <1>9, Steps DEF ManagerStep

-------------------------------------------------------------------------------
(* From its post on, the stop of a task that the manager lets go of is     *)
(* covered by the whole queue: what is pushed and not yet posted by the    *)
(* timer and the sensor are two events, and a drain handles three.         *)
Released(s) == life[s] # "none" /\ ("manager" \notin refs[s] \/ (op.task = s /\ op.pc = "reset"))
StopCovered == \A s \in Tasks : Released(s) => Covered(s, Len(tasks))

(* What the whole queue covers stays covered by it.                        *)
LEMMA CoveredByQueue ==
    ASSUME StopInv, Next, NEW s \in Tasks, Covered(s, Len(tasks))
    PROVE  Covered(s, Len(tasks))'
<1>1. /\ Typed /\ Held /\ Started /\ StoppedWhenDestroyed /\ RunTimes /\ Typed'
      /\ PoolTyped /\ tasks \in Seq(PoolTask) /\ Len(tasks) \in Nat
      /\ MAX_SCHEDULE_TIMES \in Nat /\ MAX_SCHEDULE_TIMES >= 1
  BY TypeParts, TypedStep, Constants DEF StopInv, Typed, PoolTyped
<1>2. PICK n \in 0..Len(tasks) : n = Len(tasks)
  BY <1>1
<1>3. /\ ~(TakeDrain \/ TakeWake) => Covered(s, n)'
      /\ (TakeDrain \/ TakeWake) /\ n >= 1 => Covered(s, n - 1)'
  BY <1>1, <1>2, CoveredKept
<1>4. CASE TakeDrain \/ TakeWake
  <2>1. tasks # <<>> /\ tasks' = Tail(tasks)
    BY <1>4 DEF TakeDrain, TakeWake
  <2>2. n >= 1 /\ Len(tasks') = n - 1
    BY <1>1, <1>2, <2>1, Taken
  <2>3. Covered(s, n - 1)'
    BY <1>3, <1>4, <2>2
  <2>4. QED
    BY <2>2, <2>3 DEF Covered, Capacity
<1>5. CASE tasks' = tasks /\ ~(TakeDrain \/ TakeWake)
  BY <1>2, <1>3, <1>5 DEF Covered, Capacity
<1>6. ASSUME ~(TakeDrain \/ TakeWake), NEW x \in PoolTask, tasks' = Append(tasks, x) PROVE Covered(s, Len(tasks))'
  <2>1. Len(tasks') = n + 1
    BY <1>1, <1>2, <1>6, AppendProperties
  <2> DEFINE M == MAX_SCHEDULE_TIMES
             c == Count(tasks', s, n)
             d == Count(tasks', s, n + 1)
             u == IF running' = s THEN M - runTimes' ELSE 0
  <2>2. c \in Nat /\ d \in Nat /\ d >= c
    <3>1. c = Count(tasks, s, n) /\ d = Count(tasks, s, n) + OneIf(x = Drain(s))
      BY <1>1, <1>2, <1>6, CountAppend
    <3>2. Count(tasks, s, n) \in Nat /\ OneIf(x = Drain(s)) \in Nat
      BY <1>1, <1>2, CountType DEF OneIf
    <3>3. QED
      BY <3>1, <3>2
  <2>3. RunTimes' /\ runTimes' \in Nat
    BY <1>1, RunTimesStep DEF Typed, TypeOK
  <2>4. u \in Nat
    <3>1. runTimes' < MAX_SCHEDULE_TIMES
      BY <2>3 DEF RunTimes
    <3>2. MAX_SCHEDULE_TIMES \in Nat
      BY Constants
    <3>3. runTimes' \in Nat
      BY <2>3
    <3>4. MAX_SCHEDULE_TIMES - runTimes' \in Nat
      BY <3>1, <3>2, <3>3, Differences
    <3>5. QED
      BY <3>4
  <2>5. Capacity(s, n)' = u + M * c /\ Capacity(s, n + 1)' = u + M * d
    BY DEF Capacity
  <2> HIDE DEF c, d, u
  <2>6. M * c \in Nat /\ M * d \in Nat /\ M * d >= M * c
    BY <1>1, <2>2
  <2> DEFINE v == M * c
             w == M * d
  <2>7. v \in Nat /\ w \in Nat /\ w >= v /\ Capacity(s, n)' = u + v /\ Capacity(s, n + 1)' = u + w
    BY <2>5, <2>6
  <2> HIDE DEF v, w
  <2>8. Capacity(s, n)' \in Nat /\ Capacity(s, n + 1)' \in Nat /\ Capacity(s, n + 1)' >= Capacity(s, n)'
    BY <2>4, <2>7
  <2>9. Covered(s, n)'
    BY <1>3, <1>6
  <2>10. Covered(s, n + 1)'
    BY <2>8, <2>9 DEF Covered
  <2>11. QED
    BY <2>1, <2>10 DEF Covered, Capacity
<1>7. QED
  BY <1>1, <1>4, <1>5, <1>6, QueueMoves, PoolTasks

LEMMA CoveredByStop ==
    ASSUME StopInv, MAX_SCHEDULE_TIMES >= 3, NEW s \in Tasks, StopPost, op.task = s
    PROVE  Covered(s, Len(tasks))'
<1>1. /\ PoolTyped /\ MachineTyped /\ RunTimes /\ Held /\ tasks \in Seq(PoolTask) /\ Len(tasks) \in Nat
      /\ op.pc = "stopPost" /\ tasks' = Append(tasks, Drain(s)) /\ Drain(s) \in PoolTask
      /\ UNCHANGED <<state, pending, running, runTimes>>
  BY TypeParts, PoolTasks DEF StopInv, Typed, PoolTyped, StopPost, Post, machineVars
<1>2. life[s] = "alive"
  BY <1>1 DEF Held, OpHolds, NoneHolds
<1>3. StopComing(s)
  BY <1>1, <1>2 DEF StopInv, StopScheduled, LetGo
<1>4. CASE state[s] = "S_END"
  BY <1>1, <1>4 DEF Covered
<1>5. CASE state[s] # "S_END"
  <2>1. PICK i \in Nat : StopAt(s, i)
    BY <1>3, <1>5 DEF StopComing
  <2> DEFINE M == MAX_SCHEDULE_TIMES
             n == Len(pending[s])
             c == Count(tasks, s, Len(tasks))
             r == OneIf(running = s)
             p == Posting(s)
             u == IF running = s THEN M - runTimes ELSE 0
  <2>2. M \in Nat /\ M >= 3 /\ runTimes \in Nat /\ runTimes < M /\ n \in Nat
    BY <1>1, Constants DEF RunTimes, PoolTyped, MachineTyped
  <2>3. c \in Nat
    BY <1>1, CountType
  <2>4. p \in 0..3
    BY DEF Posting, TimerPosting, SensorPosting, OpPosting, OneIf
  <2>5. i <= n /\ n <= c + r + p
    <3>1. Balanced(s)
      BY <1>2 DEF StopInv, DrainPerEvent
    <3>2. QED
      BY <2>1, <3>1 DEF Balanced, DrainCount, StopAt
  <2>6. r \in {0, 1} /\ u \in Nat /\ r <= u
    BY <2>2 DEF OneIf
  <2>7. /\ Len(tasks') = Len(tasks) + 1
        /\ Count(tasks', s, Len(tasks) + 1) = c + 1
    BY <1>1, CountAppend, AppendProperties DEF OneIf
  <2>8. Capacity(s, Len(tasks))' = u + M * (c + 1)
    BY <1>1, <2>7 DEF Capacity
  <2> HIDE DEF n, c, r, p, u
  <2>9. M * (c + 1) \in Nat /\ M * (c + 1) >= 3 * (c + 1)
    BY <2>2, <2>3
  <2> DEFINE v == M * (c + 1)
  <2>10. v \in Nat /\ v >= c + 3 /\ Capacity(s, Len(tasks))' = u + v
    BY <2>3, <2>8, <2>9
  <2> HIDE DEF v
  <2>11. i <= u + v
    BY <2>2, <2>3, <2>4, <2>5, <2>6, <2>10
  <2>12. StopAt(s, i)'
    BY <1>1, <2>1 DEF StopAt
  <2>13. QED
    BY <2>10, <2>11, <2>12 DEF Covered
<1>6. QED
  BY <1>4, <1>5

LEMMA StopCoveredStep ==
    ASSUME StopInv, MAX_SCHEDULE_TIMES >= 3, StopCovered, Next
    PROVE  StopCovered'
<1> SUFFICES ASSUME NEW s \in Tasks, Released(s)' PROVE Covered(s, Len(tasks))'
  BY DEF StopCovered
<1>1. CASE StopPost /\ op.task = s
  BY <1>1, CoveredByStop
<1>2. CASE ~(StopPost /\ op.task = s)
  <2>1. ManagerTyped /\ Typed /\ Held /\ WakeWaits
    BY TypeParts DEF StopInv, Typed
  <2>2. life[s] # "none"
    <3>1. ASSUME life[s] = "none" PROVE FALSE
      <4>1. refs'[s] = {"manager"} /\ op'.pc = "startPost"
        BY <2>1, <3>1, LifeMoves DEF Released
      <4>2. QED
        BY <4>1 DEF Released
    <3>2. QED
      BY <3>1
  <2>3. Released(s)
    <3>1. CASE "manager" \notin refs'[s]
      <4>1. "manager" \in refs[s] => Reset /\ op.task = s
        BY <2>1, <3>1, RefsLost
      <4>2. QED
        BY <2>2, <4>1 DEF Released, Reset
    <3>2. CASE op'.task = s /\ op'.pc = "reset"
      <4>1. op' = op
        BY <1>2, <2>1, <3>2, Steps DEF managerVars, Begin, End, ManagerStep, StartPost, Publish, StopPost, Reset, Return,
           Idle, ManagerTyped
      <4>2. QED
        BY <2>2, <3>2, <4>1 DEF Released
    <3>3. QED
      BY <3>1, <3>2 DEF Released
  <2>4. QED
    BY <2>3, CoveredByQueue DEF StopCovered
<1>3. QED
  BY <1>1, <1>2

-------------------------------------------------------------------------------
(* A task exists only after the manager has let go of all earlier ones,    *)
(* each of its drains is behind the stops of those, and it runs only when  *)
(* they have ended.                                                        *)
After(r, s) ==
    /\ life[s] # "none" => life[r] # "none" /\ "manager" \notin refs[r]
    /\ \A k \in 1..Len(tasks) : tasks[k] = Drain(s) => Covered(r, k)
    /\ running = s \/ state[s] # "S_INIT" => state[r] = "S_END"
InOrder == \A r, s \in Tasks : r < s => After(r, s)

(* A drain is posted only for a task that exists.                          *)
LEMMA PostedTask ==
    ASSUME StopInv, Next, NEW s \in Tasks, ~(TakeDrain \/ TakeWake), tasks' = Append(tasks, Drain(s))
    PROVE  life[s] # "none"
<1>1. PoolTyped /\ Typed /\ Held /\ Started /\ tasks \in Seq(PoolTask) /\ \A r \in Tasks : NoneHolds(r)
  BY TypeParts DEF StopInv, Typed, PoolTyped, Held
<1>2. ASSUME NEW x \in PoolTask, tasks' = Append(tasks, x) PROVE x = Drain(s)
  <2>1. Append(tasks, x)[Len(tasks) + 1] = x
    BY <1>1, AppendProperties
  <2>2. Append(tasks, Drain(s))[Len(tasks) + 1] = Drain(s)
    BY <1>1, PoolTasks, AppendProperties
  <2>3. QED
    BY <1>2, <2>1, <2>2
<1>3. tasks' # tasks
  BY <1>1, PoolTasks, AppendProperties
<1>4. CASE StartPost \/ StopPost
  <2>1. op.task \in Tasks /\ Drain(op.task) \in PoolTask /\ tasks' = Append(tasks, Drain(op.task)) /\ "manager" \in refs[op.task]
    BY <1>1, <1>4, PoolTasks DEF StartPost, StopPost, Post, Typed, HoldersKnown, Held, OpHolds
  <2>2. op.task = s
    BY <1>2, <2>1, QueueTasks
  <2>3. QED
    BY <1>1, <2>1, <2>2 DEF NoneHolds
<1>5. CASE SensorPost
  <2>1. /\ sensorTask \in Tasks /\ Drain(sensorTask) \in PoolTask /\ tasks' = Append(tasks, Drain(sensorTask))
        /\ "sensor" \in refs[sensorTask]
    BY <1>1, <1>5, PoolTasks DEF SensorPost, Post, Typed, HoldersKnown, Held, SensorHolds
  <2>2. sensorTask = s
    BY <1>2, <2>1, QueueTasks
  <2>3. QED
    BY <1>1, <2>1, <2>2 DEF NoneHolds
<1>6. ASSUME NEW r \in Tasks, TimerPost(r) PROVE life[s] # "none"
  <2>1. Drain(r) \in PoolTask /\ tasks' = Append(tasks, Drain(r)) /\ "timer" \in refs[r]
    BY <1>1, <1>6, PoolTasks DEF TimerPost, Post, Held, TimerHolds
  <2>2. r = s
    BY <1>2, <2>1, QueueTasks
  <2>3. QED
    BY <1>1, <2>1, <2>2 DEF NoneHolds
<1>7. CASE HandleEvent
  <2>1. PICK r \in Tasks : r = running
    BY <1>1, <1>7, EventHandled DEF Typed
  <2>2. Drain(r) \in PoolTask /\ tasks' = Append(tasks, Drain(r)) /\ life[r] # "none"
    BY <1>1, <1>3, <1>7, <2>1, EventOf, PoolTasks
  <2>3. QED
    BY <1>2, <2>2, QueueTasks
<1>8. ASSUME NEW r \in Tasks, DestructEnsure(r) PROVE FALSE
  <2>1. Wake(r) \in PoolTask /\ tasks' = Append(tasks, Wake(r))
    BY <1>8, PoolTasks DEF DestructEnsure
  <2>2. QED
    BY <1>2, <2>1, QueueTasks
<1>9. ~DrainEnds
  BY <1>3 DEF DrainEnds
<1>10. QED
  BY <1>3, <1>4, <1>5, <1>6, <1>7, <1>8, <1>9, PoolChanges DEF PoolStep, poolVars

LEMMA InOrderStep ==
    ASSUME StopInv, ManagerOnly, StopCovered', InOrder, Next
    PROVE  InOrder'
<1> SUFFICES ASSUME NEW r \in Tasks, NEW s \in Tasks, r < s PROVE After(r, s)'
  BY DEF InOrder
<1>1. /\ After(r, s) /\ Typed /\ Held /\ WakeWaits /\ Started /\ StoppedWhenDestroyed /\ RunTimes
      /\ PoolTyped /\ LifeTyped /\ MachineTyped /\ ManagerTyped
      /\ tasks \in Seq(PoolTask) /\ Len(tasks) \in Nat /\ NoTask \notin Tasks /\ r # s
  BY TypeParts, TaskNumbers DEF StopInv, Typed, PoolTyped, InOrder
<1>2. ASSUME life'[s] # "none" PROVE life'[r] # "none" /\ "manager" \notin refs'[r]
  <2>1. CASE life[s] # "none"
    <3>1. life[r] # "none" /\ "manager" \notin refs[r]
      BY <1>1, <2>1 DEF After
    <3>2. life'[r] # "none"
      BY <1>1, <3>1, LifeMoves
    <3>3. "manager" \notin refs'[r]
      BY <1>1, <3>1, ManagerRefs
    <3>4. QED
      BY <3>2, <3>3
  <2>2. CASE life[s] = "none"
    <3>1. PICK x \in Executors : Begin(x)
      BY <1>1, <1>2, <2>2, LifeMoves
    <3>2. PICK t \in Tasks : /\ \A q \in 1..(t - 1) : life[q] # "none"
                             /\ life' = [life EXCEPT ![t] = "alive"]
                             /\ refs' = [refs EXCEPT ![t] = {"manager"}]
      BY <3>1 DEF Begin
    <3>3. t = s
      BY <1>1, <1>2, <2>2, <3>2 DEF LifeTyped
    <3>4. r \in 1..(s - 1)
      BY DEF Tasks
    <3>5. life'[r] # "none" /\ refs'[r] = refs[r]
      BY <1>1, <3>2, <3>3, <3>4 DEF LifeTyped
    <3>6. op.pc = "idle" /\ taskInProc = NoTask
      BY <3>1 DEF Begin, Idle
    <3>7. "manager" \notin refs[r]
      BY <1>1, <3>6 DEF ManagerOnly
    <3>8. QED
      BY <3>5, <3>7
  <2>3. QED
    BY <2>1, <2>2
<1>3. ASSUME NEW k \in 1..Len(tasks'), tasks'[k] = Drain(s) PROVE Covered(r, k)'
  <2>1. CASE k \in 1..Len(tasks) /\ tasks'[k] = tasks[k] /\ ~(TakeDrain \/ TakeWake)
    <3>1. Covered(r, k) /\ k \in 0..Len(tasks)
      BY <1>1, <1>3, <2>1 DEF After
    <3>2. QED
      BY <1>1, <2>1, <3>1, CoveredKept
  <2>2. CASE k + 1 \in 1..Len(tasks) /\ tasks'[k] = tasks[k + 1] /\ (TakeDrain \/ TakeWake)
    <3>1. Covered(r, k + 1) /\ k + 1 \in 0..Len(tasks) /\ k + 1 >= 1 /\ (k + 1) - 1 = k
      BY <1>1, <1>3, <2>2 DEF After
    <3>2. Covered(r, (k + 1) - 1)'
      BY <1>1, <2>2, <3>1, CoveredKept
    <3>3. QED
      BY <3>1, <3>2
  <2>3. CASE k = Len(tasks) + 1
    <3>1. ~(TakeDrain \/ TakeWake)
      <4>1. TakeDrain \/ TakeWake => Len(tasks') = Len(tasks) - 1
        BY <1>1, Taken DEF TakeDrain, TakeWake
      <4>2. QED
        BY <1>1, <1>3, <2>3, <4>1
    <3>2. tasks' = Append(tasks, Drain(s)) /\ Len(tasks') = k
      <4>1. PICK x \in PoolTask : tasks' = Append(tasks, x)
        BY <1>1, <1>3, <2>3, <3>1, QueueMoves, PoolTasks
      <4>2. Len(tasks') = Len(tasks) + 1 /\ tasks'[Len(tasks) + 1] = x
        BY <1>1, <4>1, AppendProperties
      <4>3. QED
        BY <1>3, <2>3, <4>1, <4>2
    <3>3. life[s] # "none"
      BY <3>1, <3>2, PostedTask
    <3>4. life'[s] # "none"
      BY <1>1, <3>3, LifeMoves
    <3>5. Released(r)'
      BY <1>2, <3>4 DEF Released
    <3>6. Covered(r, Len(tasks))'
      BY <3>5 DEF StopCovered
    <3>7. QED
      BY <3>2, <3>6 DEF Covered, Capacity
  <2>4. QED
    BY <1>1, <1>3, <2>1, <2>2, <2>3, QueuedBefore
<1>4. ASSUME running' = s \/ state'[s] # "S_INIT" PROVE state'[r] = "S_END"
  <2>1. CASE running = s \/ state[s] # "S_INIT"
    BY <1>1, <2>1, StopKept DEF After
  <2>2. CASE running # s /\ state[s] = "S_INIT"
    <3>1. state'[s] = state[s]
      BY <1>1, <2>2, MachineMoves
    <3>2. running' = s /\ running # s
      BY <1>4, <2>2, <3>1
    <3>3. TakeDrain
      BY <1>1, <3>2, PoolChanges DEF poolVars, StartPost, StopPost, PoolStep, TakeWake, HandleEvent, DrainEnds, SensorPost,
         TimerPost, DestructEnsure
    <3>4. tasks # <<>> /\ running = NoTask /\ Head(tasks).kind = "drain"
      BY <3>3 DEF TakeDrain
    <3>5. Head(tasks).task = s
      BY <1>1, <3>2, <3>3 DEF TakeDrain
    <3>6. tasks[1] = Drain(s) /\ 1 \in 1..Len(tasks)
      BY <1>1, <3>4, <3>5, Taken
    <3>7. Covered(r, 1)
      BY <1>1, <3>6 DEF After
    <3>8. Count(tasks, r, 1) = 0
      <4>1. Count(Tail(tasks), r, 1 - 1) = Count(tasks, r, 1) - OneIf(tasks[1] = Drain(r))
        BY <1>1, <3>4, <3>6, CountTail
      <4>2. Count(Tail(tasks), r, 0) = 0 /\ tasks[1] # Drain(r) /\ Count(tasks, r, 1) \in Nat
        BY <1>1, <3>6, CountEmpty, CountType, QueueTasks
      <4>3. QED
        BY <4>1, <4>2 DEF OneIf
    <3>9. Capacity(r, 1) = 0
      BY <1>1, <3>4, <3>8, Constants DEF Capacity
    <3>10. state[r] = "S_END"
      BY <3>7, <3>9 DEF Covered, StopAt
    <3>11. QED
      BY <1>1, <3>10, StopKept
  <2>3. QED
    BY <2>1, <2>2
<1>5. QED
  BY <1>2, <1>3, <1>4 DEF After

(* The inductive invariant of the order of sessions.                       *)
OrderInv == StopInv /\ ManagerOnly /\ StopCovered /\ InOrder

LEMMA OrderInvInit == ASSUME Init PROVE OrderInv
<1>1. /\ StopInv /\ tasks = <<>> /\ running = NoTask /\ op.pc = "idle" /\ NoTask \notin Tasks
      /\ \A s \in Tasks : life[s] = "none" /\ refs[s] = {} /\ state[s] = "S_INIT"
  BY StopInvInit, TaskNumbers DEF Init, TaskInit, Idle
<1>2. 1..Len(tasks) = {}
  BY <1>1
<1>3. QED
  BY <1>1, <1>2 DEF OrderInv, ManagerOnly, StopCovered, Released, InOrder, After

LEMMA OrderInvStep == ASSUME MAX_SCHEDULE_TIMES >= 3, OrderInv, [Next]_vars PROVE OrderInv'
<1>1. StopInv /\ StopInv'
  BY StopInvStep DEF OrderInv
<1>2. CASE Next
  <2>1. ManagerOnly' /\ StopCovered'
    BY <1>1, <1>2, ManagerOnlyStep, StopCoveredStep DEF OrderInv, StopInv
  <2>2. InOrder'
    BY <1>1, <1>2, <2>1, InOrderStep DEF OrderInv
  <2>3. QED
    BY <1>1, <2>1, <2>2 DEF OrderInv
<1>3. CASE UNCHANGED vars
  <2>1. UNCHANGED <<life, refs, state, pending, tasks, running, runTimes, op, taskInProc>>
    BY <1>3 DEF vars, taskVars, managerVars, lifeVars, machineVars, poolVars
  <2>2. QED
    BY <1>1, <2>1 DEF OrderInv, ManagerOnly, StopCovered, Released, InOrder, After, Covered, Capacity, StopAt
<1>4. QED
  BY <1>2, <1>3

LEMMA OneWorks == ASSUME InOrder PROVE OneWorking
<1> SUFFICES ASSUME NEW r \in Tasks, NEW s \in Tasks, state[r] \in Working, state[s] \in Working, r # s PROVE FALSE
  BY DEF OneWorking
<1>1. r < s \/ s < r
  BY DEF Tasks
<1>2. state[r] # "S_INIT" /\ state[r] # "S_END" /\ state[s] # "S_INIT" /\ state[s] # "S_END"
  BY DEF Working
<1>3. QED
  BY <1>1, <1>2 DEF InOrder, After

(* At most one session works at a time, although a command that begins one *)
(* does not wait for the end of the one before: with a limit of at least   *)
(* three events for a drain (the code has 100), E_START of a session is    *)
(* handled after E_STOP of all earlier ones, whoever still holds them.     *)
THEOREM OneWorkingCorrect == MAX_SCHEDULE_TIMES >= 3 => (Spec => []OneWorking)
<1> SUFFICES ASSUME MAX_SCHEDULE_TIMES >= 3 PROVE Spec => []OneWorking
  OBVIOUS
<1>1. Init => OrderInv
  BY OrderInvInit
<1>2. OrderInv /\ [Next]_vars => OrderInv'
  BY OrderInvStep
<1>3. OrderInv => OneWorking
  BY OneWorks DEF OrderInv
<1>4. QED
  BY <1>1, <1>2, <1>3, PTL DEF Spec
-------------------------------------------------------------------------------
(* The sensor and the screen of a session, which others must not disturb.  *)
LEMMA OrderInvariant == MAX_SCHEDULE_TIMES >= 3 => (Spec => []OrderInv)
<1> SUFFICES ASSUME MAX_SCHEDULE_TIMES >= 3 PROVE Spec => []OrderInv
  OBVIOUS
<1>1. Init => OrderInv
  BY OrderInvInit
<1>2. OrderInv /\ [Next]_vars => OrderInv'
  BY OrderInvStep
<1>3. QED
  BY <1>1, <1>2, PTL DEF Spec

LEMMA OneWorksNext == InOrder' => OneWorking'
<1>1. InOrder => OneWorking
  BY OneWorks
<1>2. QED
  BY <1>1, PTL

(* A working state is left for S_END only, and only S_INIT is left for the *)
(* first working state.                                                    *)
LEMMA WorkingMoves ==
    ASSUME NEW st \in State, NEW e \in Event
    PROVE  /\ st = "S_INIT" => NextState(st, e) = (IF e = "E_START" THEN W2 ELSE "S_INIT")
           /\ st = "S_END" => NextState(st, e) = "S_END"
           /\ NextState(st, e) = "S_END" => st \in Working \cup {"S_END"}
           /\ NextState(st, e) = IB => st \in Working
           /\ st = IB => NextState(st, e) \in {IB, "S_END"}
           /\ W2 \in Working /\ IB \in Working
BY Table DEF Working, State, Event, W2, WL, WD, IB, LIGHT, DELAY

LEMMA StopsQueued ==
    ASSUME NEW s \in Tasks
    PROVE  /\ (\E i \in DOMAIN pending[s] : pending[s][i] = "E_STOP") /\ Typed => \E i \in Nat : StopAt(s, i)
           /\ (\E i \in Nat : StopAt(s, i)') /\ Typed' => \E i \in DOMAIN pending'[s] : pending'[s][i] = "E_STOP"
<1>1. Typed => pending[s] \in Seq(Event)
  BY TypeParts DEF Typed, MachineTyped
<1>2. Typed' => pending'[s] \in Seq(Event)
  BY DEF Typed, TypeOK
<1>3. Typed => DOMAIN pending[s] = 1..Len(pending[s]) /\ Len(pending[s]) \in Nat
  BY <1>1, LenProperties
<1>4. Typed' => DOMAIN pending'[s] = 1..Len(pending'[s]) /\ Len(pending'[s]) \in Nat
  BY <1>2, LenProperties
<1>5. QED
  BY <1>3, <1>4 DEF StopAt

(* What the handlers of an event do to the sensor.                         *)
LEMMA HandlerSensor ==
    ASSUME NEW s \in Tasks, NEW e \in Event, state[s] \in State, Handlers(s, e)
    PROVE  \/ sensor' = sensor /\ ~(state[s] = "S_INIT" /\ e = "E_START")
           \/ NextState(state[s], e) = "S_END" /\ state[s] \in Working
           \/ /\ state[s] = "S_INIT" /\ e = "E_START"
              /\ sensor' = "active" \/ Scheduled(s, <<"E_STOP">>)
<1>1. CASE state[s] = "S_INIT" /\ e = "E_START"
  <2>1. ~Enters(s, e, "S_INCREASING_BRIGHTNESS") /\ ~Enters(s, e, "S_END")
    BY <1>1, WorkingMoves DEF Enters, W2
  <2>2. StartProcess(s)
    BY <1>1, <2>1 DEF Handlers
  <2>3. QED
    BY <1>1, <2>2 DEF StartProcess, SubscribeSensor
<1>2. CASE ~(state[s] = "S_INIT" /\ e = "E_START") /\ Enters(s, e, "S_END")
  BY <1>2, WorkingMoves DEF Enters
<1>3. CASE ~(state[s] = "S_INIT" /\ e = "E_START") /\ ~Enters(s, e, "S_END")
  BY <1>3 DEF Handlers, BeginIncreaseBrightness
<1>4. QED
  BY <1>1, <1>2, <1>3

LEMMA SensorKeptStep == ASSUME OrderInv, OrderInv', SensorKept, Next PROVE SensorKept'
<1> SUFFICES ASSUME NEW s \in Tasks, state'[s] \in Working, sensor' # "active"
             PROVE  \E i \in DOMAIN pending'[s] : pending'[s][i] = "E_STOP"
  BY DEF SensorKept
<1>1. /\ Typed /\ TypeOK /\ Held /\ Started /\ StoppedWhenDestroyed /\ Typed' /\ OneWorking /\ OneWorking' /\ MachineTyped
      /\ pending[s] \in Seq(Event)
  <2>1. Typed /\ Held /\ Started /\ StoppedWhenDestroyed /\ Typed' /\ InOrder /\ InOrder'
    BY DEF OrderInv, StopInv
  <2>2. OneWorking /\ OneWorking'
    BY <2>1, OneWorks, OneWorksNext
  <2>3. QED
    BY <2>1, <2>2, TypeParts DEF Typed, MachineTyped
<1>2. state'[s] # "S_END" /\ state'[s] # "S_INIT"
  BY DEF Working
<1>3. ASSUME NEW i \in Nat, StopAt(s, i) PROVE \E j \in DOMAIN pending'[s] : pending'[s][j] = "E_STOP"
  <2>1. StopAt(s, i)' \/ StopAt(s, i - 1)'
    BY <1>1, <1>2, <1>3, StopKept
  <2>2. i - 1 \in Nat
    BY <1>3 DEF StopAt
  <2>3. \E j \in Nat : StopAt(s, j)'
    BY <2>1, <2>2
  <2>4. QED
    BY <1>1, <2>3, StopsQueued
<1>4. ASSUME state[s] \in Working, sensor # "active" PROVE \E i \in DOMAIN pending'[s] : pending'[s][i] = "E_STOP"
  <2>1. \E i \in DOMAIN pending[s] : pending[s][i] = "E_STOP"
    BY <1>4 DEF SensorKept
  <2>2. QED
    BY <1>1, <1>3, <2>1, StopsQueued
<1>5. CASE ~HandleEvent
  <2>1. sensor' = sensor
    BY <1>5, DeviceChanges DEF deviceVars
  <2>2. state'[s] = state[s]
    BY <1>1, <1>5, MachineMoves
  <2>3. QED
    BY <1>4, <2>1, <2>2
<1>6. CASE HandleEvent
  <2>1. PICK r \in Tasks, e \in Event :
            /\ r = running /\ pending[r] # <<>> /\ state[r] \in State /\ Handlers(r, e)
            /\ state' = [state EXCEPT ![r] = NextState(state[r], e)]
    BY <1>1, <1>6, EventHandled
  <2>2. state'[r] = NextState(state[r], e) /\ (r # s => state'[s] = state[s])
    BY <1>1, <2>1 DEF MachineTyped
  <2>3. CASE sensor' = sensor /\ ~(state[r] = "S_INIT" /\ e = "E_START")
    <3>1. state[s] \in Working
      <4>1. CASE r # s
        BY <2>2, <4>1
      <4>2. CASE r = s
        BY <1>2, <2>1, <2>2, <2>3, <4>2, WorkingMoves DEF Working, State
      <4>3. QED
        BY <4>1, <4>2
    <3>2. QED
      BY <1>4, <2>3, <3>1
  <2>4. CASE NextState(state[r], e) = "S_END" /\ state[r] \in Working
    <3>1. r # s
      BY <1>2, <2>2, <2>4
    <3>2. state[s] \in Working
      BY <2>2, <3>1
    <3>3. QED
      BY <1>1, <2>4, <3>1, <3>2 DEF OneWorking
  <2>5. CASE state[r] = "S_INIT" /\ e = "E_START" /\ Scheduled(r, <<"E_STOP">>)
    <3>1. state'[r] \in Working
      BY <2>1, <2>2, <2>5, WorkingMoves
    <3>2. r = s
      BY <1>1, <3>1 DEF OneWorking
    <3>3. pending'[s] = Tail(pending[s]) \o <<"E_STOP">>
      BY <1>1, <2>5, <3>2 DEF Scheduled, MachineTyped
    <3>4. Tail(pending[s]) \in Seq(Event) /\ <<"E_STOP">> \in Seq(Event) /\ Len(<<"E_STOP">>) = 1
      BY <1>1, <2>1, <3>2 DEF Event
    <3>5. PICK q \in Seq(Event) : q = Tail(pending[s])
      BY <3>4
    <3>6. pending'[s] = q \o <<"E_STOP">> /\ Len(q) \in Nat
      BY <3>3, <3>5
    <3>7. Len(q) + 1 \in DOMAIN pending'[s] /\ pending'[s][Len(q) + 1] = "E_STOP"
      BY <3>4, <3>6
    <3>8. QED
      BY <3>7
  <2>6. QED
    BY <2>1, <2>3, <2>4, <2>5, HandlerSensor
<1>7. QED
  BY <1>5, <1>6

(* A working session has the sensor until it is about to stop: neither the *)
(* end of an earlier session, which may be handled long after the command  *)
(* that stopped it, nor a failing start takes it away.                     *)
THEOREM SensorKeptCorrect == MAX_SCHEDULE_TIMES >= 3 => (Spec => []SensorKept)
<1> SUFFICES ASSUME MAX_SCHEDULE_TIMES >= 3 PROVE Spec => []SensorKept
  OBVIOUS
<1>1. Init => SensorKept
  BY DEF Init, TaskInit, SensorKept, Working
<1>2. OrderInv /\ OrderInv' /\ SensorKept /\ [Next]_vars => SensorKept'
  <2>1. SUFFICES ASSUME OrderInv, OrderInv', SensorKept, [Next]_vars PROVE SensorKept'
    OBVIOUS
  <2>2. CASE UNCHANGED vars
    BY <2>1, <2>2 DEF vars, taskVars, machineVars, deviceVars, SensorKept
  <2>3. QED
    BY <2>1, <2>2, SensorKeptStep
<1>3. QED
  BY <1>1, <1>2, OrderInvariant, PTL DEF Spec

-------------------------------------------------------------------------------
(* From its index on, the ramp of a task that is increasing the brightness *)
(* is not below what the screen shows.                                     *)
Ahead(s) == \A j \in index[s]..Size : screen <= INCREASE_BRIGHTNESS_ARRAY[j]
RampAhead == \A s \in Tasks : state[s] = IB => Ahead(s)

(* What the handlers of an event do to the screen and the place in the     *)
(* ramp.                                                                   *)
LEMMA HandlerRamp ==
    ASSUME TypeOK, NEW s \in Tasks, NEW e \in Event, Handlers(s, e)
    PROVE  /\ \A r \in Tasks \ {s} : index'[r] = index[r]
           /\ \/ screen' = screen /\ (state[s] = IB => index'[s] >= index[s])
              \/ screen' = Restored
              \/ \E i \in 1..Size : /\ screen' = INCREASE_BRIGHTNESS_ARRAY[i] /\ index'[s] = i + 1
                                    /\ NextState(state[s], e) = IB
                                    /\ state[s] = IB => i = index[s]
<1>1. /\ index \in [Tasks -> 1..(Size + 1)] /\ state[s] \in State /\ Size \in Nat /\ index[s] \in 1..(Size + 1)
      /\ index[s] \in Int /\ index[s] >= 1
  BY Constants DEF TypeOK
<1>2. ASSUME NEW i \in 1..(Size + 1), DoIncreaseBrightness(s, i), NextState(state[s], e) = IB, state[s] = IB => i = index[s]
      PROVE  /\ \A r \in Tasks \ {s} : index'[r] = index[r]
             /\ \/ screen' = screen /\ (state[s] = IB => index'[s] >= index[s])
                \/ \E j \in 1..Size : /\ screen' = INCREASE_BRIGHTNESS_ARRAY[j] /\ index'[s] = j + 1
                                      /\ NextState(state[s], e) = IB
                                      /\ state[s] = IB => j = index[s]
  <2>1. index'[s] = (IF i <= Size THEN i + 1 ELSE i) /\ \A r \in Tasks \ {s} : index'[r] = index[r]
    BY <1>1, <1>2 DEF DoIncreaseBrightness
  <2>2. CASE Overrides(i, increaseBrightnessMax)
    <3>1. screen' = INCREASE_BRIGHTNESS_ARRAY[i] /\ i \in 1..Size /\ index'[s] = i + 1
      BY <1>1, <1>2, <2>1, <2>2 DEF DoIncreaseBrightness, Overrides
    <3>2. QED
      BY <1>2, <2>1, <3>1
  <2>3. CASE ~Overrides(i, increaseBrightnessMax)
    <3>1. screen' = screen /\ index'[s] >= i
      BY <1>1, <1>2, <2>1, <2>3 DEF DoIncreaseBrightness
    <3>2. QED
      BY <1>2, <2>1, <3>1
  <2>4. QED
    BY <2>2, <2>3
<1>3. CASE UNCHANGED <<index, screen>>
  BY <1>1, <1>3
<1>4. CASE EndProcess(s)
  BY <1>4 DEF EndProcess
<1>5. CASE DoIncreaseBrightness(s, index[s]) /\ state[s] = IB /\ e = "E_INCREASE_BRIGHTNESS"
  <2>1. NextState(state[s], e) = IB
    BY <1>1, <1>5, Table DEF W2, WL, WD, IB
  <2>2. QED
    BY <1>1, <1>2, <1>5, <2>1
<1>6. CASE BeginIncreaseBrightness(s) /\ Enters(s, e, IB)
  <2>1. NextState(state[s], e) = IB /\ state[s] # IB
    BY <1>6 DEF Enters
  <2>2. \/ UNCHANGED <<index, screen>>
        \/ \E b \in Readings : b # INVALID_BRIGHTNESS /\ DoIncreaseBrightness(s, GetIncreaseBrightnessStartIndex(b))
    BY <1>6 DEF BeginIncreaseBrightness
  <2>3. ASSUME NEW b \in Readings, b # INVALID_BRIGHTNESS PROVE GetIncreaseBrightnessStartIndex(b) \in 1..(Size + 1)
    <3>1. b \in Int
      BY <2>3, Constants
    <3>2. QED
      BY <3>1, StartIndex
  <2>4. QED
    BY <1>2, <1>3, <2>1, <2>2, <2>3
<1>7. QED
  BY <1>3, <1>4, <1>5, <1>6 DEF Handlers, StartProcess, IB

LEMMA RampStep ==
    ASSUME OrderInv, OrderInv', OverrideJustified, RampAhead, Next
    PROVE  RampAhead' /\ (screen' # Restored => screen' >= screen)
<1> DEFINE A == INCREASE_BRIGHTNESS_ARRAY
<1>1. /\ Typed /\ TypeOK /\ Typed' /\ StoppedWhenDestroyed /\ OneWorking' /\ MachineTyped /\ DataTyped
      /\ InOrder /\ InOrder'
  BY TypeParts, OneWorksNext DEF OrderInv, StopInv, Typed
<1>2. screen \in Int /\ screen >= 0 /\ screen' \in Int /\ screen' >= 0
  BY <1>1, Constants DEF Typed, TypeOK
<1>3. /\ Size \in Nat /\ \A j \in 1..Size : A[j] \in Int /\ A[j] >= 1
      /\ \A i, j \in 1..Size : i <= j => A[i] <= A[j]
  BY Constants
<1>4. \A s \in Tasks : /\ index[s] \in Int /\ index[s] >= 1 /\ index[s] <= Size + 1
                       /\ index'[s] \in Int /\ index'[s] >= 1 /\ index'[s] <= Size + 1
  BY <1>1, <1>3 DEF Typed, TypeOK
<1>5. CASE ~HandleEvent
  <2>1. screen' = screen
    BY <1>5, DeviceChanges DEF deviceVars
  <2>2. state' = state
    BY <1>5, MachineChanges DEF machineVars, Begin, End, SensorPush, TimerPush, DestructDone
  <2>3. ASSUME NEW s \in Tasks, state[s] = IB PROVE index'[s] = index[s]
    <3>1. ASSUME NEW r \in Tasks, DestructDone(r) PROVE index'[s] = index[s]
      <4>1. life[r] = "woken" /\ index' = [index EXCEPT ![r] = 1]
        BY <3>1 DEF DestructDone
      <4>2. r # s
        BY <1>1, <2>3, <4>1 DEF StoppedWhenDestroyed, IB
      <4>3. QED
        BY <1>1, <4>1, <4>2 DEF DataTyped
    <3>2. QED
      BY <1>5, <3>1, DataChanges DEF dataVars, SensorSet
  <2>4. QED
    BY <1>2, <2>1, <2>2, <2>3 DEF RampAhead, Ahead
<1>6. CASE HandleEvent
  <2>1. PICK s \in Tasks, e \in Event :
            /\ state[s] \in State /\ Handlers(s, e)
            /\ state' = [state EXCEPT ![s] = NextState(state[s], e)]
    BY <1>1, <1>6, EventHandled
  <2>2. state'[s] = NextState(state[s], e) /\ \A r \in Tasks \ {s} : state'[r] = state[r]
    BY <1>1, <2>1 DEF MachineTyped
  <2>3. /\ \A r \in Tasks \ {s} : index'[r] = index[r]
        /\ \/ screen' = screen /\ (state[s] = IB => index'[s] >= index[s])
           \/ screen' = Restored
           \/ \E i \in 1..Size : /\ screen' = A[i] /\ index'[s] = i + 1
                                 /\ NextState(state[s], e) = IB
                                 /\ state[s] = IB => i = index[s]
    BY <1>1, <2>1, HandlerRamp
  <2>4. ASSUME NEW r \in Tasks, state'[r] = IB, state'[s] = IB PROVE r = s
    BY <1>1, <2>4, WorkingMoves DEF OneWorking, Working, State, IB
  <2>5. state[s] # IB /\ state'[s] = IB => screen = Restored
    <3>1. SUFFICES ASSUME state[s] # IB, state'[s] = IB, NEW r \in Tasks, state[r] = IB PROVE FALSE
      BY DEF OverrideJustified, IB
    <3>2. r # s /\ state'[r] = IB
      BY <2>2, <3>1
    <3>3. QED
      BY <2>4, <3>1, <3>2
  <2>6. CASE screen' = Restored
    BY <1>3, <1>4, <2>6 DEF RampAhead, Ahead, Restored
  <2>7. CASE screen' = screen /\ (state[s] = IB => index'[s] >= index[s])
    <3>1. ASSUME NEW r \in Tasks, state'[r] = IB, NEW j \in index'[r]..Size PROVE screen' <= A[j]
      <4>1. j \in 1..Size
        BY <1>3, <1>4
      <4>2. CASE r # s
        BY <2>2, <2>3, <2>7, <3>1, <4>2 DEF RampAhead, Ahead
      <4>3. CASE r = s /\ state[s] = IB
        <5>1. j \in index[s]..Size
          BY <1>3, <1>4, <2>7, <3>1, <4>3
        <5>2. QED
          BY <2>7, <4>3, <5>1 DEF RampAhead, Ahead
      <4>4. CASE r = s /\ state[s] # IB
        BY <1>3, <2>5, <2>7, <3>1, <4>1, <4>4 DEF Restored
      <4>5. QED
        BY <4>2, <4>3, <4>4
    <3>2. QED
      BY <1>2, <2>7, <3>1 DEF RampAhead, Ahead
  <2>8. ASSUME NEW i \in 1..Size, screen' = A[i], index'[s] = i + 1, NextState(state[s], e) = IB, state[s] = IB => i = index[s]
        PROVE  RampAhead' /\ screen' >= screen
    <3>1. ASSUME NEW r \in Tasks, state'[r] = IB, NEW j \in index'[r]..Size PROVE screen' <= A[j]
      <4>1. r = s
        BY <2>2, <2>4, <2>8, <3>1
      <4>2. j \in 1..Size /\ i <= j
        BY <1>3, <1>4, <2>8, <3>1, <4>1
      <4>3. QED
        BY <1>3, <2>8, <4>2
    <3>2. screen' >= screen
      <4>1. CASE state[s] = IB
        <5>1. i \in index[s]..Size
          BY <1>3, <2>8, <4>1
        <5>2. screen <= A[i]
          BY <4>1, <5>1 DEF RampAhead, Ahead
        <5>3. QED
          BY <1>2, <2>8, <5>2
      <4>2. CASE state[s] # IB
        BY <1>2, <2>2, <2>5, <2>8, <4>2 DEF Restored
      <4>3. QED
        BY <4>1, <4>2
    <3>3. QED
      BY <3>1, <3>2 DEF RampAhead, Ahead
  <2>9. QED
    BY <2>3, <2>6, <2>7, <2>8
<1>7. QED
  BY <1>5, <1>6

(* A step that leaves the screen overridden never darkens it: the ramp is  *)
(* sorted, its index only goes up while a session increases, and no other  *)
(* session is there to override in between.                                *)
THEOREM BrightnessRisesCorrect == MAX_SCHEDULE_TIMES >= 3 => (Spec => BrightnessRises)
<1> SUFFICES ASSUME MAX_SCHEDULE_TIMES >= 3 PROVE Spec => BrightnessRises
  OBVIOUS
<1>1. Init => RampAhead
  BY DEF Init, TaskInit, RampAhead, IB
<1>2. OrderInv /\ OrderInv' /\ OverrideJustified /\ RampAhead /\ [Next]_vars
        => RampAhead' /\ [screen' # Restored => screen' >= screen]_screen
  <2>1. SUFFICES ASSUME OrderInv, OrderInv', OverrideJustified, RampAhead, [Next]_vars
                 PROVE  RampAhead' /\ [screen' # Restored => screen' >= screen]_screen
    OBVIOUS
  <2>2. CASE UNCHANGED vars
    BY <2>1, <2>2 DEF vars, taskVars, machineVars, dataVars, deviceVars, RampAhead, Ahead
  <2>3. QED
    BY <2>1, <2>2, RampStep
<1>3. QED
  BY <1>1, <1>2, OrderInvariant, OverrideCorrect, PTL DEF Spec, BrightnessRises

-------------------------------------------------------------------------------
(* The end of a session: the safety behind StopCompletes.                  *)

(* Where a holder of a task is, and where the thread is that destroys it.  *)
HolderAt(s, h) ==
    CASE h = "manager" -> taskInProc = s \/ (op.task = s /\ op.pc \in {"startPost", "publish"})
      [] h = "timer" -> timerPc[s] \in {"push", "post", "drop"}
      [] h = "sensor" -> sensorTask = s /\ sensorPc \in {"set", "push", "post", "drop"}
DestructorAt(s, h) ==
    CASE h = "manager" -> op.task = s /\ op.pc = "destruct"
      [] h = "timer" -> timerPc[s] = "destruct"
      [] h = "sensor" -> sensorTask = s /\ sensorPc = "destruct"

(* No task is leaked: each reference is that of a thread on its way to let *)
(* go of it, or of the manager, and a task without one is being destroyed. *)
NothingLeaks ==
    \A s \in Tasks :
        /\ \A h \in refs[s] : HolderAt(s, h)
        /\ life[s] = "alive" => refs[s] # {}

(* A destructor is run by the thread that let go last, and by no other;    *)
(* when it waits for the timer thread that one has no reference to get rid *)
(* of, and when it waits for the pool its wake-up is in the pool's queue.  *)
Ending == {"shutdown", "wait", "woken"}
DestroyerRuns(s) == life[s] \in Ending => DestructorAt(s, destroyer[s])
RunsForIt(s) == \A h \in Holder : DestructorAt(s, h) => destroyer[s] = h /\ life[s] \in Ending \cup {"dead"}
JoinEnds(s) == life[s] = "shutdown" => timerPc[s] \in {"idle", "lock"} \/ destroyer[s] = "timer"
WakeQueued(s) == life[s] = "wait" => \E k \in 1..Len(tasks) : tasks[k] = Wake(s)
DestructorsGoOn == \A s \in Tasks : DestroyerRuns(s) /\ RunsForIt(s) /\ JoinEnds(s) /\ WakeQueued(s)

(* While a destructor waits for the pool each step of the pool thread      *)
(* wakes it, moves its wake-up a place forward or leaves less of the       *)
(* running drain; no other step changes anything of that.                  *)
DrainLeft == IF running = NoTask THEN 0 ELSE MAX_SCHEDULE_TIMES - runTimes
LeftOver == DrainLeft \in Nat
WaitShortens ==
    \A s \in Tasks : \A k \in 1..Len(tasks) : tasks[k] = Wake(s) =>
        LET StaysAt(i) == i \in 1..Len(tasks') /\ tasks'[i] = Wake(s) IN
        IF PoolThread
        THEN \/ k = 1 /\ life'[s] = "woken"
             \/ k > 1 /\ StaysAt(k - 1)
             \/ StaysAt(k) /\ DrainLeft' < DrainLeft
        ELSE StaysAt(k) /\ DrainLeft' = DrainLeft

(* A reference is gained only where its holder takes it.                   *)
LEMMA RefsGained ==
    ASSUME Typed, Next, NEW s \in Tasks, NEW h \in refs'[s], h \notin refs[s]
    PROVE  \/ h = "timer" /\ TimerLock(s) /\ life[s] = "alive"
           \/ h = "sensor" /\ SensorCopy /\ sensorTask = s /\ life[s] = "alive"
           \/ h = "manager" /\ \E x \in Executors : Begin(x)
<1>1. LifeTyped
  BY TypeParts DEF Typed
<1>2. CASE UNCHANGED lifeVars
  BY <1>2 DEF lifeVars
<1>3. ASSUME NEW r \in Tasks, NEW g \in Holder, DropRef(r, g) PROVE FALSE
  BY <1>1, <1>3 DEF DropRef, LifeTyped
<1>4. CASE Reset \/ SensorDrop
  BY <1>3, <1>4 DEF Reset, SensorDrop, Typed, HoldersKnown, Holder
<1>5. ASSUME NEW x \in Executors, Begin(x) PROVE h = "manager"
  BY <1>1, <1>5 DEF Begin, LifeTyped
<1>6. CASE TakeWake
  BY <1>6 DEF TakeWake
<1>7. CASE SensorCopy
  BY <1>1, <1>7 DEF SensorCopy, LifeTyped, Typed, HoldersKnown
<1>8. ASSUME NEW r \in Tasks, DestructEnsure(r) \/ DestructDone(r) PROVE FALSE
  BY <1>8 DEF DestructEnsure, DestructDone
<1>9. ASSUME NEW r \in Tasks, TimerLock(r) PROVE h = "timer" /\ TimerLock(s) /\ life[s] = "alive"
  BY <1>1, <1>9 DEF TimerLock, LifeTyped
<1>10. ASSUME NEW r \in Tasks, TimerDrop(r) PROVE FALSE
  BY <1>3, <1>10 DEF TimerDrop, Holder
<1>11. QED
  BY <1>2, <1>4, <1>5, <1>6, <1>7, <1>8, <1>9, <1>10, LifeChanges

(* The last reference that is dropped starts the destructor; until then    *)
(* others are left.                                                        *)
LEMMA Dropped ==
    ASSUME Typed, NEW s \in Tasks, NEW h \in Holder, DropRef(s, h)
    PROVE  /\ refs[s] = {h} => life'[s] = "shutdown" /\ destroyer'[s] = h /\ refs'[s] = {}
           /\ refs[s] # {h} /\ refs[s] # {} => refs'[s] # {}
           /\ refs[s] # {h} => life'[s] = life[s]
           /\ \A r \in Tasks \ {s} : life'[r] = life[r] /\ destroyer'[r] = destroyer[r] /\ refs'[r] = refs[r]
           /\ h \notin refs'[s]
BY TypeParts DEF Typed, LifeTyped, DropRef

LEMMA LeaksStep ==
    ASSUME Typed, Held, WakeWaits, ManagerOnly', NothingLeaks, Next
    PROVE  NothingLeaks'
<1>1. LifeTyped /\ TimerTyped /\ ManagerTyped /\ LifeTyped'
  BY TypeParts, LifeKept DEF Typed
<1>2. ASSUME NEW s \in Tasks, NEW h \in refs'[s] PROVE HolderAt(s, h)'
  <2>1. h \in {"manager", "timer", "sensor"}
    BY <1>1, <1>2 DEF LifeTyped, Holder
  <2>2. CASE h = "manager"
    <3>1. s = taskInProc' \/ (op'.task = s /\ op'.pc \in {"startPost", "publish"})
      BY <1>2, <2>2 DEF ManagerOnly
    <3>2. QED
      BY <2>2, <3>1 DEF HolderAt
  <2>3. CASE h = "timer"
    <3>1. timerPc'[s] \in {"push", "post", "drop"}
      <4>1. CASE h \in refs[s]
        <5>1. timerPc[s] \in {"push", "post", "drop"}
          BY <2>3, <4>1 DEF NothingLeaks, HolderAt
        <5>2. ~TimerDrop(s)
          BY <1>2, <2>3, Dropped DEF TimerDrop, Holder
        <5>3. QED
          BY <1>1, <5>1, <5>2, TimerChanges DEF timerVars, HandleEvent, TimerStep, TimerFires, TimerLock, TimerPush,
             TimerPost, TimerDrop, TimerReturn, DestructEnsure, TimerTyped
      <4>2. CASE h \notin refs[s]
        <5>1. TimerLock(s) /\ life[s] = "alive"
          BY <2>3, <4>2, RefsGained
        <5>2. QED
          BY <1>1, <5>1 DEF TimerLock, TimerTyped
      <4>3. QED
        BY <4>1, <4>2
    <3>2. QED
      BY <2>3, <3>1 DEF HolderAt
  <2>4. CASE h = "sensor"
    <3>1. sensorTask' = s /\ sensorPc' \in {"set", "push", "post", "drop"}
      <4>1. CASE h \in refs[s]
        <5>1. sensorTask = s /\ sensorPc \in {"set", "push", "post", "drop"}
          BY <2>4, <4>1 DEF NothingLeaks, HolderAt
        <5>2. ~SensorDrop
          BY <1>2, <2>4, <5>1, Dropped DEF SensorDrop, Holder
        <5>3. QED
          BY <5>1, <5>2, SensorChanges DEF sensorVars, SensorReport, SensorStep, SensorLoad, SensorCopy, SensorSet,
             SensorPush, SensorPost, SensorReturn
      <4>2. CASE h \notin refs[s]
        <5>1. SensorCopy /\ sensorTask = s /\ life[s] = "alive"
          BY <2>4, <4>2, RefsGained
        <5>2. QED
          BY <5>1 DEF SensorCopy
      <4>3. QED
        BY <4>1, <4>2
    <3>2. QED
      BY <2>4, <3>1 DEF HolderAt
  <2>5. QED
    BY <2>1, <2>2, <2>3, <2>4
<1>3. ASSUME NEW s \in Tasks, life'[s] = "alive" PROVE refs'[s] # {}
  <2>1. (life[s] = "alive" /\ refs[s] # {}) \/ refs'[s] = {"manager"}
    BY <1>3, LifeMoves DEF NothingLeaks
  <2>2. CASE life[s] = "alive" /\ refs[s] # {}
    <3>1. PICK h \in refs[s] : TRUE
      BY <2>2
    <3>2. CASE h \in refs'[s]
      BY <3>2
    <3>3. CASE h \notin refs'[s]
      <4>1. h \in Holder /\ DropRef(s, h)
        BY <3>3, RefsLost DEF TimerDrop, SensorDrop, Reset, Holder
      <4>2. QED
        BY <1>3, <2>2, <4>1, Dropped
    <3>4. QED
      BY <3>2, <3>3
  <2>3. QED
    BY <2>1, <2>2
<1>4. QED
  BY <1>2, <1>3 DEF NothingLeaks

(* Nothing is dropped of a task that is being destroyed.                   *)
LEMMA DestroyerKept ==
    ASSUME Typed, Held, Next, NEW s \in Tasks, refs[s] = {}
    PROVE  destroyer'[s] = destroyer[s]
<1>1. LifeTyped
  BY TypeParts DEF Typed
<1>2. ASSUME NEW r \in Tasks, NEW h \in Holder, DropRef(r, h) PROVE destroyer'[s] = destroyer[s]
  BY <1>1, <1>2 DEF DropRef, LifeTyped
<1>3. CASE Reset \/ SensorDrop
  BY <1>2, <1>3 DEF Reset, SensorDrop, Typed, HoldersKnown, Holder
<1>4. ASSUME NEW r \in Tasks, TimerDrop(r) PROVE destroyer'[s] = destroyer[s]
  BY <1>2, <1>4 DEF TimerDrop, Holder
<1>5. QED
  BY <1>3, <1>4, LifeChanges DEF lifeVars, Begin, TakeWake, SensorCopy, TimerLock, DestructEnsure, DestructDone

(* A thread comes to a destructor by dropping the last reference, and      *)
(* leaves it when the task is dead.                                        *)
LEMMA DestructorMoves ==
    ASSUME Typed, Next, NEW s \in Tasks, NEW h \in Holder
    PROVE  /\ DestructorAt(s, h)' => DestructorAt(s, h) \/ (DropRef(s, h) /\ refs[s] = {h})
           /\ DestructorAt(s, h) /\ life[s] # "dead" => DestructorAt(s, h)'
<1>1. LifeTyped /\ TimerTyped /\ ManagerTyped /\ h \in {"manager", "timer", "sensor"}
  BY TypeParts DEF Typed, Holder
<1>2. CASE h = "manager"
  <2>1. op.pc = "idle" => op = Idle
    BY DEF Typed, HoldersKnown
  <2>2. op'.task = s /\ op'.pc = "destruct" =>
            (op.task = s /\ op.pc = "destruct") \/ (DropRef(s, "manager") /\ refs[s] = {"manager"})
    <3>1. CASE UNCHANGED managerVars
      BY <3>1 DEF managerVars
    <3>2. ASSUME NEW x \in Executors, Begin(x) \/ End(x) PROVE op'.pc # "destruct"
      <4>1. op.pc = "idle"
        BY <3>2 DEF Begin, End, Idle
      <4>2. QED
        BY <3>2, <4>1 DEF Begin, End
    <3>3. CASE StartPost \/ StopPost \/ Publish \/ Return
      BY <1>1, <3>3 DEF StartPost, StopPost, Publish, Return, Idle, ManagerTyped
    <3>4. CASE Reset
      <4>1. CASE refs[op.task] = {"manager"}
        BY <1>1, <3>4, <4>1 DEF Reset, AfterDrop, ManagerTyped
      <4>2. CASE refs[op.task] # {"manager"}
        BY <3>4, <4>2 DEF Reset, AfterDrop, Idle
      <4>3. QED
        BY <4>1, <4>2
    <3>5. QED
      BY <3>1, <3>2, <3>3, <3>4, Steps DEF ManagerStep
  <2>3. op.task = s /\ op.pc = "destruct" /\ life[s] # "dead" => op' = op
    BY Steps DEF ManagerStep, StartPost, StopPost, Publish, Return, Reset, Begin, End, Idle, managerVars
  <2>4. QED
    BY <1>2, <2>2, <2>3 DEF DestructorAt
<1>3. CASE h = "timer"
  <2>1. timerPc'[s] = "destruct" => timerPc[s] = "destruct" \/ (DropRef(s, "timer") /\ refs[s] = {"timer"})
    BY <1>1, TimerChanges DEF timerVars, HandleEvent, TimerStep, TimerFires, TimerLock, TimerPush,
       TimerPost, TimerDrop, AfterDrop, TimerReturn, DestructEnsure, TimerTyped
  <2>2. timerPc[s] = "destruct" /\ life[s] # "dead" => timerPc'[s] = "destruct"
    BY <1>1, TimerChanges DEF timerVars, HandleEvent, TimerStep, TimerFires, TimerLock, TimerPush,
       TimerPost, TimerDrop, AfterDrop, TimerReturn, DestructEnsure, TimerTyped
  <2>3. QED
    BY <1>3, <2>1, <2>2 DEF DestructorAt
<1>4. CASE h = "sensor"
  <2>1. sensorTask' = s /\ sensorPc' = "destruct" =>
            (sensorTask = s /\ sensorPc = "destruct") \/ (DropRef(s, "sensor") /\ refs[s] = {"sensor"})
    BY SensorChanges DEF sensorVars, SensorReport, SensorStep, SensorLoad, SensorCopy, SensorSet,
       SensorPush, SensorPost, SensorDrop, AfterDrop, SensorReturn
  <2>2. sensorTask = s /\ sensorPc = "destruct" /\ life[s] # "dead" => sensorTask' = s /\ sensorPc' = "destruct"
    BY SensorChanges DEF sensorVars, SensorReport, SensorStep, SensorLoad, SensorCopy, SensorSet,
       SensorPush, SensorPost, SensorDrop, AfterDrop, SensorReturn
  <2>3. QED
    BY <1>4, <2>1, <2>2 DEF DestructorAt
<1>5. QED
  BY <1>1, <1>2, <1>3, <1>4

(* What starts a destructor.                                               *)
LEMMA DestructorStarts ==
    ASSUME Typed, Held, Next, NEW s \in Tasks, life[s] = "alive", life'[s] = "shutdown"
    PROVE  DestructorAt(s, destroyer[s])' /\ destroyer'[s] \in Holder
<1>1. LifeTyped /\ TimerTyped /\ ManagerTyped
  BY TypeParts DEF Typed
<1>2. ASSUME NEW r \in Tasks, NEW h \in Holder, DropRef(r, h) PROVE r = s /\ refs[s] = {h} /\ destroyer'[s] = h
  BY <1>1, <1>2 DEF DropRef, LifeTyped
<1>3. CASE Reset
  <2>1. op.task = s /\ refs[s] = {"manager"} /\ destroyer'[s] = "manager"
    BY <1>2, <1>3 DEF Reset, Typed, HoldersKnown, Holder
  <2>2. op' = [op EXCEPT !.pc = "destruct"]
    BY <1>3, <2>1 DEF Reset, AfterDrop
  <2>3. op'.task = s /\ op'.pc = "destruct"
    BY <1>1, <2>1, <2>2 DEF ManagerTyped
  <2>4. QED
    BY <2>1, <2>3 DEF DestructorAt, Holder
<1>4. CASE SensorDrop
  <2>1. sensorTask = s /\ refs[s] = {"sensor"} /\ destroyer'[s] = "sensor"
    BY <1>2, <1>4 DEF SensorDrop, Typed, HoldersKnown, Holder
  <2>2. sensorPc' = "destruct" /\ sensorTask' = s
    BY <1>4, <2>1 DEF SensorDrop, AfterDrop
  <2>3. QED
    BY <2>1, <2>2 DEF DestructorAt, Holder
<1>5. ASSUME NEW r \in Tasks, TimerDrop(r) PROVE DestructorAt(s, destroyer[s])' /\ destroyer'[s] \in Holder
  <2>1. r = s /\ refs[s] = {"timer"} /\ destroyer'[s] = "timer"
    BY <1>2, <1>5 DEF TimerDrop, Holder
  <2>2. timerPc'[s] = "destruct"
    BY <1>1, <1>5, <2>1 DEF TimerDrop, AfterDrop, TimerTyped
  <2>3. QED
    BY <2>1, <2>2 DEF DestructorAt, Holder
<1>6. ~(TakeWake \/ SensorCopy \/ UNCHANGED lifeVars \/ \E x \in Executors : Begin(x))
  <2>1. ASSUME NEW x \in Executors, Begin(x) PROVE FALSE
    BY <1>1, <2>1 DEF Begin, LifeTyped
  <2>2. ASSUME TakeWake PROVE FALSE
    BY <1>1, <2>2 DEF TakeWake, LifeTyped
  <2>3. QED
    BY <2>1, <2>2 DEF SensorCopy, lifeVars
<1>7. ASSUME NEW r \in Tasks, TimerLock(r) \/ DestructEnsure(r) \/ DestructDone(r) PROVE FALSE
  BY <1>1, <1>7 DEF TimerLock, DestructEnsure, DestructDone, LifeTyped
<1>8. QED
  BY <1>3, <1>4, <1>5, <1>6, <1>7, LifeChanges

(* Where a wake-up is after a step.                                        *)
LEMMA WakePlace ==
    ASSUME Typed, Next, NEW s \in Tasks, NEW k \in 1..Len(tasks), tasks[k] = Wake(s)
    PROVE  /\ ~TakeDrain /\ ~TakeWake => k \in 1..Len(tasks') /\ tasks'[k] = Wake(s)
           /\ (TakeDrain \/ TakeWake) /\ k > 1 => k - 1 \in 1..Len(tasks') /\ tasks'[k - 1] = Wake(s)
           /\ (TakeDrain \/ TakeWake) /\ k = 1 => life'[s] = "woken"
<1>1. LifeTyped /\ PoolTyped /\ Len(tasks) \in Nat
  BY TypeParts DEF Typed, PoolTyped
<1>2. CASE TakeDrain \/ TakeWake
  <2>1. tasks # <<>> /\ tasks' = Tail(tasks) /\ Head(tasks) = tasks[1]
    BY <1>1, <1>2, Taken DEF TakeDrain, TakeWake
  <2>2. ASSUME k > 1 PROVE k - 1 \in 1..Len(tasks') /\ tasks'[k - 1] = Wake(s)
    <3>1. /\ Len(tasks') = Len(tasks) - 1
          /\ \A i \in 1..(Len(tasks) - 1) : tasks'[i] = tasks[i + 1]
      BY <1>1, <2>1, Taken
    <3>2. k - 1 \in 1..(Len(tasks) - 1) /\ (k - 1) + 1 = k
      BY <1>1, <2>2
    <3>3. QED
      BY <3>1, <3>2
  <2>3. ASSUME k = 1 PROVE life'[s] = "woken"
    <3>1. Head(tasks).kind = "wake" /\ Head(tasks).task = s
      BY <2>1, <2>3 DEF Wake
    <3>2. TakeWake
      BY <1>2, <3>1 DEF TakeDrain
    <3>3. QED
      BY <1>1, <3>1, <3>2 DEF TakeWake, LifeTyped
  <2>4. QED
    BY <1>2, <2>2, <2>3
<1>3. CASE ~TakeDrain /\ ~TakeWake
  <2>1. tasks' = tasks \/ \E x \in PoolTask : tasks' = Append(tasks, x)
    BY <1>3, QueueMoves, PoolTasks
  <2>2. k \in 1..Len(tasks') /\ tasks'[k] = tasks[k]
    <3>1. CASE tasks' = tasks
      BY <3>1
    <3>2. CASE \E x \in PoolTask : tasks' = Append(tasks, x)
      BY <1>1, <3>2, AppendProperties DEF PoolTyped
    <3>3. QED
      BY <2>1, <3>1, <3>2
  <2>3. QED
    BY <1>3, <2>2
<1>4. QED
  BY <1>2, <1>3

(* A queue that stays or grows has lost no task.                           *)
LEMMA NotTaken ==
    ASSUME PoolTyped, tasks # <<>>, NEW x \in PoolTask
    PROVE  tasks # Tail(tasks) /\ Append(tasks, x) # Tail(tasks)
<1>1. Len(tasks) \in Nat /\ Len(Tail(tasks)) = Len(tasks) - 1 /\ Len(Append(tasks, x)) = Len(tasks) + 1
  BY Taken, AppendProperties DEF PoolTyped
<1>2. ASSUME NEW n \in Nat, NEW t, NEW a, t = n - 1, a = n + 1 PROVE n # t /\ a # t
  BY <1>2
<1>3. Len(tasks) # Len(Tail(tasks)) /\ Len(Append(tasks, x)) # Len(Tail(tasks))
  BY <1>1, <1>2, Zenon
<1>4. QED
  BY <1>3, Zenon

LEMMA DestructorsStep ==
    ASSUME Typed, Held, Held', WakeWaits, DestructorsGoOn, Next
    PROVE  DestructorsGoOn'
<1>1. LifeTyped /\ TimerTyped /\ PoolTyped /\ LifeTyped' /\ TimerTyped'
  BY TypeParts, LifeKept, TimerKept DEF Typed
<1>2. ASSUME NEW s \in Tasks PROVE DestroyerRuns(s)'
  <2>1. SUFFICES ASSUME life'[s] \in Ending PROVE DestructorAt(s, destroyer[s])'
    BY DEF DestroyerRuns, Ending
  <2>2. CASE life[s] = "alive"
    BY <2>1, <2>2, LifeMoves, DestructorStarts DEF Ending
  <2>3. CASE life[s] # "alive"
    <3>1. life[s] \in Ending
      BY <2>1, <2>3, LifeMoves DEF Ending
    <3>2. refs[s] = {} /\ destroyer[s] \in Holder
      BY <1>1, <2>3 DEF Held, NoneHolds, LifeTyped
    <3>3. destroyer'[s] = destroyer[s]
      BY <3>2, DestroyerKept
    <3>4. DestructorAt(s, destroyer[s]) /\ life[s] # "dead"
      BY <3>1 DEF DestructorsGoOn, DestroyerRuns, Ending
    <3>5. ASSUME NEW h \in Holder, h = destroyer[s] PROVE DestructorAt(s, h)'
      BY <3>4, <3>5, DestructorMoves
    <3>6. QED
      BY <3>2, <3>3, <3>5 DEF DestructorAt
  <2>4. QED
    BY <2>2, <2>3
<1>3. ASSUME NEW s \in Tasks PROVE RunsForIt(s)'
  <2>1. SUFFICES ASSUME NEW h \in Holder, DestructorAt(s, h)'
                 PROVE  destroyer'[s] = h /\ life'[s] \in Ending \cup {"dead"}
    BY DEF RunsForIt, Ending
  <2>2. CASE DestructorAt(s, h)
    <3>1. destroyer[s] = h /\ life[s] \in Ending \cup {"dead"}
      BY <2>2 DEF DestructorsGoOn, RunsForIt
    <3>2. refs[s] = {}
      BY <3>1 DEF Held, NoneHolds, Ending
    <3>3. QED
      BY <3>1, <3>2, DestroyerKept, LifeMoves DEF Ending
  <2>3. CASE DropRef(s, h) /\ refs[s] = {h}
    BY <2>3, Dropped DEF Ending
  <2>4. QED
    BY <2>1, <2>2, <2>3, DestructorMoves
<1>4. ASSUME NEW s \in Tasks PROVE JoinEnds(s)'
  <2>1. SUFFICES ASSUME life'[s] = "shutdown" PROVE timerPc'[s] \in {"idle", "lock"} \/ destroyer'[s] = "timer"
    BY DEF JoinEnds
  <2>2. refs'[s] = {}
    BY <2>1 DEF Held, NoneHolds
  <2>3. timerPc'[s] \notin {"push", "post", "drop"}
    BY <2>2 DEF Held, TimerHolds
  <2>4. timerPc'[s] \in {"idle", "lock", "destruct"}
    BY <1>1, <2>3 DEF TimerTyped
  <2>5. timerPc'[s] = "destruct" => destroyer'[s] = "timer"
    <3>1. "timer" \in Holder /\ (DestructorAt(s, "timer")' <=> timerPc'[s] = "destruct")
      BY DEF Holder, DestructorAt
    <3>2. QED
      BY <1>3, <3>1 DEF RunsForIt
  <2>6. QED
    BY <2>4, <2>5
<1>5. ASSUME NEW s \in Tasks PROVE WakeQueued(s)'
  <2>1. SUFFICES ASSUME life'[s] = "wait" PROVE \E k \in 1..Len(tasks') : tasks'[k] = Wake(s)
    BY DEF WakeQueued, Wake
  <2>2. Len(tasks) \in Nat
    BY <1>1 DEF PoolTyped
  <2>3. CASE DestructEnsure(s)
    <3>1. tasks' = Append(tasks, Wake(s)) /\ Wake(s) \in PoolTask
      BY <2>3, PoolTasks DEF DestructEnsure
    <3>2. Len(tasks') = Len(tasks) + 1 /\ tasks'[Len(tasks) + 1] = Wake(s)
      BY <1>1, <3>1, AppendProperties DEF PoolTyped
    <3>3. QED
      BY <2>2, <3>2
  <2>4. CASE ~DestructEnsure(s)
    <3>1. life[s] = "wait"
      BY <2>1, <2>4, LifeMoves
    <3>2. PICK k \in 1..Len(tasks) : tasks[k] = Wake(s)
      BY <3>1 DEF DestructorsGoOn, WakeQueued
    <3>3. QED
      BY <2>1, <2>2, <3>2, WakePlace
  <2>5. QED
    BY <2>3, <2>4
<1>6. QED
  BY <1>2, <1>3, <1>4, <1>5 DEF DestructorsGoOn

LEMMA WaitStep ==
    ASSUME Typed, RunTimes, [Next]_vars
    PROVE  WaitShortens
<1> SUFFICES ASSUME NEW s \in Tasks, NEW k \in 1..Len(tasks), tasks[k] = Wake(s)
             PROVE  LET StaysAt(i) == i \in 1..Len(tasks') /\ tasks'[i] = Wake(s) IN
                    IF PoolThread
                    THEN \/ k = 1 /\ life'[s] = "woken"
                         \/ k > 1 /\ StaysAt(k - 1)
                         \/ StaysAt(k) /\ DrainLeft' < DrainLeft
                    ELSE StaysAt(k) /\ DrainLeft' = DrainLeft
  BY DEF WaitShortens
<1>1. /\ MAX_SCHEDULE_TIMES \in Nat /\ runTimes \in Nat /\ runTimes < MAX_SCHEDULE_TIMES /\ k \in Nat
      /\ Len(tasks) \in Nat /\ running \in Tasks \cup {NoTask}
  BY Constants, TypeParts DEF RunTimes, Typed, PoolTyped
<1>2. CASE PoolThread
  <2>1. Next
    BY <1>2 DEF Next
  <2>2. CASE TakeDrain \/ TakeWake
    BY <1>1, <1>2, <2>1, <2>2, WakePlace
  <2>3. CASE HandleEvent \/ DrainEnds
    <3>1. running # NoTask /\ ~TakeDrain /\ ~TakeWake
      BY <2>3 DEF HandleEvent, DrainEnds, TakeDrain, TakeWake
    <3>2. k \in 1..Len(tasks') /\ tasks'[k] = Wake(s)
      BY <2>1, <3>1, WakePlace
    <3>3. \/ running' = NoTask
          \/ running' = running /\ runTimes' = runTimes + 1
      BY <2>3 DEF HandleEvent, DrainEnds
    <3>4. DrainLeft' < DrainLeft
      BY <1>1, <3>1, <3>3 DEF DrainLeft
    <3>5. QED
      BY <1>2, <3>2, <3>4
  <2>4. QED
    BY <1>2, <2>2, <2>3 DEF PoolThread, PoolStep
<1>3. CASE ~PoolThread
  <2>1. CASE UNCHANGED vars
    BY <1>3, <2>1 DEF vars, taskVars, poolVars, DrainLeft
  <2>2. CASE Next
    <3>1. UNCHANGED <<running, runTimes>> /\ ~TakeDrain /\ ~TakeWake
      <4>1. ~raced
        BY <2>2 DEF Next, Command, Sample, CommandGoesOn, PoolThread, SensorThread, TimerThread, Destructor
      <4>2. UNCHANGED poolVars \/ StartPost \/ StopPost \/ SensorPost \/ \E r \in Tasks : TimerPost(r) \/ DestructEnsure(r)
        BY <1>3, <2>2, <4>1, PoolChanges DEF PoolThread
      <4>3. UNCHANGED <<running, runTimes>>
        BY <4>2 DEF poolVars, StartPost, StopPost, SensorPost, TimerPost, DestructEnsure
      <4>4. tasks' = tasks \/ \E x \in PoolTask : tasks' = Append(tasks, x)
        BY <4>2, PoolTasks DEF poolVars, StartPost, StopPost, SensorPost, TimerPost, DestructEnsure, Post, Typed, HoldersKnown
      <4>5. PoolTyped /\ tasks # <<>>
        BY <1>1, TypeParts DEF Typed
      <4>6. tasks' # Tail(tasks)
        BY <4>4, <4>5, NotTaken, PoolTasks
      <4>7. QED
        BY <4>3, <4>6 DEF TakeDrain, TakeWake
    <3>2. k \in 1..Len(tasks') /\ tasks'[k] = Wake(s)
      BY <2>2, <3>1, WakePlace
    <3>3. QED
      BY <1>3, <3>1, <3>2 DEF DrainLeft
  <2>3. QED
    BY <2>1, <2>2
<1>4. QED
  BY <1>2, <1>3

(* A session that is stopped comes to its end: for any number of sessions, *)
(* samples and events of a drain no thread keeps a task for ever, no       *)
(* destructor waits for a thread that waits for it, and the wait for the   *)
(* pool is bounded by the wake-up's place in the queue and what the        *)
(* running drain may still handle, which get smaller, in this order, with  *)
(* each step of the pool thread.  With the fairness of the threads this is *)
(* StopCompletes.                                                          *)
THEOREM DestructionBounded ==
    Spec => []NothingLeaks /\ []DestructorsGoOn /\ []LeftOver /\ [][WaitShortens]_vars
<1>1. Init => StopInv /\ ManagerOnly /\ NothingLeaks /\ DestructorsGoOn
  <2>1. SUFFICES ASSUME Init PROVE StopInv /\ ManagerOnly /\ NothingLeaks /\ DestructorsGoOn
    OBVIOUS
  <2>2. /\ \A s \in Tasks : life[s] = "none" /\ refs[s] = {} /\ timerPc[s] = "idle"
        /\ sensorPc = "idle" /\ op.pc = "idle"
    BY <2>1 DEF Init, TaskInit, Idle
  <2>3. ManagerOnly /\ NothingLeaks
    BY <2>2 DEF ManagerOnly, NothingLeaks
  <2>4. DestructorsGoOn
    BY <2>2 DEF DestructorsGoOn, DestroyerRuns, RunsForIt, JoinEnds, WakeQueued, Ending, DestructorAt, Holder
  <2>5. QED
    BY <2>1, <2>3, <2>4, StopInvInit
<1>2. StopInv /\ StopInv' /\ ManagerOnly /\ NothingLeaks /\ DestructorsGoOn /\ [Next]_vars
        => ManagerOnly' /\ NothingLeaks' /\ DestructorsGoOn'
  <2>1. SUFFICES ASSUME StopInv, StopInv', ManagerOnly, NothingLeaks, DestructorsGoOn, [Next]_vars
                 PROVE  ManagerOnly' /\ NothingLeaks' /\ DestructorsGoOn'
    OBVIOUS
  <2>2. CASE Next
    <3>1. ManagerOnly'
      BY <2>1, <2>2, ManagerOnlyStep DEF StopInv
    <3>2. QED
      BY <2>1, <2>2, <3>1, LeaksStep, DestructorsStep DEF StopInv
  <2>3. CASE UNCHANGED vars
    <3>1. UNCHANGED <<life, refs, destroyer, timerPc, tasks, sensorPc, sensorTask, op, taskInProc>>
      BY <2>3 DEF vars, taskVars, managerVars, lifeVars, timerVars, poolVars, sensorVars
    <3>2. QED
      BY <2>1, <3>1 DEF ManagerOnly, NothingLeaks, HolderAt, DestructorsGoOn, DestroyerRuns, RunsForIt, JoinEnds,
         WakeQueued, DestructorAt
  <2>4. QED
    BY <2>1, <2>2, <2>3
<1>3. StopInv /\ [Next]_vars => WaitShortens
  BY WaitStep DEF StopInv
<1>4. StopInv => LeftOver
  <2>1. SUFFICES ASSUME StopInv PROVE LeftOver
    OBVIOUS
  <2>2. runTimes \in Nat /\ runTimes < MAX_SCHEDULE_TIMES
    BY <2>1, TypeParts DEF StopInv, RunTimes, Typed, PoolTyped
  <2>3. QED
    BY <2>2, Constants DEF LeftOver, DrainLeft
<1>5. QED
  BY <1>1, <1>2, <1>3, <1>4, StopInvariant, PTL DEF Spec
-------------------------------------------------------------------------------
(* The start delay: the safety behind DelayExpires.                        *)
Delayed == {W2, WD}
QueuedEvent(s, e) == \E i \in 1..Len(pending[s]) : pending[s][i] = e
DelayUnderWay(s) ==
    \/ timer[s] = DELAY
    \/ Fired(s) /\ timerEvent[s] = DELAY
    \/ QueuedEvent(s, DELAY)

(* A task that waits for its start delay has the timer registered, its     *)
(* callback under way or its event in the queue, or it has its stop.       *)
DelayComing == \A s \in Tasks : state[s] \in Delayed => DelayUnderWay(s) \/ QueuedEvent(s, "E_STOP")
Unstarted == \A s \in Tasks : life[s] = "none" => state[s] = "S_INIT"

(* Either event ends the wait, so it stays in the queue while that lasts.  *)
LEMMA QueuedKept ==
    ASSUME StopInv, Next, NEW s \in Tasks, NEW e \in {DELAY, "E_STOP"},
           state[s] \in Delayed, state'[s] \in Delayed, QueuedEvent(s, e)
    PROVE  QueuedEvent(s, e)'
<1>1. /\ Typed /\ Held /\ StoppedWhenDestroyed /\ TypeOK
      /\ pending \in [Tasks -> Seq(Event)] /\ state \in [Tasks -> State]
  BY TypeParts DEF StopInv, Typed, MachineTyped
<1>2. PICK i \in 1..Len(pending[s]) : pending[s][i] = e
  BY DEF QueuedEvent
<1>3. CASE state'[s] = state[s] /\ pending'[s] = pending[s]
  BY <1>2, <1>3 DEF QueuedEvent
<1>4. ASSUME NEW x \in Event, pending'[s] = Append(pending[s], x) PROVE QueuedEvent(s, e)'
  <2>1. pending'[s][i] = e /\ i \in 1..Len(pending'[s])
    BY <1>1, <1>2, <1>4, QueuePushed
  <2>2. QED
    BY <2>1 DEF QueuedEvent
<1>5. CASE HandleEvent /\ running = s
  <2> DEFINE q == pending[s]
  <2>1. PICK es \in Adds : pending' = [pending EXCEPT ![s] = Tail(q) \o es]
    BY <1>1, <1>5, EventHandled
  <2>2. q \in Seq(Event) /\ q # <<>> /\ state' = [state EXCEPT ![s] = NextState(state[s], Head(q))]
    BY <1>1, <1>5, EventHandled
  <2> DEFINE r == Tail(q) \o es
  <2>3. /\ Head(q) = q[1] /\ Head(q) \in Event /\ Len(q) \in Nat /\ Len(r) = Len(q) - 1 + Len(es) /\ Len(es) \in {0, 1}
        /\ \A k \in 1..(Len(q) - 1) : r[k] = q[k + 1]
    BY <2>2, QueueHandled
  <2>4. NextState(state[s], Head(q)) \in Delayed
    BY <1>1, <2>2
  <2>5. Head(q) \notin {DELAY, "E_STOP"}
    BY <2>3, <2>4, Table DEF Delayed, State, Event, W2, WL, WD, IB, LIGHT, DELAY
  <2>6. i # 1 /\ i - 1 \in 1..(Len(q) - 1) /\ (i - 1) + 1 = i
    BY <1>2, <2>3, <2>5
  <2>7. r[i - 1] = e /\ i - 1 \in 1..Len(r)
    <3>1. r[i - 1] = q[i]
      BY <2>3, <2>6
    <3>2. 1..(Len(q) - 1) \subseteq 1..Len(r)
      BY <2>3
    <3>3. QED
      BY <1>2, <2>6, <3>1, <3>2
  <2>8. pending'[s] = r
    BY <1>1, <2>1
  <2> HIDE DEF q, r
  <2>9. QED
    BY <2>7, <2>8 DEF QueuedEvent
<1>6. CASE DestructDone(s)
  BY <1>1, <1>6 DEF DestructDone, StoppedWhenDestroyed, Delayed, W2, WD
<1>7. QED
  BY <1>1, <1>3, <1>4, <1>5, <1>6, MachineMoves

(* The wait begins with the timer, or with the stop if the sensor could    *)
(* not be subscribed; while it lasts the handlers leave the timer alone.   *)
LEMMA DelayHandled ==
    ASSUME StopInv, DelayComing, HandleEvent, Next, NEW s \in Tasks, running = s, state'[s] \in Delayed
    PROVE  (DelayUnderWay(s) \/ QueuedEvent(s, "E_STOP"))'
<1> DEFINE e == Head(pending[s])
<1>1. /\ TypeOK /\ pending \in [Tasks -> Seq(Event)] /\ state \in [Tasks -> State]
      /\ timer \in [Tasks -> Event \cup {"off"}]
  BY DEF StopInv, Typed, TypeOK
<1>2. /\ pending[s] \in Seq(Event) /\ pending[s] # <<>> /\ e \in Event /\ state[s] \in State /\ Handlers(s, e)
      /\ state' = [state EXCEPT ![s] = NextState(state[s], e)]
  BY <1>1, EventHandled
<1> HIDE DEF e
<1>3. NextState(state[s], e) \in Delayed
  BY <1>1, <1>2
<1>4. /\ (state[s] = "S_INIT" /\ e = "E_START") \/ state[s] \in Delayed
      /\ NextState(state[s], e) \notin {IB, "S_END"}
  BY <1>2, <1>3, Table DEF Delayed, State, Event, W2, WL, WD, IB, LIGHT, DELAY
<1>5. CASE state[s] = "S_INIT" /\ e = "E_START"
  <2>1. StartProcess(s)
    BY <1>2, <1>4, <1>5 DEF Handlers, Enters, IB
  <2>2. \/ timer' = [timer EXCEPT ![s] = DELAY]
        \/ Scheduled(s, <<"E_STOP">>)
    BY <2>1 DEF StartProcess, DELAY
  <2>3. CASE timer' = [timer EXCEPT ![s] = DELAY]
    BY <1>1, <2>3 DEF DelayUnderWay
  <2>4. CASE Scheduled(s, <<"E_STOP">>)
    <3>1. pending'[s] = Tail(pending[s]) \o <<"E_STOP">>
      BY <1>1, <2>4 DEF Scheduled
    <3>2. <<"E_STOP">> \in Adds /\ Len(<<"E_STOP">>) = 1
      BY DEF Adds
    <3>3. Len(pending[s]) \in 1..Len(pending'[s]) /\ pending'[s][Len(pending[s])] = "E_STOP"
      BY <1>2, <3>1, <3>2, QueueHandled
    <3>4. QED
      BY <3>3 DEF QueuedEvent
  <2>5. QED
    BY <2>2, <2>3, <2>4
<1>6. CASE state[s] \in Delayed
  <2>1. UNCHANGED <<timer, timerPc, timerEvent>>
    <3>1. state[s] # "S_INIT" /\ state[s] # IB
      BY <1>6 DEF Delayed, W2, WD, IB
    <3>2. UNCHANGED timer
      BY <1>2, <1>4, <3>1 DEF Handlers, Enters, IB
    <3>3. QED
      BY <3>2 DEF HandleEvent
  <2>2. DelayUnderWay(s) \/ QueuedEvent(s, "E_STOP")
    BY <1>6 DEF DelayComing
  <2>3. \A x \in {DELAY, "E_STOP"} : QueuedEvent(s, x) => QueuedEvent(s, x)'
    BY <1>6, QueuedKept
  <2>4. QED
    BY <2>1, <2>2, <2>3 DEF DelayUnderWay, Fired
<1>7. QED
  BY <1>4, <1>5, <1>6

LEMMA UnstartedStep == ASSUME StopInv, Unstarted, Next PROVE Unstarted'
<1> SUFFICES ASSUME NEW s \in Tasks, life'[s] = "none" PROVE state'[s] = "S_INIT"
  BY DEF Unstarted
<1>1. life[s] = "none"
  BY LifeMoves DEF StopInv
<1>2. ~(HandleEvent /\ running = s)
  BY <1>1, EventOf DEF StopInv
<1>3. state'[s] = state[s]
  BY <1>2, MachineMoves DEF StopInv
<1>4. QED
  BY <1>1, <1>3 DEF Unstarted

(* A task that is no longer alive has been stopped: a timer that is taken  *)
(* from it is not missed.                                                  *)
LEMMA StopQueued ==
    ASSUME StopInv, Unstarted, NEW s \in Tasks, state[s] \in Delayed, life[s] # "alive"
    PROVE  QueuedEvent(s, "E_STOP")
<1>1. life[s] # "none" /\ state[s] # "S_END"
  BY DEF Unstarted, Delayed, W2, WD
<1>2. "manager" \notin refs[s]
  BY DEF StopInv, Held, NoneHolds
<1>3. StopComing(s)
  BY <1>1, <1>2 DEF StopInv, StopScheduled, LetGo
<1>4. QED
  BY <1>1, <1>3 DEF StopComing, StopAt, QueuedEvent

LEMMA DelayStep ==
    ASSUME StopInv, Unstarted, DelayComing, Next
    PROVE  DelayComing'
<1> SUFFICES ASSUME NEW s \in Tasks, state'[s] \in Delayed
             PROVE  (DelayUnderWay(s) \/ QueuedEvent(s, "E_STOP"))'
  BY DEF DelayComing, Delayed
<1>1. /\ Typed /\ TimerTyped /\ Held
      /\ pending \in [Tasks -> Seq(Event)]
  BY TypeParts DEF StopInv, Typed, MachineTyped
<1>2. CASE HandleEvent /\ running = s
  BY <1>2, DelayHandled
<1>3. CASE ~(HandleEvent /\ running = s)
  <2>1. state'[s] = state[s]
    BY <1>3, MachineMoves DEF StopInv
  <2>2. DelayUnderWay(s) \/ QueuedEvent(s, "E_STOP")
    BY <2>1 DEF DelayComing
  <2>3. \A x \in {DELAY, "E_STOP"} : QueuedEvent(s, x) => QueuedEvent(s, x)'
    BY <2>1, QueuedKept
  <2>4. CASE UNCHANGED <<timer[s], timerPc[s], timerEvent[s]>>
    BY <2>2, <2>3, <2>4 DEF DelayUnderWay, Fired
  <2>5. CASE HandleEvent
    <3>1. timer'[s] = timer[s] /\ timerPc' = timerPc /\ timerEvent' = timerEvent
      BY <1>1, <1>3, <2>5, EventHandled, HandlerTimer DEF HandleEvent, Typed, TimerTyped
    <3>2. QED
      BY <2>4, <3>1
  <2>6. ASSUME NEW r \in Tasks, r # s, TimerStep(r) \/ DestructEnsure(r)
        PROVE  UNCHANGED <<timer[s], timerPc[s], timerEvent[s]>>
    BY <1>1, <2>6 DEF TimerStep, TimerFires, TimerLock, TimerPush, TimerPost, TimerDrop, TimerReturn,
                      DestructEnsure, TimerTyped
  <2>7. CASE TimerFires(s)
    <3>1. timer[s] = DELAY => timerPc'[s] = "lock" /\ timerEvent'[s] = DELAY
      BY <1>1, <2>7 DEF TimerFires, TimerTyped
    <3>2. ~Fired(s)
      BY <2>7 DEF TimerFires, Fired
    <3>3. QED
      BY <2>2, <2>3, <3>1, <3>2 DEF DelayUnderWay, Fired
  <2>8. CASE TimerLock(s)
    <3>1. CASE life[s] = "alive"
      <4>1. timerPc'[s] = "push" /\ timerEvent' = timerEvent /\ timer' = timer
        BY <1>1, <2>8, <3>1 DEF TimerLock, TimerTyped
      <4>2. QED
        BY <2>2, <2>3, <4>1 DEF DelayUnderWay, Fired
    <3>2. CASE life[s] # "alive"
      BY <2>1, <2>3, <3>2, StopQueued
    <3>3. QED
      BY <3>1, <3>2
  <2>9. CASE TimerPush(s)
    <3>1. timerEvent[s] \in Event /\ pending'[s] = Append(pending[s], timerEvent[s]) /\ timer' = timer
      BY <1>1, <2>9 DEF TimerPush, Push, Typed, HoldersKnown
    <3>2. pending'[s][Len(pending[s]) + 1] = timerEvent[s] /\ Len(pending[s]) + 1 \in 1..Len(pending'[s])
      BY <1>1, <3>1, QueuePushed
    <3>3. timerEvent[s] = DELAY => QueuedEvent(s, DELAY)'
      BY <3>2 DEF QueuedEvent
    <3>4. QED
      BY <2>2, <2>3, <3>1, <3>3 DEF DelayUnderWay
  <2>10. CASE TimerPost(s) \/ TimerDrop(s) \/ TimerReturn(s)
    <3>1. ~Fired(s) /\ timer' = timer
      BY <2>10 DEF TimerPost, TimerDrop, TimerReturn, Fired
    <3>2. QED
      BY <2>2, <2>3, <3>1 DEF DelayUnderWay
  <2>11. CASE DestructEnsure(s)
    BY <2>1, <2>3, <2>11, StopQueued DEF DestructEnsure
  <2>12. CASE UNCHANGED timerVars
    BY <2>4, <2>12 DEF timerVars
  <2>13. QED
    BY <2>4, <2>5, <2>6, <2>7, <2>8, <2>9, <2>10, <2>11, <2>12, TimerChanges DEF TimerStep
<1>4. QED
  BY <1>2, <1>3

(* A session does not wait for a start delay that will not expire: for any *)
(* number of sessions and samples, however the timer, the sensor and the   *)
(* manager interleave, the timer is registered, has fired or has scheduled *)
(* its event, unless the session has been told to stop.  The timer's row   *)
(* of the table is what ends the wait.  With the fairness of the timer and *)
(* of the pool this is DelayExpires.                                       *)
THEOREM DelayCorrect == Spec => []DelayComing
<1>1. Init => StopInv /\ Unstarted /\ DelayComing
  <2>1. SUFFICES ASSUME Init PROVE Unstarted /\ DelayComing
    BY StopInvInit
  <2>2. \A s \in Tasks : state[s] = "S_INIT"
    BY <2>1 DEF Init, TaskInit
  <2>3. QED
    BY <2>2 DEF Unstarted, DelayComing, Delayed, W2, WD
<1>2. StopInv /\ StopInv' /\ Unstarted /\ DelayComing /\ [Next]_vars => Unstarted' /\ DelayComing'
  <2>1. SUFFICES ASSUME StopInv, Unstarted, DelayComing, [Next]_vars PROVE Unstarted' /\ DelayComing'
    OBVIOUS
  <2>2. CASE Next
    BY <2>1, <2>2, UnstartedStep, DelayStep
  <2>3. CASE UNCHANGED vars
    <3>1. UNCHANGED <<life, state, pending, timer, timerPc, timerEvent>>
      BY <2>3 DEF vars, taskVars, lifeVars, machineVars, timerVars
    <3>2. QED
      BY <2>1, <3>1 DEF Unstarted, DelayComing, DelayUnderWay, QueuedEvent, Fired
  <2>4. QED
    BY <2>1, <2>2, <2>3
<1>3. QED
  BY <1>1, <1>2, StopInvariant, PTL DEF Spec

===============================================================================
