------------------------- MODULE ScreenBrightnessTask -------------------------
(***************************************************************************)
(* ScreenBrightnessTask and what runs around it: its state machine on the  *)
(* pool thread shared by all machines, its timer thread, the ambient light *)
(* callback of the sensor service, the screen, and its destructor, run by  *)
(* whichever thread drops the last reference.                              *)
(*                                                                         *)
(* A task is one brightness session; tasks are numbered in the order they  *)
(* are created.  Schedule is a push and a post, as in FiniteStateMachine;  *)
(* the pool thread handles one event per step (that its handlers may be    *)
(* taken as atomic with the pop is what FiniteStateMachine refines).       *)
(***************************************************************************)
EXTENDS BrightnessRamp, FiniteSets

CONSTANTS MaxTasks,            \* bound: tasks created
          Readings,            \* what GetDeviceBrightness may return
          MaxParam,            \* the parameter face_auth_increase_brightness_max
          MAX_SCHEDULE_TIMES,
          Samples,             \* light levels the sensor may report
          MaxSamples           \* bound: sensor callbacks

ASSUME TaskAssumption ==
    /\ MaxTasks \in Nat
    /\ Readings \subseteq 0..MAX_BRIGHTNESS \cup {-1}
    /\ MAX_SCHEDULE_TIMES \in Nat \ {0}
    /\ Samples \subseteq {"dark", "bright"}
    /\ MaxSamples \in Nat

Tasks == 1..MaxTasks

State == {"S_INIT", "S_WAIT_AMBIENT_LIGHT_INFO_AND_START_DELAY", "S_WAIT_AMBIENT_LIGHT_INFO",
          "S_WAIT_START_DELAY", "S_INCREASING_BRIGHTNESS", "S_END"}
Event == {"E_START", "E_STOP", "E_START_DELAY_EXPIRED", "E_RECEIVE_AMBIENT_LIGHT_INFO",
          "E_INCREASE_BRIGHTNESS"}

(* States between the handling of E_START and the end.                     *)
Working == State \ {"S_INIT", "S_END"}

(* INVALID_AMBIENT_LIGHT_LUX, below and not below the threshold.           *)
Lux == {"invalid", "dark", "bright"}

(* Who may hold a reference to a task.                                     *)
Holder == {"manager", "sensor", "timer"}

(* A task's life: its destructor shuts the timer down, posts its wake-up   *)
(* to the pool and waits for it, and reads the machine's state when woken. *)
Life == {"none", "alive", "shutdown", "wait", "woken", "dead"}

NoTask == 0
Restored == 0              \* no override is in force
INVALID_BRIGHTNESS == -1   \* the largest uint32 in the code

VARIABLES
    life, refs, destroyer,             \* per task: its memory
    state, pending,                    \* per task: its machine
    lux, index, brightness,            \* per task: currentAmbientLightLux_ etc.
    timer,                             \* per task: event the registered timer will schedule, or "off"
    timerPc, timerEvent,               \* per task: its timer thread
    tasks, running, runTimes,          \* the pool: queue, task being drained, runTimes
    sensor,                            \* SENSOR_USER: "off", "subscribed" or "active"
    screen,                            \* last request to the display: a brightness or Restored
    sensorPc, sensorTask, sensorLux,   \* the sensor service's callback thread
    samples,                           \* callbacks so far
    raced                              \* a reference to a task being destroyed was copied

lifeVars == <<life, refs, destroyer>>
machineVars == <<state, pending>>
dataVars == <<lux, index, brightness>>
timerVars == <<timer, timerPc, timerEvent>>
poolVars == <<tasks, running, runTimes>>
deviceVars == <<sensor, screen>>
sensorVars == <<sensorPc, sensorTask, sensorLux, samples, raced>>
taskVars == <<lifeVars, machineVars, dataVars, timerVars, poolVars, deviceVars, sensorVars>>

increaseBrightnessMax == GetIncreaseBrightnessMax(MaxParam)

TaskInit ==
    /\ life = [s \in Tasks |-> "none"]
    /\ refs = [s \in Tasks |-> {}]
    /\ destroyer = [s \in Tasks |-> "manager"]
    /\ state = [s \in Tasks |-> "S_INIT"]
    /\ pending = [s \in Tasks |-> <<>>]
    /\ lux = [s \in Tasks |-> "invalid"]
    /\ index = [s \in Tasks |-> 1]
    /\ brightness = [s \in Tasks |-> 0]
    /\ timer = [s \in Tasks |-> "off"]
    /\ timerPc = [s \in Tasks |-> "idle"]
    /\ timerEvent = [s \in Tasks |-> "off"]
    /\ tasks = <<>>
    /\ running = NoTask
    /\ runTimes = 0
    /\ sensor = "off"
    /\ screen = Restored
    /\ sensorPc = "idle"
    /\ sensorTask = NoTask
    /\ sensorLux = "invalid"
    /\ samples = 0
    /\ raced = FALSE

-------------------------------------------------------------------------------
(* Schedule, called outside the pool thread: a push, then a post.          *)
Push(s, e) == pending' = [pending EXCEPT ![s] = Append(@, e)]
Drain(s) == [kind |-> "drain", task |-> s]
Wake(s) == [kind |-> "wake", task |-> s]
Post(s) == tasks' = Append(tasks, Drain(s))

(* A holder lets go of a task; the last one starts its destructor.         *)
DropRef(s, h) ==
    /\ refs' = [refs EXCEPT ![s] = @ \ {h}]
    /\ IF refs[s] = {h}
       THEN /\ life' = [life EXCEPT ![s] = "shutdown"]
            /\ destroyer' = [destroyer EXCEPT ![s] = h]
       ELSE UNCHANGED <<life, destroyer>>

(* Where the holder is next: it runs the destructor or goes on at once.    *)
AfterDrop(s, h) == IF refs[s] = {h} THEN "destruct" ELSE "idle"

-------------------------------------------------------------------------------
(* The state machine: MakeFiniteStateMachine.                              *)
Transition ==
    LET W2 == "S_WAIT_AMBIENT_LIGHT_INFO_AND_START_DELAY"
        WL == "S_WAIT_AMBIENT_LIGHT_INFO"
        WD == "S_WAIT_START_DELAY"
        IB == "S_INCREASING_BRIGHTNESS"
        LIGHT == "E_RECEIVE_AMBIENT_LIGHT_INFO"
        DELAY == "E_START_DELAY_EXPIRED"
        Rows == {<<"S_INIT", "E_START", W2>>,
                 <<W2, DELAY, WL>>, <<W2, LIGHT, WD>>, <<WL, LIGHT, IB>>, <<WD, DELAY, IB>>,
                 <<IB, "E_INCREASE_BRIGHTNESS", IB>>,
                 <<W2, "E_STOP", "S_END">>, <<WL, "E_STOP", "S_END">>,
                 <<WD, "E_STOP", "S_END">>, <<IB, "E_STOP", "S_END">>,
                 <<"S_END", "E_STOP", "S_END">>,
                 <<WD, LIGHT, WD>>, <<IB, LIGHT, IB>>, <<"S_END", LIGHT, "S_END">>}
    IN [x \in {<<r[1], r[2]>> : r \in Rows} |-> (CHOOSE r \in Rows : <<r[1], r[2]>> = x)[3]]

(* Mutants: the light level is not waited for; the row that ends the wait  *)
(* for the start delay is missing; the row that stops a session that has   *)
(* just started is missing.                                                *)
NextStateNoLightWait(st, e) ==
    IF st = "S_WAIT_AMBIENT_LIGHT_INFO_AND_START_DELAY" /\ e = "E_START_DELAY_EXPIRED"
    THEN "S_INCREASING_BRIGHTNESS"
    ELSE IF <<st, e>> \in DOMAIN Transition THEN Transition[<<st, e>>] ELSE st
NextStateRowMissing(st, e) ==
    IF <<st, e>> \in DOMAIN Transition \ {<<"S_WAIT_START_DELAY", "E_START_DELAY_EXPIRED">>}
    THEN Transition[<<st, e>>] ELSE st

NextStateNoEarlyStop(st, e) ==
    IF <<st, e>> \in DOMAIN Transition \ {<<"S_WAIT_AMBIENT_LIGHT_INFO_AND_START_DELAY", "E_STOP">>}
    THEN Transition[<<st, e>>] ELSE st

NextState(st, e) == IF <<st, e>> \in DOMAIN Transition THEN Transition[<<st, e>>] ELSE st

(* Mutant: DealWithStateLeaveAndEnter without its first test.              *)
EntersAlways(s, e, st) == <<state[s], e>> \in DOMAIN Transition /\ NextState(state[s], e) = st

(* The enter action of a state runs only when the state changes.           *)
Enters(s, e, st) == NextState(state[s], e) = st /\ state[s] # st

(* The event a handler schedules on its own machine goes to the end of its *)
(* queue, and a drain to the end of the pool's.                            *)
Scheduled(s, es) ==
    /\ pending' = [pending EXCEPT ![s] = Tail(@) \o es]
    /\ tasks' = IF es = <<>> THEN tasks ELSE Append(tasks, Drain(s))

(* SubscribeSensor is four calls; what earlier ones did stays when one     *)
(* fails.                                                                  *)
SubscribeSensor(ok) ==
    \/ ok /\ sensor' = "active"
    \/ ~ok /\ sensor' \in {sensor, "subscribed", "active"}

StartProcess(s) ==
    \E ok \in BOOLEAN :
        /\ SubscribeSensor(ok)
        /\ Scheduled(s, IF ok THEN <<>> ELSE <<"E_STOP">>)
        /\ timer' = IF ok THEN [timer EXCEPT ![s] = "E_START_DELAY_EXPIRED"] ELSE timer
        /\ UNCHANGED <<index, brightness, screen>>

(* The invalid lux is below the threshold.                                 *)
ShouldBeginIncreaseBrightness(l) == l # "bright"

(* Mutant: the index also moves past the end of the array.                 *)
DoIncreaseUnbounded(s, i) ==
    /\ IF Overrides(i, increaseBrightnessMax)
       THEN /\ screen' = INCREASE_BRIGHTNESS_ARRAY[i]
            /\ timer' = [timer EXCEPT ![s] = "E_INCREASE_BRIGHTNESS"]
       ELSE UNCHANGED <<screen, timer>>
    /\ index' = [index EXCEPT ![s] = i + 1]

(* From index i on: one override and the timer for the next one.           *)
DoIncreaseBrightness(s, i) ==
    /\ IF Overrides(i, increaseBrightnessMax)
       THEN /\ screen' = INCREASE_BRIGHTNESS_ARRAY[i]
            /\ timer' = [timer EXCEPT ![s] = "E_INCREASE_BRIGHTNESS"]
       ELSE UNCHANGED <<screen, timer>>
    /\ index' = [index EXCEPT ![s] = IF i <= Size THEN i + 1 ELSE i]

BeginIncreaseBrightness(s) ==
    \/ /\ ~ShouldBeginIncreaseBrightness(lux[s])
       /\ Scheduled(s, <<"E_STOP">>)
       /\ UNCHANGED <<timer, index, brightness, sensor, screen>>
    \/ /\ ShouldBeginIncreaseBrightness(lux[s])
       /\ \E b \in Readings :
             /\ brightness' = [brightness EXCEPT ![s] = b]
             /\ IF b = INVALID_BRIGHTNESS
                THEN UNCHANGED <<timer, index, screen>>
                ELSE DoIncreaseBrightness(s, GetIncreaseBrightnessStartIndex(b))
       /\ Scheduled(s, <<>>)
       /\ UNCHANGED sensor

(* Mutant: the sensor is not unsubscribed.                                 *)
EndKeepsSensor(s) ==
    /\ timer' = [timer EXCEPT ![s] = "off"]
    /\ screen' = Restored
    /\ Scheduled(s, <<>>)
    /\ UNCHANGED <<index, brightness, sensor>>

EndProcess(s) ==
    /\ timer' = [timer EXCEPT ![s] = "off"]
    /\ sensor' = "off"
    /\ screen' = Restored
    /\ Scheduled(s, <<>>)
    /\ UNCHANGED <<index, brightness>>

(* What the handlers of the table do for event e of task s.                *)
Handlers(s, e) ==
    \/ /\ state[s] = "S_INIT" /\ e = "E_START"
       /\ StartProcess(s)
    \/ /\ Enters(s, e, "S_INCREASING_BRIGHTNESS")
       /\ BeginIncreaseBrightness(s)
    \/ /\ state[s] = "S_INCREASING_BRIGHTNESS" /\ e = "E_INCREASE_BRIGHTNESS"
       /\ DoIncreaseBrightness(s, index[s])
       /\ Scheduled(s, <<>>)
       /\ UNCHANGED <<brightness, sensor>>
    \/ /\ Enters(s, e, "S_END")
       /\ EndProcess(s)
    \/ /\ ~(state[s] = "S_INIT" /\ e = "E_START")
       /\ ~(state[s] = "S_INCREASING_BRIGHTNESS" /\ e = "E_INCREASE_BRIGHTNESS")
       /\ \A st \in {"S_INCREASING_BRIGHTNESS", "S_END"} : ~Enters(s, e, st)
       /\ Scheduled(s, <<>>)
       /\ UNCHANGED <<timer, index, brightness, sensor, screen>>

-------------------------------------------------------------------------------
(* The pool thread.                                                        *)

(* The drain of a task whose machine is gone does nothing.                 *)
TakeDrain ==
    /\ running = NoTask
    /\ tasks # <<>>
    /\ Head(tasks).kind = "drain"
    /\ running' = IF life[Head(tasks).task] = "dead" THEN NoTask ELSE Head(tasks).task
    /\ tasks' = Tail(tasks)
    /\ UNCHANGED <<lifeVars, machineVars, dataVars, timerVars, runTimes, deviceVars, sensorVars>>

(* The callback of EnsureTask: the destructor's wait is over.              *)
TakeWake ==
    /\ running = NoTask
    /\ tasks # <<>>
    /\ Head(tasks).kind = "wake"
    /\ life' = [life EXCEPT ![Head(tasks).task] = "woken"]
    /\ tasks' = Tail(tasks)
    /\ UNCHANGED <<refs, destroyer, machineVars, dataVars, timerVars, running, runTimes,
                   deviceVars, sensorVars>>

HandleEvent ==
    /\ running # NoTask
    /\ pending[running] # <<>>
    /\ LET e == Head(pending[running])
       IN /\ Handlers(running, e)
          /\ state' = [state EXCEPT ![running] = NextState(@, e)]
    /\ IF runTimes + 1 >= MAX_SCHEDULE_TIMES
       THEN running' = NoTask /\ runTimes' = 0
       ELSE runTimes' = runTimes + 1 /\ UNCHANGED running
    /\ UNCHANGED <<lifeVars, lux, timerPc, timerEvent, sensorVars>>

DrainEnds ==
    /\ running # NoTask
    /\ pending[running] = <<>>
    /\ running' = NoTask
    /\ runTimes' = 0
    /\ UNCHANGED <<lifeVars, machineVars, dataVars, timerVars, tasks, deviceVars, sensorVars>>

PoolStep == TakeDrain \/ TakeWake \/ HandleEvent \/ DrainEnds

-------------------------------------------------------------------------------
(* The timer thread of task s, until Shutdown.  A timer that has fired is  *)
(* past Unregister; its callback works on a reference taken from a weak    *)
(* one.                                                                    *)
TimerFires(s) ==
    /\ life[s] \in {"alive", "shutdown"}
    /\ timerPc[s] = "idle"
    /\ timer[s] # "off"
    /\ timerPc' = [timerPc EXCEPT ![s] = "lock"]
    /\ timerEvent' = [timerEvent EXCEPT ![s] = timer[s]]
    /\ timer' = [timer EXCEPT ![s] = "off"]
    /\ UNCHANGED <<lifeVars, machineVars, dataVars, poolVars, deviceVars, sensorVars>>

TimerLock(s) ==
    /\ timerPc[s] = "lock"
    /\ IF life[s] = "alive"
       THEN /\ refs' = [refs EXCEPT ![s] = @ \cup {"timer"}]
            /\ timerPc' = [timerPc EXCEPT ![s] = "push"]
            /\ UNCHANGED timerEvent
       ELSE /\ timerPc' = [timerPc EXCEPT ![s] = "idle"]
            /\ timerEvent' = [timerEvent EXCEPT ![s] = "off"]
            /\ UNCHANGED refs
    /\ UNCHANGED <<life, destroyer, machineVars, dataVars, timer, poolVars, deviceVars, sensorVars>>

(* OnStartDelayTimeout, OnIncreaseBrightness *)
TimerPush(s) ==
    /\ timerPc[s] = "push"
    /\ Push(s, timerEvent[s])
    /\ timerPc' = [timerPc EXCEPT ![s] = "post"]
    /\ timerEvent' = [timerEvent EXCEPT ![s] = "off"]
    /\ UNCHANGED <<lifeVars, state, dataVars, timer, poolVars, deviceVars, sensorVars>>

TimerPost(s) ==
    /\ timerPc[s] = "post"
    /\ Post(s)
    /\ timerPc' = [timerPc EXCEPT ![s] = "drop"]
    /\ UNCHANGED <<lifeVars, machineVars, dataVars, timer, timerEvent, running, runTimes, deviceVars, sensorVars>>

(* Mutant: the callback keeps its reference.                               *)
TimerKeeps(s) ==
    /\ timerPc[s] = "drop"
    /\ timerPc' = [timerPc EXCEPT ![s] = "idle"]
    /\ UNCHANGED <<lifeVars, machineVars, dataVars, timer, timerEvent, poolVars, deviceVars, sensorVars>>

TimerDrop(s) ==
    /\ timerPc[s] = "drop"
    /\ DropRef(s, "timer")
    /\ timerPc' = [timerPc EXCEPT ![s] = AfterDrop(s, "timer")]
    /\ UNCHANGED <<machineVars, dataVars, timer, timerEvent, poolVars, deviceVars, sensorVars>>

TimerReturn(s) ==
    /\ timerPc[s] = "destruct"
    /\ life[s] = "dead"
    /\ timerPc' = [timerPc EXCEPT ![s] = "idle"]
    /\ UNCHANGED <<lifeVars, machineVars, dataVars, timer, timerEvent, poolVars, deviceVars, sensorVars>>

TimerStep(s) ==
    TimerFires(s) \/ TimerLock(s) \/ TimerPush(s) \/ TimerPost(s) \/ TimerDrop(s) \/ TimerReturn(s)

-------------------------------------------------------------------------------
(* The sensor service's thread: SENSOR_USER's callback.  GetCurrentTask    *)
(* copies taskInProc_ (current, below) without the manager's lock: it      *)
(* loads the pointer and then takes a reference.  Taking it on a task      *)
(* whose count has meanwhile reached zero is undefined: anything may       *)
(* follow, and the model records that in raced and goes no further.        *)
SensorReport ==
    /\ sensor = "active"
    /\ sensorPc = "idle"
    /\ samples < MaxSamples
    /\ samples' = samples + 1
    /\ sensorLux' \in Samples
    /\ sensorPc' = "load"
    /\ UNCHANGED <<lifeVars, machineVars, dataVars, timerVars, poolVars, deviceVars, sensorTask, raced>>

SensorLoad(current) ==
    /\ sensorPc = "load"
    /\ sensorTask' = current
    /\ IF current = NoTask
       THEN sensorPc' = "idle" /\ sensorLux' = "invalid"
       ELSE sensorPc' = "copy" /\ UNCHANGED sensorLux
    /\ UNCHANGED <<lifeVars, machineVars, dataVars, timerVars, poolVars, deviceVars, samples, raced>>

SensorCopy ==
    /\ sensorPc = "copy"
    /\ IF life[sensorTask] = "alive"
       THEN /\ refs' = [refs EXCEPT ![sensorTask] = @ \cup {"sensor"}]
            /\ sensorPc' = "set"
            /\ UNCHANGED raced
       ELSE /\ raced' = TRUE
            /\ UNCHANGED <<refs, sensorPc>>
    /\ UNCHANGED <<life, destroyer, machineVars, dataVars, timerVars, poolVars, deviceVars, sensorTask,
                   sensorLux, samples>>

(* SetAmbientLight: the value first, then the event.                       *)
SensorSet ==
    /\ sensorPc = "set"
    /\ lux' = [lux EXCEPT ![sensorTask] = sensorLux]
    /\ sensorLux' = "invalid"
    /\ sensorPc' = "push"
    /\ UNCHANGED <<lifeVars, machineVars, index, brightness, timerVars, poolVars, deviceVars, sensorTask,
                   samples, raced>>

SensorPush ==
    /\ sensorPc = "push"
    /\ Push(sensorTask, "E_RECEIVE_AMBIENT_LIGHT_INFO")
    /\ sensorPc' = "post"
    /\ UNCHANGED <<lifeVars, state, dataVars, timerVars, poolVars, deviceVars, sensorTask, sensorLux,
                   samples, raced>>

SensorPost ==
    /\ sensorPc = "post"
    /\ Post(sensorTask)
    /\ sensorPc' = "drop"
    /\ UNCHANGED <<lifeVars, machineVars, dataVars, timerVars, running, runTimes, deviceVars, sensorTask,
                   sensorLux, samples, raced>>

SensorDrop ==
    /\ sensorPc = "drop"
    /\ DropRef(sensorTask, "sensor")
    /\ sensorPc' = AfterDrop(sensorTask, "sensor")
    /\ sensorTask' = IF sensorPc' = "idle" THEN NoTask ELSE sensorTask
    /\ UNCHANGED <<machineVars, dataVars, timerVars, poolVars, deviceVars, sensorLux, samples, raced>>

SensorReturn ==
    /\ sensorPc = "destruct"
    /\ life[sensorTask] = "dead"
    /\ sensorPc' = "idle"
    /\ sensorTask' = NoTask
    /\ UNCHANGED <<lifeVars, machineVars, dataVars, timerVars, poolVars, deviceVars, sensorLux,
                   samples, raced>>

SensorStep(current) ==
    SensorLoad(current) \/ SensorCopy \/ SensorSet \/ SensorPush \/ SensorPost \/ SensorDrop \/ SensorReturn

-------------------------------------------------------------------------------
(* ~ScreenBrightnessTask, on the thread that dropped the last reference.   *)

(* Mutant: the destructor does not wait for the pool.                      *)
DestructAtOnce(s) ==
    /\ life[s] = "shutdown"
    /\ timerPc[s] = "idle" \/ destroyer[s] = "timer"
    /\ life' = [life EXCEPT ![s] = "woken"]
    /\ timer' = [timer EXCEPT ![s] = "off"]
    /\ UNCHANGED <<refs, destroyer, machineVars, dataVars, timerPc, timerEvent, poolVars, deviceVars, sensorVars>>

(* Unregister and Shutdown, which joins the timer thread unless it is      *)
(* called on it; then machine_->EnsureCurrentState().                      *)
DestructEnsure(s) ==
    /\ life[s] = "shutdown"
    /\ timerPc[s] = "idle" \/ destroyer[s] = "timer"
    /\ life' = [life EXCEPT ![s] = "wait"]
    /\ timer' = [timer EXCEPT ![s] = "off"]
    /\ tasks' = Append(tasks, Wake(s))
    /\ UNCHANGED <<refs, destroyer, machineVars, dataVars, timerPc, timerEvent, running, runTimes,
                   deviceVars, sensorVars>>

(* The state is read, destructCallback_ releases the library (a no-op),    *)
(* the members are destroyed: the machine with them, unless a drain has    *)
(* just taken it.                                                          *)
DestructDone(s) ==
    /\ life[s] = "woken"
    /\ life' = [life EXCEPT ![s] = "dead"]
    /\ pending' = IF running = s THEN pending ELSE [pending EXCEPT ![s] = <<>>]
    /\ lux' = [lux EXCEPT ![s] = "invalid"]
    /\ index' = [index EXCEPT ![s] = 1]
    /\ brightness' = [brightness EXCEPT ![s] = 0]
    /\ UNCHANGED <<refs, destroyer, state, timerVars, poolVars, deviceVars, sensorVars>>

DestructStep(s) == DestructEnsure(s) \/ DestructDone(s)
===============================================================================
