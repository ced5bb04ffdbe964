------------------------ MODULE ScreenBrightnessManager ------------------------
(***************************************************************************)
(* ScreenBrightnessManager: the commands of the executors' drivers         *)
(* (BEGIN_ and END_SCREEN_BRIGHTNESS_INCREASE) and the loss of a driver    *)
(* start and stop ScreenBrightnessTasks.  mutex_ is held for the whole of  *)
(* a command, the destructor of a task included when the manager's is the  *)
(* last reference: op is the command that holds it.  A command that fails  *)
(* changes nothing and is a stuttering step.                               *)
(***************************************************************************)
EXTENDS ScreenBrightnessTask

CONSTANTS Executors, NoExecutor

ASSUME ManagerAssumption == NoExecutor \notin Executors

VARIABLES executorInProc, taskInProc, op

managerVars == <<executorInProc, taskInProc, op>>
vars == <<taskVars, managerVars>>

Idle == [pc |-> "idle", executor |-> NoExecutor, task |-> NoTask]

Init ==
    /\ TaskInit
    /\ executorInProc = NoExecutor
    /\ taskInProc = NoTask
    /\ op = Idle

-------------------------------------------------------------------------------
(* ProcessScreenBrightnessIncreaseBegin: a new task, whose Start makes its *)
(* machine and schedules E_START; only then is it published in             *)
(* taskInProc_.                                                            *)
Begin(x) ==
    /\ op = Idle
    /\ executorInProc = NoExecutor
    /\ taskInProc = NoTask
    /\ \E s \in Tasks :
          /\ life[s] = "none"
          /\ \A r \in 1..(s - 1) : life[r] # "none"
          /\ life' = [life EXCEPT ![s] = "alive"]
          /\ refs' = [refs EXCEPT ![s] = {"manager"}]
          /\ Push(s, "E_START")
          /\ op' = [pc |-> "startPost", executor |-> x, task |-> s]
    /\ UNCHANGED <<destroyer, state, dataVars, timerVars, poolVars, deviceVars, sensorVars,
                   executorInProc, taskInProc>>

StartPost ==
    /\ op.pc = "startPost"
    /\ Post(op.task)
    /\ op' = [op EXCEPT !.pc = "publish"]
    /\ UNCHANGED <<lifeVars, machineVars, dataVars, timerVars, running, runTimes, deviceVars,
                   sensorVars, executorInProc, taskInProc>>

Publish ==
    /\ op.pc = "publish"
    /\ executorInProc' = op.executor
    /\ taskInProc' = op.task
    /\ op' = Idle
    /\ UNCHANGED taskVars

-------------------------------------------------------------------------------
(* Mutant: the task is let go of without being stopped.                    *)
EndWithoutStop(x) ==
    /\ op = Idle
    /\ executorInProc = x
    /\ executorInProc' = NoExecutor
    /\ op' = [pc |-> "reset", executor |-> x, task |-> taskInProc]
    /\ UNCHANGED <<taskVars, taskInProc>>

(* ProcessScreenBrightnessIncreaseEnd and OnHdiDisconnect: both leave      *)
(* everything alone unless x is the executor in process, and both then     *)
(* stop its task and let go of it.                                         *)
End(x) ==
    /\ op = Idle
    /\ executorInProc = x
    /\ executorInProc' = NoExecutor
    /\ IF taskInProc # NoTask
       THEN /\ Push(taskInProc, "E_STOP")
            /\ op' = [pc |-> "stopPost", executor |-> x, task |-> taskInProc]
       ELSE UNCHANGED <<pending, op>>
    /\ UNCHANGED <<lifeVars, state, dataVars, timerVars, poolVars, deviceVars, sensorVars, taskInProc>>

StopPost ==
    /\ op.pc = "stopPost"
    /\ Post(op.task)
    /\ op' = [op EXCEPT !.pc = "reset"]
    /\ UNCHANGED <<lifeVars, machineVars, dataVars, timerVars, running, runTimes, deviceVars,
                   sensorVars, executorInProc, taskInProc>>

(* taskInProc_ = nullptr *)
Reset ==
    /\ op.pc = "reset"
    /\ taskInProc' = NoTask
    /\ DropRef(op.task, "manager")
    /\ op' = IF AfterDrop(op.task, "manager") = "idle" THEN Idle ELSE [op EXCEPT !.pc = "destruct"]
    /\ UNCHANGED <<machineVars, dataVars, timerVars, poolVars, deviceVars, sensorVars, executorInProc>>

Return ==
    /\ op.pc = "destruct"
    /\ life[op.task] = "dead"
    /\ op' = Idle
    /\ UNCHANGED <<taskVars, executorInProc, taskInProc>>

ManagerStep == StartPost \/ Publish \/ StopPost \/ Reset \/ Return

-------------------------------------------------------------------------------
(* Commands and samples come when they like; everything else goes on by    *)
(* itself: a command under way, the pool thread, the sensor's callback,    *)
(* timers and destructors.  After an undefined copy nothing is known.      *)
Command == ~raced /\ \E x \in Executors : Begin(x) \/ End(x)
Sample == ~raced /\ SensorReport /\ UNCHANGED managerVars
CommandGoesOn == ~raced /\ ManagerStep
PoolThread == ~raced /\ PoolStep /\ UNCHANGED managerVars
SensorThread == ~raced /\ SensorStep(taskInProc) /\ UNCHANGED managerVars
TimerThread(s) == ~raced /\ TimerStep(s) /\ UNCHANGED managerVars
Destructor(s) == ~raced /\ DestructStep(s) /\ UNCHANGED managerVars

Next ==
    \/ Command \/ Sample
    \/ CommandGoesOn \/ PoolThread \/ SensorThread
    \/ \E s \in Tasks : TimerThread(s) \/ Destructor(s)

Fairness ==
    /\ WF_vars(CommandGoesOn) /\ WF_vars(PoolThread) /\ WF_vars(SensorThread)
    /\ \A s \in Tasks : WF_vars(TimerThread(s)) /\ WF_vars(Destructor(s))

Spec == Init /\ [][Next]_vars
FairSpec == Spec /\ Fairness

-------------------------------------------------------------------------------
(* Every variable has its type.                                            *)
TypeOK ==
    /\ life \in [Tasks -> Life]
    /\ refs \in [Tasks -> SUBSET Holder]
    /\ destroyer \in [Tasks -> Holder]
    /\ state \in [Tasks -> State]
    /\ pending \in [Tasks -> Seq(Event)]
    /\ lux \in [Tasks -> Lux]
    /\ index \in [Tasks -> 1..(Size + 1)]
    /\ brightness \in [Tasks -> 0..MAX_BRIGHTNESS \cup {INVALID_BRIGHTNESS}]
    /\ timer \in [Tasks -> Event \cup {"off"}]
    /\ timerPc \in [Tasks -> {"idle", "lock", "push", "post", "drop", "destruct"}]
    /\ timerEvent \in [Tasks -> Event \cup {"off"}]
    /\ tasks \in Seq([kind : {"drain", "wake"}, task : Tasks])
    /\ running \in Tasks \cup {NoTask}
    /\ runTimes \in Nat
    /\ sensor \in {"off", "subscribed", "active"}
    /\ screen \in 0..MAX_BRIGHTNESS
    /\ sensorPc \in {"idle", "load", "copy", "set", "push", "post", "drop", "destruct"}
    /\ sensorTask \in Tasks \cup {NoTask}
    /\ sensorLux \in Lux
    /\ samples \in 0..MaxSamples
    /\ raced \in BOOLEAN
    /\ executorInProc \in Executors \cup {NoExecutor}
    /\ taskInProc \in Tasks \cup {NoTask}
    /\ op \in [pc : {"idle", "startPost", "publish", "stopPost", "reset", "destruct"},
               executor : Executors \cup {NoExecutor}, task : Tasks \cup {NoTask}]

(* "make sure state machine is stopped": when the destructor reads the     *)
(* machine's state it is S_END, whichever thread runs it and whatever the  *)
(* timer and the sensor scheduled meanwhile.                               *)
StoppedWhenDestroyed ==
    \A s \in Tasks : life[s] \in {"woken", "dead"} => state[s] = "S_END"

(* The handlers capture this as a plain pointer: no event of a destroyed   *)
(* task is left for a drain that is running on its machine.                *)
NoHandlerAfterDestruction ==
    \A s \in Tasks : life[s] = "dead" /\ running = s => pending[s] = <<>>

(* The ambient light sensor, shared by all tasks, is in use only for a     *)
(* task that has started and not ended: nothing leaks when a subscription  *)
(* fails half way.                                                         *)
SensorReleased == sensor # "off" => \E s \in Tasks : state[s] \in Working

(* A working task has the sensor: the end of an earlier task never takes   *)
(* it away (unless its own subscription failed and it is about to stop).   *)
SensorKept ==
    \A s \in Tasks : state[s] \in Working =>
        \/ sensor = "active"
        \/ \E i \in DOMAIN pending[s] : pending[s][i] = "E_STOP"

(* The screen is overridden only while a task is increasing it, above the  *)
(* brightness that task found and up to the configured maximum.            *)
OverrideJustified ==
    screen # Restored =>
        \E s \in Tasks : /\ state[s] = "S_INCREASING_BRIGHTNESS"
                         /\ brightness[s] < screen
                         /\ screen <= increaseBrightnessMax

(* The decision to increase is taken on a measured value, never on         *)
(* INVALID_AMBIENT_LIGHT_LUX, which is below the threshold.                *)
LuxMeasured ==
    \A s \in Tasks : state[s] = "S_INCREASING_BRIGHTNESS" => lux[s] # "invalid"

(* A task has one chain of timer events: at most one timer registered,     *)
(* callback under way or timer event pending.                              *)
IsTimerEvent(e) == e \in {"E_START_DELAY_EXPIRED", "E_INCREASE_BRIGHTNESS"}
OneTimerChain ==
    \A s \in Tasks :
        (IF timer[s] # "off" THEN 1 ELSE 0) + (IF timerPc[s] \in {"lock", "push"} THEN 1 ELSE 0)
            + Cardinality({i \in DOMAIN pending[s] : IsTimerEvent(pending[s][i])}) <= 1

(* Until the screen is given back its brightness only goes up.             *)
BrightnessRises == [][screen' # Restored => screen' >= screen]_screen

(* At most one task works at a time: a new task starts only after the one  *)
(* before has ended, though the command that begins it does not wait for   *)
(* that when another thread holds the old task.                            *)
OneWorking == \A r, s \in Tasks : state[r] \in Working /\ state[s] \in Working => r = s

(* A session that is stopped is destroyed and its command returns (unless  *)
(* the undefined copy of GetCurrentTask ends all certainty).               *)
StopCompletes ==
    \A s \in Tasks : (op.pc = "stopPost" /\ op.task = s) ~> (life[s] = "dead" /\ op.task # s) \/ raced

(* A task that knows the light level does not wait for its start delay     *)
(* forever.                                                                *)
DelayExpires ==
    \A s \in Tasks :
        state[s] = "S_WAIT_START_DELAY" ~> state[s] \in {"S_INCREASING_BRIGHTNESS", "S_END"} \/ raced
===============================================================================
