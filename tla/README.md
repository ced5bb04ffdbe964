# Face authentication: TLA+ models and proofs

This directory holds the TLA+ specifications of the face authentication
service (`src/`): models translated from the code, the TLC configurations that
check them on small instances, and theorems checked by TLAPS.

- [The system](#the-system)
- [Modules](#modules)
- [How the models correspond to the code](#how-the-models-correspond-to-the-code)
- [Runs](#runs)
- [Fairness](#fairness)
- [Proofs](#proofs)
- [What the work showed](#what-the-work-showed)
- [Not modelled](#not-modelled)
- [Plan](#plan)

## The system

The service is an executor of the user authentication framework. The framework
calls its *executors* (`FaceAuthAllInOneExecutorHdi`), which pass the calls to a
driver in another process; the driver in turn sends *SA commands* to the
service, and at present the two commands there are begin and end a gradual
increase of the screen brightness, so that a face can be seen in the dark. A
client library and its JavaScript and ETS bindings hand the preview surface to
the service, and a settings application enrols and deletes faces.

| Component | State | Operations | Talks to |
|---|---|---|---|
| `FiniteStateMachineImpl` | `pendingEvents_`, `currentState_`, its table | `Schedule`, `Inner::Schedule`, `EnsureCurrentState`, the drain `ScheduleInner` | posts drains to the thread handler; calls the table's actions |
| `ThreadHandlerImpl` | one pool thread and its queue, shared by all machines | `PostTask`, `EnsureTask` | everybody who owns a machine |
| `ScreenBrightnessTask` | its machine, timer, light level, ramp index | `Start`, `Stop`, `SetAmbientLight`, timer callbacks, handlers of the table, destructor | sensor service, display power manager, timer thread |
| `ScreenBrightnessManager` | `executorInProc_`, `taskInProc_`, under `mutex_` | `ProcessSaCommand` (begin, end), `OnHdiDisconnect`, `GetCurrentTask` | creates, starts, stops and drops tasks; the sensor callback asks it for the current one |
| `ServiceExManager` | handle of the library with the task's code | `Acquire`, `Release` (does nothing), `GetScreenBrightnessTask` | dynamic linker |
| `FiniteStateMachineBuilder` | the tables being built, `valid_` | `MakeTransition`, `MakeOnStateEnter`, `MakeOnStateLeave`, `Build` | |
| `SaCommandManager` | processors by command, under a shared mutex | register, unregister, `ProcessSaCommands`, `OnHdiDisconnect` | calls the brightness manager while holding its lock |
| `FaceAuthDriverHdi` | list of executors | `GetExecutorList`, `OnHdiDisconnect`, `SetBufferProducer` | the driver, its executors |
| `FaceAuthAllInOneExecutorHdi`, `FaceAuthExecutorCallbackHdi` | proxy of the driver's executor | registration, enrol, authenticate, identify, delete, cancel, commands, properties; results, tips and messages back | the driver, the framework, the vibrator |
| `FaceAuthService`, `FaceAuthClientImpl`, proxy and stub | singleton; the client's cached proxy and death recipient | `SetBufferProducer` with its permission checks | IPC |
| Settings application | pages, enrolment in progress, number of faces | enrol, delete, navigate | identity and authentication services |

What is hard in it:

- *Concurrency.* A brightness session is worked on by five kinds of threads:
  the command threads under the manager's lock, the pool thread that runs the
  handlers, the session's timer thread, the sensor service's callback thread,
  and whichever of them drops the last reference and so runs the destructor,
  which waits for two of the others.
- *Events out of order.* A stop may come before the start has been handled; a
  timer may fire while the session ends; a light sample may arrive before the
  task is published or after it has ended.
- *Limits.* A drain handles at most `MAX_SCHEDULE_TIMES` events and does not
  post itself again.
- *Shared devices.* All sessions use one sensor subscription and one screen.
- *Failure.* Each of the four calls of a subscription may fail; the driver
  may be lost at any time, and so may the service while a client calls it.
- *Answers and timers.* The driver reports on a request whenever it likes. The
  settings application keeps its controllers for the life of the process while
  its pages come and go; answers and timers find whatever page is shown then.

What makes the parts correct:

- machine: every accepted event takes effect once, in order, and soon;
  `EnsureCurrentState` is a barrier; neither depends on how threads interleave;
- task: stopped before it is destroyed, no handler afterwards; the sensor and
  the screen are given back, and only then; the ramp is exactly the one
  configured and is entered on a measured light level;
- manager: one session at a time in effect, not only in its variables;
- executors: the framework is told what the driver reported, once and in order;
  no code that is not a success becomes one;
- client and service: what `setSurfaceId` returns is what happened at the driver, with
  what the stub has read; a service that has died is noticed and asked for again;
- builder: a machine has exactly the table that was asked for, or there is none;
- settings application: one enrolment at a time, on the page that is shown and
  with its surface; no surface is left with the service.

## Modules

    SerialMachine            what a state machine promises its users
        ^ implemented by
    FiniteStateMachine       FiniteStateMachineImpl + ThreadHandlerImpl
        |- MCFiniteStateMachine       instances for TLC
        |- FiniteStateMachineProofs   TLAPS proofs
    BrightnessRamp           the arithmetic of the ramp and its parameters
        |- BrightnessRampRun, MCBrightnessRamp   one undisturbed ramp
        |     |- BrightnessRampProofs   TLAPS proofs
        |- ScreenBrightnessTask       a session and all its threads
              |- ScreenBrightnessManager   the manager composed with its tasks
                    |- MCScreenBrightness  instances for TLC
                    |- ScreenBrightnessManagerProofs   TLAPS proofs
    SaCommandManager         the registry of processors and the calls that use it
        |- FaceAuthDriver             drivers and executors on top of it
              |- MCSaCommands         instances for TLC
              |- FaceAuthDriverProofs TLAPS proofs
    FaceAuthExecutor         requests to the driver and its reports
        |- MCFaceAuthExecutor         instances for TLC
        |- FaceAuthExecutorProofs     TLAPS proofs
    FaceAuthService          stub, service and driver side of SetBufferProducer
        |- FaceAuthClient             bindings, client and proxy on top of it
              |- MCFaceAuthClient     instances for TLC
              |- FaceAuthClientProofs TLAPS proofs
    FiniteStateMachineBuilder   the builder of the machines' tables
        |- FiniteStateMachineBuilderProofs   TLAPS proofs
    SettingsFaceAuth         the settings application
        |- SettingsFaceAuthProofs     TLAPS proofs

An operator whose comment begins with "Mutant" is a deliberately wrong version
of the definition that follows it; nothing uses it. Putting it in the place of
that definition must make a property fail, which shows that the property
depends on what the code does there.

## How the models correspond to the code

`PROJECT.json` gives, for every definition, the source lines it stands for.

**FiniteStateMachine.** `Schedule` takes no lock, so it is two actions: the push
(`SchedulePush`) and the post of the drain (`SchedulePost`), with anything in
between. The pool thread takes tasks in order (`TakeDrain`, `TakeNop`,
`TakeWake`). A drain is one step per thing another thread can observe: the pop,
each call a handler makes (`InnerSchedule`, or `HandlerSchedulePush` and
`HandlerSchedulePost`), the assignment of `currentState_` between the
transition's action and the leave and enter actions, and the end of the event,
where `runTimes` is compared with the limit. Handlers are abstracted to the
sequence of `Schedule` calls they make; the table and these sequences are
constants. `EnsureTask` is the empty task, the callback, the wait and the
return. `Release` is the owner dropping the machine: drains only hold a weak
reference until they start. `pos` and `due` are history variables: how many
events must still finish before the last event of a thread has, and what that
was when a thread called `EnsureCurrentState`.

**SerialMachine** is the abstract machine: a queue and a state. In the
refinement an event leaves the abstract queue when it takes effect, that is at
the assignment of `currentState_`, or at its pop when the table has no row.

**BrightnessRamp** holds the pure functions (array indices count from 1).
A system parameter is unreadable, text or a number; the limit of `uint32_t` is a
constant, as 2^32 - 1 is beyond TLC's integers.

**ScreenBrightnessTask** is one session with its machine, timer and references.
The pool thread handles one event per step: `HandleEvent` is the pop, the
handlers with everything they call, and the new state. `FiniteStateMachine` is
the module that looks inside that step. The handlers of the model follow the
code's order of effects: `StartProcess` subscribes the sensor (each of its calls
may fail, leaving the earlier ones in effect) and then registers the timer or
schedules `E_STOP`; `BeginIncreaseBrightness` has its three early returns;
`EndProcess` unregisters, unsubscribes and restores. A timer that has fired can
no longer be unregistered; its callback locks its weak reference, pushes, posts
and drops the reference, each a step. The sensor callback loads `taskInProc_`,
takes a reference, sets the light level, pushes, posts and drops. The destructor
waits for the timer thread (unless it runs on it), then for the pool, then reads
the state. External and assumed: `Utils::Timer::Shutdown` returns when called on
the timer's own thread and otherwise after the callback in progress; `Unregister`
of a timer that has not fired stops it; the sensor service delivers samples one
at a time and only between activation and deactivation, but a sample already
under way arrives late.

`GetCurrentTask` reads `taskInProc_` without the lock. Copying a `shared_ptr` whose
last owner lets go at that moment is undefined; the model records it in `raced`
and takes no further step, since anything may follow: the properties say
nothing about executions beyond such a copy.

**ScreenBrightnessManager.** `mutex_` is held for a whole command; `op` is the
command that holds it and how far it is. `Begin` creates and starts a task,
which is published only afterwards (`Publish`); `End` stands for the end command
and for the loss of the executor, which do the same; `Reset` drops the manager's
reference, and the command waits for the destructor when it was the last.
Commands of an executor that is not the owner, and failures of the library,
change nothing.

**SaCommandManager.** Each of `Threads` is a binder thread with at most one call
under way (`call`). The shared mutex is the set `readers`: a list of commands
(`OnSaCommands`, `LockShared`, `NextCommand`, `ProcessSaCommand`, `Return`) and a
disconnect hold it shared, one processor per step, so that calls of different
threads interleave between processors; registration waits until nobody holds it.
A processor is abstracted to its owner: what `ScreenBrightnessManager` accepts and
whom it belongs to afterwards (`Accepts`, `OwnerAfter`), each under the processor's
own mutex and hence in one step. A `BEGIN` may also fail for want of the library.
Commands that have once been registered stay known after their last processor
has left, so they then succeed without effect, while an unknown command ends
the call.

**FaceAuthDriver.** The driver process starts and dies (`DriverStarts`,
`DriverDies`); the framework's thread works through the notices in order.
`GetExecutorList` asks the driver before it takes the lock, so the driver may die
before `UpdateList`. `OnHdiDisconnect` goes through the list, each executor through the
processors. External and assumed: calls of the driver already under way outlive
it; the framework handles one notice at a time, in order, but finishes the
registration of an executor (`OnRegisterFinish`) at any time. The service at
present registers a single processor when it is loaded and never unregisters
it: the second processor and `UnregisterSaCommandProcessor` exercise the interface.

**FaceAuthExecutor.** Every request of the framework has the same shape: checks
and conversions before the driver is asked (`Refusal`, `Request`), the driver's
status, converted (`Returns`). What distinguishes the requests is whether they
take a callback, and the arguments that are converted: the mode of `SendCommand`
(`ConvertCommandId`), the keys of `GetProperty` (`PropertyTypes`, a recursive function
whose step `ConvertKey` is the body of the code's loop), the driver's description
of an executor (`MoveHdiExecutorInfo`). The driver has the callback from the moment it
is asked, so its reports (`Reports`) come before, after or without a return of the
request, whatever its status; they are delivered one at a time for a request.
`OnResult` is two steps when the vibrator is called. `sent` is a history
variable: what the driver has reported. A framework code that has the name of a
driver's code has its number in the model; the code passes vendors' numbers on
unchanged. An allocation that fails is not modelled.

**FaceAuthService and FaceAuthClient** follow a call of `setSurfaceId` through
every process it visits. `call` says where each thread's call is: "check" and "proxy"
in the client, "recipient" between the fetch of the remote object and the death
recipient, "send", "request" at the stub, "driver", "reply", and "done" at the
binding, which returns or throws. `mutex` is the client's `mutex_`, held by `GetProxy`
over its calls to other processes. The service is serial (`IRemoteStub(true)` and
`mutex_`), so a request waits while another is at the driver. The service is
started at most `MaxInstances` times (`OnStart`, `Dies`); its death fails the calls it has
not answered, while one that has reached the driver still takes effect there
(`DriverTakesOrphan`). A dead remote object refuses a recipient, and the death of one
that has a recipient sends a notice, which is handled later (`OnRemoteDied`).
Failures of parcels and of the system ability manager are alternatives of the
action they occur in. What the stub has read (`buffer`) is not always what was sent
(`ReadProducer`): a remote object it cannot read is null to it, which it takes for the
null producer. A surface id is abstracted to what the bindings make of its
characters: no number, a number too large, or a number and what its first 24
characters, which are all the JavaScript binding reads, spell. The ETS binding's
uninitialized variable is a choice over all ids.

**FiniteStateMachineBuilder** keeps the three maps as sets of entries. A state and
an event are numbers below `Span`, 2^32 in the code; the key is the packed number, so
that what the packing keeps apart is computed, not assumed.

**SettingsFaceAuth.** JavaScript handles one event to its end, so a controller's
function is one action up to the answer or the timer it waits for; awaits of a
promise that is already there (`setSurfaceId`) are inside it. The router's pages are a
stack; `onPageHide` is part of every action that hides the enrolling page. Controllers
and AppStorage outlive the ability, which may be started again in the same process
(`Launch`). Surfaces are numbered by the visits of the enrolling page. External: the
identity manager, which opens and closes sessions, answers at any time and fails
without a session; the system, which destroys an ability after `terminateSelf`.
`swallowed` and `confirmed` are history variables.

## Runs

| Run | Instance | What it shows |
|---|---|---|
| `fsm_serial` | 2 threads, 3 calls each, limit 2, an enter action that schedules | the machine implements `SerialMachine`, fairness included (`SerialSpec`); `NoStrandedEvent`, `EnsureFlushes`, `PromiseAlive`, `TypeOK` |
| `fsm_runaway` | the same with 2 calls each and the unit test's action that schedules itself forever | `EnsureReturns` |
| `brightness_ramp` | the real array, limits and defaults; every brightness 0..255; 11 parameter values around the boundaries | `RampComplete` |
| `brightness_task` | 1 session, 3 samples, a ramp with a repeated value, readings below, inside and invalid | `OverrideJustified`, `LuxMeasured`, `OneTimerChain`, `BrightnessRises`, `StopCompletes`, `DelayExpires`, `TypeOK` |
| `brightness_sessions` | 2 sessions, 2 dark samples, a ramp that ends at the maximum | `StoppedWhenDestroyed`, `NoHandlerAfterDestruction`, `SensorReleased`, `SensorKept`, `OneWorking` |
| `sa_commands` | 2 threads with 2 calls each, 2 executors, 2 processors, 2 starts of the driver | `AppliedInOrder`, `OwnerReleased`, `NoneForgotten`, `TypeOK` |
| `sa_commands_live` | the same with 1 processor and 1 start | `CallsReturn`, `LostOwnerReleased` |
| `executor_requests` | 1 request of every kind, every status, codes 0..11 and around the vendors' limit, key lists up to 3, 2 reports | `ToldFaithfully`, `VibratesForFailure`, `PropertiesAsked` |
| `surface_calls` | 2 threads with a call each, both bindings, 7 kinds of argument, 3 tokens, 3 starts of the service, 1 death of the driver | `ResultTruthful`, `StaleProxyNoticed`, `StaleProxyDropped`, `CallsReturn`, `TypeOK` |
| `fsm_builder` | 1 bit states and events, 3 calls, Build among them | `BuiltAsAsked` |
| `settings_pages` | 2 starts of the ability, 2 PIN authentications, 2 visits, 2 deletions | `OneEnrolment`, `SurfaceReleased`, `OwnPageReplaced`, `DeleteLeaves`, `EnrollingGoesOn`, `TypeOK` |
| `settings_preview` | the same | violated: `PreviewOnPage` |

Why the bounds are enough. *Threads:* a race of `Schedule` needs two threads;
`NoStrandedEvent`, `PromiseAlive` and the safety part of the refinement are proved for
any number of them, as are most other invariants for any number of threads, sessions,
samples, processors, starts and visits ([Proofs](#proofs)). *Limit:*
the code's 100 is scaled down so that it is reached; two events of different threads
reach 2. *Calls:* with three calls a thread schedules, ensures and schedules again, in
any order, while the other thread is anywhere in its own. *Sessions:* they interact only through the sensor, the
screen, the pool and the manager; a session can only be disturbed by its
predecessor's leftovers, so two are needed and `Begin` cannot overtake further.
*Samples:* one before and one after the transition that consumes it; the third
in `brightness_task` lands after the end. The samples of
`brightness_sessions` are dark, so that both sessions reach the ramp; the end a bright
sample brings is in `brightness_task`. *One executor:* commands of others are
refused without effect, so a second one adds no behaviour. *Ramp:* two or three
steps contain the first, a repeated value, the last within the maximum and the
first beyond it; the long array is covered by `brightness_ramp`. In `brightness_task` the maximum is above
the whole ramp; that an override is at most the maximum is tried where the ramp reaches
it, in `brightness_ramp`, and proved for every ramp (`OverrideCorrect`). *Commands:* two
threads are a list of commands and what it can meet (another executor's list, a
registration, a disconnect, which has a thread of its own); the lists have a
second command that follows, ends or fails; two starts let the executors of the
first outlive it. Threads and executors are interchangeable in `sa_commands`.
*Requests:* they share nothing but the driver, so one is enough; two reports show an
order. *Surfaces:* two threads share the client's proxy and the service; one call
each is enough for one to leave a stale proxy to the other, and a second instance
of the service for a new one to be fetched; a third lets a notice of the first come
when its successor has died as well. *Builder:* three calls contain a
duplicate, a collision of keys and an entry after `Build`. *Settings:* everything that
goes wrong does so between a first and a second visit, start or answer.

The runs bound the number of calls, sessions and samples, so they come to a
rest; deadlock is therefore not checked, and the liveness properties show that
nothing stops half way. The run marked "violated" states what the code's own
message and the interface's comment say, and TLC shows an execution of the code's model
that does otherwise; see [What the work showed](#what-the-work-showed).

## Fairness

`FairSpec` assumes weak fairness of the pool thread, of a timer and a sensor
callback once it has begun, of a command that holds the lock, of a destructor,
and of a thread inside `Schedule` or `EnsureCurrentState`. Each of them is a
thread that is never blocked except on a condition the model states as a
guard, so the scheduler runs it eventually. Nothing is assumed about callers:
that a command or a sample arrives is never fair. That a registered timer
fires is part of the timer thread's fairness. In the command runs the framework's
thread and a call under way are fair; the bound on calls stands in for what the
code leaves to `std::shared_mutex`, that readers do not keep a writer out forever.
In `surface_calls` the threads of a call, in whichever process, are fair, and the
binder delivers the notice of a death; that anybody starts the service or the
driver is not assumed. In `settings_pages` the timers of `processResult` and of the
deletion fire and an ability that has terminated itself is destroyed; neither the
user nor an answer of the identity manager is fair.

## Proofs

The proof modules extend the modules that TLC runs, so a theorem is about the same
definitions as the run of the same name, for every value of the constants that the
module's named assumptions allow. Each proof has the same shape: the initial states
satisfy an inductive invariant, each step keeps it (one case per action), and it
implies the property. Most invariants were given to TLC before they were proved.

| Theorem | Property | Inductive invariant |
|---|---|---|
| `TypeCorrect`, `PromiseCorrect`, `NoStranded` | `TypeOK`, `PromiseAlive`, `NoStrandedEvent` | `AssignDefined`, `DrainPerEvent` and its parts |
| `EnsureFlushesCorrect` | `EnsureFlushes` | `FlushInvariant` with `DrainPerEvent` |
| `SerialCorrect` | `SerialSafety`, the safety part of `SerialSpec` | `IdleDone` with the types |
| `EnsureBounded` | the safety of `EnsureReturns` | `WakeQueued`, `BelowLimit` |
| `ClientTypeCorrect`, `StaleProxyCorrect`, `ResultCorrect` | `TypeOK`, `StaleProxyNoticed`, `ResultTruthful` | `InstanceKnown`, `ProxyWatched`, `AllTruthful` |
| `DriverTypeCorrect`, `AppliedInOrderCorrect`, `NoneForgottenCorrect`, `OwnerReleasedCorrect` | `TypeOK`, `AppliedInOrder`, `NoneForgotten`, `OwnerReleased` | `DriverInv` |
| `MutexReleased` | the safety of `CallsReturn` | `MutexHolders`, from `LockHeld` |
| `SettingsTypeCorrect`, `OneEnrolmentCorrect`, `SurfaceReleasedCorrect`, `OwnPageCorrect`, `EnrollingGoesOnCorrect` | `TypeOK`, `OneEnrolment`, `SurfaceReleased`, `OwnPageReplaced`, `EnrollingGoesOn` | `PinsCounted`, `SingleVisit`, `EnrollingOnTop` |
| `DeletionCorrect` | the safety of `DeleteLeaves` | `DeletionTimed` |
| `BrightnessTypeCorrect`, `SensorReleasedCorrect`, `OneTimerChainCorrect` | `TypeOK`, `SensorReleased`, `OneTimerChain` | `Typed`, `OneChain` |
| `StoppedCorrect`, `LuxMeasuredCorrect`, `OverrideCorrect` | `StoppedWhenDestroyed`, `LuxMeasured`, `OverrideJustified` | `StopInv`, `Light`, `RampAbove` |
| `NoHandlerCorrect` (limit of at least 2) | `NoHandlerAfterDestruction` | `WakeFlushed`, `NothingAfter` with `StopInv` |
| `OneWorkingCorrect`, `SensorKeptCorrect`, `BrightnessRisesCorrect` (limit of at least 3) | `OneWorking`, `SensorKept`, `BrightnessRises` | `OrderInv`, `RampAhead` |
| `DelayCorrect` | the safety of `DelayExpires` | `DelayComing`, `Unstarted` with `StopInv` |
| `DestructionBounded` | the safety of `StopCompletes` | `NothingLeaks`, `DestructorsGoOn` with `StopInv` |
| `RampCorrect` | `RampComplete` | `RampTyped`, `ShownSoFar` |
| `ToldCorrect`, `VibratesCorrect` | `ToldFaithfully`, `VibratesForFailure` | `ToldInv`, `Vibrated` |
| `PropertiesCorrect` | `PropertiesAsked` | `AllAsked`, with the lemma `TypesConverted` |
| `BuiltCorrect` | `BuiltAsAsked` | `BuilderInv` |

### The state machine

`FiniteStateMachineProofs` proves, for every set of threads, every table, every
limit of at least 1 and every bound on calls (`MachineAssumption`: the threads are
finitely many, the table and the actions have their types):

- `TypeCorrect`: `Spec => []TypeOK`. The one step that needs more than types is the
  assignment of `currentState_`, which looks its row up again: `AssignDefined` adds
  that an assignment still to be done is the only one and that its row exists
  for the present state, because nothing else changes the state in between.
- `PromiseCorrect`: `Spec => []PromiseAlive`, inductive given the types.
- `DrainInvariantHolds` and `NoStranded`: `OuterCallsOnly` implies
  `Spec => []NoStrandedEvent`. That some drain will come is not inductive: the
  step that takes the last drain needs to know that it is not followed by more
  events than it will handle. The invariant counts instead: there are at most
  as many pending events as drains that are queued, are about to be posted or
  have just begun (`DrainPerEvent`); what the running drain handled beyond its first
  event is left over (`Surplus`). A push adds one on both sides; a post moves a
  drain from "about to be posted" to "queued"; a pop removes an event, and of the
  drains at most the fresh one, so a drain that stops at the limit, or at an empty
  queue, never strands anything. The parts it rests on: only the first thing left
  to do can be a post (`TodoWellFormed`), a destroyed machine has no events
  (`ReleasedEmpty`), and a thread that is woken was waiting and not about to post
  (`PromiseAlive`). `OuterCallsOnly` says that handlers schedule through the machine
  itself, as `ScreenBrightnessTask` does; with `Inner::Schedule`, which does not
  post, the claim is false once the limit is reached.
- `EnsureFlushesCorrect`: `Spec => []EnsureFlushes`, for tables with `OuterCallsOnly` and a
  limit that is at least 2 and not below the number of threads. For an event that is
  still to be handled the model has its position from the front (`pos`, `due`); `Room(k)`
  is what the pool can handle before it comes to place `k` of its queue: the rest of
  the running drain and a full limit for each queued one. The invariant (`Roomy`)
  says that the room in front of a wake-up is enough for all its caller waits for. It
  is established when the last `Schedule` that it counts has posted: the events in
  front of that one are at most as many as the drains to come (`DrainPerEvent` with its
  `Surplus`), of which all but one for each other thread are in the queue already, and
  a drain has room for as many events as there are threads. An earlier drain that stops
  early has emptied the queue, so nothing is waited for any more. The hypothesis is
  tight: with one event less for a drain TLC finds `EnsureFlushes` violated (2 threads
  and a limit of 1, 3 and 2). In the code the limit is 100.
- `SerialCorrect`: `Spec => SerialSafety`. An event of the abstract machine takes effect
  at the assignment of `currentState_` or at a pop without a row; every other step
  leaves the abstract queue and state alone, or appends one event to it. It needs, in
  addition to the types, that nothing is left to do when no event is being handled
  (`IdleDone`), so that an event is never counted as both handled and pending.
- `EnsureBounded`: nobody waits for ever because of somebody else's events. A thread that
  waits in `EnsureTask` has its wake-up in the pool's queue (`WakeQueued`), and three
  natural numbers get smaller, the first before the second before the third, with
  each step of the pool thread: the place of the wake-up, what the running drain may still
  handle (`DrainLeft`), and the calls that are left of its present event (`CallsLeft`).
  No other step changes them (`WaitShortens`). The second is a natural number only because
  a drain stops at the limit (`BelowLimit`), whatever the table: without it
  handlers that schedule for ever would keep a caller waiting. What is left to
  `EnsureReturns` is that the pool thread and the woken caller do take their steps.

### Client and service

`FaceAuthClientProofs`, for any number of threads, calls and instances of the service
(`ClientAssumption`: nobody is a thread that is none; the inputs are what the bindings
can be given):

- `ClientTypeCorrect`: `TypeOK`, with `InstanceKnown`: a call that has got its proxy
  belongs to an instance that was started.
- `StaleProxyCorrect`: the cached proxy is that of the running instance *and* has a
  recipient, or its notice is under way (`ProxyWatched`). The recipient is what makes it
  inductive: the death of the instance sends the notice only because it is there.
- `ResultCorrect`: `CallTruthful` follows a call through the processes. Nothing is taken
  before the driver is reached, the driver is only reached with both rights, and from
  the answer on the result is true of the call; a death on the way only ever writes
  an error. What a driver has taken is what the stub has read, which is the caller's
  producer or the null one (`buffer`); see [What the work showed](#what-the-work-showed).

### Commands and drivers

`FaceAuthDriverProofs`, for any threads, processors, executors, lists and starts
(`CommandAssumption`, `DriverAssumption`; the framework's thread is not one of the
binder threads). `DriverInv` is the conjunction of

- `NoticesAlternate`: starts and deaths alternate, and the list of executors is only filled
  between the notice of a start and the end of the notice of the death after it.
  Without it `NoneForgotten` is not inductive: replacing the list is only harmless
  because everybody in it has been told.
- `Telling`: what the thread of the framework still has to tell.
- `LockHeld`: the readers are exactly the calls that use the registry and the framework's
  thread while it tells the processors; so the registry does not change under them.
- `AllProgress`: every processor of the present command is still to be called or has
  been, and all those of the commands before it have been. This implies `AppliedInOrder`.
- `RegistryAgrees`: both halves of the registry have the same processors, and only
  registered processors, or those that have left, have an owner.
- `LostInTime`: an executor that was told in time has no call and will have none, and owns
  only what is still to be told. This implies `OwnerReleased`.

`MutexReleased` is the safety of `CallsReturn`. Registering waits for all readers, and
the readers are threads inside `ProcessSaCommands` or a disconnect (`MutexHolders`), which
do not wait for the mutex again (a processor's part is one step here; that the brightness
manager's comes to an end is `DestructionBounded`). Whatever a step does to one of them brings it nearer to the release
(`HoldersAdvance`): a command fewer to begin, a processor fewer to call (`Nearer`), or a
processor fewer to tell of the executor's loss; no other thread's step takes it back.

### Settings

`SettingsFaceAuthProofs`, for any number of starts, PIN authentications, visits and
deletions: the types (with `PinsCounted`, as each timer follows an authentication),
`OneEnrolment`, `SurfaceReleased`, and `OwnPageReplaced`, which is only claimed for one
start and one authentication and needs the list of stacks the router can have in that
case (`SingleVisit`).
`EnrollingGoesOnCorrect` needs that the enrolling page is never below another one and that a
loaded one has its surface (`EnrollingOnTop`). Its startEnroll then either begins an
enrolment or finds `enrolling` set; and then, by `OneEnrolment`, the enrolment of an
earlier visit is under way or its result is being shown, and whatever ends those two
shows the button or leaves the page.
`DeletionCorrect` is the safety of `DeleteLeaves`: while the page on which a deletion was
confirmed is shown one of the timers of 500 ms runs (`DeletionTimed`), and when one
fires the page is left (`TimerLeaves`).

### Screen brightness

`ScreenBrightnessManagerProofs`, for any number of sessions, samples and executors, any
sorted ramp (`RampAssumption`; the code's array is sorted) and every `MAX_SCHEDULE_TIMES` of
at least 1, unless said otherwise:

- `BrightnessTypeCorrect`, `SensorReleasedCorrect` and `OneTimerChainCorrect`. The chain of
  timer events is registered timer, callback, event in the queue: `OneChain` says that a
  task has at most one of them, and in which states it may have it.
- `StoppedCorrect`. That the stop has been handled when the destructor goes on is the
  end of an argument about counting, in `StopInv`. Who lets go of a task has scheduled its
  `E_STOP` (`StopScheduled`, and `Held` for who may still refer to it). While anybody can
  schedule, there are at least as many drains, queued, running or about to be posted,
  as there are events (`DrainPerEvent`). Nobody refers to the task when its destructor
  queues its wake-up, so then all of these drains are in front of it; each handles one
  event at least, so the stop has been reached before the wake-up is taken. From then on
  the invariant is about what the pool will have handled before it takes the wake-up
  (`Capacity`, `WakeCovered`), which stays true when other tasks are queued and when drains
  stop at their limit (`RunTimes`).
- `LuxMeasuredCorrect`: the light level is set before its event is pushed, and no other
  event leads to where it is read (`Light`).
- `OverrideCorrect`: from its index on, the ramp is above the brightness the task
  found (`RampAbove`); this is where the ramp must be sorted. That nobody is left
  with an override rests on `StoppedWhenDestroyed`.
- `NoHandlerCorrect`, for a limit of at least 2. It is not enough that the stop is
  reached before the wake-up: everything behind it must have been handled, too. An event
  in front of the stop may schedule one more, those from the stop on none, so a stop at
  position `i` leaves at most `i - 1` events more than are queued now; `WakeFlushed` says
  that the drains in front of the wake-up can handle all of them. With a limit of 1 it is
  false: a failed subscription leaves two stops and one drain may be behind the wake-up.
- `OneWorkingCorrect`, for a limit of at least 3. `InOrder` orders the sessions: when a
  task is made the manager has let go of all earlier ones, each drain of a later task
  has all earlier stops covered by what is in front of it, and a later task leaves
  `S_INIT` only when the earlier ones are in `S_END`. For it the stop of a released task
  must be covered by the queue as it is (`StopCovered`), without a destructor that waits:
  the timer and the sensor of the old task may each have pushed an event in front of
  the stop that they have not posted, and together with the stop these are the
  three events that the drain of the stop must be able to handle.
- `SensorKeptCorrect` and `BrightnessRisesCorrect` follow from the order: whoever takes
  the sensor away or lets go of the screen is the one working session. The second
  needs `RampAhead`: from its index on the ramp is not below what the screen shows.
- `DestructionBounded` is the safety of `StopCompletes`. A task that is stopped is destroyed
  when nobody refers to it, so no reference may be forgotten: each belongs to the manager,
  or to a thread between taking it and dropping it, and a live task has one
  (`NothingLeaks`). The destructor is run by the thread that let go last and by no other;
  when it joins the timer thread that one is idle, is only about to find the task gone, or
  is the one that destroys (`JoinEnds`); when it waits for the pool its wake-up is queued
  (`DestructorsGoOn`). The wait gets shorter with each step of the pool thread, in its place
  in the queue or in what the running drain may still handle (`WaitShortens`); other
  sessions' drains queue up behind it.
- `DelayCorrect` is the safety of `DelayExpires`. The wait begins either with the timer or, when
  the sensor cannot be subscribed, with a stop in the queue; while it lasts the
  handlers leave the timer alone. The timer is lost in two places only, its callback that
  finds the task gone and the destructor, and a task that is not alive has its stop in the
  queue (`StopScheduled`).

`BrightnessRampProofs` proves `RampCorrect` for any sorted array and any parameters, readable
or not (`RampAssumption`, `RampRunAssumption`): a ramp that has ended has shown every
value of the array that is above the screen's brightness and not above the maximum, once
and in order. The values asked for are those at a set of indices (`Within`), in the
order of their ranks, and `ShownSoFar` says that what has been shown is the array from the
start index on. That the set is an interval is where the array must be sorted; its
cardinality then gives the ranks.

### Executors and builder

`FaceAuthExecutorProofs`, for any number of requests and reports, and any codes:
`ToldCorrect`, whose invariant ties the report under way to the last one sent
(`AllLastSent`) and uses that only success is converted to success (`CodesConverted`); and
`VibratesCorrect`, in which a vibration may be ahead of the telling by the report
under way (`Vibrated`). `PropertiesCorrect` is for lists of keys of any length: `TypesConverted`
says what the loop over the keys returns, the type of each wanted key at the place that is its
rank among the wanted keys, and an error exactly if one of them has no type. It is an
induction over the length of the list; as an induction theorem cannot be instantiated here,
the proof takes the least length for which the statement fails (`LeastNumber`) and shows that it
holds there too.

`FiniteStateMachineBuilderProofs`, for any width of states and events
and any number of calls: `BuiltCorrect`. Distinct pairs have distinct keys
(`KeysDistinct`), and as long as the builder is valid its maps hold exactly what was asked
(`MapsAgree`); after `Build` it is not valid, so no later machine shares them.

### Only model-checked

Liveness, which the proof system does not do: `SerialSpec`'s, `EnsureReturns`, `StopCompletes`,
`DelayExpires`, `CallsReturn`, `LostOwnerReleased`, `StaleProxyDropped`, `DeleteLeaves`.
Of six of them the safety part is proved, that what is waited for is under
way and that no step takes it back; that these steps are taken follows from fairness
and is checked by TLC alone:

- nobody waits in a circle and each step of whoever is waited for shortens the wait, for
  `EnsureReturns` (`EnsureBounded`), `StopCompletes` (`DestructionBounded`) and
  `CallsReturn` (`MutexReleased`);
- the event that ends the wait is to come, for `DelayExpires` (`DelayCorrect`), `DeleteLeaves`
  (`DeletionCorrect`) and `StaleProxyDropped`
  (`StaleProxyCorrect`).

## What the work showed

- `EnsureFlushes` depends on the limit. It holds when `MAX_SCHEDULE_TIMES` is at least
  two and the number of threads, which is proved; TLC
  finds it violated when `fsm_serial` is given three threads and a limit of one or two: a drain may have to handle
  the events of other threads first and stop before the caller's own. With the
  code's limit of 100 and the handful of threads of a session there is room.
- `NoHandlerAfterDestruction` depends on it too; a limit of two is enough: with a limit of one a failed
  subscription leaves two `E_STOP`s, and the drain of the second may be running
  when the destructor returns. `StoppedWhenDestroyed` does not: `E_STOP` has as many
  drains in front of the destructor's wake-up as there are events before it.
- The end of a session may be handled after the next `BEGIN` has returned,
  when the timer or sensor thread keeps the old task alive. The sensor is still
  never taken from the new session, because both go through the one pool
  thread and the old `E_STOP` was posted first.
- A `BEGIN` that waits while its driver dies and its executor is told of it makes
  the lost executor the owner of the brightness manager. Nothing ends that
  session, and every later `BEGIN` fails. The same holds when a driver has been
  started again before the death of its predecessor is handled. `OwnerReleased` and
  `LostOwnerReleased` state that there is no other way to it: they except the
  executors in `late`.
- The ETS binding of `setSurfaceId` never looks whether the surface id could be read
  (`frameworks/ets/ani/src/ohos.userIAM.faceAuth.impl.cpp:75`): letters give the preview up
  with success, an empty text uses an uninitialized variable. The JavaScript binding
  refuses both. `ReadSurfaceId` has this behaviour, so `surface_calls` covers what follows
  from it; that a malformed surface id is refused does not hold and is not among its
  properties.
- A driver's `OPERATION_NOT_SUPPORT` is told as `FAIL`, against the comment next to it, and
  an authentication then vibrates; `ToldFaithfully` asks only that
  it is not told as a success, as the unit test expects `FAIL`.
- The enrolling page may be shown, with its surface, while the service has no surface for
  the enrolment (`settings_preview`). A second PIN authentication is answered while an
  enrolment is under way and replaces the page. The old page's `onPageHide` takes the
  surface away; the new page loads its own, but its `startEnroll` does nothing, because
  "face is enrolling" (`enrollingController.ts:58`), and that is where the surface is set.
  In a longer execution the first enrolment has ended before the second page
  appears: nobody has cleared the surface id of the first visit, so `aboutToAppear` starts
  an enrolment with it, and `onLoad` cannot set the new one. `EnrollingGoesOn` states what
  holds nevertheless: the page is not a dead end.
- A stub that cannot read the remote object of a caller's surface takes it for the null
  producer (`face_auth_stub.cpp:58-64`): `ReadRemoteObject` returns null, so does the cast, and the
  check that compares the two passes. The driver gives the preview up and the caller
  is told `SUCCESS`. `ResultTruthful` therefore does not say that the driver has the
  caller's own producer, only that it has taken that one or the null one.
- While the notice of a service's death is outstanding the client's proxy is still that
  service's, so the comparison in `ResetProxy` always succeeds: calls fail until the
  notice is handled, and none is lost. No execution keeps a proxy without a notice to
  come, because `GetProxy` gives up when the recipient cannot be added.
- `enrolling` is checked before an await and set after one; no second call gets in
  between, because `setSurfaceId` is synchronous behind its promise. An asynchronous
  `setSurfaceId` would let onLoad start a second enrolment. `StartEnroll` is one step for
  that reason, so no property of the model would show it.
- `SubscribeSensor` without `FACE_USE_SENSOR_COMPONENT` lacks a semicolon
  (`services_ex/src/screen_brightness_task.cpp:141`), so that variant is not
  built; the models assume the sensor and display components.

## Not modelled

See `PROJECT.json` for every component. Left out for good: page layout and other
declarative user interface code, logging and formatting helpers, build and
profile data, marshalling of parcels, the registration of the JavaScript and ETS
modules with their engines, contents that are only passed on. `ServiceExManager` is
part of the manager's `Begin`: loading the library either works or the command
fails without effect, and it is never unloaded. Unregistering only some of a processor's
commands is not modelled, as nobody does it.

## Plan

Done: every component with state of its own; a theorem for every invariant and action
property of the passing runs, for the safety part of the refinement, and for the
safety behind six of the liveness properties.

Left: the parts of *Not modelled*, and what the proof system cannot do (*Only
model-checked*).
