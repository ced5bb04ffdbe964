-------------------------- MODULE FiniteStateMachine --------------------------
(***************************************************************************)
(* FiniteStateMachineImpl on the single thread of ThreadHandlerImpl.       *)
(*                                                                         *)
(* Schedule, called by any thread, is two steps that other threads may     *)
(* come between: it pushes the event on pendingEvents_ and then posts to   *)
(* the pool a task that drains pendingEvents_.  The pool thread runs its   *)
(* tasks in order; a drain pops events until the queue is empty or         *)
(* MAX_SCHEDULE_TIMES events have been handled.  EnsureCurrentState posts  *)
(* a task that wakes its caller and waits for it.                          *)
(*                                                                         *)
(* The handlers of the table (transition, leave and enter actions) are     *)
(* abstracted to what they do to the machine: the sequence of events they  *)
(* schedule, through the Inner machine they are given (a push only) or     *)
(* through the machine itself (a push and a post by the pool thread).      *)
(***************************************************************************)
EXTENDS Naturals, Sequences, FiniteSets

CONSTANTS Threads,             \* the threads that use the machine
          States, Events,
          InitialState,
          Transition,          \* transitionMap_: <<state, event>> -> state
          OnTransition,        \* <<state, event>> -> calls of its action
          OnLeave, OnEnter,    \* state -> calls of its action (<<>>: none)
          MAX_SCHEDULE_TIMES,
          MaxCalls             \* bound: calls each thread makes

Call == [op : {"inner", "outer"}, event : Events]

ASSUME MachineAssumption ==
    /\ IsFiniteSet(Threads)
    /\ InitialState \in States
    /\ DOMAIN Transition \subseteq States \X Events
    /\ Transition \in [DOMAIN Transition -> States]
    /\ OnTransition \in [DOMAIN Transition -> Seq(Call)]
    /\ OnLeave \in [States -> Seq(Call)]
    /\ OnEnter \in [States -> Seq(Call)]
    /\ MAX_SCHEDULE_TIMES \in Nat \ {0}
    /\ MaxCalls \in Nat

(* What the pool thread still has to do for the event it is handling: a    *)
(* call of a handler, the post of an outer call it has pushed, or the      *)
(* assignment of currentState_.                                            *)
Step == [op : {"inner", "outer", "post", "assign"}, event : Events]

(* A task of the pool: a drain, the empty task or the wake-up of a thread. *)
PoolTask == [kind : {"drain"}] \cup [kind : {"nop"}] \cup [kind : {"wake"}, thread : Threads]

VARIABLES
    pendingEvents,  \* pendingEvents_
    currentState,   \* currentState_
    owned,          \* the owner's shared_ptr to the machine exists
    tasks,          \* queue of the pool
    pool,           \* the pool thread: "idle", "pop" or "handle"
    runTimes,       \* runTimes of the running drain
    event,          \* the event being handled
    todo,           \* what is left of its handling
    pc,             \* each thread: "idle", "post", "ensure", "wait" or "woken"
    calls,          \* calls each thread has made
    pos,            \* history: events to finish before a thread's last event is done
    due             \* history: what pos was when a thread called EnsureCurrentState

machineVars == <<pendingEvents, currentState, owned>>
poolVars == <<tasks, pool, runTimes, event, todo>>
threadVars == <<pc, calls, pos, due>>
vars == <<machineVars, poolVars, threadVars>>

Drain == [kind |-> "drain"]
Nop == [kind |-> "nop"]
Wake(t) == [kind |-> "wake", thread |-> t]

-------------------------------------------------------------------------------
Init ==
    /\ pendingEvents = <<>>
    /\ currentState = InitialState
    /\ owned = TRUE
    /\ tasks = <<>>
    /\ pool = "idle"
    /\ runTimes = 0
    /\ event \in Events
    /\ todo = <<>>
    /\ pc = [t \in Threads |-> "idle"]
    /\ calls = [t \in Threads |-> 0]
    /\ pos = [t \in Threads |-> 0]
    /\ due = [t \in Threads |-> [u \in Threads |-> 0]]

(* Events accepted and not finished, the one being handled included.       *)
Outstanding == Len(pendingEvents) + (IF pool = "handle" THEN 1 ELSE 0)

-------------------------------------------------------------------------------
(* The threads that use the machine.  A caller holds a reference.          *)

SchedulePush(t, e) ==
    /\ owned
    /\ pc[t] = "idle"
    /\ calls[t] < MaxCalls
    /\ pendingEvents' = Append(pendingEvents, e)
    /\ pc' = [pc EXCEPT ![t] = "post"]
    /\ calls' = [calls EXCEPT ![t] = @ + 1]
    /\ pos' = [pos EXCEPT ![t] = Outstanding + 1]
    /\ UNCHANGED <<currentState, owned, poolVars, due>>

(* Mutant: no drain is posted when one is already queued.                  *)
SchedulePostOnce(t) ==
    /\ pc[t] = "post"
    /\ tasks' = IF \E i \in DOMAIN tasks : tasks[i] = Drain THEN tasks ELSE Append(tasks, Drain)
    /\ pc' = [pc EXCEPT ![t] = "idle"]
    /\ UNCHANGED <<machineVars, pool, runTimes, event, todo, calls, pos, due>>

SchedulePost(t) ==
    /\ pc[t] = "post"
    /\ tasks' = Append(tasks, Drain)
    /\ pc' = [pc EXCEPT ![t] = "idle"]
    /\ UNCHANGED <<machineVars, pool, runTimes, event, todo, calls, pos, due>>

(* EnsureTask(nullptr): the empty task, then the callback that sets the    *)
(* promise, then the wait.                                                 *)
EnsureCall(t) ==
    /\ owned
    /\ pc[t] = "idle"
    /\ calls[t] < MaxCalls
    /\ tasks' = Append(tasks, Nop)
    /\ pc' = [pc EXCEPT ![t] = "ensure"]
    /\ calls' = [calls EXCEPT ![t] = @ + 1]
    /\ due' = [due EXCEPT ![t] = [u \in Threads |-> IF pc[u] = "post" THEN 0 ELSE pos[u]]]
    /\ UNCHANGED <<machineVars, pool, runTimes, event, todo, pos>>

(* Mutant: the caller does not wait.                                       *)
EnsurePostNoWait(t) ==
    /\ pc[t] = "ensure"
    /\ tasks' = Append(tasks, Wake(t))
    /\ pc' = [pc EXCEPT ![t] = "woken"]
    /\ UNCHANGED <<machineVars, pool, runTimes, event, todo, calls, pos, due>>

EnsurePost(t) ==
    /\ pc[t] = "ensure"
    /\ tasks' = Append(tasks, Wake(t))
    /\ pc' = [pc EXCEPT ![t] = "wait"]
    /\ UNCHANGED <<machineVars, pool, runTimes, event, todo, calls, pos, due>>

EnsureReturn(t) ==
    /\ pc[t] = "woken"
    /\ pc' = [pc EXCEPT ![t] = "idle"]
    /\ UNCHANGED <<machineVars, poolVars, calls, pos, due>>

(* The owner drops the machine, no call on it being in progress.  Its      *)
(* destructor clears the queue at once unless a drain keeps it alive.      *)
Release ==
    /\ owned
    /\ \A t \in Threads : pc[t] = "idle"
    /\ owned' = FALSE
    /\ pendingEvents' = IF pool = "idle" THEN <<>> ELSE pendingEvents
    /\ UNCHANGED <<currentState, poolVars, threadVars>>

-------------------------------------------------------------------------------
(* The pool thread.                                                        *)

(* A drain whose weak reference no longer locks does nothing.              *)
TakeDrain ==
    /\ pool = "idle"
    /\ tasks # <<>>
    /\ Head(tasks).kind = "drain"
    /\ tasks' = Tail(tasks)
    /\ pool' = IF owned THEN "pop" ELSE "idle"
    /\ runTimes' = 0
    /\ UNCHANGED <<machineVars, event, todo, threadVars>>

TakeNop ==
    /\ pool = "idle"
    /\ tasks # <<>>
    /\ Head(tasks).kind = "nop"
    /\ tasks' = Tail(tasks)
    /\ UNCHANGED <<machineVars, pool, runTimes, event, todo, threadVars>>

TakeWake ==
    /\ pool = "idle"
    /\ tasks # <<>>
    /\ Head(tasks).kind = "wake"
    /\ tasks' = Tail(tasks)
    /\ pc' = [pc EXCEPT ![Head(tasks).thread] = "woken"]
    /\ UNCHANGED <<machineVars, pool, runTimes, event, todo, calls, pos, due>>

(* DealWithStateLeaveAndEnter: nothing when the state does not change.     *)
LeaveAndEnter(old, new) == IF old = new THEN <<>> ELSE OnLeave[old] \o OnEnter[new]

(* Handling event e in state s: the transition's action first, then the    *)
(* state, then the leave and enter actions.                                *)
StepsFor(s, e) ==
    IF <<s, e>> \in DOMAIN Transition
    THEN OnTransition[<<s, e>>] \o <<[op |-> "assign", event |-> e]>>
         \o LeaveAndEnter(s, Transition[<<s, e>>])
    ELSE <<>>

PopEvent ==
    /\ pool = "pop"
    /\ pendingEvents # <<>>
    /\ pendingEvents' = Tail(pendingEvents)
    /\ event' = Head(pendingEvents)
    /\ todo' = StepsFor(currentState, Head(pendingEvents))
    /\ pool' = "handle"
    /\ UNCHANGED <<currentState, owned, tasks, runTimes, threadVars>>

PopNothing ==
    /\ pool = "pop"
    /\ pendingEvents = <<>>
    /\ pool' = "idle"
    /\ UNCHANGED <<machineVars, tasks, runTimes, event, todo, threadVars>>

(* Inner::Schedule *)
InnerSchedule ==
    /\ pool = "handle"
    /\ todo # <<>>
    /\ Head(todo).op = "inner"
    /\ pendingEvents' = Append(pendingEvents, Head(todo).event)
    /\ todo' = Tail(todo)
    /\ UNCHANGED <<currentState, owned, tasks, pool, runTimes, event, threadVars>>

(* Schedule called by a handler, on the pool thread *)
HandlerSchedulePush ==
    /\ pool = "handle"
    /\ todo # <<>>
    /\ Head(todo).op = "outer"
    /\ pendingEvents' = Append(pendingEvents, Head(todo).event)
    /\ todo' = <<[Head(todo) EXCEPT !.op = "post"]>> \o Tail(todo)
    /\ UNCHANGED <<currentState, owned, tasks, pool, runTimes, event, threadVars>>

HandlerSchedulePost ==
    /\ pool = "handle"
    /\ todo # <<>>
    /\ Head(todo).op = "post"
    /\ tasks' = Append(tasks, Drain)
    /\ todo' = Tail(todo)
    /\ UNCHANGED <<machineVars, pool, runTimes, event, threadVars>>

(* Mutant: the event is stored as the state.                               *)
AssignEvent ==
    /\ pool = "handle"
    /\ todo # <<>>
    /\ Head(todo).op = "assign"
    /\ currentState' = event
    /\ todo' = Tail(todo)
    /\ UNCHANGED <<pendingEvents, owned, tasks, pool, runTimes, event, threadVars>>

AssignState ==
    /\ pool = "handle"
    /\ todo # <<>>
    /\ Head(todo).op = "assign"
    /\ currentState' = Transition[<<currentState, event>>]
    /\ todo' = Tail(todo)
    /\ UNCHANGED <<pendingEvents, owned, tasks, pool, runTimes, event, threadVars>>

Less(n) == IF n = 0 THEN 0 ELSE n - 1

(* Mutants: the drain stops one event early; it never stops; what is left  *)
(* when it stops is thrown away.                                           *)
FinishEventEarly ==
    /\ pool = "handle"
    /\ todo = <<>>
    /\ runTimes' = runTimes + 1
    /\ pool' = IF runTimes + 2 >= MAX_SCHEDULE_TIMES THEN "idle" ELSE "pop"
    /\ pendingEvents' = IF pool' = "idle" /\ ~owned THEN <<>> ELSE pendingEvents
    /\ pos' = [t \in Threads |-> Less(pos[t])]
    /\ due' = [t \in Threads |-> [u \in Threads |-> Less(due[t][u])]]
    /\ UNCHANGED <<currentState, owned, tasks, event, todo, pc, calls>>
FinishEventNoLimit ==
    /\ pool = "handle"
    /\ todo = <<>>
    /\ pool' = "pop"
    /\ pendingEvents' = IF pool' = "idle" /\ ~owned THEN <<>> ELSE pendingEvents
    /\ pos' = [t \in Threads |-> Less(pos[t])]
    /\ due' = [t \in Threads |-> [u \in Threads |-> Less(due[t][u])]]
    /\ UNCHANGED <<runTimes, currentState, owned, tasks, event, todo, pc, calls>>
FinishEventDiscards ==
    /\ pool = "handle"
    /\ todo = <<>>
    /\ runTimes' = runTimes + 1
    /\ pool' = IF runTimes + 1 >= MAX_SCHEDULE_TIMES THEN "idle" ELSE "pop"
    /\ pendingEvents' = IF pool' = "idle" THEN <<>> ELSE pendingEvents
    /\ pos' = [t \in Threads |-> Less(pos[t])]
    /\ due' = [t \in Threads |-> [u \in Threads |-> Less(due[t][u])]]
    /\ UNCHANGED <<currentState, owned, tasks, event, todo, pc, calls>>

(* The event is done; the drain goes on unless it has handled enough.      *)
(* When the drain ends and held the last reference, the machine is         *)
(* destroyed and its queue cleared.                                        *)
FinishEvent ==
    /\ pool = "handle"
    /\ todo = <<>>
    /\ runTimes' = runTimes + 1
    /\ pool' = IF runTimes + 1 >= MAX_SCHEDULE_TIMES THEN "idle" ELSE "pop"
    /\ pendingEvents' = IF pool' = "idle" /\ ~owned THEN <<>> ELSE pendingEvents
    /\ pos' = [t \in Threads |-> Less(pos[t])]
    /\ due' = [t \in Threads |-> [u \in Threads |-> Less(due[t][u])]]
    /\ UNCHANGED <<currentState, owned, tasks, event, todo, pc, calls>>

-------------------------------------------------------------------------------
PoolStep ==
    \/ TakeDrain \/ TakeNop \/ TakeWake
    \/ PopEvent \/ PopNothing
    \/ InnerSchedule \/ HandlerSchedulePush \/ HandlerSchedulePost
    \/ AssignState \/ FinishEvent

(* The steps a thread takes once it has called into the machine.           *)
ReturnStep(t) == SchedulePost(t) \/ EnsurePost(t) \/ EnsureReturn(t)

Next ==
    \/ \E t \in Threads : \/ \E e \in Events : SchedulePush(t, e)
                          \/ EnsureCall(t)
                          \/ ReturnStep(t)
    \/ Release
    \/ PoolStep

Fairness == WF_vars(PoolStep) /\ \A t \in Threads : WF_vars(ReturnStep(t))

Spec == Init /\ [][Next]_vars

FairSpec == Spec /\ Fairness

-------------------------------------------------------------------------------
(* Every variable has its type.                                            *)
TypeOK ==
    /\ pendingEvents \in Seq(Events)
    /\ currentState \in States
    /\ owned \in BOOLEAN
    /\ tasks \in Seq(PoolTask)
    /\ pool \in {"idle", "pop", "handle"}
    /\ runTimes \in Nat
    /\ event \in Events
    /\ todo \in Seq(Step)
    /\ pc \in [Threads -> {"idle", "post", "ensure", "wait", "woken"}]
    /\ calls \in [Threads -> 0..MaxCalls]
    /\ pos \in [Threads -> Nat]
    /\ due \in [Threads -> [Threads -> Nat]]

(* While an assignment is still to be done it is the only one and its      *)
(* transition exists: nothing but that assignment changes the state.       *)
AssignDefined ==
    \A i \in 1..Len(todo) : todo[i].op = "assign" =>
        /\ <<currentState, event>> \in DOMAIN Transition
        /\ \A j \in 1..Len(todo) : todo[j].op = "assign" => j = i

DrainIndices(q) == {i \in 1..Len(q) : q[i].kind = "drain"}
QueuedDrains == DrainIndices(tasks)
Posting == {t \in Threads : pc[t] = "post"}
HandlerPosting == todo # <<>> /\ Head(todo).op = "post"

(* Handlers only schedule through the machine itself, as                   *)
(* ScreenBrightnessTask does: every push is followed by a post.            *)
OuterCallsOnly ==
    LET OuterOnly(s) == \A i \in DOMAIN s : s[i].op = "outer"
    IN /\ \A x \in DOMAIN Transition : OuterOnly(OnTransition[x])
       /\ \A s \in States : OuterOnly(OnLeave[s]) /\ OuterOnly(OnEnter[s])

(* No accepted event is stranded: whenever pendingEvents_ is not empty the *)
(* pool is about to look at it, or a drain is in the pool's queue, or the  *)
(* thread that pushed an event is about to post one.  The drain that stops *)
(* at MAX_SCHEDULE_TIMES relies on it for what it leaves behind.           *)
NoStrandedEvent ==
    pendingEvents # <<>> =>
        pool = "pop" \/ QueuedDrains # {} \/ Posting # {} \/ HandlerPosting

(* Why: each pending event has a drain of its own to come, the one that    *)
(* was just begun included, and so has each event that the running drain   *)
(* handled beyond its first.                                               *)
OneIf(b) == IF b THEN 1 ELSE 0
DrainsToCome ==
    Cardinality(QueuedDrains) + Cardinality(Posting) + OneIf(HandlerPosting)
        + OneIf(pool = "pop" /\ runTimes = 0)
Surplus == CASE pool = "handle" -> runTimes [] pool = "pop" -> Less(runTimes) [] OTHER -> 0
DrainPerEvent == Len(pendingEvents) + Surplus <= DrainsToCome

(* Only the first thing left to do can be a post, and nothing is left when *)
(* no event is being handled.                                              *)
TodoWellFormed ==
    /\ \A i \in 1..Len(todo) :
          todo[i].op \in {"outer", "assign"} \/ (i = 1 /\ todo[i].op = "post")
    /\ pool # "handle" => todo = <<>>

(* A machine that neither its owner nor a drain holds is destroyed and has *)
(* no events.                                                              *)
ReleasedEmpty == ~owned /\ pool = "idle" => pendingEvents = <<>>

(* EnsureTask's callback refers to a promise on its caller's stack: while  *)
(* the callback is in the pool's queue the caller is waiting for it, and   *)
(* for no other callback.                                                  *)
PromiseAlive ==
    \A i \in 1..Len(tasks) : tasks[i].kind = "wake" =>
        /\ pc[tasks[i].thread] = "wait"
        /\ \A j \in 1..Len(tasks) :
              tasks[j].kind = "wake" /\ tasks[j].thread = tasks[i].thread => j = i

(* The inductive invariant behind NoStrandedEvent (for OuterCallsOnly).    *)
DrainInvariant ==
    TypeOK /\ AssignDefined /\ TodoWellFormed /\ ReleasedEmpty /\ PromiseAlive /\ DrainPerEvent

(* When EnsureCurrentState returns, every event whose Schedule call, of    *)
(* whatever thread, had returned when it was called has been handled.      *)
EnsureFlushes ==
    \A t \in Threads : pc[t] = "woken" => \A u \in Threads : due[t][u] = 0

(* EnsureCurrentState returns, whatever the handlers schedule.             *)
EnsureReturns == \A t \in Threads : pc[t] = "ensure" ~> pc[t] = "idle"

(* The machine implements the serial machine.  An event leaves the         *)
(* abstract queue when it takes effect: at its assignment, or at its pop   *)
(* when it has no transition.                                              *)
NotAssigned == \E i \in DOMAIN todo : todo[i].op = "assign"
AbstractQueue == IF NotAssigned THEN <<event>> \o pendingEvents ELSE pendingEvents

Serial == INSTANCE SerialMachine
              WITH queue <- AbstractQueue, state <- currentState, open <- owned

(* Safety part of the refinement.                                          *)
SerialSafety == Serial!Safety

(* With the fairness of the pool thread and of the callers, every accepted *)
(* event takes effect or is discarded with its machine.                    *)
SerialSpec == Serial!Spec
===============================================================================
