----------------------- MODULE FiniteStateMachineProofs -----------------------
(***************************************************************************)
(* Proofs about FiniteStateMachine, for any number of threads, any table   *)
(* and any MAX_SCHEDULE_TIMES that the theorem allows.                     *)
(***************************************************************************)
EXTENDS FiniteStateMachine, FiniteSetTheorems, FunctionTheorems, SequenceTheorems, TLAPS

(* An element of a concatenation is an element of one of its parts.        *)
LEMMA ConcatElement ==
    ASSUME NEW S, NEW a \in Seq(S), NEW b \in Seq(S), NEW i \in 1..Len(a \o b)
    PROVE  \/ i \in 1..Len(a) /\ (a \o b)[i] = a[i]
           \/ i - Len(a) \in 1..Len(b) /\ (a \o b)[i] = b[i - Len(a)]
<1>1. Len(a) \in Nat /\ Len(b) \in Nat
  BY LenProperties
<1>2. Len(a \o b) = Len(a) + Len(b)
  BY ConcatProperties
<1>3. (a \o b)[i] = IF i <= Len(a) THEN a[i] ELSE b[i - Len(a)]
  BY <1>2, ConcatProperties
<1>4. QED
  BY <1>1, <1>2, <1>3

(* What is left to do for a popped event is a sequence of steps.  It holds *)
(* one assignment, after the calls of the transition's action, and only if *)
(* there is a transition; everything else is a call of a handler.          *)
LEMMA StepsForShape ==
    ASSUME NEW s \in States, NEW e \in Events
    PROVE  /\ StepsFor(s, e) \in Seq(Step)
           /\ \A i \in 1..Len(StepsFor(s, e)) :
                 /\ StepsFor(s, e)[i].op = "assign" =>
                       /\ <<s, e>> \in DOMAIN Transition
                       /\ i = Len(OnTransition[<<s, e>>]) + 1
                 /\ StepsFor(s, e)[i].op \in {"inner", "outer", "assign"}
                 /\ OuterCallsOnly => StepsFor(s, e)[i].op # "inner"
<1>1. CASE <<s, e>> \in DOMAIN Transition
  <2> DEFINE n == Transition[<<s, e>>]
             a == OnTransition[<<s, e>>]
             b == <<[op |-> "assign", event |-> e]>>
             c == LeaveAndEnter(s, n)
  <2>1. Call \subseteq Step
    BY DEF Call, Step
  <2>2. n \in States /\ a \in Seq(Call)
    BY <1>1, MachineAssumption
  <2>3. OnLeave[s] \in Seq(Call) /\ OnEnter[n] \in Seq(Call)
    BY <2>2, MachineAssumption
  <2>4. c \in Seq(Call) /\ (OuterCallsOnly => \A i \in 1..Len(c) : c[i].op = "outer")
    <3>1. CASE s = n
      BY <3>1 DEF LeaveAndEnter
    <3>2. CASE s # n
      <4>1. c = OnLeave[s] \o OnEnter[n]
        BY <3>2 DEF LeaveAndEnter
      <4> HIDE DEF n, c
      <4>2. c \in Seq(Call)
        BY <2>3, <4>1, ConcatProperties
      <4>3. /\ Len(OnLeave[s]) \in Nat /\ DOMAIN OnLeave[s] = 1..Len(OnLeave[s])
            /\ Len(OnEnter[n]) \in Nat /\ DOMAIN OnEnter[n] = 1..Len(OnEnter[n])
        BY <2>3, LenProperties
      <4>4. ASSUME OuterCallsOnly, NEW i \in 1..Len(c) PROVE c[i].op = "outer"
        <5>1. /\ \A k \in 1..Len(OnLeave[s]) : OnLeave[s][k].op = "outer"
              /\ \A k \in 1..Len(OnEnter[n]) : OnEnter[n][k].op = "outer"
          BY <2>2, <4>3, <4>4 DEF OuterCallsOnly
        <5>2. \/ i \in 1..Len(OnLeave[s]) /\ c[i] = OnLeave[s][i]
              \/ i - Len(OnLeave[s]) \in 1..Len(OnEnter[n]) /\ c[i] = OnEnter[n][i - Len(OnLeave[s])]
          BY <2>3, <4>1, ConcatElement
        <5>3. QED
          BY <5>1, <5>2
      <4>5. QED
        BY <4>2, <4>4
    <3>3. QED
      BY <3>1, <3>2
  <2>5. StepsFor(s, e) = (a \o b) \o c
    BY <1>1 DEF StepsFor
  <2> HIDE DEF a, c
  <2>6. a \in Seq(Step) /\ b \in Seq(Step) /\ c \in Seq(Step)
    <3>1. b \in Seq(Step)
      BY DEF Step
    <3>2. QED
      BY <2>1, <2>2, <2>4, <3>1, SeqMonotonic
  <2>7. Len(b) = 1 /\ b[1] = [op |-> "assign", event |-> e]
    OBVIOUS
  <2>8. a \o b \in Seq(Step) /\ Len(a \o b) = Len(a) + 1
    BY <2>6, <2>7, ConcatProperties
  <2>9. StepsFor(s, e) \in Seq(Step)
    BY <2>5, <2>6, <2>8, ConcatProperties
  <2>10. /\ Len(a) \in Nat /\ Len(c) \in Nat
         /\ \A k \in 1..Len(a) : a[k] \in Call
         /\ \A k \in 1..Len(c) : c[k] \in Call
    BY <2>2, <2>4, LenProperties, ElementOfSeq
  <2>11. OuterCallsOnly => \A k \in 1..Len(a) : a[k].op = "outer"
    <3>1. DOMAIN a = 1..Len(a)
      BY <2>2, LenProperties
    <3>2. QED
      BY <1>1, <3>1 DEF OuterCallsOnly, a
  <2>12. ASSUME NEW i \in 1..Len(StepsFor(s, e))
         PROVE  /\ StepsFor(s, e)[i].op = "assign" => i = Len(a) + 1
                /\ StepsFor(s, e)[i].op \in {"inner", "outer", "assign"}
                /\ OuterCallsOnly => StepsFor(s, e)[i].op # "inner"
    <3>1. \/ i \in 1..Len(a \o b) /\ StepsFor(s, e)[i] = (a \o b)[i]
          \/ i - Len(a \o b) \in 1..Len(c) /\ StepsFor(s, e)[i] = c[i - Len(a \o b)]
      BY <2>5, <2>6, <2>8, ConcatElement
    <3>2. i \in 1..Len(a \o b) =>
              \/ i \in 1..Len(a) /\ (a \o b)[i] = a[i]
              \/ i - Len(a) \in 1..Len(b) /\ (a \o b)[i] = b[i - Len(a)]
      BY <2>6, ConcatElement
    <3>3. CASE i \in 1..Len(a) /\ StepsFor(s, e)[i] = a[i]
      <4>1. a[i].op \in {"inner", "outer"} /\ (OuterCallsOnly => a[i].op = "outer")
        BY <2>10, <2>11, <3>3 DEF Call
      <4>2. QED
        BY <3>3, <4>1
    <3>4. CASE i - Len(a) \in 1..Len(b) /\ StepsFor(s, e)[i] = b[i - Len(a)]
      <4>1. i = Len(a) + 1 /\ i - Len(a) = 1
        BY <2>7, <2>10, <3>4
      <4>2. StepsFor(s, e)[i].op = "assign"
        BY <2>7, <3>4, <4>1
      <4>3. QED
        BY <4>1, <4>2
    <3>5. CASE \E k \in 1..Len(c) : StepsFor(s, e)[i] = c[k]
      <4>1. PICK k \in 1..Len(c) : StepsFor(s, e)[i] = c[k]
        BY <3>5
      <4>2. c[k].op \in {"inner", "outer"} /\ (OuterCallsOnly => c[k].op = "outer")
        BY <2>4, <2>10 DEF Call
      <4>3. QED
        BY <4>1, <4>2
    <3>6. QED
      BY <3>1, <3>2, <3>3, <3>4, <3>5
  <2>13. QED
    BY <1>1, <2>9, <2>12 DEF a
<1>2. CASE <<s, e>> \notin DOMAIN Transition
  BY <1>2 DEF StepsFor
<1>3. QED
  BY <1>1, <1>2

(* Dropping the first step keeps the shape of what is left.                *)
LEMMA TailSteps ==
    ASSUME NEW q \in Seq(Step), q # <<>>
    PROVE  /\ Len(q) \in Nat /\ Len(q) >= 1
           /\ Head(q) = q[1] /\ Head(q) \in Step
           /\ Tail(q) \in Seq(Step)
           /\ Len(Tail(q)) = Len(q) - 1
           /\ \A i \in 1..Len(Tail(q)) : i + 1 \in 1..Len(q) /\ Tail(q)[i] = q[i + 1]
<1>1. Len(q) \in Nat /\ Len(q) >= 1 /\ Head(q) = q[1]
  OBVIOUS
<1>2. QED
  BY <1>1, HeadTailProperties

(* Replacing the first step.                                               *)
LEMMA ReplaceFirst ==
    ASSUME NEW q \in Seq(Step), q # <<>>, NEW x \in Step
    PROVE  /\ <<x>> \o Tail(q) \in Seq(Step)
           /\ Len(<<x>> \o Tail(q)) = Len(q)
           /\ (<<x>> \o Tail(q))[1] = x
           /\ \A i \in 2..Len(q) : (<<x>> \o Tail(q))[i] = q[i]
<1>1. <<x>> \in Seq(Step) /\ Len(<<x>>) = 1 /\ <<x>>[1] = x
  OBVIOUS
<1>2. /\ <<x>> \o Tail(q) \in Seq(Step)
      /\ Len(<<x>> \o Tail(q)) = 1 + Len(Tail(q))
      /\ \A i \in 1..1 + Len(Tail(q)) :
            (<<x>> \o Tail(q))[i] = IF i <= 1 THEN <<x>>[i] ELSE Tail(q)[i - 1]
  BY <1>1, TailSteps, ConcatProperties
<1>3. QED
  BY <1>1, <1>2, TailSteps

(* A machine starts well typed.                                            *)
LEMMA InitType == Init => TypeOK
BY MachineAssumption DEF Init, TypeOK

(* Every step keeps the types; AssignState needs to know that its          *)
(* transition exists.                                                      *)
LEMMA NextType == TypeOK /\ AssignDefined /\ [Next]_vars => TypeOK'
<1> SUFFICES ASSUME TypeOK, AssignDefined, [Next]_vars PROVE TypeOK'
  OBVIOUS
<1> USE DEF TypeOK
<1>1. ASSUME NEW t \in Threads, NEW e \in Events, SchedulePush(t, e) PROVE TypeOK'
  <2>1. Outstanding + 1 \in Nat
    BY DEF Outstanding
  <2>2. pendingEvents' \in Seq(Events)
    BY <1>1 DEF SchedulePush
  <2>3. calls' \in [Threads -> 0..MaxCalls]
    BY <1>1, MachineAssumption DEF SchedulePush
  <2>4. QED
    BY <1>1, <2>1, <2>2, <2>3 DEF SchedulePush, poolVars
<1>2. ASSUME NEW t \in Threads, SchedulePost(t) PROVE TypeOK'
  <2>1. tasks' \in Seq(PoolTask)
    BY <1>2 DEF SchedulePost, Drain, PoolTask
  <2>2. QED
    BY <1>2, <2>1 DEF SchedulePost, machineVars
<1>3. ASSUME NEW t \in Threads, EnsureCall(t) PROVE TypeOK'
  <2>1. tasks' \in Seq(PoolTask)
    BY <1>3 DEF EnsureCall, Nop, PoolTask
  <2>2. calls' \in [Threads -> 0..MaxCalls]
    BY <1>3, MachineAssumption DEF EnsureCall
  <2>3. [u \in Threads |-> IF pc[u] = "post" THEN 0 ELSE pos[u]] \in [Threads -> Nat]
    OBVIOUS
  <2>4. due' \in [Threads -> [Threads -> Nat]]
    BY <1>3, <2>3 DEF EnsureCall
  <2>5. QED
    BY <1>3, <2>1, <2>2, <2>4 DEF EnsureCall, machineVars
<1>4. ASSUME NEW t \in Threads, EnsurePost(t) PROVE TypeOK'
  <2>1. tasks' \in Seq(PoolTask)
    BY <1>4 DEF EnsurePost, Wake, PoolTask
  <2>2. QED
    BY <1>4, <2>1 DEF EnsurePost, machineVars
<1>5. ASSUME NEW t \in Threads, EnsureReturn(t) PROVE TypeOK'
  BY <1>5 DEF EnsureReturn, machineVars, poolVars
<1>6. CASE Release
  <2>1. pendingEvents' \in Seq(Events)
    BY <1>6 DEF Release
  <2>2. owned' \in BOOLEAN
    BY <1>6 DEF Release
  <2>3. QED
    BY <1>6, <2>1, <2>2 DEF Release, poolVars, threadVars
<1>7. CASE TakeDrain
  BY <1>7 DEF TakeDrain, machineVars, threadVars
<1>8. CASE TakeNop
  BY <1>8 DEF TakeNop, machineVars, threadVars
<1>9. CASE TakeWake
  <2>1. Tail(tasks) \in Seq(PoolTask)
    BY <1>9 DEF TakeWake
  <2>2. [pc EXCEPT ![Head(tasks).thread] = "woken"] \in
            [Threads -> {"idle", "post", "ensure", "wait", "woken"}]
    OBVIOUS
  <2>3. QED
    BY <1>9, <2>1, <2>2 DEF TakeWake, machineVars
<1>10. CASE PopEvent
  <2>1. Head(pendingEvents) \in Events /\ Tail(pendingEvents) \in Seq(Events)
    BY <1>10 DEF PopEvent
  <2>2. todo' \in Seq(Step)
    BY <1>10, <2>1, StepsForShape DEF PopEvent
  <2>3. QED
    BY <1>10, <2>1, <2>2 DEF PopEvent, threadVars
<1>11. CASE PopNothing
  BY <1>11 DEF PopNothing, machineVars, threadVars
<1>12. CASE InnerSchedule
  <2>1. Head(todo) \in Step /\ Tail(todo) \in Seq(Step)
    BY <1>12 DEF InnerSchedule
  <2>2. Head(todo).event \in Events
    BY <2>1 DEF Step
  <2>3. QED
    BY <1>12, <2>1, <2>2 DEF InnerSchedule, threadVars
<1>13. CASE HandlerSchedulePush
  <2>1. Head(todo) \in Step /\ Tail(todo) \in Seq(Step)
    BY <1>13 DEF HandlerSchedulePush
  <2>2. [Head(todo) EXCEPT !.op = "post"] \in Step /\ Head(todo).event \in Events
    BY <2>1 DEF Step
  <2>3. <<[Head(todo) EXCEPT !.op = "post"]>> \o Tail(todo) \in Seq(Step)
    BY <2>1, <2>2, ConcatProperties
  <2>4. QED
    BY <1>13, <2>2, <2>3 DEF HandlerSchedulePush, threadVars
<1>14. CASE HandlerSchedulePost
  <2>1. tasks' \in Seq(PoolTask)
    BY <1>14 DEF HandlerSchedulePost, Drain, PoolTask
  <2>2. QED
    BY <1>14, <2>1 DEF HandlerSchedulePost, machineVars, threadVars
<1>15. CASE AssignState
  <2>1. Tail(todo) \in Seq(Step) /\ 1 \in 1..Len(todo) /\ Head(todo) = todo[1]
    BY <1>15, TailSteps DEF AssignState
  <2>2. <<currentState, event>> \in DOMAIN Transition
    <3>1. todo[1].op = "assign"
      BY <1>15, <2>1 DEF AssignState
    <3>2. QED
      BY <2>1, <3>1 DEF AssignDefined
  <2>3. currentState' \in States
    BY <1>15, <2>2, MachineAssumption DEF AssignState
  <2>4. QED
    BY <1>15, <2>1, <2>3 DEF AssignState, threadVars
<1>16. CASE FinishEvent
  <2>1. pendingEvents' \in Seq(Events)
    BY <1>16 DEF FinishEvent
  <2>2. runTimes' \in Nat /\ pool' \in {"idle", "pop", "handle"}
    BY <1>16 DEF FinishEvent
  <2>3. \A n \in Nat : Less(n) \in Nat
    BY DEF Less
  <2>4. pos' \in [Threads -> Nat] /\ due' \in [Threads -> [Threads -> Nat]]
    BY <1>16, <2>3 DEF FinishEvent
  <2>5. owned' \in BOOLEAN
    BY <1>16 DEF FinishEvent
  <2>6. QED
    BY <1>16, <2>1, <2>2, <2>4, <2>5 DEF FinishEvent
<1>17. CASE UNCHANGED vars
  BY <1>17 DEF vars, machineVars, poolVars, threadVars
<1>18. QED
  BY <1>1, <1>2, <1>3, <1>4, <1>5, <1>6, <1>7, <1>8, <1>9, <1>10, <1>11, <1>12, <1>13, <1>14,
     <1>15, <1>16, <1>17 DEF Next, PoolStep, ReturnStep

(* Nothing between a pop and its assignment changes the state, so the      *)
(* transition found at the pop is still the one to take.                   *)
LEMMA NextAssign == TypeOK /\ AssignDefined /\ [Next]_vars => AssignDefined'
<1> SUFFICES ASSUME TypeOK, AssignDefined, [Next]_vars PROVE AssignDefined'
  OBVIOUS
<1>1. CASE UNCHANGED <<currentState, event, todo>>
  BY <1>1 DEF AssignDefined
<1>2. CASE PopEvent
  <2>1. Head(pendingEvents) \in Events /\ currentState \in States
    BY <1>2 DEF PopEvent, TypeOK
  <2>2. /\ todo' = StepsFor(currentState, Head(pendingEvents))
        /\ event' = Head(pendingEvents) /\ currentState' = currentState
    BY <1>2 DEF PopEvent
  <2>3. QED
    BY <2>1, <2>2, StepsForShape DEF AssignDefined
<1>3. CASE /\ todo # <<>> /\ todo' = Tail(todo)
           /\ UNCHANGED <<currentState, event>>
  <2>1. /\ Len(todo) \in Nat /\ Len(todo') = Len(todo) - 1
        /\ \A i \in 1..Len(todo') : i + 1 \in 1..Len(todo) /\ todo'[i] = todo[i + 1]
    BY <1>3, TailSteps DEF TypeOK
  <2>2. ASSUME NEW i \in 1..Len(todo'), todo'[i].op = "assign"
        PROVE  /\ <<currentState', event'>> \in DOMAIN Transition
               /\ \A j \in 1..Len(todo') : todo'[j].op = "assign" => j = i
    <3>1. i + 1 \in 1..Len(todo) /\ todo[i + 1].op = "assign"
      BY <2>1, <2>2
    <3>2. <<currentState, event>> \in DOMAIN Transition
      BY <3>1 DEF AssignDefined
    <3>3. ASSUME NEW j \in 1..Len(todo'), todo'[j].op = "assign" PROVE j = i
      <4>1. j + 1 \in 1..Len(todo) /\ todo[j + 1].op = "assign"
        BY <2>1, <3>3
      <4>2. j + 1 = i + 1
        BY <3>1, <4>1 DEF AssignDefined
      <4>3. QED
        BY <2>1, <4>2
    <3>4. QED
      BY <1>3, <3>2, <3>3
  <2>3. QED
    BY <2>2 DEF AssignDefined
<1>4. CASE HandlerSchedulePush
  <2> DEFINE x == [Head(todo) EXCEPT !.op = "post"]
  <2>1. todo # <<>> /\ Head(todo) \in Step
    BY <1>4, TailSteps DEF HandlerSchedulePush, TypeOK
  <2>2. x \in Step /\ x.op = "post"
    BY <2>1 DEF Step
  <2>3. todo' = <<x>> \o Tail(todo) /\ UNCHANGED <<currentState, event>>
    BY <1>4 DEF HandlerSchedulePush
  <2> HIDE DEF x
  <2>4. /\ Len(todo') = Len(todo) /\ Len(todo) \in Nat
        /\ todo'[1] = x
        /\ \A i \in 2..Len(todo) : todo'[i] = todo[i]
    BY <2>1, <2>2, <2>3, ReplaceFirst, TailSteps DEF TypeOK
  <2>5. ASSUME NEW i \in 1..Len(todo'), todo'[i].op = "assign"
        PROVE  i \in 2..Len(todo) /\ todo[i].op = "assign"
    BY <2>2, <2>4, <2>5
  <2>6. QED
    BY <2>3, <2>4, <2>5 DEF AssignDefined
<1>5. CASE AssignState
  <2>1. todo # <<>> /\ Head(todo).op = "assign" /\ todo' = Tail(todo)
    BY <1>5 DEF AssignState
  <2>2. \A i \in 1..Len(todo') : todo'[i].op # "assign"
    BY <2>1, TailSteps DEF AssignDefined, TypeOK
  <2>3. QED
    BY <2>2 DEF AssignDefined
<1>6. QED
  <2>1. ASSUME NEW t \in Threads, NEW e \in Events, SchedulePush(t, e) PROVE AssignDefined'
    BY <1>1, <2>1 DEF SchedulePush, poolVars
  <2>2. ASSUME NEW t \in Threads, EnsureCall(t) \/ ReturnStep(t) PROVE AssignDefined'
    BY <1>1, <2>2 DEF EnsureCall, ReturnStep, SchedulePost, EnsurePost, EnsureReturn, machineVars, poolVars
  <2>3. CASE Release \/ TakeDrain \/ TakeNop \/ TakeWake \/ PopNothing \/ FinishEvent
    BY <1>1, <2>3 DEF Release, TakeDrain, TakeNop, TakeWake, PopNothing, FinishEvent, machineVars, poolVars
  <2>4. CASE InnerSchedule \/ HandlerSchedulePost
    BY <1>3, <2>4 DEF InnerSchedule, HandlerSchedulePost, machineVars
  <2>5. CASE UNCHANGED vars
    BY <1>1, <2>5 DEF vars, machineVars, poolVars
  <2>6. QED
    BY <1>2, <1>4, <1>5, <2>1, <2>2, <2>3, <2>4, <2>5 DEF Next, PoolStep

(* Every reachable state is well typed; the state a machine is given is    *)
(* always one its table leads to.                                          *)
THEOREM TypeCorrect == Spec => []TypeOK
<1>1. Init => TypeOK /\ AssignDefined
  BY InitType DEF Init, AssignDefined
<1>2. TypeOK /\ AssignDefined /\ [Next]_vars => (TypeOK /\ AssignDefined)'
  BY NextType, NextAssign
<1>3. QED
  BY <1>1, <1>2, PTL DEF Spec

-------------------------------------------------------------------------------
(* Counting the drains in the pool's queue.                                *)

(* A queue holds finitely many drains.                                     *)
LEMMA DrainsFinite ==
    ASSUME NEW q \in Seq(PoolTask)
    PROVE  IsFiniteSet(DrainIndices(q)) /\ Cardinality(DrainIndices(q)) \in Nat
<1>1. Len(q) \in Nat
  BY LenProperties
<1>2. IsFiniteSet(1..Len(q))
  BY <1>1, FS_Interval
<1>3. DrainIndices(q) \in SUBSET (1..Len(q))
  BY DEF DrainIndices
<1>4. QED
  BY <1>2, <1>3, FS_Subset, FS_CardinalityType

(* A post adds one drain, another task none.                               *)
LEMMA DrainsAppend ==
    ASSUME NEW q \in Seq(PoolTask), NEW x \in PoolTask
    PROVE  Cardinality(DrainIndices(Append(q, x))) =
               Cardinality(DrainIndices(q)) + OneIf(x.kind = "drain")
<1>1. /\ Len(q) \in Nat /\ Len(Append(q, x)) = Len(q) + 1
      /\ \A i \in 1..Len(q) : Append(q, x)[i] = q[i]
      /\ Append(q, x)[Len(q) + 1] = x
  BY LenProperties, AppendProperties
<1>2. CASE x.kind = "drain"
  <2>1. DrainIndices(Append(q, x)) = DrainIndices(q) \cup {Len(q) + 1}
    BY <1>1, <1>2 DEF DrainIndices
  <2>2. Len(q) + 1 \notin DrainIndices(q)
    BY <1>1 DEF DrainIndices
  <2>3. QED
    BY <1>2, <2>1, <2>2, DrainsFinite, FS_AddElement DEF OneIf
<1>3. CASE x.kind # "drain"
  <2>1. DrainIndices(Append(q, x)) = DrainIndices(q)
    BY <1>1, <1>3 DEF DrainIndices
  <2>2. QED
    BY <1>3, <2>1, DrainsFinite DEF OneIf
<1>4. QED
  BY <1>2, <1>3

(* Taking a task takes one drain when it is one.                           *)
LEMMA DrainsTail ==
    ASSUME NEW q \in Seq(PoolTask), q # <<>>
    PROVE  Cardinality(DrainIndices(Tail(q))) =
               Cardinality(DrainIndices(q)) - OneIf(Head(q).kind = "drain")
<1> DEFINE D == DrainIndices(q)
           E == DrainIndices(Tail(q))
           f == [i \in E |-> i + 1]
<1>1. /\ Len(q) \in Nat /\ Len(q) >= 1 /\ Head(q) = q[1]
      /\ Tail(q) \in Seq(PoolTask) /\ Len(Tail(q)) = Len(q) - 1
      /\ \A i \in 1..Len(Tail(q)) : Tail(q)[i] = q[i + 1]
  <2>1. Len(q) \in Nat /\ Len(q) >= 1 /\ Head(q) = q[1]
    OBVIOUS
  <2>2. QED
    BY <2>1, HeadTailProperties
<1>2. IsFiniteSet(D) /\ Cardinality(D) \in Nat
  BY DrainsFinite
<1>3. IsFiniteSet(E) /\ Cardinality(E) \in Nat
  BY <1>1, DrainsFinite
<1>4. \A i \in E : i \in Nat /\ i >= 1 /\ i + 1 \in D \ {1}
  BY <1>1 DEF DrainIndices
<1>5. \A j \in D \ {1} : j \in Nat /\ j - 1 \in E
  BY <1>1 DEF DrainIndices
<1> HIDE DEF D, E
<1>6. f \in Bijection(E, D \ {1})
  <2>1. f \in [E -> D \ {1}]
    BY <1>4
  <2>2. \A i, j \in E : f[i] = f[j] => i = j
    BY <1>4
  <2>3. \A j \in D \ {1} : \E i \in E : f[i] = j
    <3>1. TAKE j \in D \ {1}
    <3>2. j - 1 \in E /\ f[j - 1] = j
      BY <1>5
    <3>3. QED
      BY <3>2
  <2> HIDE DEF f
  <2>4. f \in Injection(E, D \ {1})
    BY <2>1, <2>2, Fun_IsInj
  <2>5. f \in Surjection(E, D \ {1})
    BY <2>1, <2>3, Fun_IsSurj
  <2>6. QED
    BY <2>4, <2>5 DEF Bijection
<1>7. Cardinality(D \ {1}) = Cardinality(E)
  BY <1>3, <1>6, FS_Bijection DEF ExistsBijection
<1>8. 1 \in D <=> Head(q).kind = "drain"
  BY <1>1 DEF D, DrainIndices
<1>9. Cardinality(D \ {1}) = IF 1 \in D THEN Cardinality(D) - 1 ELSE Cardinality(D)
  BY <1>2, FS_RemoveElement
<1>10. Cardinality(E) = Cardinality(D) - OneIf(Head(q).kind = "drain")
  BY <1>2, <1>7, <1>8, <1>9 DEF OneIf
<1>11. QED
  BY <1>10 DEF D, E

-------------------------------------------------------------------------------
(* The other parts of the invariant.                                       *)

(* The pool thread posts right after it pushed, and has nothing left to    *)
(* do when no event is being handled.                                      *)
LEMMA NextTodo ==
    ASSUME OuterCallsOnly, TypeOK, TodoWellFormed, [Next]_vars
    PROVE  TodoWellFormed'
<1>1. CASE UNCHANGED <<pool, todo>>
  BY <1>1 DEF TodoWellFormed
<1>2. CASE PopEvent
  <2>1. /\ Head(pendingEvents) \in Events /\ currentState \in States
        /\ todo' = StepsFor(currentState, Head(pendingEvents)) /\ pool' = "handle"
    BY <1>2 DEF PopEvent, TypeOK
  <2>2. \A i \in 1..Len(todo') : todo'[i].op \in {"outer", "assign"}
    BY <2>1, StepsForShape
  <2>3. QED
    BY <2>1, <2>2 DEF TodoWellFormed
<1>3. CASE pool = "handle" /\ pool' = "handle" /\ todo # <<>> /\ todo' = Tail(todo)
  <2>1. /\ Len(todo) \in Nat /\ Len(todo') = Len(todo) - 1
        /\ \A i \in 1..Len(todo') : i + 1 \in 1..Len(todo) /\ todo'[i] = todo[i + 1]
    BY <1>3, TailSteps DEF TypeOK
  <2>2. ASSUME NEW i \in 1..Len(todo') PROVE todo'[i].op \in {"outer", "assign"}
    <3>1. i + 1 \in 1..Len(todo) /\ i + 1 # 1 /\ todo'[i] = todo[i + 1]
      BY <2>1
    <3>2. QED
      BY <3>1 DEF TodoWellFormed
  <2>3. QED
    BY <1>3, <2>2 DEF TodoWellFormed
<1>4. CASE HandlerSchedulePush
  <2> DEFINE x == [Head(todo) EXCEPT !.op = "post"]
  <2>1. todo # <<>> /\ Head(todo) \in Step /\ pool' = "handle" /\ todo' = <<x>> \o Tail(todo)
    BY <1>4, TailSteps DEF HandlerSchedulePush, TypeOK
  <2>2. x \in Step /\ x.op = "post"
    BY <2>1 DEF Step
  <2> HIDE DEF x
  <2>3. /\ Len(todo') = Len(todo) /\ Len(todo) \in Nat
        /\ todo'[1] = x
        /\ \A i \in 2..Len(todo) : todo'[i] = todo[i]
    BY <2>1, <2>2, ReplaceFirst, TailSteps DEF TypeOK
  <2>4. ASSUME NEW i \in 1..Len(todo')
        PROVE  todo'[i].op \in {"outer", "assign"} \/ (i = 1 /\ todo'[i].op = "post")
    <3>1. CASE i = 1
      BY <2>2, <2>3, <3>1
    <3>2. CASE i # 1
      <4>1. i \in 2..Len(todo) /\ i \in 1..Len(todo) /\ todo'[i] = todo[i]
        BY <2>3, <3>2
      <4>2. QED
        BY <3>2, <4>1 DEF TodoWellFormed
    <3>3. QED
      BY <3>1, <3>2
  <2>5. QED
    BY <2>1, <2>4 DEF TodoWellFormed
<1>5. CASE TakeDrain \/ PopNothing
  <2>1. pool # "handle" /\ todo' = todo
    BY <1>5 DEF TakeDrain, PopNothing
  <2>2. QED
    BY <2>1 DEF TodoWellFormed
<1>6. CASE FinishEvent
  BY <1>6 DEF FinishEvent, TodoWellFormed
<1>7. QED
  <2>1. ASSUME NEW t \in Threads, NEW e \in Events, SchedulePush(t, e) PROVE TodoWellFormed'
    BY <1>1, <2>1 DEF SchedulePush, poolVars
  <2>2. ASSUME NEW t \in Threads, EnsureCall(t) \/ ReturnStep(t) PROVE TodoWellFormed'
    BY <1>1, <2>2 DEF EnsureCall, ReturnStep, SchedulePost, EnsurePost, EnsureReturn, poolVars
  <2>3. CASE Release \/ TakeNop \/ TakeWake
    BY <1>1, <2>3 DEF Release, TakeNop, TakeWake, poolVars
  <2>4. CASE InnerSchedule \/ HandlerSchedulePost \/ AssignState
    BY <1>3, <2>4 DEF InnerSchedule, HandlerSchedulePost, AssignState
  <2>5. CASE UNCHANGED vars
    BY <1>1, <2>5 DEF vars, poolVars
  <2>6. QED
    BY <1>2, <1>4, <1>5, <1>6, <2>1, <2>2, <2>3, <2>4, <2>5 DEF Next, PoolStep

(* A destroyed machine keeps no events.                                    *)
LEMMA NextReleased ==
    ASSUME TypeOK, ReleasedEmpty, [Next]_vars
    PROVE  ReleasedEmpty'
<1>1. CASE UNCHANGED <<owned, pool, pendingEvents>>
  BY <1>1 DEF ReleasedEmpty
<1>2. CASE pool' # "idle" \/ pendingEvents' = <<>> \/ owned'
  BY <1>2 DEF ReleasedEmpty
<1>3. ASSUME NEW t \in Threads, NEW e \in Events, SchedulePush(t, e) PROVE ReleasedEmpty'
  BY <1>2, <1>3 DEF SchedulePush
<1>4. ASSUME NEW t \in Threads, EnsureCall(t) \/ ReturnStep(t) PROVE ReleasedEmpty'
  BY <1>1, <1>4 DEF EnsureCall, ReturnStep, SchedulePost, EnsurePost, EnsureReturn, machineVars, poolVars
<1>5. CASE Release
  BY <1>2, <1>5 DEF Release, poolVars
<1>6. CASE TakeDrain
  BY <1>6 DEF TakeDrain, ReleasedEmpty, machineVars
<1>7. CASE TakeNop \/ TakeWake
  BY <1>1, <1>7 DEF TakeNop, TakeWake, machineVars
<1>8. CASE PopEvent \/ PopNothing
  BY <1>2, <1>8 DEF PopEvent, PopNothing, machineVars
<1>9. CASE InnerSchedule \/ HandlerSchedulePush \/ HandlerSchedulePost \/ AssignState
  BY <1>2, <1>9 DEF InnerSchedule, HandlerSchedulePush, HandlerSchedulePost, AssignState
<1>10. CASE FinishEvent
  BY <1>10 DEF FinishEvent, ReleasedEmpty
<1>11. CASE UNCHANGED vars
  BY <1>1, <1>11 DEF vars, machineVars, poolVars
<1>12. QED
  BY <1>3, <1>4, <1>5, <1>6, <1>7, <1>8, <1>9, <1>10, <1>11 DEF Next, PoolStep

(* The promise invariant survives a task added to the queue for which it   *)
(* holds, and the first task leaving it.                                   *)
LEMMA NextPromise ==
    ASSUME TypeOK, PromiseAlive, [Next]_vars
    PROVE  PromiseAlive'
<1>0. /\ tasks \in Seq(PoolTask) /\ Len(tasks) \in Nat
      /\ \A i \in 1..Len(tasks) : tasks[i].kind = "wake" => tasks[i].thread \in Threads
  <2>1. tasks \in Seq(PoolTask) /\ Len(tasks) \in Nat
    BY LenProperties DEF TypeOK
  <2>2. ASSUME NEW i \in 1..Len(tasks), tasks[i].kind = "wake" PROVE tasks[i].thread \in Threads
    <3>1. tasks[i] \in PoolTask
      BY <2>1, ElementOfSeq
    <3>2. QED
      BY <2>2, <3>1 DEF PoolTask
  <2>3. QED
    BY <2>1, <2>2
<1>1. CASE UNCHANGED <<tasks, pc>>
  BY <1>1 DEF PromiseAlive
<1>2. ASSUME NEW t \in Threads, NEW v, pc[t] # "wait", pc' = [pc EXCEPT ![t] = v], tasks' = tasks
      PROVE  PromiseAlive'
  <2>1. \A i \in 1..Len(tasks) : tasks[i].kind = "wake" =>
            tasks[i].thread # t /\ pc'[tasks[i].thread] = pc[tasks[i].thread]
    BY <1>0, <1>2 DEF PromiseAlive, TypeOK
  <2>2. QED
    BY <1>2, <2>1 DEF PromiseAlive
<1>3. ASSUME NEW x \in PoolTask, x.kind # "wake", tasks' = Append(tasks, x),
             \A i \in 1..Len(tasks) : tasks[i].kind = "wake" =>
                 pc'[tasks[i].thread] = pc[tasks[i].thread]
      PROVE  PromiseAlive'
  <2>1. /\ Len(tasks') = Len(tasks) + 1
        /\ \A i \in 1..Len(tasks) : tasks'[i] = tasks[i]
        /\ tasks'[Len(tasks) + 1] = x
    BY <1>0, <1>3, AppendProperties
  <2>2. \A i \in 1..Len(tasks') : tasks'[i].kind = "wake" => i \in 1..Len(tasks) /\ tasks'[i] = tasks[i]
    BY <1>0, <1>3, <2>1
  <2>3. QED
    BY <1>3, <2>2 DEF PromiseAlive
<1>4. ASSUME NEW t \in Threads, EnsurePost(t) PROVE PromiseAlive'
  <2>1. /\ Wake(t) \in PoolTask /\ Wake(t).kind = "wake" /\ Wake(t).thread = t
    BY DEF Wake, PoolTask
  <2>2. /\ Len(tasks') = Len(tasks) + 1
        /\ \A i \in 1..Len(tasks) : tasks'[i] = tasks[i]
        /\ tasks'[Len(tasks) + 1] = Wake(t)
    BY <1>0, <1>4, <2>1, AppendProperties DEF EnsurePost
  <2>3. \A i \in 1..Len(tasks) : tasks[i].kind = "wake" =>
            tasks[i].thread # t /\ pc'[tasks[i].thread] = "wait"
    BY <1>0, <1>4 DEF EnsurePost, PromiseAlive, TypeOK
  <2>4. pc'[t] = "wait"
    BY <1>4 DEF EnsurePost, TypeOK
  <2>5. ASSUME NEW i \in 1..Len(tasks'), tasks'[i].kind = "wake"
        PROVE  /\ pc'[tasks'[i].thread] = "wait"
               /\ \A j \in 1..Len(tasks') :
                     tasks'[j].kind = "wake" /\ tasks'[j].thread = tasks'[i].thread => j = i
    <3>1. CASE i = Len(tasks) + 1
      <4>1. \A j \in 1..Len(tasks') : tasks'[j].kind = "wake" /\ tasks'[j].thread = t => j = i
        BY <1>0, <2>2, <2>3, <3>1
      <4>2. QED
        BY <2>1, <2>2, <2>4, <3>1, <4>1
    <3>2. CASE i \in 1..Len(tasks)
      <4>1. tasks'[i] = tasks[i] /\ tasks[i].thread # t /\ pc'[tasks[i].thread] = "wait"
        BY <2>2, <2>3, <2>5, <3>2
      <4>2. ASSUME NEW j \in 1..Len(tasks'), tasks'[j].kind = "wake", tasks'[j].thread = tasks[i].thread
            PROVE  j = i
        <5>1. j \in 1..Len(tasks) /\ tasks'[j] = tasks[j]
          BY <1>0, <2>1, <2>2, <4>1, <4>2
        <5>2. QED
          BY <2>5, <3>2, <4>1, <4>2, <5>1 DEF PromiseAlive
      <4>3. QED
        BY <4>1, <4>2
    <3>3. QED
      BY <1>0, <2>2, <3>1, <3>2
  <2>6. QED
    BY <2>5 DEF PromiseAlive
<1>5. ASSUME tasks # <<>>, tasks' = Tail(tasks),
             \A i \in 2..Len(tasks) : tasks[i].kind = "wake" =>
                 pc'[tasks[i].thread] = pc[tasks[i].thread]
      PROVE  PromiseAlive'
  <2>1. /\ Len(tasks') = Len(tasks) - 1
        /\ \A i \in 1..Len(tasks') : tasks'[i] = tasks[i + 1]
    BY <1>0, <1>5, HeadTailProperties
  <2>2. ASSUME NEW i \in 1..Len(tasks'), tasks'[i].kind = "wake"
        PROVE  /\ pc'[tasks'[i].thread] = "wait"
               /\ \A j \in 1..Len(tasks') :
                     tasks'[j].kind = "wake" /\ tasks'[j].thread = tasks'[i].thread => j = i
    <3>1. i + 1 \in 2..Len(tasks) /\ i + 1 \in 1..Len(tasks) /\ tasks'[i] = tasks[i + 1]
      BY <1>0, <2>1
    <3>2. pc'[tasks'[i].thread] = "wait"
      BY <1>5, <2>2, <3>1 DEF PromiseAlive
    <3>3. ASSUME NEW j \in 1..Len(tasks'), tasks'[j].kind = "wake", tasks'[j].thread = tasks'[i].thread
          PROVE  j = i
      <4>1. j + 1 \in 1..Len(tasks) /\ tasks'[j] = tasks[j + 1]
        BY <1>0, <2>1
      <4>2. j + 1 = i + 1
        BY <2>2, <3>1, <3>3, <4>1 DEF PromiseAlive
      <4>3. QED
        BY <1>0, <2>1, <4>2
    <3>4. QED
      BY <3>2, <3>3
  <2>3. QED
    BY <2>2 DEF PromiseAlive
<1>6. CASE TakeWake
  <2>1. tasks # <<>> /\ 1 \in 1..Len(tasks) /\ Head(tasks) = tasks[1] /\ tasks[1].kind = "wake"
    BY <1>0, <1>6 DEF TakeWake
  <2>2. ASSUME NEW i \in 2..Len(tasks), tasks[i].kind = "wake"
        PROVE  pc'[tasks[i].thread] = pc[tasks[i].thread]
    <3>1. i \in 1..Len(tasks) /\ i # 1
      BY <1>0
    <3>2. tasks[i].thread # tasks[1].thread
      BY <2>1, <2>2, <3>1 DEF PromiseAlive
    <3>3. QED
      BY <1>0, <1>6, <2>1, <2>2, <3>1, <3>2 DEF TakeWake, TypeOK
  <2>3. QED
    BY <1>5, <1>6, <2>1, <2>2 DEF TakeWake
<1>7. CASE TakeDrain \/ TakeNop
  BY <1>5, <1>7 DEF TakeDrain, TakeNop, threadVars
<1>8. ASSUME NEW t \in Threads, NEW e \in Events, SchedulePush(t, e) PROVE PromiseAlive'
  BY <1>2, <1>8 DEF SchedulePush, poolVars
<1>9. ASSUME NEW t \in Threads, SchedulePost(t) PROVE PromiseAlive'
  <2>1. Drain \in PoolTask /\ Drain.kind # "wake"
    BY DEF Drain, PoolTask
  <2>2. \A i \in 1..Len(tasks) : tasks[i].kind = "wake" => pc'[tasks[i].thread] = pc[tasks[i].thread]
    BY <1>0, <1>9 DEF SchedulePost, PromiseAlive, TypeOK
  <2>3. QED
    BY <1>3, <1>9, <2>1, <2>2 DEF SchedulePost
<1>10. ASSUME NEW t \in Threads, EnsureCall(t) PROVE PromiseAlive'
  <2>1. Nop \in PoolTask /\ Nop.kind # "wake"
    BY DEF Nop, PoolTask
  <2>2. \A i \in 1..Len(tasks) : tasks[i].kind = "wake" => pc'[tasks[i].thread] = pc[tasks[i].thread]
    BY <1>0, <1>10 DEF EnsureCall, PromiseAlive, TypeOK
  <2>3. QED
    BY <1>3, <1>10, <2>1, <2>2 DEF EnsureCall
<1>11. ASSUME NEW t \in Threads, EnsureReturn(t) PROVE PromiseAlive'
  BY <1>2, <1>11 DEF EnsureReturn, poolVars
<1>12. CASE HandlerSchedulePost
  <2>1. Drain \in PoolTask /\ Drain.kind # "wake"
    BY DEF Drain, PoolTask
  <2>2. QED
    BY <1>3, <1>12, <2>1 DEF HandlerSchedulePost, threadVars
<1>13. CASE Release \/ PopEvent \/ PopNothing \/ InnerSchedule \/ HandlerSchedulePush \/ AssignState \/ FinishEvent
  BY <1>1, <1>13 DEF Release, PopEvent, PopNothing, InnerSchedule, HandlerSchedulePush, AssignState,
                     FinishEvent, poolVars, threadVars
<1>14. CASE UNCHANGED vars
  BY <1>1, <1>14 DEF vars, poolVars, threadVars
<1>15. QED
  BY <1>4, <1>6, <1>7, <1>8, <1>9, <1>10, <1>11, <1>12, <1>13, <1>14 DEF Next, PoolStep, ReturnStep

(* Posting is the set of threads between the two halves of Schedule.       *)
LEMMA PostingFinite == IsFiniteSet(Posting) /\ Cardinality(Posting) \in Nat
<1>1. Posting \in SUBSET Threads
  BY DEF Posting
<1>2. QED
  BY <1>1, MachineAssumption, FS_Subset, FS_CardinalityType

(* Moving one thread between two places outside Schedule leaves Posting.   *)
LEMMA PostingSame ==
    ASSUME TypeOK, NEW t \in Threads, NEW v, v # "post", pc[t] # "post",
           pc' = [pc EXCEPT ![t] = v]
    PROVE  Posting' = Posting
BY DEF TypeOK, Posting

(* Each pending event keeps a drain of its own: a push makes its thread    *)
(* one that will post, a post puts a drain in the queue, and a drain that  *)
(* starts pops one event at least unless there is none.                    *)
LEMMA NextDrainPerEvent ==
    ASSUME OuterCallsOnly, TypeOK, TodoWellFormed, ReleasedEmpty, PromiseAlive, DrainPerEvent,
           [Next]_vars
    PROVE  DrainPerEvent'
<1> DEFINE D == Cardinality(QueuedDrains)
           P == Cardinality(Posting)
           H == OneIf(HandlerPosting)
           F == OneIf(pool = "pop" /\ runTimes = 0)
           N == Len(pendingEvents)
           E == Surplus
<1>1. /\ D \in Nat /\ P \in Nat /\ N \in Nat /\ H \in {0, 1} /\ F \in {0, 1} /\ E \in Nat
      /\ N + E <= D + P + H + F
  <2>1. D \in Nat
    BY DrainsFinite DEF TypeOK, QueuedDrains
  <2>2. N \in Nat
    BY LenProperties DEF TypeOK
  <2>3. E \in Nat
    BY DEF Surplus, Less, TypeOK
  <2>4. QED
    BY <2>1, <2>2, <2>3, PostingFinite DEF OneIf, DrainPerEvent, DrainsToCome
<1>2. (H' = 0 \/ H' = 1) /\ (F' = 0 \/ F' = 1)
  BY DEF OneIf
<1>3. pool # "handle" => H = 0
  BY DEF TodoWellFormed, HandlerPosting, OneIf
<1>4. pendingEvents' = <<>> /\ pool' = "idle" /\ D' \in Nat /\ P' \in Nat => DrainPerEvent'
  BY <1>2 DEF DrainPerEvent, DrainsToCome, Surplus
<1>5. ASSUME N' + E' <= D' + P' + H' + F' PROVE DrainPerEvent'
  BY <1>5 DEF DrainPerEvent, DrainsToCome
<1>6. ASSUME NEW x \in PoolTask, tasks' = Append(tasks, x)
      PROVE  D' = D + OneIf(x.kind = "drain")
  BY <1>6, DrainsAppend DEF TypeOK, QueuedDrains
<1>7. ASSUME tasks # <<>>, tasks' = Tail(tasks)
      PROVE  D' = D - OneIf(Head(tasks).kind = "drain")
  BY <1>7, DrainsTail DEF TypeOK, QueuedDrains
<1>8. tasks' = tasks => D' = D
  BY DEF QueuedDrains
<1>9. pc' = pc => P' = P
  BY DEF Posting
<1>10. todo' = todo => H' = H
  BY DEF HandlerPosting
<1>11. pool' = pool /\ runTimes' = runTimes => F' = F /\ E' = E
  BY DEF Surplus
<1>12. Drain \in PoolTask /\ OneIf(Drain.kind = "drain") = 1
  BY DEF Drain, PoolTask, OneIf
<1>13. \A e \in Events : pendingEvents' = Append(pendingEvents, e) => N' = N + 1
  BY DEF TypeOK
<1>14. pendingEvents' = pendingEvents => N' = N
  OBVIOUS
<1>15. TypeOK => todo \in Seq(Step)
  BY DEF TypeOK
<1> HIDE DEF D, P, H, F, N, E
<1>16. ASSUME NEW t \in Threads, NEW e \in Events, SchedulePush(t, e) PROVE DrainPerEvent'
  <2>1. P' = P + 1
    <3>1. Posting' = Posting \cup {t} /\ t \notin Posting
      BY <1>16 DEF SchedulePush, Posting, TypeOK
    <3>2. QED
      BY <3>1, PostingFinite, FS_AddElement DEF P
  <2>2. N' = N + 1 /\ D' = D /\ H' = H /\ F' = F /\ E' = E
    BY <1>8, <1>10, <1>11, <1>13, <1>16 DEF SchedulePush, poolVars
  <2>3. QED
    BY <1>1, <1>5, <2>1, <2>2
<1>17. ASSUME NEW t \in Threads, SchedulePost(t) PROVE DrainPerEvent'
  <2>1. P' = P - 1
    <3>1. Posting' = Posting \ {t} /\ t \in Posting
      BY <1>17 DEF SchedulePost, Posting, TypeOK
    <3>2. QED
      BY <3>1, PostingFinite, FS_RemoveElement DEF P
  <2>2. D' = D + 1
    BY <1>6, <1>12, <1>17 DEF SchedulePost
  <2>3. N' = N /\ H' = H /\ F' = F /\ E' = E
    BY <1>10, <1>11, <1>14, <1>17 DEF SchedulePost, machineVars
  <2>4. QED
    BY <1>1, <1>5, <2>1, <2>2, <2>3
<1>18. ASSUME NEW t \in Threads, EnsureCall(t) \/ EnsurePost(t) \/ EnsureReturn(t) PROVE DrainPerEvent'
  <2>1. Posting' = Posting
    BY <1>18, PostingSame DEF EnsureCall, EnsurePost, EnsureReturn
  <2>2. D' = D
    <3>1. Nop \in PoolTask /\ OneIf(Nop.kind = "drain") = 0
      BY DEF Nop, PoolTask, OneIf
    <3>2. Wake(t) \in PoolTask /\ OneIf(Wake(t).kind = "drain") = 0
      BY DEF Wake, PoolTask, OneIf
    <3>3. EnsureCall(t) => D' = D + 0
      BY <1>6, <3>1 DEF EnsureCall
    <3>4. EnsurePost(t) => D' = D + 0
      BY <1>6, <3>2 DEF EnsurePost
    <3>5. EnsureReturn(t) => D' = D
      BY <1>8 DEF EnsureReturn, poolVars
    <3>6. QED
      BY <1>1, <1>18, <3>3, <3>4, <3>5
  <2>3. N' = N /\ H' = H /\ F' = F /\ E' = E
    BY <1>10, <1>11, <1>14, <1>18 DEF EnsureCall, EnsurePost, EnsureReturn, machineVars, poolVars
  <2>4. P' = P
    BY <2>1 DEF P
  <2>5. QED
    BY <1>1, <1>5, <2>2, <2>3, <2>4
<1>19. CASE Release
  <2>1. D' = D /\ P' = P /\ H' = H /\ F' = F
    BY <1>8, <1>9, <1>10, <1>11, <1>19 DEF Release, poolVars, threadVars
  <2>2. CASE pool = "idle"
    BY <1>1, <1>4, <1>19, <2>1, <2>2 DEF Release, poolVars
  <2>3. CASE pool # "idle"
    <3>1. N' = N /\ E' = E
      BY <1>11, <1>14, <1>19, <2>3 DEF Release, poolVars
    <3>2. QED
      BY <1>1, <1>5, <2>1, <3>1
  <2>4. QED
    BY <2>2, <2>3
<1>20. CASE TakeDrain
  <2>1. D' = D - 1 /\ P' = P /\ H' = H /\ N' = N
    <3>1. D' = D - OneIf(TRUE)
      BY <1>7, <1>20 DEF TakeDrain
    <3>2. QED
      BY <1>9, <1>10, <1>14, <1>20, <3>1 DEF TakeDrain, machineVars, threadVars, OneIf
  <2>2. D' \in Nat
    <3>1. tasks' \in Seq(PoolTask)
      BY <1>20 DEF TakeDrain, TypeOK
    <3>2. QED
      BY <3>1, DrainsFinite DEF D, QueuedDrains
  <2>3. CASE owned
    <3>1. F = 0 /\ F' = 1 /\ E = 0 /\ E' = 0
      BY <1>20, <2>3 DEF TakeDrain, F, OneIf, E, Surplus, Less
    <3>2. QED
      BY <1>1, <1>5, <2>1, <3>1
  <2>4. CASE ~owned
    <3>1. pendingEvents' = <<>> /\ pool' = "idle"
      BY <1>20, <2>4 DEF TakeDrain, ReleasedEmpty, machineVars
    <3>2. QED
      BY <1>1, <1>4, <2>1, <2>2, <3>1
  <2>5. QED
    BY <2>3, <2>4
<1>21. CASE TakeNop \/ TakeWake
  <2>1. OneIf(Head(tasks).kind = "drain") = 0
    BY <1>21 DEF TakeNop, TakeWake, OneIf
  <2>2. D' = D - 0
    BY <1>7, <1>21, <2>1 DEF TakeNop, TakeWake
  <2>3. N' = N /\ H' = H /\ F' = F /\ E' = E
    BY <1>10, <1>11, <1>14, <1>21 DEF TakeNop, TakeWake, machineVars
  <2>4. P' = P
    <3>1. CASE TakeNop
      BY <1>9, <3>1 DEF TakeNop, threadVars
    <3>2. CASE TakeWake
      <4>1. tasks # <<>> /\ 1 \in 1..Len(tasks) /\ Head(tasks) = tasks[1] /\ tasks[1].kind = "wake"
        BY <3>2 DEF TakeWake, TypeOK
      <4>2. tasks[1].thread \in Threads
        <5>1. tasks[1] \in PoolTask
          BY <4>1, ElementOfSeq DEF TypeOK
        <5>2. QED
          BY <4>1, <5>1 DEF PoolTask
      <4>3. pc[tasks[1].thread] = "wait"
        BY <4>1 DEF PromiseAlive
      <4>4. Posting' = Posting
        BY <3>2, <4>1, <4>2, <4>3, PostingSame DEF TakeWake
      <4>5. QED
        BY <4>4 DEF P
    <3>3. QED
      BY <1>21, <3>1, <3>2
  <2>5. QED
    BY <1>1, <1>5, <2>2, <2>3, <2>4
<1>22. CASE PopEvent
  <2>1. D' = D /\ P' = P /\ H = 0
    BY <1>3, <1>8, <1>9, <1>22 DEF PopEvent, threadVars
  <2>2. N' = N - 1
    BY <1>22, HeadTailProperties DEF PopEvent, TypeOK, N
  <2>3. E' + F <= E + 1
    <3>1. runTimes \in Nat /\ E' = runTimes /\ E = Less(runTimes) /\ F = OneIf(runTimes = 0)
      BY <1>22 DEF PopEvent, E, Surplus, F, OneIf, TypeOK
    <3>2. QED
      BY <3>1 DEF Less, OneIf
  <2>4. E' \in Nat
    BY <1>22 DEF PopEvent, E, Surplus, TypeOK
  <2>5. N' + E' <= D' + P' /\ D' + P' \in Nat
    <3>1. F \in Nat /\ N \in Nat /\ E \in Nat /\ D + P \in Nat /\ N + E <= (D + P) + F
      BY <1>1, <2>1
    <3>2. \A d, f, n, e, x \in Nat : n + e <= d + f /\ x + f <= e + 1 => (n - 1) + x <= d
      OBVIOUS
    <3>3. (N - 1) + E' <= D + P
      BY <2>3, <2>4, <3>1, <3>2
    <3>4. QED
      BY <2>1, <2>2, <3>1, <3>3
  <2>6. N' + E' <= D' + P' + H' + F'
    BY <1>1, <1>2, <2>2, <2>4, <2>5
  <2>7. QED
    BY <1>5, <2>6
<1>23. CASE PopNothing
  <2>1. D' = D /\ P' = P /\ pendingEvents' = <<>> /\ pool' = "idle"
    BY <1>8, <1>9, <1>23 DEF PopNothing, machineVars, threadVars
  <2>2. QED
    BY <1>1, <1>4, <2>1
<1>24. CASE InnerSchedule
  <2>1. 1 \in 1..Len(todo) /\ todo[1].op = "inner"
    BY <1>15, <1>24, TailSteps DEF InnerSchedule
  <2>2. QED
    BY <2>1 DEF TodoWellFormed
<1>25. CASE HandlerSchedulePush
  <2>1. D' = D /\ P' = P /\ F' = F /\ E' = E
    BY <1>8, <1>9, <1>11, <1>25 DEF HandlerSchedulePush, threadVars
  <2>2. Head(todo) \in Step /\ Head(todo).event \in Events
    BY <1>15, <1>25, TailSteps DEF HandlerSchedulePush, Step
  <2>3. N' = N + 1
    BY <1>13, <1>25, <2>2 DEF HandlerSchedulePush
  <2>4. H = 0
    BY <1>25 DEF HandlerSchedulePush, H, HandlerPosting, OneIf
  <2>5. H' = 1
    <3> DEFINE x == [Head(todo) EXCEPT !.op = "post"]
    <3>1. x \in Step /\ x.op = "post"
      BY <2>2 DEF Step
    <3>2. todo # <<>> /\ todo' = <<x>> \o Tail(todo)
      BY <1>25 DEF HandlerSchedulePush
    <3> HIDE DEF x
    <3>3. todo' \in Seq(Step) /\ Len(todo') = Len(todo) /\ todo'[1] = x
      BY <1>15, <3>1, <3>2, ReplaceFirst
    <3>4. todo' # <<>>
      BY <1>15, <3>2, <3>3, TailSteps
    <3>5. Head(todo') = x
      BY <3>3, <3>4, TailSteps
    <3>6. QED
      BY <3>1, <3>4, <3>5 DEF H, HandlerPosting, OneIf
  <2>6. QED
    BY <1>1, <1>5, <2>1, <2>3, <2>4, <2>5
<1>26. CASE HandlerSchedulePost
  <2>1. D' = D + 1
    BY <1>6, <1>12, <1>26 DEF HandlerSchedulePost
  <2>2. P' = P /\ F' = F /\ N' = N /\ E' = E
    BY <1>9, <1>11, <1>14, <1>26 DEF HandlerSchedulePost, machineVars, threadVars
  <2>3. QED
    BY <1>1, <1>2, <1>5, <2>1, <2>2
<1>27. CASE AssignState
  <2>1. D' = D /\ P' = P /\ F' = F /\ N' = N /\ E' = E
    BY <1>8, <1>9, <1>11, <1>14, <1>27 DEF AssignState, threadVars
  <2>2. H = 0
    BY <1>27 DEF AssignState, H, HandlerPosting, OneIf
  <2>3. QED
    BY <1>1, <1>2, <1>5, <2>1, <2>2
<1>28. CASE FinishEvent
  <2>1. D' = D /\ P' = P /\ H' = H
    BY <1>8, <1>9, <1>10, <1>28 DEF FinishEvent
  <2>2. F = 0
    BY <1>28 DEF FinishEvent, F, OneIf
  <2>3. CASE pendingEvents' = <<>> /\ pool' = "idle"
    BY <1>1, <1>4, <2>1, <2>3
  <2>4. CASE pendingEvents' = pendingEvents
    <3>1. E' <= E /\ E' \in Nat
      <4>1. runTimes \in Nat /\ runTimes' = runTimes + 1 /\ E = runTimes
        BY <1>28 DEF FinishEvent, E, Surplus, TypeOK
      <4>2. E' = 0 \/ E' = Less(runTimes')
        BY <1>28 DEF FinishEvent, E, Surplus
      <4>3. QED
        BY <4>1, <4>2 DEF Less
    <3>2. QED
      BY <1>1, <1>2, <1>5, <1>14, <2>1, <2>2, <2>4, <3>1
  <2>5. QED
    BY <1>28, <2>3, <2>4 DEF FinishEvent
<1>29. CASE UNCHANGED vars
  <2>1. D' = D /\ P' = P /\ H' = H /\ F' = F /\ N' = N /\ E' = E
    BY <1>8, <1>9, <1>10, <1>11, <1>14, <1>29 DEF vars, machineVars, poolVars, threadVars
  <2>2. QED
    BY <1>1, <1>5, <2>1
<1>30. QED
  BY <1>16, <1>17, <1>18, <1>19, <1>20, <1>21, <1>22, <1>23, <1>24, <1>25, <1>26, <1>27, <1>28, <1>29
     DEF Next, PoolStep, ReturnStep

-------------------------------------------------------------------------------
(* The promise of EnsureCurrentState is alive whenever a queued callback   *)
(* of EnsureTask refers to it, and each caller has one callback at most.   *)
THEOREM PromiseCorrect == Spec => []PromiseAlive
<1>1. Init => PromiseAlive
  BY DEF Init, PromiseAlive
<1>2. TypeOK /\ PromiseAlive /\ [Next]_vars => PromiseAlive'
  BY NextPromise
<1>3. QED
  BY <1>1, <1>2, TypeCorrect, PTL DEF Spec

(* The invariant that shows why nothing is stranded, kept by every step    *)
(* of a machine whose handlers schedule through the machine itself.        *)
THEOREM DrainInvariantHolds ==
    ASSUME OuterCallsOnly
    PROVE  Spec => []DrainInvariant
<1>1. Init => DrainInvariant
  <2>1. ASSUME Init PROVE DrainPerEvent
    <3>1. /\ Len(pendingEvents) = 0 /\ pool = "idle"
          /\ QueuedDrains = {} /\ Posting = {} /\ ~HandlerPosting
      BY <2>1 DEF Init, QueuedDrains, DrainIndices, Posting, HandlerPosting
    <3>2. Cardinality({}) = 0
      BY FS_EmptySet
    <3>3. QED
      BY <3>1, <3>2 DEF DrainPerEvent, DrainsToCome, Surplus, OneIf
  <2>2. QED
    BY <2>1, InitType DEF Init, DrainInvariant, AssignDefined, TodoWellFormed, ReleasedEmpty, PromiseAlive
<1>2. DrainInvariant /\ [Next]_vars => DrainInvariant'
  BY NextType, NextAssign, NextTodo, NextReleased, NextPromise, NextDrainPerEvent DEF DrainInvariant
<1>3. QED
  BY <1>1, <1>2, PTL DEF Spec

(* No accepted event is stranded in pendingEvents_: for every interleaving *)
(* of Schedule calls, handlers and drains that stop at MAX_SCHEDULE_TIMES, *)
(* whatever that limit is, a drain that will look at the queue runs, is    *)
(* queued or is about to be posted.                                        *)
THEOREM NoStranded ==
    ASSUME OuterCallsOnly
    PROVE  Spec => []NoStrandedEvent
<1>1. ASSUME DrainInvariant PROVE NoStrandedEvent
  <2>1. SUFFICES ASSUME pendingEvents # <<>>, pool # "pop", QueuedDrains = {}, Posting = {},
                        ~HandlerPosting
                 PROVE  FALSE
    BY DEF NoStrandedEvent
  <2>2. Len(pendingEvents) \in Nat /\ Len(pendingEvents) > 0
    BY <1>1, <2>1 DEF DrainInvariant, TypeOK
  <2>3. Cardinality({}) = 0
    BY FS_EmptySet
  <2>4. Surplus \in Nat
    BY <1>1 DEF DrainInvariant, TypeOK, Surplus, Less
  <2>5. QED
    BY <1>1, <2>1, <2>2, <2>3, <2>4 DEF DrainInvariant, DrainPerEvent, DrainsToCome, OneIf
<1>2. QED
  BY <1>1, DrainInvariantHolds, PTL

-------------------------------------------------------------------------------
(* The machine implements the serial machine.                              *)

(* An event put before others is the first of them ...                     *)
LEMMA Prepend ==
    ASSUME NEW x \in Events, NEW q \in Seq(Events)
    PROVE  /\ <<x>> \o q # <<>> /\ Head(<<x>> \o q) = x /\ Tail(<<x>> \o q) = q
           /\ \A e \in Events : <<x>> \o Append(q, e) = Append(<<x>> \o q, e)
<1>1. <<x>> \in Seq(Events) /\ Len(<<x>>) = 1 /\ <<x>>[1] = x /\ Len(q) \in Nat
  OBVIOUS
<1>2. /\ <<x>> \o q \in Seq(Events) /\ Len(<<x>> \o q) = 1 + Len(q)
      /\ \A i \in 1..1 + Len(q) : (<<x>> \o q)[i] = IF i <= 1 THEN <<x>>[i] ELSE q[i - 1]
  BY <1>1, ConcatProperties
<1> DEFINE p == <<x>> \o q
<1> HIDE DEF p
<1>3. p # <<>> /\ Head(p) = x
  BY <1>1, <1>2 DEF p
<1>4. Tail(p) = q
  <2>1. /\ Tail(p) \in Seq(Events) /\ Len(Tail(p)) = Len(q)
        /\ \A i \in 1..Len(Tail(p)) : Tail(p)[i] = p[i + 1]
    BY <1>1, <1>2, <1>3, HeadTailProperties DEF p
  <2>2. \A i \in 1..Len(q) : p[i + 1] = q[i]
    BY <1>1, <1>2 DEF p
  <2>3. QED
    BY <2>1, <2>2, SeqEqual
<1>5. ASSUME NEW e \in Events PROVE <<x>> \o Append(q, e) = Append(p, e)
  <2>1. <<e>> \in Seq(Events) /\ Append(q, e) = q \o <<e>> /\ Append(p, e) = p \o <<e>>
    BY <1>2, AppendIsConcat DEF p
  <2>2. QED
    BY <1>1, <2>1, ConcatAssociative DEF p
<1>6. QED
  BY <1>3, <1>4, <1>5 DEF p

(* ... and a queue is its first event put before the others.               *)
LEMMA HeadAndTail ==
    ASSUME NEW q \in Seq(Events), q # <<>>
    PROVE  <<Head(q)>> \o Tail(q) = q
<1>1. Head(q) \in Events /\ Tail(q) \in Seq(Events) /\ Len(Tail(q)) = Len(q) - 1 /\ Len(q) \in Nat \ {0}
  BY HeadTailProperties, EmptySeq
<1>2. Head(q) = q[1] /\ \A i \in 1..Len(Tail(q)) : Tail(q)[i] = q[i + 1]
  BY HeadTailProperties
<1> DEFINE p == <<Head(q)>> \o Tail(q)
<1>3. <<Head(q)>> \in Seq(Events) /\ Len(<<Head(q)>>) = 1 /\ <<Head(q)>>[1] = q[1]
  BY <1>1, <1>2
<1>4. /\ p \in Seq(Events) /\ Len(p) = 1 + Len(Tail(q))
      /\ \A i \in 1..1 + Len(Tail(q)) : p[i] = IF i <= 1 THEN <<Head(q)>>[i] ELSE Tail(q)[i - 1]
  BY <1>1, <1>3, ConcatProperties
<1> HIDE DEF p
<1>5. Len(p) = Len(q) /\ \A i \in 1..Len(p) : p[i] = q[i]
  BY <1>1, <1>2, <1>3, <1>4
<1>6. p = q
  BY <1>4, <1>5, SeqEqual
<1>7. QED
  BY <1>6 DEF p

(* An event that has a transition has an assignment to be done.            *)
LEMMA StepsForAssigns ==
    ASSUME NEW s \in States, NEW e \in Events, <<s, e>> \in DOMAIN Transition
    PROVE  \E i \in DOMAIN StepsFor(s, e) : StepsFor(s, e)[i].op = "assign"
<1> DEFINE a == OnTransition[<<s, e>>]
           b == <<[op |-> "assign", event |-> e]>>
           c == LeaveAndEnter(s, Transition[<<s, e>>])
<1>1. Call \subseteq Step
  BY DEF Call, Step
<1>2. a \in Seq(Call) /\ Transition[<<s, e>>] \in States
  BY MachineAssumption
<1>3. c \in Seq(Call)
  BY <1>2, MachineAssumption, ConcatProperties DEF LeaveAndEnter
<1>4. a \in Seq(Step) /\ b \in Seq(Step) /\ c \in Seq(Step)
  <2>1. b \in Seq(Step)
    BY DEF Step
  <2>2. QED
    BY <1>1, <1>2, <1>3, <2>1, SeqMonotonic
<1>5. StepsFor(s, e) = (a \o b) \o c /\ Len(b) = 1 /\ b[1].op = "assign"
  BY DEF StepsFor
<1> HIDE DEF a, b, c
<1>6. Len(a) \in Nat /\ Len(c) \in Nat
  BY <1>4, LenProperties
<1>7. /\ a \o b \in Seq(Step) /\ Len(a \o b) = Len(a) + 1
      /\ (a \o b)[Len(a) + 1] = b[1]
  <2>1. /\ a \o b \in Seq(Step) /\ Len(a \o b) = Len(a) + Len(b)
        /\ \A i \in 1..Len(a) + Len(b) : (a \o b)[i] = IF i <= Len(a) THEN a[i] ELSE b[i - Len(a)]
    BY <1>4, ConcatProperties
  <2>2. Len(a) + 1 \in 1..Len(a) + 1 /\ ~(Len(a) + 1 <= Len(a)) /\ Len(a) + 1 - Len(a) = 1
    BY <1>6
  <2>3. QED
    BY <1>5, <2>1, <2>2
<1>8. /\ Len((a \o b) \o c) = Len(a) + 1 + Len(c)
      /\ DOMAIN ((a \o b) \o c) = 1..Len((a \o b) \o c)
      /\ ((a \o b) \o c)[Len(a) + 1] = b[1]
  <2>1. /\ (a \o b) \o c \in Seq(Step) /\ Len((a \o b) \o c) = Len(a) + 1 + Len(c)
        /\ \A i \in 1..Len(a) + 1 + Len(c) :
              ((a \o b) \o c)[i] = IF i <= Len(a) + 1 THEN (a \o b)[i] ELSE c[i - (Len(a) + 1)]
    BY <1>4, <1>7, ConcatProperties
  <2>2. Len(a) + 1 \in 1..Len(a) + 1 + Len(c)
    BY <1>6
  <2>3. QED
    BY <1>6, <1>7, <2>1, <2>2, LenProperties
<1>9. Len(a) + 1 \in DOMAIN StepsFor(s, e)
  BY <1>5, <1>6, <1>8
<1>10. QED
  BY <1>5, <1>8, <1>9

(* Nothing is left to do when no event is being handled.                   *)
IdleDone == pool # "handle" => todo = <<>>

LEMMA NextIdleDone == IdleDone /\ [Next]_vars => IdleDone'
<1> SUFFICES ASSUME IdleDone, [Next]_vars PROVE IdleDone'
  OBVIOUS
<1> USE DEF IdleDone
<1>1. ASSUME NEW t \in Threads, NEW e \in Events, SchedulePush(t, e) PROVE IdleDone'
  BY <1>1 DEF SchedulePush, poolVars
<1>2. ASSUME NEW t \in Threads, EnsureCall(t) \/ ReturnStep(t) PROVE IdleDone'
  BY <1>2 DEF EnsureCall, ReturnStep, SchedulePost, EnsurePost, EnsureReturn, poolVars
<1>3. CASE Release \/ TakeDrain \/ TakeNop \/ TakeWake
  BY <1>3 DEF Release, TakeDrain, TakeNop, TakeWake, poolVars
<1>4. CASE PopEvent \/ PopNothing \/ FinishEvent
  BY <1>4 DEF PopEvent, PopNothing, FinishEvent
<1>5. CASE InnerSchedule \/ HandlerSchedulePush \/ HandlerSchedulePost \/ AssignState
  BY <1>5 DEF InnerSchedule, HandlerSchedulePush, HandlerSchedulePost, AssignState
<1>6. CASE UNCHANGED vars
  BY <1>6 DEF vars, poolVars
<1>7. QED
  BY <1>1, <1>2, <1>3, <1>4, <1>5, <1>6 DEF Next, PoolStep

(* A step that leaves alone what is left to do up to its first element,    *)
(* which is not an assignment, leaves the assignment to be done.           *)
LEMMA StillAssigned ==
    ASSUME TypeOK, todo # <<>>, Head(todo).op # "assign",
           \/ todo' = Tail(todo)
           \/ todo' = <<[Head(todo) EXCEPT !.op = "post"]>> \o Tail(todo)
    PROVE  NotAssigned' = NotAssigned
<1>1. todo \in Seq(Step) /\ DOMAIN todo = 1..Len(todo) /\ Len(todo) \in Nat
  BY LenProperties DEF TypeOK
<1>2. /\ Head(todo) = todo[1] /\ Head(todo) \in Step /\ Tail(todo) \in Seq(Step)
      /\ Len(Tail(todo)) = Len(todo) - 1
      /\ \A i \in 1..Len(Tail(todo)) : Tail(todo)[i] = todo[i + 1]
  BY <1>1, TailSteps
<1>3. CASE todo' = Tail(todo)
  <2>1. DOMAIN Tail(todo) = 1..Len(todo) - 1
    BY <1>2, LenProperties
  <2>2. ASSUME NotAssigned PROVE NotAssigned'
    <3>1. PICK i \in 1..Len(todo) : todo[i].op = "assign"
      BY <1>1, <2>2 DEF NotAssigned
    <3>2. i - 1 \in 1..Len(todo) - 1 /\ i - 1 + 1 = i
      BY <1>1, <1>2, <3>1
    <3>3. QED
      BY <1>2, <1>3, <2>1, <3>1, <3>2 DEF NotAssigned
  <2>3. ASSUME NotAssigned' PROVE NotAssigned
    <3>1. PICK i \in 1..Len(todo) - 1 : Tail(todo)[i].op = "assign"
      BY <1>3, <2>1, <2>3 DEF NotAssigned
    <3>2. i + 1 \in 1..Len(todo) /\ todo[i + 1].op = "assign"
      BY <1>1, <1>2, <3>1
    <3>3. QED
      BY <1>1, <3>2 DEF NotAssigned
  <2>4. QED
    BY <2>2, <2>3 DEF NotAssigned
<1>4. CASE todo' = <<[Head(todo) EXCEPT !.op = "post"]>> \o Tail(todo)
  <2> DEFINE x == [Head(todo) EXCEPT !.op = "post"]
  <2>1. x \in Step /\ x.op = "post"
    BY <1>2 DEF Step
  <2> HIDE DEF x
  <2>2. /\ todo' \in Seq(Step) /\ Len(todo') = Len(todo) /\ todo'[1] = x
        /\ \A i \in 2..Len(todo) : todo'[i] = todo[i]
    BY <1>1, <1>4, <2>1, ReplaceFirst DEF x
  <2>3. DOMAIN todo' = 1..Len(todo)
    BY <2>2, LenProperties
  <2>4. \A i \in 1..Len(todo) : todo'[i].op = "assign" <=> todo[i].op = "assign"
    BY <1>1, <1>2, <2>1, <2>2
  <2>5. QED
    BY <1>1, <2>3, <2>4 DEF NotAssigned
<1>5. QED
  BY <1>3, <1>4

(* Steps of the machine are steps of the serial machine, or none.          *)
LEMMA SerialStep ==
    TypeOK /\ AssignDefined /\ IdleDone /\ [Next]_vars => [Serial!Next]_(Serial!serialVars)
<1> SUFFICES ASSUME TypeOK, AssignDefined, IdleDone, [Next]_vars PROVE [Serial!Next]_(Serial!serialVars)
  OBVIOUS
<1>1. pendingEvents \in Seq(Events) /\ event \in Events
  BY DEF TypeOK
<1>2. ASSUME UNCHANGED <<AbstractQueue, currentState, owned>> PROVE [Serial!Next]_(Serial!serialVars)
  BY <1>2 DEF Serial!serialVars
<1>3. ASSUME UNCHANGED <<pendingEvents, todo, event>> PROVE UNCHANGED AbstractQueue
  BY <1>3 DEF AbstractQueue, NotAssigned
<1>4. ASSUME NEW e \in Events, pendingEvents' = Append(pendingEvents, e),
             NotAssigned' = NotAssigned, UNCHANGED <<event, currentState, owned>>
      PROVE  [Serial!Next]_(Serial!serialVars)
  <2>1. AbstractQueue' = Append(AbstractQueue, e)
    BY <1>1, <1>4, Prepend DEF AbstractQueue
  <2>2. QED
    BY <1>4, <2>1 DEF Serial!Next, Serial!Accept
<1>5. ASSUME NEW t \in Threads, NEW e \in Events, SchedulePush(t, e) PROVE [Serial!Next]_(Serial!serialVars)
  BY <1>4, <1>5 DEF SchedulePush, poolVars, NotAssigned
<1>6. ASSUME NEW t \in Threads, EnsureCall(t) \/ ReturnStep(t) PROVE [Serial!Next]_(Serial!serialVars)
  BY <1>2, <1>3, <1>6 DEF EnsureCall, ReturnStep, SchedulePost, EnsurePost, EnsureReturn, machineVars, poolVars
<1>7. CASE Release
  <2>1. CASE pool = "idle"
    <3>1. AbstractQueue' = <<>>
      BY <1>7, <2>1 DEF Release, poolVars, IdleDone, AbstractQueue, NotAssigned
    <3>2. QED
      BY <1>7, <3>1 DEF Release, Serial!Next, Serial!Close
  <2>2. CASE pool # "idle"
    <3>1. AbstractQueue' = AbstractQueue
      BY <1>7, <2>2 DEF Release, poolVars, AbstractQueue, NotAssigned
    <3>2. QED
      BY <1>7, <3>1 DEF Release, Serial!Next, Serial!Close
  <2>3. QED
    BY <2>1, <2>2
<1>8. CASE TakeDrain \/ TakeNop \/ TakeWake \/ PopNothing
  BY <1>2, <1>3, <1>8 DEF TakeDrain, TakeNop, TakeWake, PopNothing, machineVars
<1>9. CASE PopEvent
  <2> DEFINE e == Head(pendingEvents)
  <2>1. /\ pendingEvents # <<>> /\ e \in Events /\ currentState \in States
        /\ pendingEvents' = Tail(pendingEvents) /\ event' = e /\ todo' = StepsFor(currentState, e)
        /\ UNCHANGED <<currentState, owned>>
    BY <1>1, <1>9 DEF PopEvent, TypeOK
  <2>2. AbstractQueue = pendingEvents
    BY <1>9 DEF PopEvent, IdleDone, AbstractQueue, NotAssigned
  <2>3. CASE <<currentState, e>> \in DOMAIN Transition
    <3>1. NotAssigned'
      BY <2>1, <2>3, StepsForAssigns DEF NotAssigned
    <3>2. AbstractQueue' = pendingEvents
      BY <1>1, <2>1, <3>1, HeadAndTail DEF AbstractQueue
    <3>3. QED
      BY <1>2, <2>1, <2>2, <3>2
  <2>4. CASE <<currentState, e>> \notin DOMAIN Transition
    <3>1. AbstractQueue' = Tail(pendingEvents)
      BY <2>1, <2>4 DEF StepsFor, AbstractQueue, NotAssigned
    <3>2. QED
      BY <2>1, <2>2, <2>4, <3>1 DEF Serial!Next, Serial!Process, Serial!Target
  <2>5. QED
    BY <2>3, <2>4
<1>10. CASE InnerSchedule \/ HandlerSchedulePush
  <2>1. /\ Head(todo).event \in Events /\ pendingEvents' = Append(pendingEvents, Head(todo).event)
        /\ UNCHANGED <<event, currentState, owned>>
    BY <1>10, TailSteps DEF InnerSchedule, HandlerSchedulePush, TypeOK, Step
  <2>2. NotAssigned' = NotAssigned
    BY <1>10, StillAssigned DEF InnerSchedule, HandlerSchedulePush
  <2>3. QED
    BY <1>4, <2>1, <2>2
<1>11. CASE HandlerSchedulePost
  <2>1. NotAssigned' = NotAssigned
    BY <1>11, StillAssigned DEF HandlerSchedulePost
  <2>2. QED
    BY <1>2, <1>11, <2>1 DEF HandlerSchedulePost, machineVars, AbstractQueue
<1>12. CASE AssignState
  <2>1. /\ todo # <<>> /\ Head(todo).op = "assign" /\ todo' = Tail(todo)
        /\ currentState' = Transition[<<currentState, event>>]
        /\ UNCHANGED <<pendingEvents, owned, event>>
    BY <1>12 DEF AssignState
  <2>2. /\ Len(todo) \in Nat /\ Head(todo) = todo[1] /\ 1 \in 1..Len(todo) /\ DOMAIN todo = 1..Len(todo)
        /\ Len(Tail(todo)) = Len(todo) - 1 /\ DOMAIN Tail(todo) = 1..Len(Tail(todo))
        /\ \A i \in 1..Len(Tail(todo)) : i + 1 \in 1..Len(todo) /\ Tail(todo)[i] = todo[i + 1]
    BY <2>1, TailSteps, LenProperties DEF TypeOK
  <2>3. NotAssigned /\ <<currentState, event>> \in DOMAIN Transition
    BY <2>1, <2>2 DEF NotAssigned, AssignDefined
  <2>4. ~NotAssigned'
    <3>1. SUFFICES ASSUME NEW i \in 1..Len(Tail(todo)), Tail(todo)[i].op = "assign" PROVE FALSE
      BY <2>1, <2>2 DEF NotAssigned
    <3>2. i + 1 \in 1..Len(todo) /\ todo[i + 1].op = "assign" /\ todo[1].op = "assign"
      BY <2>1, <2>2, <3>1
    <3>3. i + 1 = 1
      BY <2>2, <3>2 DEF AssignDefined
    <3>4. QED
      BY <2>2, <3>3
  <2>5. /\ AbstractQueue # <<>> /\ Head(AbstractQueue) = event /\ Tail(AbstractQueue) = pendingEvents
        /\ AbstractQueue' = pendingEvents
    BY <1>1, <2>1, <2>3, <2>4, Prepend DEF AbstractQueue
  <2>6. QED
    BY <2>1, <2>3, <2>5 DEF Serial!Next, Serial!Process, Serial!Target
<1>13. CASE FinishEvent
  <2>1. AbstractQueue = pendingEvents /\ AbstractQueue' = pendingEvents'
    BY <1>13 DEF FinishEvent, AbstractQueue, NotAssigned
  <2>2. CASE pendingEvents' = pendingEvents
    BY <1>2, <1>13, <2>1, <2>2 DEF FinishEvent
  <2>3. CASE pendingEvents' # pendingEvents
    BY <1>13, <2>1, <2>3 DEF FinishEvent, Serial!Next, Serial!Discard
  <2>4. QED
    BY <2>2, <2>3
<1>14. CASE UNCHANGED vars
  BY <1>2, <1>3, <1>14 DEF vars, machineVars, poolVars
<1>15. QED
  BY <1>5, <1>6, <1>7, <1>8, <1>9, <1>10, <1>11, <1>12, <1>13, <1>14 DEF Next, PoolStep

(* Whatever the threads and the handlers schedule, at any length limit of  *)
(* a drain, FiniteStateMachineImpl behaves as the serial machine: accepted *)
(* events take effect one at a time in the order of their acceptance, each *)
(* exactly once and along the table, and none is lost while the machine is *)
(* owned.                                                                  *)
THEOREM SerialCorrect == Spec => SerialSafety
<1>1. Init => Serial!Init
  BY DEF Init, Serial!Init, AbstractQueue, NotAssigned
<1>2. Init => TypeOK /\ AssignDefined /\ IdleDone
  BY InitType DEF Init, AssignDefined, IdleDone
<1>3. TypeOK /\ AssignDefined /\ IdleDone /\ [Next]_vars => (TypeOK /\ AssignDefined /\ IdleDone)'
  BY NextType, NextAssign, NextIdleDone
<1>4. QED
  BY <1>1, <1>2, <1>3, SerialStep, PTL DEF Spec, SerialSafety, Serial!Safety

-------------------------------------------------------------------------------
(* EnsureCurrentState: what the pool can handle before it comes to the     *)
(* task at place k of its queue.                                           *)
Running == IF pool = "idle" THEN 0 ELSE MAX_SCHEDULE_TIMES - runTimes
DrainsUpTo(q, k) == Cardinality(DrainIndices(SubSeq(q, 1, k)))
Room(k) == Running + MAX_SCHEDULE_TIMES * DrainsUpTo(tasks, k)

(* A drain ends at the limit.                                              *)
BelowLimit == pool # "idle" => runTimes < MAX_SCHEDULE_TIMES

(* Nobody is in a call on a machine that its owner has dropped.            *)
OwnedInUse == ~owned => \A t \in Threads : pc[t] = "idle"

(* No history counts more than there is to finish, ...                     *)
Asking(t) == pc[t] \in {"ensure", "wait"}
Counted ==
    /\ owned => \A u \in Threads : pos[u] <= Outstanding
    /\ \A t, u \in Threads : Asking(t) => due[t][u] <= Outstanding

(* ... and what a thread has posted, or waits for, is handled by the       *)
(* drains that come before.                                                *)
Roomy ==
    /\ owned => \A u \in Threads : pc[u] # "post" => pos[u] <= Room(Len(tasks))
    /\ \A t, u \in Threads : pc[t] = "ensure" => due[t][u] <= Room(Len(tasks))
    /\ \A k \in 1..Len(tasks) : tasks[k].kind = "wake" =>
          \A u \in Threads : due[tasks[k].thread][u] <= Room(k)

FlushInvariant == BelowLimit /\ OwnedInUse /\ Counted /\ Roomy /\ EnsureFlushes

(* Prefixes of the pool's queue.                                           *)
LEMMA Prefixes ==
    ASSUME NEW q \in Seq(PoolTask), NEW k \in 0..Len(q)
    PROVE  /\ SubSeq(q, 1, k) \in Seq(PoolTask) /\ Len(SubSeq(q, 1, k)) = k
           /\ \A i \in 1..k : SubSeq(q, 1, k)[i] = q[i]
           /\ DrainsUpTo(q, k) \in Nat
           /\ DrainsUpTo(q, k) = Cardinality({i \in 1..k : q[i].kind = "drain"})
<1>1. Len(q) \in Nat /\ k \in Nat /\ k <= Len(q)
  OBVIOUS
<1>2. SubSeq(q, 1, k) \in Seq(PoolTask) /\ Len(SubSeq(q, 1, k)) = k /\ \A i \in 1..k : SubSeq(q, 1, k)[i] = q[i]
  BY <1>1, SubSeqProperties
<1>3. DrainIndices(SubSeq(q, 1, k)) = {i \in 1..k : q[i].kind = "drain"}
  BY <1>2 DEF DrainIndices
<1>4. QED
  BY <1>2, <1>3, DrainsFinite DEF DrainsUpTo

LEMMA PrefixAll == ASSUME NEW q \in Seq(PoolTask) PROVE DrainsUpTo(q, Len(q)) = Cardinality(DrainIndices(q))
<1>1. Len(q) \in 0..Len(q)
  OBVIOUS
<1>2. QED
  BY <1>1, Prefixes DEF DrainIndices

LEMMA PrefixAppend ==
    ASSUME NEW q \in Seq(PoolTask), NEW x \in PoolTask
    PROVE  /\ \A k \in 0..Len(q) : DrainsUpTo(Append(q, x), k) = DrainsUpTo(q, k)
           /\ DrainsUpTo(Append(q, x), Len(q) + 1) = DrainsUpTo(q, Len(q)) + OneIf(x.kind = "drain")
<1>1. /\ Len(q) \in Nat /\ Append(q, x) \in Seq(PoolTask) /\ Len(Append(q, x)) = Len(q) + 1
      /\ \A i \in 1..Len(q) : Append(q, x)[i] = q[i]
  BY LenProperties, AppendProperties
<1>2. ASSUME NEW k \in 0..Len(q) PROVE DrainsUpTo(Append(q, x), k) = DrainsUpTo(q, k)
  <2>1. k \in 0..Len(Append(q, x)) /\ \A i \in 1..k : Append(q, x)[i] = q[i]
    BY <1>1
  <2>2. {i \in 1..k : Append(q, x)[i].kind = "drain"} = {i \in 1..k : q[i].kind = "drain"}
    BY <2>1
  <2>3. QED
    BY <1>1, <2>1, <2>2, Prefixes
<1>3. DrainsUpTo(Append(q, x), Len(q) + 1) = DrainsUpTo(q, Len(q)) + OneIf(x.kind = "drain")
  <2>1. DrainsUpTo(Append(q, x), Len(Append(q, x))) = Cardinality(DrainIndices(Append(q, x)))
    BY <1>1, PrefixAll
  <2>2. QED
    BY <1>1, <2>1, PrefixAll, DrainsAppend
<1>4. QED
  BY <1>2, <1>3

LEMMA PrefixTail ==
    ASSUME NEW q \in Seq(PoolTask), q # <<>>, NEW k \in 1..Len(q)
    PROVE  DrainsUpTo(Tail(q), k - 1) = DrainsUpTo(q, k) - OneIf(Head(q).kind = "drain")
<1>1. /\ Len(q) \in Nat /\ Len(q) >= 1 /\ Head(q) = q[1] /\ Tail(q) \in Seq(PoolTask) /\ Len(Tail(q)) = Len(q) - 1
      /\ \A i \in 1..Len(Tail(q)) : Tail(q)[i] = q[i + 1]
  <2>1. Len(q) \in Nat /\ Len(q) >= 1 /\ Head(q) = q[1]
    OBVIOUS
  <2>2. QED
    BY <2>1, HeadTailProperties
<1>2. k \in Nat /\ k >= 1 /\ k <= Len(q) /\ k \in 0..Len(q) /\ k - 1 \in 0..Len(Tail(q))
  BY <1>1
<1>3. PICK p \in Seq(PoolTask) : p = SubSeq(q, 1, k) /\ Len(p) = k /\ \A i \in 1..k : p[i] = q[i]
  BY <1>2, Prefixes
<1>4. p # <<>> /\ Head(p) = Head(q) /\ Tail(p) \in Seq(PoolTask) /\ Len(Tail(p)) = k - 1
      /\ \A i \in 1..(k - 1) : Tail(p)[i] = p[i + 1]
  <2>1. p # <<>> /\ Head(p) = p[1] /\ p[1] = q[1]
    BY <1>2, <1>3
  <2>2. QED
    BY <1>1, <1>3, <2>1, HeadTailProperties
<1>5. PICK r \in Seq(PoolTask) : /\ r = SubSeq(Tail(q), 1, k - 1) /\ Len(r) = k - 1
                                 /\ \A i \in 1..(k - 1) : r[i] = Tail(q)[i]
  BY <1>1, <1>2, Prefixes
<1>6. \A i \in 1..(k - 1) : r[i] = Tail(p)[i]
  <2>1. TAKE i \in 1..(k - 1)
  <2>2. i \in 1..Len(Tail(q)) /\ i + 1 \in 1..k
    BY <1>1, <1>2
  <2>3. QED
    BY <1>1, <1>3, <1>4, <1>5, <2>2
<1>7. DrainIndices(r) = DrainIndices(Tail(p))
  BY <1>4, <1>5, <1>6 DEF DrainIndices
<1>8. QED
  BY <1>3, <1>4, <1>5, <1>7, DrainsTail DEF DrainsUpTo

LEMMA Multiples ==
    ASSUME NEW m \in Nat, NEW d \in Nat
    PROVE  m * d \in Nat /\ m * (d + 1) = m * d + m /\ m * (d - 1) = m * d - m /\ (m >= 1 => m * d >= d) /\ m * 0 = 0 /\ m * 1 = m
<1>1. m * d \in Nat /\ m * (d + 1) = m * d + m /\ m * (d - 1) = m * d - m /\ m * 0 = 0 /\ m * 1 = m
  OBVIOUS
<1>2. ASSUME m >= 1 PROVE m * d >= d
  <2>1. (m - 1) * d >= 0 /\ m * d = (m - 1) * d + d
    BY <1>2
  <2>2. QED
    BY <2>1
<1>3. QED
  BY <1>1, <1>2

LEMMA RoomType ==
    ASSUME TypeOK, BelowLimit, NEW k \in 0..Len(tasks)
    PROVE  /\ Running \in Nat /\ (pool # "idle" => Running >= 1)
           /\ Room(k) \in Nat /\ Room(k) >= Running
<1>1. MAX_SCHEDULE_TIMES \in Nat /\ runTimes \in Nat /\ tasks \in Seq(PoolTask)
  BY MachineAssumption DEF TypeOK
<1>2. Running \in Nat /\ (pool # "idle" => Running >= 1)
  BY <1>1 DEF Running, BelowLimit
<1>3. DrainsUpTo(tasks, k) \in Nat
  BY <1>1, Prefixes
<1>4. PICK w \in Nat : w = MAX_SCHEDULE_TIMES * DrainsUpTo(tasks, k)
  BY <1>1, <1>3, Multiples
<1>5. Room(k) = Running + w
  BY <1>4 DEF Room
<1>6. QED
  BY <1>2, <1>5

(* How the steps of the pool and posts to it move the room.                *)
LEMMA RoomMoves ==
    ASSUME TypeOK, BelowLimit, NEW k \in 0..Len(tasks)
    PROVE  /\ tasks' = tasks /\ Running' = Running => Room(k)' = Room(k)
           /\ \A x \in PoolTask : tasks' = Append(tasks, x) /\ Running' = Running =>
                 /\ Room(k)' = Room(k)
                 /\ k = Len(tasks) => Room(k + 1)' = Room(k) + MAX_SCHEDULE_TIMES * OneIf(x.kind = "drain")
           /\ tasks' = tasks /\ Running' = Running - 1 => Room(k)' = Room(k) - 1
           /\ /\ tasks # <<>> /\ k >= 1 /\ tasks' = Tail(tasks) /\ pool = "idle"
              /\ Running' = MAX_SCHEDULE_TIMES * OneIf(Head(tasks).kind = "drain")
              => Room(k - 1)' = Room(k)
<1> DEFINE M == MAX_SCHEDULE_TIMES
           c == DrainsUpTo(tasks, k)
<1>1. M \in Nat /\ tasks \in Seq(PoolTask) /\ Running \in Nat /\ k \in Nat
  BY MachineAssumption, RoomType DEF TypeOK
<1>2. c \in Nat
  BY <1>1, Prefixes
<1>3. M * c \in Nat /\ Room(k) = Running + M * c
  BY <1>1, <1>2, Multiples DEF Room
<1>4. \A j \in Int : Room(j)' = Running' + M * DrainsUpTo(tasks', j)
  BY DEF Room
<1>5. ASSUME tasks' = tasks PROVE Room(k)' = Running' + M * c
  BY <1>1, <1>4, <1>5
<1>6. ASSUME NEW x \in PoolTask, tasks' = Append(tasks, x), Running' = Running
      PROVE  /\ Room(k)' = Room(k)
             /\ k = Len(tasks) => Room(k + 1)' = Room(k) + M * OneIf(x.kind = "drain")
  <2>1. /\ DrainsUpTo(tasks', k) = c
        /\ k = Len(tasks) => DrainsUpTo(tasks', k + 1) = c + OneIf(x.kind = "drain")
    BY <1>1, <1>6, PrefixAppend
  <2>2. Room(k)' = Room(k)
    BY <1>1, <1>3, <1>4, <1>6, <2>1
  <2>3. ASSUME k = Len(tasks) PROVE Room(k + 1)' = Room(k) + M * OneIf(x.kind = "drain")
    <3>1. Room(k + 1)' = Running + M * (c + OneIf(x.kind = "drain"))
      BY <1>1, <1>4, <1>6, <2>1, <2>3
    <3> HIDE DEF M, c
    <3>2. CASE x.kind = "drain"
      BY <1>1, <1>2, <1>3, <3>1, <3>2, Multiples DEF OneIf
    <3>3. CASE x.kind # "drain"
      BY <1>1, <1>2, <1>3, <3>1, <3>3, Multiples DEF OneIf
    <3>4. QED
      BY <3>2, <3>3
  <2>4. QED
    BY <2>2, <2>3
<1>7. ASSUME tasks # <<>>, k >= 1, tasks' = Tail(tasks), pool = "idle", Running' = M * OneIf(Head(tasks).kind = "drain")
      PROVE  Room(k - 1)' = Room(k)
  <2>1. DrainsUpTo(tasks', k - 1) = c - OneIf(Head(tasks).kind = "drain") /\ k \in 1..Len(tasks)
    <3>1. k \in 1..Len(tasks)
      BY <1>1, <1>7
    <3>2. QED
      BY <1>1, <1>7, <3>1, PrefixTail
  <2>2. Room(k - 1)' = M * OneIf(Head(tasks).kind = "drain") + M * (c - OneIf(Head(tasks).kind = "drain"))
    BY <1>1, <1>4, <1>7, <2>1
  <2>3. Room(k) = M * c
    <3>1. Running = 0
      BY <1>7 DEF Running
    <3>2. QED
      BY <1>3, <3>1
  <2> HIDE DEF M, c
  <2>4. CASE Head(tasks).kind = "drain"
    <3>1. M * (c - 1) = M * c - M /\ M * 1 = M
      BY <1>1, <1>2, Multiples
    <3>2. Room(k - 1)' = M + (M * c - M)
      BY <2>2, <2>4, <3>1 DEF OneIf
    <3>3. QED
      BY <1>1, <1>3, <2>3, <3>2
  <2>5. CASE Head(tasks).kind # "drain"
    <3>1. M * 0 = 0 /\ c - 0 = c
      BY <1>1, <1>2, Multiples
    <3>2. Room(k - 1)' = 0 + M * c
      BY <2>2, <2>5, <3>1 DEF OneIf
    <3>3. QED
      BY <1>3, <2>3, <3>2
  <2>6. QED
    BY <2>4, <2>5
<1>8. QED
  BY <1>1, <1>3, <1>5, <1>6, <1>7

LEMMA NextBelowLimit == ASSUME TypeOK, BelowLimit, [Next]_vars PROVE BelowLimit'
<1>1. MAX_SCHEDULE_TIMES \in Nat /\ MAX_SCHEDULE_TIMES >= 1 /\ runTimes \in Nat
  BY MachineAssumption DEF TypeOK
<1>2. CASE UNCHANGED runTimes /\ (pool' = pool \/ pool' = "idle" \/ pool = "pop")
  BY <1>2 DEF BelowLimit
<1>3. CASE TakeDrain \/ FinishEvent
  BY <1>1, <1>3 DEF TakeDrain, FinishEvent, BelowLimit
<1>4. QED
  BY <1>2, <1>3 DEF Next, vars, poolVars, PoolStep, ReturnStep, SchedulePush, SchedulePost, EnsureCall, EnsurePost,
     EnsureReturn, Release, TakeNop, TakeWake, PopEvent, PopNothing, InnerSchedule, HandlerSchedulePush,
     HandlerSchedulePost, AssignState

LEMMA NextOwnedInUse ==
    ASSUME TypeOK, PromiseAlive, OwnedInUse, [Next]_vars
    PROVE  OwnedInUse' /\ (owned' => owned)
<1>1. owned' = owned \/ (Release /\ owned' = FALSE)
  BY DEF Next, vars, machineVars, PoolStep, ReturnStep, SchedulePush, SchedulePost, EnsureCall, EnsurePost,
     EnsureReturn, Release, TakeDrain, TakeNop, TakeWake, PopEvent, PopNothing, InnerSchedule, HandlerSchedulePush,
     HandlerSchedulePost, AssignState, FinishEvent
<1>2. CASE Release
  BY <1>2 DEF Release, threadVars, OwnedInUse
<1>3. CASE owned' = owned /\ owned
  BY <1>3 DEF OwnedInUse
<1>4. CASE owned' = owned /\ ~owned
  <2>1. \A t \in Threads : pc[t] = "idle"
    BY <1>4 DEF OwnedInUse
  <2>2. ~TakeWake
    <3>1. SUFFICES ASSUME TakeWake PROVE FALSE
      OBVIOUS
    <3>2. tasks # <<>> /\ 1 \in 1..Len(tasks) /\ Head(tasks) = tasks[1] /\ tasks[1].kind = "wake" /\ tasks[1] \in PoolTask
      BY <3>1 DEF TakeWake, TypeOK
    <3>3. tasks[1].thread \in Threads
      BY <3>2 DEF PoolTask
    <3>4. QED
      BY <2>1, <3>2, <3>3 DEF PromiseAlive
  <2>3. pc' = pc
    BY <1>4, <2>1, <2>2 DEF Next, vars, threadVars, PoolStep, ReturnStep, SchedulePush, SchedulePost, EnsureCall,
       EnsurePost, EnsureReturn, Release, TakeDrain, TakeNop, PopEvent, PopNothing, InnerSchedule, HandlerSchedulePush,
       HandlerSchedulePost, AssignState, FinishEvent
  <2>4. QED
    BY <1>4, <2>1, <2>3 DEF OwnedInUse
<1>5. QED
  BY <1>1, <1>2, <1>3, <1>4 DEF Release

(* A thread that posts its drain has then room for all that is to be       *)
(* finished: those that have pushed and not posted are not more than the   *)
(* events of one drain.                                                    *)
LEMMA PostRoom ==
    ASSUME DrainInvariant, BelowLimit, MAX_SCHEDULE_TIMES >= 2, Cardinality(Threads) <= MAX_SCHEDULE_TIMES,
           NEW t \in Threads, SchedulePost(t), NEW n \in Nat, n = Len(tasks)
    PROVE  Outstanding <= Room(n + 1)'
<1> DEFINE M == MAX_SCHEDULE_TIMES
           D == Cardinality(QueuedDrains)
           P == Cardinality(Posting)
           H == OneIf(HandlerPosting)
           F == OneIf(pool = "pop" /\ runTimes = 0)
           N == Len(pendingEvents)
           E == Surplus
<1>1. /\ M \in Nat /\ runTimes \in Nat /\ tasks \in Seq(PoolTask) /\ pool \in {"idle", "pop", "handle"} /\ N \in Nat
      /\ TypeOK /\ n \in 0..Len(tasks)
  BY MachineAssumption DEF DrainInvariant, TypeOK
<1>2. D \in Nat /\ P \in Nat /\ P <= M
  <2>1. D \in Nat
    BY <1>1, DrainsFinite DEF QueuedDrains
  <2>2. P \in Nat /\ P <= Cardinality(Threads) /\ Cardinality(Threads) \in Nat
    <3>1. Posting \in SUBSET Threads
      BY DEF Posting
    <3>2. QED
      BY <3>1, MachineAssumption, FS_Subset, FS_CardinalityType
  <2>3. QED
    BY <1>1, <2>1, <2>2
<1>3. H \in Nat /\ H <= 1 /\ (pool # "handle" => H = 0)
  BY DEF OneIf, DrainInvariant, TodoWellFormed, HandlerPosting
<1>4. F \in Nat /\ F <= 1 /\ (pool # "pop" => F = 0)
  BY DEF OneIf
<1>5. E \in Nat /\ (pool = "handle" => E = runTimes)
  BY <1>1 DEF Surplus, Less
<1>6. N + E <= D + P + H + F
  BY DEF DrainInvariant, DrainPerEvent, DrainsToCome
<1>7. Room(n + 1)' = Room(n) + M /\ Room(n) = Running + M * D
  <2>1. Drain \in PoolTask /\ Drain.kind = "drain"
    BY DEF Drain, PoolTask
  <2>2. tasks' = Append(tasks, Drain) /\ Running' = Running
    BY DEF SchedulePost, Running
  <2>3. Room(n + 1)' = Room(n) + M * 1
    BY <1>1, <2>1, <2>2, RoomMoves DEF OneIf
  <2>4. Room(n) = Running + M * D
    BY <1>1, PrefixAll DEF Room, QueuedDrains
  <2>5. QED
    BY <1>1, <2>3, <2>4
<1>8. M * D \in Nat /\ M * D >= D /\ Running \in Nat /\ (pool # "idle" => Running >= 1)
  BY <1>1, <1>2, Multiples, RoomType
<1>9. pool = "handle" => Running = M - runTimes
  BY DEF Running
<1> DEFINE w == M * D
<1>10. w \in Nat /\ w >= D /\ Room(n + 1)' = (Running + w) + M
  BY <1>7, <1>8
<1> HIDE DEF M, D, P, H, F, N, E, w
<1>11. CASE pool = "handle"
  <2>1. Outstanding = N + 1 /\ N + runTimes <= D + P + 1 /\ Running = M - runTimes
    BY <1>1, <1>2, <1>3, <1>4, <1>5, <1>6, <1>9, <1>11 DEF Outstanding, N
  <2>2. N + 1 <= D + M + (2 - runTimes)
    BY <1>1, <1>2, <2>1
  <2>3. D + M + (2 - runTimes) <= ((M - runTimes) + w) + M
    BY <1>1, <1>2, <1>10 DEF M
  <2>4. QED
    BY <1>1, <1>2, <1>10, <2>1, <2>2, <2>3
<1>12. CASE pool = "pop"
  <2>1. Outstanding = N /\ N <= D + P + 1 /\ Running >= 1
    BY <1>1, <1>2, <1>3, <1>4, <1>5, <1>6, <1>8, <1>12 DEF Outstanding, N
  <2>2. QED
    BY <1>1, <1>2, <1>8, <1>10, <2>1
<1>13. CASE pool = "idle"
  <2>1. Outstanding = N /\ N <= D + P
    BY <1>1, <1>2, <1>3, <1>4, <1>5, <1>6, <1>13 DEF Outstanding, N
  <2>2. QED
    BY <1>1, <1>2, <1>8, <1>10, <2>1
<1>14. QED
  BY <1>1, <1>11, <1>12, <1>13

(* A step that adds to the pool's queue, or leaves it, leaves the room of  *)
(* every place in it.                                                      *)
RoomAll == Room(Len(tasks))

LEMMA RoomGrows ==
    ASSUME TypeOK, BelowLimit, Running' = Running, tasks' = tasks \/ \E x \in PoolTask : tasks' = Append(tasks, x)
    PROVE  /\ RoomAll \in Nat /\ RoomAll' \in Nat /\ RoomAll' >= RoomAll
           /\ \A k \in 1..Len(tasks) : Room(k)' = Room(k)
           /\ \A k \in 1..Len(tasks') :
                 \/ k \in 1..Len(tasks) /\ tasks'[k] = tasks[k]
                 \/ k = Len(tasks') /\ \E x \in PoolTask : tasks' = Append(tasks, x) /\ tasks'[k] = x
<1>1. tasks \in Seq(PoolTask) /\ MAX_SCHEDULE_TIMES \in Nat
  BY MachineAssumption DEF TypeOK
<1>2. PICK n \in 0..Len(tasks) : n = Len(tasks) /\ n \in Nat
  BY <1>1
<1>3. RoomAll = Room(n) /\ Room(n) \in Nat
  BY <1>2, RoomType DEF RoomAll
<1>4. \A k \in 1..Len(tasks) : k \in 0..Len(tasks)
  BY <1>1
<1>5. CASE tasks' = tasks
  <2>1. \A k \in 0..Len(tasks) : Room(k)' = Room(k)
    BY <1>5, RoomMoves
  <2>2. RoomAll' = Room(n)'
    BY <1>2, <1>5 DEF RoomAll, Room, Running
  <2>3. QED
    BY <1>2, <1>3, <1>4, <1>5, <2>1, <2>2
<1>6. ASSUME NEW x \in PoolTask, tasks' = Append(tasks, x)
      PROVE  /\ RoomAll' \in Nat /\ RoomAll' >= RoomAll
             /\ \A k \in 1..Len(tasks) : Room(k)' = Room(k)
             /\ \A k \in 1..Len(tasks') :
                   \/ k \in 1..Len(tasks) /\ tasks'[k] = tasks[k]
                   \/ k = Len(tasks') /\ tasks'[k] = x
  <2>1. \A k \in 0..Len(tasks) : Room(k)' = Room(k)
    BY <1>6, RoomMoves
  <2>2. Room(n + 1)' = Room(n) + MAX_SCHEDULE_TIMES * OneIf(x.kind = "drain")
    BY <1>2, <1>6, RoomMoves
  <2>3. Len(tasks') = n + 1 /\ (\A k \in 1..n : tasks'[k] = tasks[k]) /\ tasks'[n + 1] = x
    BY <1>1, <1>2, <1>6, AppendProperties
  <2>4. MAX_SCHEDULE_TIMES * OneIf(x.kind = "drain") \in Nat
    BY <1>1, Multiples DEF OneIf
  <2>5. RoomAll' = Room(n + 1)'
    BY <2>3 DEF RoomAll, Room, Running
  <2>6. RoomAll' \in Nat /\ RoomAll' >= RoomAll
    BY <1>3, <2>2, <2>4, <2>5
  <2>7. \A k \in 1..Len(tasks') : k \in 1..n \/ k = n + 1
    BY <1>2, <2>3
  <2>8. QED
    BY <1>2, <1>4, <2>1, <2>3, <2>6, <2>7
<1>7. QED
  BY <1>3, <1>5, <1>6

(* The steps of the pool that leave the threads and their histories alone. *)
LEMMA PoolFlush ==
    ASSUME TypeOK, TypeOK', TodoWellFormed, BelowLimit, Counted, Roomy, EnsureFlushes, owned, owned',
           PopEvent \/ InnerSchedule \/ HandlerSchedulePush \/ HandlerSchedulePost \/ AssignState
    PROVE  Counted' /\ Roomy' /\ EnsureFlushes'
<1>1. UNCHANGED <<pc, pos, due>>
  BY DEF PopEvent, InnerSchedule, HandlerSchedulePush, HandlerSchedulePost, AssignState, threadVars
<1>2. Running' = Running
  BY DEF Running, PopEvent, InnerSchedule, HandlerSchedulePush, HandlerSchedulePost, AssignState
<1>3. tasks' = tasks \/ \E x \in PoolTask : tasks' = Append(tasks, x) /\ x.kind = "drain"
  BY DEF PopEvent, InnerSchedule, HandlerSchedulePush, HandlerSchedulePost, AssignState, Drain, PoolTask
<1>4. Outstanding' >= Outstanding /\ Outstanding \in Nat /\ Outstanding' \in Nat
  <2>1. pendingEvents \in Seq(Events) /\ Len(pendingEvents) \in Nat /\ todo \in Seq(Step)
    BY DEF TypeOK
  <2>2. CASE PopEvent
    <3>1. Len(pendingEvents') = Len(pendingEvents) - 1 /\ Len(pendingEvents) >= 1
      BY <2>1, <2>2, HeadTailProperties DEF PopEvent
    <3>2. QED
      BY <2>1, <2>2, <3>1 DEF PopEvent, Outstanding
  <2>3. CASE InnerSchedule \/ HandlerSchedulePush
    <3>1. Head(todo) \in Step /\ Head(todo).event \in Events
      BY <2>1, <2>3, TailSteps DEF InnerSchedule, HandlerSchedulePush, Step
    <3>2. Len(pendingEvents') = Len(pendingEvents) + 1 /\ pool = "handle" /\ pool' = pool
      BY <2>1, <2>3, <3>1 DEF InnerSchedule, HandlerSchedulePush
    <3>3. QED
      BY <2>1, <3>2 DEF Outstanding
  <2>4. CASE HandlerSchedulePost \/ AssignState
    BY <2>1, <2>4 DEF HandlerSchedulePost, AssignState, Outstanding, machineVars
  <2>5. QED
    BY <2>2, <2>3, <2>4
<1>5. /\ RoomAll \in Nat /\ RoomAll' \in Nat /\ RoomAll' >= RoomAll
      /\ \A k \in 1..Len(tasks) : Room(k)' = Room(k)
      /\ \A k \in 1..Len(tasks') : tasks'[k].kind = "wake" => k \in 1..Len(tasks) /\ tasks'[k] = tasks[k]
  <2>1. \A x, y : Append(tasks, x) = Append(tasks, y) /\ x \in PoolTask /\ y \in PoolTask => x = y
    <3>1. SUFFICES ASSUME NEW x \in PoolTask, NEW y \in PoolTask, Append(tasks, x) = Append(tasks, y) PROVE x = y
      OBVIOUS
    <3>2. Append(tasks, x)[Len(tasks) + 1] = x /\ Append(tasks, y)[Len(tasks) + 1] = y
      BY AppendProperties DEF TypeOK
    <3>3. QED
      BY <3>1, <3>2
  <2>2. tasks \in Seq(PoolTask) /\ \A x \in PoolTask : tasks # Append(tasks, x)
    BY AppendProperties DEF TypeOK
  <2>3. /\ RoomAll \in Nat /\ RoomAll' \in Nat /\ RoomAll' >= RoomAll
        /\ \A k \in 1..Len(tasks) : Room(k)' = Room(k)
        /\ \A k \in 1..Len(tasks') :
              \/ k \in 1..Len(tasks) /\ tasks'[k] = tasks[k]
              \/ k = Len(tasks') /\ \E x \in PoolTask : tasks' = Append(tasks, x) /\ tasks'[k] = x
    BY <1>2, <1>3, RoomGrows
  <2>4. \A x \in PoolTask : tasks' = Append(tasks, x) => x.kind = "drain"
    BY <1>3, <2>1, <2>2
  <2>5. QED
    BY <2>3, <2>4
<1>6. \A t, u \in Threads : pos[u] \in Nat /\ due[t][u] \in Nat
  BY DEF TypeOK
<1>7. Counted'
  BY <1>1, <1>4, <1>6 DEF Counted, Asking
<1>8. Roomy'
  <2>1. ASSUME NEW u \in Threads, pc'[u] # "post" PROVE pos'[u] <= RoomAll'
    BY <1>1, <1>5, <1>6, <2>1 DEF Roomy, RoomAll
  <2>2. ASSUME NEW t \in Threads, NEW u \in Threads, pc'[t] = "ensure" PROVE due'[t][u] <= RoomAll'
    BY <1>1, <1>5, <1>6, <2>2 DEF Roomy, RoomAll
  <2>3. ASSUME NEW k \in 1..Len(tasks'), tasks'[k].kind = "wake", NEW u \in Threads PROVE due'[tasks'[k].thread][u] <= Room(k)'
    BY <1>1, <1>5, <2>3 DEF Roomy
  <2>4. QED
    BY <2>1, <2>2, <2>3 DEF Roomy, RoomAll
<1>9. QED
  BY <1>1, <1>7, <1>8 DEF EnsureFlushes

(* The first task of the queue is taken.                                   *)
LEMMA TakeFlush ==
    ASSUME TypeOK, TypeOK', PromiseAlive, BelowLimit, Counted, Roomy, EnsureFlushes, owned, owned',
           TakeDrain \/ TakeNop \/ TakeWake
    PROVE  Counted' /\ Roomy' /\ EnsureFlushes'
<1>1. /\ pool = "idle" /\ tasks # <<>> /\ tasks' = Tail(tasks) /\ UNCHANGED <<pos, due, pendingEvents>>
      /\ pool' # "handle" /\ tasks \in Seq(PoolTask) /\ pc \in [Threads -> {"idle", "post", "ensure", "wait", "woken"}]
      /\ MAX_SCHEDULE_TIMES \in Nat
  BY MachineAssumption DEF TakeDrain, TakeNop, TakeWake, threadVars, machineVars, TypeOK
<1>2. Len(tasks) \in Nat /\ Len(tasks) >= 1 /\ Head(tasks) = tasks[1] /\ tasks[1] \in PoolTask
  BY <1>1
<1>3. Tail(tasks) \in Seq(PoolTask) /\ Len(tasks') = Len(tasks) - 1 /\ \A i \in 1..(Len(tasks) - 1) : tasks'[i] = tasks[i + 1]
  BY <1>1, HeadTailProperties
<1>4. Running' = MAX_SCHEDULE_TIMES * OneIf(Head(tasks).kind = "drain")
  <2>1. MAX_SCHEDULE_TIMES * 1 = MAX_SCHEDULE_TIMES /\ MAX_SCHEDULE_TIMES * 0 = 0 /\ MAX_SCHEDULE_TIMES - 0 = MAX_SCHEDULE_TIMES
    BY <1>1
  <2>2. CASE TakeDrain
    <3>1. pool' = "pop" /\ runTimes' = 0 /\ Head(tasks).kind = "drain"
      BY <2>2 DEF TakeDrain
    <3>2. QED
      BY <2>1, <3>1 DEF Running, OneIf
  <2>3. CASE TakeNop \/ TakeWake
    <3>1. pool' = "idle" /\ Head(tasks).kind # "drain"
      BY <2>3 DEF TakeNop, TakeWake
    <3>2. QED
      BY <2>1, <3>1 DEF Running, OneIf
  <2>4. QED
    BY <2>2, <2>3
<1>5. \A k \in 1..Len(tasks) : Room(k - 1)' = Room(k)
  <2>1. TAKE k \in 1..Len(tasks)
  <2>2. k \in 0..Len(tasks) /\ k >= 1
    BY <1>2
  <2>3. QED
    BY <1>1, <1>4, <2>2, RoomMoves
<1>6. RoomAll' = RoomAll
  <2>1. PICK n \in 1..Len(tasks) : n = Len(tasks)
    BY <1>2
  <2>2. Room(n - 1)' = Room(n) /\ Len(tasks') = n - 1
    BY <1>3, <1>5, <2>1
  <2>3. QED
    BY <2>1, <2>2 DEF RoomAll, Room, Running
<1>7. Outstanding' = Outstanding
  BY <1>1 DEF Outstanding
<1>8. ASSUME NEW t \in Threads PROVE pc'[t] = pc[t] \/ (pc[t] = "wait" /\ pc'[t] = "woken" /\ \A u \in Threads : due[t][u] = 0)
  <2>1. CASE TakeDrain \/ TakeNop
    BY <2>1 DEF TakeDrain, TakeNop, threadVars
  <2>2. CASE TakeWake
    <3>1. tasks[1].kind = "wake" /\ 1 \in 1..Len(tasks) /\ pc' = [pc EXCEPT ![tasks[1].thread] = "woken"]
      <4>1. 1 \in 1..Len(tasks)
        BY <1>2
      <4>2. Head(tasks).kind = "wake" /\ pc' = [pc EXCEPT ![Head(tasks).thread] = "woken"]
        BY <2>2 DEF TakeWake
      <4>3. Head(tasks) = tasks[1]
        BY <1>2
      <4>4. QED
        BY <4>1, <4>2, <4>3, Zenon
    <3>2. tasks[1].thread \in Threads /\ pc[tasks[1].thread] = "wait"
      <4>1. tasks[1].thread \in Threads
        BY <1>2, <3>1 DEF PoolTask
      <4>2. pc[tasks[1].thread] = "wait"
        BY <3>1 DEF PromiseAlive
      <4>3. QED
        BY <4>1, <4>2
    <3>3. Room(1) = 0
      <4>1. 1 \in 0..Len(tasks) /\ DrainsUpTo(Tail(tasks), 1 - 1) = DrainsUpTo(tasks, 1) - OneIf(Head(tasks).kind = "drain")
        BY <1>1, <1>2, PrefixTail
      <4>2. DrainsUpTo(Tail(tasks), 0) = 0
        <5>1. DrainsUpTo(Tail(tasks), 0) = Cardinality({i \in 1..0 : Tail(tasks)[i].kind = "drain"})
          <6>1. PICK q \in Seq(PoolTask) : q = Tail(tasks)
            BY <1>3
          <6>2. 0 \in 0..Len(q)
            OBVIOUS
          <6>3. DrainsUpTo(q, 0) = Cardinality({i \in 1..0 : q[i].kind = "drain"})
            BY <6>2, Prefixes
          <6>4. QED
            BY <6>1, <6>3
        <5>2. {i \in 1..0 : Tail(tasks)[i].kind = "drain"} = {} /\ Cardinality({}) = 0
          BY FS_EmptySet
        <5>3. QED
          BY <5>1, <5>2
      <4>3. DrainsUpTo(tasks, 1) \in Nat
        BY <1>1, <4>1, Prefixes
      <4>4. DrainsUpTo(tasks, 1) = 0
        BY <1>2, <3>1, <4>1, <4>2, <4>3 DEF OneIf
      <4>5. QED
        BY <1>1, <4>4 DEF Room, Running
    <3>4. ASSUME NEW u \in Threads PROVE due[tasks[1].thread][u] = 0
      <4>1. due[tasks[1].thread][u] <= 0
        BY <3>1, <3>3 DEF Roomy
      <4>2. due[tasks[1].thread][u] \in Nat
        BY <3>2 DEF TypeOK
      <4>3. QED
        BY <4>1, <4>2
    <3>5. QED
      BY <1>1, <3>1, <3>2, <3>4
  <2>3. QED
    BY <2>1, <2>2
<1>9. Counted'
  BY <1>1, <1>7, <1>8 DEF Counted, Asking
<1>10. EnsureFlushes'
  BY <1>1, <1>8 DEF EnsureFlushes
<1>11. Roomy'
  <2>1. ASSUME NEW u \in Threads, pc'[u] # "post" PROVE pos'[u] <= RoomAll'
    BY <1>1, <1>6, <1>8, <2>1 DEF Roomy, RoomAll
  <2>2. ASSUME NEW t \in Threads, NEW u \in Threads, pc'[t] = "ensure" PROVE due'[t][u] <= RoomAll'
    BY <1>1, <1>6, <1>8, <2>2 DEF Roomy, RoomAll
  <2>3. ASSUME NEW k \in 1..Len(tasks'), tasks'[k].kind = "wake", NEW u \in Threads PROVE due'[tasks'[k].thread][u] <= Room(k)'
    <3>1. k + 1 \in 1..Len(tasks) /\ tasks'[k] = tasks[k + 1] /\ (k + 1) - 1 = k
      BY <1>2, <1>3
    <3>2. Room((k + 1) - 1)' = Room(k + 1)
      BY <1>5, <3>1
    <3>3. Room(k)' = Room(k + 1)
      BY <3>1, <3>2
    <3>4. QED
      BY <1>1, <2>3, <3>1, <3>3 DEF Roomy
  <2>4. QED
    BY <2>1, <2>2, <2>3 DEF Roomy, RoomAll
<1>12. QED
  BY <1>9, <1>10, <1>11

(* An event is finished, or the drain finds none.                          *)
LEMMA FinishFlush ==
    ASSUME TypeOK, TypeOK', PromiseAlive, PromiseAlive', BelowLimit, BelowLimit', Counted, Roomy, EnsureFlushes,
           owned, owned', FinishEvent \/ PopNothing
    PROVE  Counted' /\ Roomy' /\ EnsureFlushes'
<1>1. /\ tasks \in Seq(PoolTask) /\ Len(tasks) \in Nat /\ runTimes \in Nat /\ MAX_SCHEDULE_TIMES \in Nat
      /\ tasks' = tasks /\ pc' = pc /\ pendingEvents' = pendingEvents /\ Len(pendingEvents) \in Nat
      /\ \A t, u \in Threads : pos[u] \in Nat /\ due[t][u] \in Nat
  BY MachineAssumption DEF TypeOK, FinishEvent, PopNothing, machineVars, threadVars
<1>2. \A k \in 1..Len(tasks) : k \in 0..Len(tasks)
  BY <1>1
<1>3. \A k \in 1..Len(tasks) : tasks[k].kind = "wake" => tasks[k].thread \in Threads /\ Asking(tasks[k].thread)
  <2>1. TAKE k \in 1..Len(tasks)
  <2>2. tasks[k] \in PoolTask
    BY <1>1, ElementOfSeq
  <2>3. QED
    BY <2>2 DEF PoolTask, PromiseAlive, Asking
<1>4. CASE FinishEvent
  <2>1. /\ pool = "handle" /\ pool' # "handle"
        /\ \A u \in Threads : pos'[u] = Less(pos[u])
        /\ \A t, u \in Threads : due'[t][u] = Less(due[t][u])
    BY <1>4 DEF FinishEvent
  <2>2. Outstanding' = Outstanding - 1 /\ Outstanding \in Nat /\ Outstanding >= 1
    BY <1>1, <2>1 DEF Outstanding
  <2>3. Running' = Running - 1
    <3>1. Running = MAX_SCHEDULE_TIMES - runTimes /\ runTimes < MAX_SCHEDULE_TIMES /\ runTimes' = runTimes + 1
      BY <1>4, <2>1 DEF Running, BelowLimit, FinishEvent
    <3>2. CASE runTimes + 1 >= MAX_SCHEDULE_TIMES
      <4>1. Running' = 0
        BY <1>4, <3>2 DEF FinishEvent, Running
      <4>2. QED
        BY <1>1, <3>1, <3>2, <4>1
    <3>3. CASE ~(runTimes + 1 >= MAX_SCHEDULE_TIMES)
      <4>1. Running' = MAX_SCHEDULE_TIMES - runTimes'
        BY <1>4, <3>3 DEF FinishEvent, Running
      <4>2. QED
        BY <1>1, <3>1, <4>1
    <3>4. QED
      BY <3>2, <3>3
  <2>4. \A k \in 0..Len(tasks) : Room(k)' = Room(k) - 1 /\ Room(k) \in Nat /\ Room(k) >= 1
    <3>1. TAKE k \in 0..Len(tasks)
    <3>2. Room(k) \in Nat /\ Room(k) >= Running /\ Running \in Nat /\ Running >= 1
      BY <2>1, RoomType
    <3>3. QED
      BY <1>1, <2>3, <3>2, RoomMoves
  <2>5. RoomAll' = RoomAll - 1 /\ RoomAll \in Nat /\ RoomAll >= 1
    <3>1. PICK n \in 0..Len(tasks) : n = Len(tasks)
      BY <1>1
    <3>2. RoomAll = Room(n) /\ RoomAll' = Room(n)'
      BY <1>1, <3>1 DEF RoomAll, Room, Running
    <3>3. QED
      BY <2>4, <3>2
  <2>6. \A a, b \in Nat : b >= 1 /\ a <= b => Less(a) <= b - 1
    BY DEF Less
  <2>7. Counted'
    BY <1>1, <2>1, <2>2, <2>6 DEF Counted, Asking
  <2>8. EnsureFlushes'
    BY <1>1, <2>1 DEF EnsureFlushes, Less
  <2>9. Roomy'
    <3>1. ASSUME NEW u \in Threads, pc'[u] # "post" PROVE pos'[u] <= RoomAll'
      BY <1>1, <2>1, <2>5, <2>6, <3>1 DEF Roomy, RoomAll
    <3>2. ASSUME NEW t \in Threads, NEW u \in Threads, pc'[t] = "ensure" PROVE due'[t][u] <= RoomAll'
      BY <1>1, <2>1, <2>5, <2>6, <3>2 DEF Roomy, RoomAll
    <3>3. ASSUME NEW k \in 1..Len(tasks'), tasks'[k].kind = "wake", NEW u \in Threads
          PROVE  due'[tasks'[k].thread][u] <= Room(k)'
      <4>1. k \in 1..Len(tasks) /\ tasks[k].kind = "wake" /\ tasks[k].thread \in Threads
        BY <1>1, <1>3, <3>3
      <4>2. due[tasks[k].thread][u] <= Room(k)
        BY <4>1 DEF Roomy
      <4>3. QED
        BY <1>1, <1>2, <2>1, <2>4, <2>6, <4>1, <4>2
    <3>4. QED
      BY <3>1, <3>2, <3>3 DEF Roomy, RoomAll
  <2>10. QED
    BY <2>7, <2>8, <2>9
<1>5. CASE PopNothing
  <2>1. Outstanding = 0 /\ Outstanding' = 0 /\ UNCHANGED <<pos, due>>
    BY <1>5 DEF PopNothing, Outstanding, machineVars, threadVars
  <2>2. \A u \in Threads : pos[u] = 0 /\ \A t \in Threads : Asking(t) => due[t][u] = 0
    BY <1>1, <2>1 DEF Counted
  <2>3. \A k \in 0..Len(tasks') : Room(k)' \in Nat
    <3>1. \A k \in 0..Len(tasks) : Room(k)' = MAX_SCHEDULE_TIMES * DrainsUpTo(tasks, k)
      <4>1. TAKE k \in 0..Len(tasks)
      <4>2. Running' = 0 /\ DrainsUpTo(tasks, k) \in Nat
        BY <1>1, <1>5, Prefixes DEF PopNothing, Running
      <4>3. MAX_SCHEDULE_TIMES * DrainsUpTo(tasks, k) \in Nat
        BY <1>1, <4>2, Multiples
      <4>4. QED
        BY <1>1, <4>2, <4>3 DEF Room
    <3>2. \A k \in 0..Len(tasks) : MAX_SCHEDULE_TIMES * DrainsUpTo(tasks, k) \in Nat
      BY <1>1, Prefixes, Multiples
    <3>3. QED
      BY <1>1, <3>1, <3>2
  <2>4. RoomAll' \in Nat
    <3>1. PICK n \in 0..Len(tasks') : n = Len(tasks')
      BY <1>1
    <3>2. RoomAll' = Room(n)'
      BY <3>1 DEF RoomAll, Room, Running
    <3>3. QED
      BY <2>3, <3>2
  <2>5. Counted'
    BY <1>1, <2>1, <2>2 DEF Counted, Asking
  <2>6. Roomy'
    <3>1. ASSUME NEW t \in Threads, NEW u \in Threads, pc'[t] = "ensure" PROVE due'[t][u] <= RoomAll'
      BY <1>1, <2>1, <2>2, <2>4, <3>1 DEF Asking
    <3>2. ASSUME NEW k \in 1..Len(tasks'), tasks'[k].kind = "wake", NEW u \in Threads
          PROVE  due'[tasks'[k].thread][u] <= Room(k)'
      <4>1. k \in 1..Len(tasks) /\ tasks[k].thread \in Threads /\ Asking(tasks[k].thread) /\ tasks'[k] = tasks[k]
        BY <1>1, <1>3, <3>2
      <4>2. due'[tasks'[k].thread][u] = 0
        BY <2>1, <2>2, <4>1
      <4>3. QED
        BY <1>1, <1>2, <2>3, <4>1, <4>2
    <3>3. QED
      BY <1>1, <2>1, <2>2, <2>4, <3>1, <3>2 DEF Roomy, RoomAll
  <2>7. QED
    BY <1>1, <2>1, <2>5, <2>6 DEF EnsureFlushes
<1>6. QED
  BY <1>4, <1>5

(* The calls of the threads.                                               *)
LEMMA CallFlush ==
    ASSUME DrainInvariant, DrainInvariant', BelowLimit, Counted, Roomy, EnsureFlushes, owned, owned',
           MAX_SCHEDULE_TIMES >= 2, Cardinality(Threads) <= MAX_SCHEDULE_TIMES,
           NEW t \in Threads, (\E e \in Events : SchedulePush(t, e)) \/ EnsureCall(t) \/ ReturnStep(t)
    PROVE  Counted' /\ Roomy' /\ EnsureFlushes'
<1>1. /\ TypeOK /\ PromiseAlive /\ tasks \in Seq(PoolTask) /\ Len(tasks) \in Nat /\ Len(pendingEvents) \in Nat
      /\ pendingEvents \in Seq(Events)
      /\ pc \in [Threads -> {"idle", "post", "ensure", "wait", "woken"}]
      /\ pos \in [Threads -> Nat] /\ due \in [Threads -> [Threads -> Nat]]
  BY DEF DrainInvariant, TypeOK
<1>2. Running' = Running /\ pool' = pool
  BY DEF Running, SchedulePush, EnsureCall, ReturnStep, SchedulePost, EnsurePost, EnsureReturn, poolVars
<1>3. Drain \in PoolTask /\ Nop \in PoolTask /\ Wake(t) \in PoolTask
      /\ Drain.kind # "wake" /\ Nop.kind # "wake" /\ Wake(t).thread = t
  BY DEF Drain, Nop, Wake, PoolTask
<1>4. tasks' = tasks \/ \E x \in PoolTask : tasks' = Append(tasks, x)
  BY <1>3 DEF SchedulePush, EnsureCall, ReturnStep, SchedulePost, EnsurePost, EnsureReturn, poolVars
<1>5. Outstanding \in Nat /\ Outstanding' \in Nat /\ Outstanding' >= Outstanding
  <2>1. pendingEvents' = pendingEvents \/ \E e \in Events : pendingEvents' = Append(pendingEvents, e)
    BY DEF SchedulePush, EnsureCall, ReturnStep, SchedulePost, EnsurePost, EnsureReturn, machineVars
  <2>2. Len(pendingEvents') \in Nat /\ Len(pendingEvents') >= Len(pendingEvents)
    BY <1>1, <2>1
  <2>3. QED
    BY <1>1, <1>2, <2>2 DEF Outstanding
<1>6. /\ RoomAll \in Nat /\ RoomAll' \in Nat /\ RoomAll' >= RoomAll
      /\ \A k \in 1..Len(tasks) : Room(k)' = Room(k)
      /\ \A k \in 1..Len(tasks') :
            \/ k \in 1..Len(tasks) /\ tasks'[k] = tasks[k]
            \/ k = Len(tasks') /\ \E x \in PoolTask : tasks' = Append(tasks, x) /\ tasks'[k] = x
  BY <1>1, <1>2, <1>4, RoomGrows
<1>7. \A s, u \in Threads : pos[u] \in Nat /\ due[s][u] \in Nat
  BY <1>1
<1>8. \A s \in Threads : s # t => pc'[s] = pc[s] /\ due'[s] = due[s] /\ pos'[s] = pos[s]
  BY <1>1 DEF SchedulePush, EnsureCall, ReturnStep, SchedulePost, EnsurePost, EnsureReturn
(* What has to be shown of the thread that moves and of a wake-up that it  *)
(* adds.                                                                   *)
<1>9. ASSUME pos'[t] <= Outstanding', pc'[t] = "post" \/ pos'[t] <= RoomAll',
             \A u \in Threads : Asking(t)' => due'[t][u] <= Outstanding' /\ (pc'[t] = "ensure" => due'[t][u] <= RoomAll'),
             \A u \in Threads : pc'[t] = "woken" => due'[t][u] = 0,
             \A k \in 1..Len(tasks) : tasks[k].kind = "wake" => tasks[k].thread # t \/ due'[t] = due[t],
             \A x \in PoolTask, u \in Threads :
                 tasks' = Append(tasks, x) /\ x.kind = "wake" => x.thread = t /\ due'[t][u] <= RoomAll'
      PROVE  Counted' /\ Roomy' /\ EnsureFlushes'
  <2>1. ASSUME NEW s \in Threads, NEW u \in Threads, s # t
        PROVE  /\ pos'[s] <= Outstanding' /\ (Asking(s)' => due'[s][u] <= Outstanding')
               /\ pc'[s] # "post" => pos'[s] <= RoomAll'
               /\ pc'[s] = "ensure" => due'[s][u] <= RoomAll'
               /\ pc'[s] = "woken" => due'[s][u] = 0
    <3>1. /\ pos[s] <= Outstanding /\ (Asking(s) => due[s][u] <= Outstanding)
          /\ pc[s] # "post" => pos[s] <= RoomAll
          /\ pc[s] = "ensure" => due[s][u] <= RoomAll
          /\ pc[s] = "woken" => due[s][u] = 0
      BY DEF Counted, Roomy, RoomAll, EnsureFlushes
    <3>2. pc'[s] = pc[s] /\ due'[s] = due[s] /\ pos'[s] = pos[s] /\ (Asking(s)' <=> Asking(s))
      BY <1>8, <2>1 DEF Asking
    <3>3. pos[s] \in Nat /\ due[s][u] \in Nat
      BY <1>7
    <3>4. QED
      BY <1>5, <1>6, <3>1, <3>2, <3>3
  <2>2. Counted' /\ EnsureFlushes'
    BY <1>9, <2>1 DEF Counted, EnsureFlushes
  <2>3. ASSUME NEW k \in 1..Len(tasks'), tasks'[k].kind = "wake", NEW u \in Threads
        PROVE  due'[tasks'[k].thread][u] <= Room(k)'
    <3>1. CASE k \in 1..Len(tasks) /\ tasks'[k] = tasks[k]
      <4>1. tasks[k] \in PoolTask /\ tasks[k].kind = "wake"
        BY <1>1, <2>3, <3>1
      <4>2. tasks[k].thread \in Threads
        BY <4>1 DEF PoolTask
      <4>3. due'[tasks[k].thread] = due[tasks[k].thread]
        BY <1>8, <1>9, <3>1, <4>1, <4>2
      <4>4. due[tasks[k].thread][u] <= Room(k) /\ Room(k)' = Room(k)
        BY <1>6, <3>1, <4>1 DEF Roomy
      <4>5. QED
        BY <3>1, <4>3, <4>4
    <3>2. CASE k = Len(tasks') /\ \E x \in PoolTask : tasks' = Append(tasks, x) /\ tasks'[k] = x
      <4>1. tasks'[k].thread = t /\ due'[t][u] <= RoomAll'
        BY <1>9, <2>3, <3>2
      <4>2. RoomAll' = Room(k)'
        BY <3>2 DEF RoomAll, Room, Running
      <4>3. QED
        BY <4>1, <4>2
    <3>3. QED
      BY <1>6, <3>1, <3>2
  <2>4. Roomy'
    BY <1>9, <2>1, <2>3 DEF Roomy, RoomAll, Asking
  <2>5. QED
    BY <2>2, <2>4
<1>10. \A x, y \in PoolTask : Append(tasks, x) = Append(tasks, y) => x = y
  <2>1. SUFFICES ASSUME NEW x \in PoolTask, NEW y \in PoolTask, Append(tasks, x) = Append(tasks, y) PROVE x = y
    OBVIOUS
  <2>2. Append(tasks, x)[Len(tasks) + 1] = x /\ Append(tasks, y)[Len(tasks) + 1] = y
    BY <1>1, AppendProperties
  <2>3. QED
    BY <2>1, <2>2
<1>11. \A x \in PoolTask : tasks # Append(tasks, x)
  BY <1>1, AppendProperties
<1>12. \A u \in Threads : /\ pos[u] <= Outstanding /\ (Asking(t) => due[t][u] <= Outstanding)
                          /\ pc[u] # "post" => pos[u] <= RoomAll
                          /\ pc[t] = "ensure" => due[t][u] <= RoomAll
                          /\ pc[t] = "woken" => due[t][u] = 0
  BY DEF Counted, Roomy, RoomAll, EnsureFlushes
<1>13. ASSUME NEW e \in Events, SchedulePush(t, e) PROVE Counted' /\ Roomy' /\ EnsureFlushes'
  <2>1. pc'[t] = "post" /\ due' = due /\ tasks' = tasks /\ pos'[t] = Outstanding + 1 /\ pendingEvents' = Append(pendingEvents, e)
    BY <1>1, <1>13 DEF SchedulePush, poolVars
  <2>2. Outstanding' = Outstanding + 1
    BY <1>1, <1>2, <2>1 DEF Outstanding
  <2>3. ~Asking(t)' /\ pos'[t] <= Outstanding'
    BY <1>5, <2>1, <2>2 DEF Asking
  <2>4. QED
    BY <1>9, <1>11, <2>1, <2>3
<1>14. CASE SchedulePost(t)
  <2>1. pc'[t] = "idle" /\ due' = due /\ pos' = pos /\ tasks' = Append(tasks, Drain) /\ Outstanding' = Outstanding
    BY <1>1, <1>14 DEF SchedulePost, machineVars, Outstanding
  <2>2. PICK n \in Nat : n = Len(tasks)
    BY <1>1
  <2>3. Outstanding <= Room(n + 1)'
    BY <1>14, <2>2, PostRoom
  <2>4. Len(tasks') = n + 1
    BY <1>1, <1>3, <2>1, <2>2, AppendProperties
  <2>5. RoomAll' = Room(n + 1)'
    BY <2>4 DEF RoomAll, Room, Running
  <2>6. pos'[t] <= Outstanding' /\ pos'[t] <= RoomAll' /\ ~Asking(t)'
    <3>1. pos'[t] = pos[t] /\ pos[t] <= Outstanding /\ Outstanding <= RoomAll' /\ pos[t] \in Nat
      BY <1>7, <1>12, <2>1, <2>3, <2>5
    <3>2. pos[t] <= RoomAll'
      BY <1>5, <1>6, <3>1
    <3>3. QED
      BY <2>1, <3>1, <3>2 DEF Asking
  <2>7. QED
    BY <1>3, <1>9, <1>10, <2>1, <2>6
<1>15. CASE EnsureCall(t)
  <2>1. /\ pc[t] = "idle" /\ pc'[t] = "ensure" /\ pos' = pos /\ tasks' = Append(tasks, Nop) /\ Outstanding' = Outstanding
        /\ \A u \in Threads : due'[t][u] = IF pc[u] = "post" THEN 0 ELSE pos[u]
    BY <1>1, <1>15 DEF EnsureCall, machineVars, Outstanding
  <2>2. ASSUME NEW u \in Threads PROVE due'[t][u] <= Outstanding' /\ due'[t][u] <= RoomAll'
    <3>1. CASE pc[u] = "post"
      BY <1>5, <1>6, <2>1, <3>1
    <3>2. CASE pc[u] # "post"
      <4>1. due'[t][u] = pos[u] /\ pos[u] \in Nat /\ pos[u] <= Outstanding /\ pos[u] <= RoomAll
        BY <1>7, <1>12, <2>1, <3>2
      <4>2. QED
        BY <1>5, <1>6, <2>1, <4>1
    <3>3. QED
      BY <3>1, <3>2
  <2>3. pos'[t] <= Outstanding' /\ pos'[t] <= RoomAll'
    <3>1. pos'[t] = pos[t] /\ pos[t] \in Nat /\ pos[t] <= Outstanding /\ pos[t] <= RoomAll
      BY <1>7, <1>12, <2>1
    <3>2. QED
      BY <1>5, <1>6, <2>1, <3>1
  <2>4. \A k \in 1..Len(tasks) : tasks[k].kind = "wake" => tasks[k].thread # t
    BY <1>1, <2>1 DEF PromiseAlive
  <2>5. QED
    BY <1>3, <1>9, <1>10, <2>1, <2>2, <2>3, <2>4
<1>16. CASE EnsurePost(t)
  <2>1. /\ pc[t] = "ensure" /\ pc'[t] = "wait" /\ pos' = pos /\ due' = due /\ tasks' = Append(tasks, Wake(t))
        /\ Outstanding' = Outstanding /\ Asking(t)
    BY <1>1, <1>16 DEF EnsurePost, machineVars, Outstanding, Asking
  <2>2. ASSUME NEW u \in Threads PROVE due'[t][u] <= Outstanding' /\ due'[t][u] <= RoomAll'
    <3>1. due'[t][u] = due[t][u] /\ due[t][u] \in Nat /\ due[t][u] <= Outstanding /\ due[t][u] <= RoomAll
      BY <1>7, <1>12, <2>1
    <3>2. QED
      BY <1>5, <1>6, <2>1, <3>1
  <2>3. pos'[t] <= Outstanding' /\ pos'[t] <= RoomAll'
    <3>1. pos'[t] = pos[t] /\ pos[t] \in Nat /\ pos[t] <= Outstanding /\ pos[t] <= RoomAll
      BY <1>7, <1>12, <2>1
    <3>2. QED
      BY <1>5, <1>6, <2>1, <3>1
  <2>4. QED
    BY <1>3, <1>9, <1>10, <2>1, <2>2, <2>3
<1>17. CASE EnsureReturn(t)
  <2>1. pc[t] = "woken" /\ pc'[t] = "idle" /\ pos' = pos /\ due' = due /\ tasks' = tasks /\ Outstanding' = Outstanding
    BY <1>1, <1>17 DEF EnsureReturn, machineVars, poolVars, Outstanding
  <2>2. pos'[t] <= Outstanding' /\ pos'[t] <= RoomAll' /\ ~Asking(t)'
    <3>1. pos'[t] = pos[t] /\ pos[t] \in Nat /\ pos[t] <= Outstanding /\ pos[t] <= RoomAll
      BY <1>7, <1>12, <2>1
    <3>2. QED
      BY <1>5, <1>6, <2>1, <3>1 DEF Asking
  <2>3. QED
    BY <1>9, <1>11, <2>1, <2>2
<1>18. QED
  BY <1>13, <1>14, <1>15, <1>16, <1>17 DEF ReturnStep

LEMMA FlushStep ==
    ASSUME DrainInvariant, DrainInvariant', FlushInvariant, [Next]_vars,
           MAX_SCHEDULE_TIMES >= 2, Cardinality(Threads) <= MAX_SCHEDULE_TIMES
    PROVE  FlushInvariant'
<1>1. /\ TypeOK /\ TypeOK' /\ PromiseAlive /\ PromiseAlive' /\ TodoWellFormed
      /\ BelowLimit /\ OwnedInUse /\ Counted /\ Roomy /\ EnsureFlushes
  BY DEF DrainInvariant, FlushInvariant
<1>2. BelowLimit' /\ OwnedInUse' /\ (owned' => owned)
  BY <1>1, NextBelowLimit, NextOwnedInUse
<1>3. CASE ~owned'
  <2>1. \A t \in Threads : pc'[t] = "idle"
    BY <1>2, <1>3 DEF OwnedInUse
  <2>2. ASSUME NEW k \in 1..Len(tasks'), tasks'[k].kind = "wake" PROVE FALSE
    <3>1. tasks' \in Seq(PoolTask)
      BY <1>1 DEF TypeOK
    <3>2. tasks'[k] \in PoolTask
      BY <3>1, ElementOfSeq
    <3>3. tasks'[k].thread \in Threads
      BY <2>2, <3>2 DEF PoolTask
    <3>4. pc'[tasks'[k].thread] = "wait"
      BY <1>1, <2>2 DEF PromiseAlive
    <3>5. QED
      BY <2>1, <3>3, <3>4
  <2>3. Counted' /\ EnsureFlushes'
    BY <1>3, <2>1 DEF Counted, EnsureFlushes, Asking
  <2>4. Roomy'
    BY <1>3, <2>1, <2>2 DEF Roomy
  <2>5. QED
    BY <1>2, <2>3, <2>4 DEF FlushInvariant
<1>4. CASE owned'
  <2>1. CASE UNCHANGED vars
    BY <1>1, <1>2, <2>1 DEF vars, machineVars, poolVars, threadVars, FlushInvariant, Counted, Asking, Outstanding, Roomy,
       Room, Running, EnsureFlushes
  <2>2. ASSUME NEW t \in Threads, (\E e \in Events : SchedulePush(t, e)) \/ EnsureCall(t) \/ ReturnStep(t)
        PROVE  FlushInvariant'
    BY <1>1, <1>2, <1>4, <2>2, CallFlush DEF FlushInvariant
  <2>3. ~Release
    BY <1>4 DEF Release
  <2>4. CASE TakeDrain \/ TakeNop \/ TakeWake
    BY <1>1, <1>2, <1>4, <2>4, TakeFlush DEF FlushInvariant
  <2>5. CASE FinishEvent \/ PopNothing
    BY <1>1, <1>2, <1>4, <2>5, FinishFlush DEF FlushInvariant
  <2>6. CASE PopEvent \/ InnerSchedule \/ HandlerSchedulePush \/ HandlerSchedulePost \/ AssignState
    BY <1>1, <1>2, <1>4, <2>6, PoolFlush DEF FlushInvariant
  <2>7. QED
    BY <2>1, <2>2, <2>3, <2>4, <2>5, <2>6 DEF Next, PoolStep
<1>5. QED
  BY <1>3, <1>4

(* EnsureCurrentState flushes the machine: when it returns, every event    *)
(* whose Schedule call had returned before it was called, on any thread,   *)
(* has been handled, although a drain stops at MAX_SCHEDULE_TIMES events   *)
(* and may be used up by the events of threads that have not posted yet.   *)
(* It takes a limit of two events at least that is not below the number of *)
(* threads (the code has 100); one less and the promise can be broken.     *)
THEOREM EnsureFlushesCorrect ==
    ASSUME OuterCallsOnly, MAX_SCHEDULE_TIMES >= 2, Cardinality(Threads) <= MAX_SCHEDULE_TIMES
    PROVE  Spec => []EnsureFlushes
<1>1. Init => FlushInvariant
  <2>1. SUFFICES ASSUME Init PROVE FlushInvariant
    OBVIOUS
  <2>2. /\ pool = "idle" /\ owned = TRUE /\ tasks = <<>> /\ pendingEvents = <<>>
        /\ \A t \in Threads : pc[t] = "idle" /\ pos[t] = 0
    BY <2>1 DEF Init
  <2>3. Outstanding = 0 /\ 1..Len(tasks) = {} /\ Len(tasks) = 0
    BY <2>2 DEF Outstanding
  <2>4. TypeOK /\ BelowLimit /\ 0 \in 0..Len(tasks)
    BY <2>1, <2>2, <2>3, InitType DEF BelowLimit
  <2>5. Room(Len(tasks)) \in Nat
    BY <2>3, <2>4, RoomType
  <2>6. Counted /\ OwnedInUse /\ EnsureFlushes
    BY <2>2, <2>3 DEF Counted, OwnedInUse, EnsureFlushes, Asking
  <2>7. Roomy
    BY <2>2, <2>3, <2>5 DEF Roomy
  <2>8. QED
    BY <2>4, <2>6, <2>7 DEF FlushInvariant
<1>2. DrainInvariant /\ DrainInvariant' /\ FlushInvariant /\ [Next]_vars => FlushInvariant'
  BY FlushStep
<1>3. FlushInvariant => EnsureFlushes
  BY DEF FlushInvariant
<1>4. QED
  BY <1>1, <1>2, <1>3, DrainInvariantHolds, PTL DEF Spec

-------------------------------------------------------------------------------
(* EnsureCurrentState comes to an end: the safety behind EnsureReturns.    *)

(* A thread that waits is in the pool's queue.                             *)
WakeQueued == \A t \in Threads : pc[t] = "wait" => \E i \in 1..Len(tasks) : tasks[i] = Wake(t)

(* What the running drain has left: two steps for each event it may still  *)
(* handle, and of the event it is handling two for each call.              *)
DrainLeft ==
    CASE pool = "idle" -> 0
      [] pool = "pop" -> 2 * (MAX_SCHEDULE_TIMES - runTimes)
      [] pool = "handle" -> 2 * (MAX_SCHEDULE_TIMES - runTimes) - 1
CallsLeft == 2 * Len(todo) - OneIf(HandlerPosting)
LeftOver == DrainLeft \in Nat /\ CallsLeft \in Nat

(* While a thread waits, each step of the pool thread wakes it, or moves   *)
(* its wake-up a place forward, or leaves less of the running drain; the   *)
(* threads' own steps change nothing of it.                                *)
WaitShortens ==
    \A t \in Threads : \A i \in 1..Len(tasks) : tasks[i] = Wake(t) =>
        LET StaysAt(k) == k \in 1..Len(tasks') /\ tasks'[k] = Wake(t) IN
        IF PoolStep
        THEN \/ i = 1 /\ pc'[t] = "woken"
             \/ i > 1 /\ StaysAt(i - 1)
             \/ StaysAt(i) /\ DrainLeft' < DrainLeft
             \/ StaysAt(i) /\ DrainLeft' = DrainLeft /\ CallsLeft' < CallsLeft
        ELSE StaysAt(i) /\ DrainLeft' = DrainLeft /\ CallsLeft' = CallsLeft

LEMMA QueueType ==
    ASSUME TypeOK
    PROVE  /\ tasks \in Seq(PoolTask) /\ Len(tasks) \in Nat
           /\ todo \in Seq(Step) /\ Len(todo) \in Nat
           /\ MAX_SCHEDULE_TIMES \in Nat /\ MAX_SCHEDULE_TIMES >= 1 /\ runTimes \in Nat
           /\ Drain \in PoolTask /\ Nop \in PoolTask /\ \A t \in Threads : Wake(t) \in PoolTask
           /\ HandlerPosting \in BOOLEAN /\ OneIf(HandlerPosting) \in {0, 1}
           /\ HandlerPosting => Len(todo) >= 1
<1>1. tasks \in Seq(PoolTask) /\ Len(tasks) \in Nat /\ todo \in Seq(Step) /\ Len(todo) \in Nat
  BY LenProperties DEF TypeOK
<1>2. Drain \in PoolTask /\ Nop \in PoolTask /\ \A t \in Threads : Wake(t) \in PoolTask
  BY DEF Drain, Nop, Wake, PoolTask
<1>3. HandlerPosting \in BOOLEAN /\ OneIf(HandlerPosting) \in {0, 1}
  BY DEF HandlerPosting, OneIf
<1>4. HandlerPosting => Len(todo) >= 1
  BY <1>1, TailSteps DEF HandlerPosting
<1>5. QED
  BY <1>1, <1>2, <1>3, <1>4, MachineAssumption DEF TypeOK

LEMMA LeftOverType ==
    ASSUME TypeOK, BelowLimit
    PROVE  LeftOver
<1>1. pool \in {"idle", "pop", "handle"}
  BY DEF TypeOK
<1>2. DrainLeft \in Nat
  BY <1>1, QueueType DEF DrainLeft, BelowLimit
<1>3. CallsLeft \in Nat
  BY QueueType DEF CallsLeft, OneIf
<1>4. QED
  BY <1>2, <1>3 DEF LeftOver

(* How a step changes the queue: not, at its end, or at its front.         *)
LEMMA QueueStep ==
    ASSUME TypeOK, [Next]_vars
    PROVE  \/ tasks' = tasks
           \/ \E x \in PoolTask : tasks' = Append(tasks, x)
           \/ (TakeDrain \/ TakeNop \/ TakeWake) /\ tasks # <<>> /\ tasks' = Tail(tasks)
BY QueueType DEF Next, vars, poolVars, PoolStep, ReturnStep, SchedulePush, SchedulePost, EnsureCall, EnsurePost,
   EnsureReturn, Release, TakeDrain, TakeNop, TakeWake, PopEvent, PopNothing, InnerSchedule, HandlerSchedulePush,
   HandlerSchedulePost, AssignState, FinishEvent

(* A place of the queue keeps its task, unless the pool takes one.         *)
LEMMA PlaceKept ==
    ASSUME TypeOK, [Next]_vars, ~TakeDrain, ~TakeNop, ~TakeWake, NEW i \in 1..Len(tasks)
    PROVE  i \in 1..Len(tasks') /\ tasks'[i] = tasks[i]
<1>1. CASE tasks' = tasks
  BY <1>1
<1>2. CASE \E x \in PoolTask : tasks' = Append(tasks, x)
  BY <1>2, QueueType, AppendProperties
<1>3. QED
  BY <1>1, <1>2, QueueStep

(* When the pool takes a task the others move a place forward.             *)
LEMMA PlaceMoves ==
    ASSUME TypeOK, tasks # <<>>, tasks' = Tail(tasks), NEW i \in 1..Len(tasks), i > 1
    PROVE  i - 1 \in 1..Len(tasks') /\ tasks'[i - 1] = tasks[i]
<1>1. Len(tasks') = Len(tasks) - 1 /\ \A j \in 1..Len(tasks') : tasks'[j] = tasks[j + 1]
  BY QueueType, HeadTailProperties
<1>2. QED
  BY <1>1, QueueType

LEMMA NextWakeQueued ==
    ASSUME TypeOK, WakeQueued, [Next]_vars
    PROVE  WakeQueued'
<1> SUFFICES ASSUME NEW t \in Threads, pc'[t] = "wait"
             PROVE  \E i \in 1..Len(tasks') : tasks'[i] = Wake(t)
  BY DEF WakeQueued, Wake
<1>1. CASE EnsurePost(t)
  <2>1. tasks' = Append(tasks, Wake(t))
    BY <1>1 DEF EnsurePost
  <2>2. Len(tasks') = Len(tasks) + 1 /\ tasks'[Len(tasks) + 1] = Wake(t)
    BY <2>1, QueueType, AppendProperties
  <2>3. QED
    BY <2>2, QueueType
<1>2. CASE ~EnsurePost(t)
  <2>1. pc[t] = "wait"
    BY <1>2 DEF TypeOK, Next, vars, threadVars, PoolStep, ReturnStep, SchedulePush, SchedulePost, EnsureCall, EnsurePost,
       EnsureReturn, Release, TakeDrain, TakeNop, TakeWake, PopEvent, PopNothing, InnerSchedule, HandlerSchedulePush,
       HandlerSchedulePost, AssignState, FinishEvent
  <2>2. PICK i \in 1..Len(tasks) : tasks[i] = Wake(t)
    BY <2>1 DEF WakeQueued
  <2>3. CASE TakeDrain \/ TakeNop \/ TakeWake
    <3>1. tasks # <<>> /\ tasks' = Tail(tasks) /\ Head(tasks) = tasks[1]
      BY <2>3, QueueType DEF TakeDrain, TakeNop, TakeWake
    <3>2. i # 1
      <4>1. SUFFICES ASSUME i = 1 PROVE FALSE
        OBVIOUS
      <4>2. Head(tasks).kind = "wake" /\ Head(tasks).thread = t
        BY <2>2, <3>1, <4>1 DEF Wake
      <4>3. TakeWake
        BY <2>3, <4>2 DEF TakeDrain, TakeNop
      <4>4. pc'[t] = "woken"
        BY <4>2, <4>3 DEF TakeWake, TypeOK
      <4>5. QED
        BY <4>4
    <3>3. i - 1 \in 1..Len(tasks') /\ tasks'[i - 1] = tasks[i]
      BY <3>1, <3>2, PlaceMoves, QueueType
    <3>4. QED
      BY <2>2, <3>3
  <2>4. CASE ~TakeDrain /\ ~TakeNop /\ ~TakeWake
    BY <2>2, <2>4, PlaceKept
  <2>5. QED
    BY <2>3, <2>4
<1>3. QED
  BY <1>1, <1>2

(* A step of the pool that takes no task leaves less of the drain.         *)
LEMMA DrainShrinks ==
    ASSUME TypeOK, BelowLimit, PoolStep, ~TakeDrain, ~TakeNop, ~TakeWake
    PROVE  DrainLeft' < DrainLeft \/ (DrainLeft' = DrainLeft /\ CallsLeft' < CallsLeft)
<1>1. MAX_SCHEDULE_TIMES \in Nat /\ runTimes \in Nat /\ (pool # "idle" => runTimes < MAX_SCHEDULE_TIMES)
  BY QueueType DEF BelowLimit
<1>2. CASE PopEvent
  BY <1>1, <1>2 DEF PopEvent, DrainLeft
<1>3. CASE PopNothing
  BY <1>1, <1>3 DEF PopNothing, DrainLeft
<1>4. CASE FinishEvent
  <2>1. CASE pool' = "idle"
    BY <1>1, <1>4, <2>1 DEF FinishEvent, DrainLeft
  <2>2. CASE pool' = "pop"
    BY <1>1, <1>4, <2>2 DEF FinishEvent, DrainLeft
  <2>3. QED
    BY <1>4, <2>1, <2>2 DEF FinishEvent
<1>5. CASE InnerSchedule \/ HandlerSchedulePush \/ HandlerSchedulePost \/ AssignState
  <2>1. DrainLeft' = DrainLeft
    BY <1>5 DEF InnerSchedule, HandlerSchedulePush, HandlerSchedulePost, AssignState, DrainLeft
  <2>2. todo # <<>> /\ todo \in Seq(Step) /\ Len(todo) \in Nat /\ Len(todo) >= 1
    BY <1>5, QueueType, TailSteps DEF InnerSchedule, HandlerSchedulePush, HandlerSchedulePost, AssignState
  <2>3. OneIf(HandlerPosting) \in {0, 1} /\ OneIf(HandlerPosting)' \in {0, 1}
    BY DEF OneIf
  <2>4. CASE HandlerSchedulePush
    <3>1. ~HandlerPosting
      BY <2>4 DEF HandlerSchedulePush, HandlerPosting
    <3>2. [Head(todo) EXCEPT !.op = "post"] \in Step /\ [Head(todo) EXCEPT !.op = "post"].op = "post"
      BY <2>2, TailSteps DEF Step
    <3>3. Len(todo') = Len(todo) /\ todo' \in Seq(Step) /\ todo'[1].op = "post"
      BY <2>2, <2>4, <3>2, ReplaceFirst DEF HandlerSchedulePush
    <3>4. todo' # <<>> /\ Head(todo') = todo'[1]
      BY <2>2, <3>3
    <3>5. HandlerPosting'
      BY <3>3, <3>4 DEF HandlerPosting
    <3>6. QED
      BY <2>1, <2>2, <3>1, <3>3, <3>5 DEF CallsLeft, OneIf
  <2>5. CASE InnerSchedule \/ HandlerSchedulePost \/ AssignState
    <3>1. Len(todo') = Len(todo) - 1
      BY <2>2, <2>5, TailSteps DEF InnerSchedule, HandlerSchedulePost, AssignState
    <3>2. QED
      BY <2>1, <2>2, <2>3, <3>1 DEF CallsLeft
  <2>6. QED
    BY <1>5, <2>4, <2>5
<1>6. QED
  BY <1>2, <1>3, <1>4, <1>5 DEF PoolStep

LEMMA WaitStep ==
    ASSUME TypeOK, BelowLimit, [Next]_vars
    PROVE  WaitShortens
<1> SUFFICES ASSUME NEW t \in Threads, NEW i \in 1..Len(tasks), tasks[i] = Wake(t)
             PROVE  LET StaysAt(k) == k \in 1..Len(tasks') /\ tasks'[k] = Wake(t) IN
                    IF PoolStep
                    THEN \/ i = 1 /\ pc'[t] = "woken"
                         \/ i > 1 /\ StaysAt(i - 1)
                         \/ StaysAt(i) /\ DrainLeft' < DrainLeft
                         \/ StaysAt(i) /\ DrainLeft' = DrainLeft /\ CallsLeft' < CallsLeft
                    ELSE StaysAt(i) /\ DrainLeft' = DrainLeft /\ CallsLeft' = CallsLeft
  BY DEF WaitShortens
<1>1. CASE TakeDrain \/ TakeNop \/ TakeWake
  <2>1. PoolStep /\ tasks # <<>> /\ tasks' = Tail(tasks) /\ Head(tasks) = tasks[1]
    BY <1>1, QueueType DEF PoolStep, TakeDrain, TakeNop, TakeWake
  <2>2. CASE i = 1
    <3>1. Head(tasks).kind = "wake" /\ Head(tasks).thread = t
      BY <2>1, <2>2 DEF Wake
    <3>2. TakeWake
      BY <1>1, <3>1 DEF TakeDrain, TakeNop
    <3>3. pc'[t] = "woken"
      BY <3>1, <3>2 DEF TakeWake, TypeOK
    <3>4. QED
      BY <2>1, <2>2, <3>3
  <2>3. CASE i > 1
    BY <2>1, <2>3, PlaceMoves
  <2>4. QED
    BY <2>2, <2>3, QueueType
<1>2. CASE ~TakeDrain /\ ~TakeNop /\ ~TakeWake
  <2>1. i \in 1..Len(tasks') /\ tasks'[i] = Wake(t)
    BY <1>2, PlaceKept
  <2>2. CASE PoolStep
    BY <1>2, <2>1, <2>2, DrainShrinks
  <2>3. CASE ~PoolStep
    <3>1. UNCHANGED <<pool, runTimes, todo>>
      BY <2>3 DEF Next, vars, poolVars, ReturnStep, SchedulePush, SchedulePost, EnsureCall, EnsurePost, EnsureReturn, Release
    <3>2. DrainLeft' = DrainLeft /\ CallsLeft' = CallsLeft
      BY <3>1 DEF DrainLeft, CallsLeft, HandlerPosting, OneIf
    <3>3. QED
      BY <2>1, <2>3, <3>2
  <2>4. QED
    BY <2>2, <2>3
<1>3. QED
  BY <1>1, <1>2

(* EnsureCurrentState is not kept waiting by handlers that schedule for    *)
(* ever: for every table a caller's wake-up is in the pool's queue, and    *)
(* the place of it, the events the running drain may still handle and the  *)
(* calls left of the present one, natural numbers, get smaller in this     *)
(* order with every step of the pool thread.  The limit of a drain is what *)
(* bounds the second.  With the fairness of the pool and of the callers    *)
(* this is EnsureReturns.                                                  *)
THEOREM EnsureBounded ==
    Spec => []WakeQueued /\ []LeftOver /\ [][WaitShortens]_vars
<1>1. Init => WakeQueued /\ BelowLimit
  BY DEF Init, WakeQueued, BelowLimit
<1>2. TypeOK /\ WakeQueued /\ BelowLimit /\ [Next]_vars => WakeQueued' /\ BelowLimit'
  BY NextWakeQueued, NextBelowLimit
<1>3. TypeOK /\ BelowLimit => LeftOver
  BY LeftOverType
<1>4. TypeOK /\ BelowLimit /\ [Next]_vars => WaitShortens
  BY WaitStep
<1>5. QED
  BY <1>1, <1>2, <1>3, <1>4, TypeCorrect, PTL DEF Spec
===============================================================================
