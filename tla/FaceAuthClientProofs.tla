------------------------- MODULE FaceAuthClientProofs -------------------------
(***************************************************************************)
(* Proofs about FaceAuthClient and the service below it, for any number of *)
(* threads, any surfaces, tokens and arguments, and however often the      *)
(* service and the driver die.                                             *)
(***************************************************************************)
EXTENDS FaceAuthClient, TLAPS

(* What the proofs use of the constants.                                   *)
LEMMA ClientConstants ==
    /\ MaxInstances \in Nat /\ MaxDriverDeaths \in Nat /\ MaxCalls \in Nat
    /\ NoThread \notin Threads /\ NoProducer \notin Producers
BY ServiceAssumption, ClientAssumption

-------------------------------------------------------------------------------
(* Types.                                                                  *)

(* A binding makes surface ids of an argument ...                          *)
LEMMA ReadSurfaceIdType ==
    ASSUME NEW api, NEW text \in Inputs
    PROVE  ReadSurfaceId(api, text) \subseteq SurfaceIds
<1>1. text \in Texts \/ text = [kind |-> "no text"]
  BY ClientAssumption
<1>2. CASE text \in [kind : {"number"}, id : SurfaceIds, cut : SurfaceIds]
  BY <1>2 DEF ReadSurfaceId
<1>3. CASE text \in [kind : {"empty", "letters", "overflow"}]
  BY <1>3 DEF ReadSurfaceId, SurfaceIds
<1>4. CASE text = [kind |-> "no text"]
  BY <1>4 DEF ReadSurfaceId
<1>5. QED
  BY <1>1, <1>2, <1>3, <1>4 DEF Texts

(* ... and of those only producers that exist, or none.                    *)
LEMMA GetBufferProducerType ==
    ASSUME NEW id \in SurfaceIds
    PROVE  GetBufferProducerBySurfaceId(id) \subseteq Producers \cup {NoProducer}
BY DEF GetBufferProducerBySurfaceId, SurfaceIds

(* The ways in which a call's record is changed keep its type.             *)
LEMMA CallUpdates ==
    ASSUME NEW c \in CallRecord, NEW pc \in Steps, NEW r \in Results, NEW p \in Producers \cup {NoProducer},
           NEW i \in 0..instances
    PROVE  /\ [c EXCEPT !.pc = pc] \in CallRecord
           /\ [c EXCEPT !.pc = pc, !.result = r] \in CallRecord
           /\ [c EXCEPT !.pc = pc, !.result = r, !.taken = TRUE] \in CallRecord
           /\ [c EXCEPT !.pc = pc, !.producer = p] \in CallRecord
           /\ [c EXCEPT !.pc = pc, !.buffer = p] \in CallRecord
           /\ [c EXCEPT !.pc = pc, !.instance = i] \in CallRecord
BY DEF CallRecord

LEMMA StepsAndResults ==
    /\ Steps = {"idle", "check", "proxy", "recipient", "send", "request", "driver", "reply", "done"}
    /\ FACE_AUTH_SUCCESS \in Results /\ FACE_AUTH_ERROR \in Results
    /\ FACE_AUTH_CHECK_PERMISSION_FAILED \in Results
    /\ FACE_AUTH_CHECK_SYSTEM_PERMISSION_FAILED \in Results
    /\ 0 \in Results
BY DEF Steps, Results, FACE_AUTH_SUCCESS

(* A call that has got its proxy knows an instance of the service.         *)
InstanceKnown ==
    \A t \in Threads : call[t].pc \in {"recipient", "send", "request", "driver", "reply"} =>
        call[t].instance \in 1..instances

LEMMA IdleCallType == instances \in Nat => IdleCall \in CallRecord
BY StepsAndResults DEF IdleCall, CallRecord

LEMMA ClientInit == Init => TypeOK /\ InstanceKnown
<1> SUFFICES ASSUME Init PROVE TypeOK /\ InstanceKnown
  OBVIOUS
<1>1. call \in [Threads -> CallRecord]
  BY IdleCallType DEF Init, ServiceInit
<1>2. thrown \in [Threads -> Results \cup {RESULT_CODE_FAIL}]
  BY StepsAndResults DEF Init
<1>3. InstanceKnown
  BY DEF Init, ServiceInit, InstanceKnown, IdleCall
<1>4. QED
  BY <1>1, <1>2, <1>3, ClientConstants DEF Init, ServiceInit, TypeOK

(* No step takes a call out of its type.                                   *)
LEMMA CallType == TypeOK /\ [Next]_vars => call' \in [Threads -> CallRecord']
<1> SUFFICES ASSUME TypeOK, [Next]_vars PROVE call' \in [Threads -> CallRecord']
  OBVIOUS
<1>1. /\ call \in [Threads -> CallRecord] /\ instances \in Nat
      /\ proxy \in 0..instances /\ running \in 0..instances
  BY ClientConstants DEF TypeOK
<1>2. ASSUME OnStart PROVE call' \in [Threads -> CallRecord']
  <2>1. 0..instances \subseteq 0..instances' /\ UNCHANGED call
    BY <1>1, <1>2 DEF OnStart
  <2>2. CallRecord \subseteq CallRecord'
    BY <2>1 DEF CallRecord
  <2>3. QED
    BY <1>1, <2>1, <2>2
<1>3. ASSUME instances' = instances, call' \in [Threads -> CallRecord]
      PROVE  call' \in [Threads -> CallRecord']
  BY <1>3 DEF CallRecord
<1>4. ASSUME NEW t \in Threads, instances' = instances, NEW c \in CallRecord, call' = [call EXCEPT ![t] = c]
      PROVE  call' \in [Threads -> CallRecord']
  BY <1>1, <1>3, <1>4
<1> USE DEF serviceVars
<1>5. ASSUME ServiceDies \/ DriverDies PROVE call' \in [Threads -> CallRecord']
  <2>1. ASSUME NEW t \in Threads
        PROVE  /\ [call[t] EXCEPT !.pc = "done", !.result = FACE_AUTH_ERROR] \in CallRecord
               /\ [call[t] EXCEPT !.pc = "reply", !.result = FACE_AUTH_ERROR] \in CallRecord
    BY <1>1, CallUpdates, StepsAndResults
  <2>2. CASE ServiceDies
    BY <1>1, <1>3, <2>1, <2>2 DEF ServiceDies
  <2>3. CASE DriverDies
    BY <1>1, <1>3, <2>1, <2>3 DEF DriverDies
  <2>4. QED
    BY <1>5, <2>2, <2>3
<1>6. ASSUME NEW t \in Threads, NEW api, NEW text \in Inputs, SetSurfaceId(t, api, text)
      PROVE  call' \in [Threads -> CallRecord']
  <2>1. ASSUME NEW p \in Producers \cup {NoProducer},
               call' = [call EXCEPT ![t] = [IdleCall EXCEPT !.pc = "check", !.producer = p]]
        PROVE  call' \in [Threads -> CallRecord']
    BY <1>1, <1>4, <1>6, <2>1, CallUpdates, StepsAndResults, IdleCallType DEF SetSurfaceId
  <2>2. ASSUME call' = [call EXCEPT ![t] = [IdleCall EXCEPT !.pc = "done", !.result = FACE_AUTH_ERROR]]
        PROVE  call' \in [Threads -> CallRecord']
    BY <1>1, <1>4, <1>6, <2>2, CallUpdates, StepsAndResults, IdleCallType DEF SetSurfaceId
  <2>3. QED
    BY <1>6, <2>1, <2>2, ReadSurfaceIdType, GetBufferProducerType DEF SetSurfaceId
<1>7. ASSUME NEW t \in Threads, ClientThread(t) \/ ServiceThread(t) PROVE call' \in [Threads -> CallRecord']
  <2>1. instances' = instances
    BY <1>7 DEF ClientThread, Return, CheckSystemPermission, GetProxy, AddRecipient, SendRequest,
                ServiceThread, SetBufferProducer, DriverSetBufferProducer, Reply
  <2>2. ASSUME NEW step \in Steps, Moves(t, step) PROVE call' \in [Threads -> CallRecord']
    <3>1. [call[t] EXCEPT !.pc = step] \in CallRecord
      BY <1>1, <2>2, CallUpdates, StepsAndResults
    <3>2. QED
      BY <1>1, <1>3, <2>1, <2>2, <3>1 DEF Moves
  <2>3. ASSUME NEW r \in Results, Ends(t, r) \/ Answers(t, r) PROVE call' \in [Threads -> CallRecord']
    <3>1. ASSUME NEW step \in Steps PROVE [call[t] EXCEPT !.pc = step, !.result = r] \in CallRecord
      BY <1>1, <2>3, <3>1, CallUpdates
    <3>2. QED
      BY <1>1, <1>3, <2>1, <2>3, <3>1, StepsAndResults DEF Ends, Answers
  <2>4. ASSUME NEW i \in 0..instances, NEW step \in Steps, call' = [call EXCEPT ![t].pc = step, ![t].instance = i]
        PROVE  call' \in [Threads -> CallRecord']
    <3>1. [call[t] EXCEPT !.pc = step, !.instance = i] \in CallRecord
      BY <1>1, <2>4, CallUpdates, StepsAndResults
    <3>2. QED
      BY <1>1, <1>3, <2>1, <2>4, <3>1
  <2>5. ASSUME call' = [call EXCEPT ![t].pc = "reply", ![t].result = FACE_AUTH_SUCCESS, ![t].taken = TRUE]
        PROVE  call' \in [Threads -> CallRecord']
    <3>1. [call[t] EXCEPT !.pc = "reply", !.result = FACE_AUTH_SUCCESS, !.taken = TRUE] \in CallRecord
      BY <1>1, <2>5, CallUpdates, StepsAndResults
    <3>2. QED
      BY <1>1, <1>3, <2>1, <2>5, <3>1
  <2>6. call[t].result \in Results
    BY <1>1 DEF CallRecord
  <2> USE StepsAndResults
  <2>7. CASE CheckSystemPermission(t) \/ AddRecipient(t) \/ SendRequest(t) \/ Return(t)
    BY <2>2, <2>3, <2>7 DEF CheckSystemPermission, AddRecipient, SendRequest, Return
  <2>8. CASE GetProxy(t)
    BY <1>1, <2>3, <2>4, <2>8 DEF GetProxy
  <2>9. CASE SetBufferProducer(t)
    <3>1. ASSUME NEW p \in ReadProducer(call[t].producer),
                 call' = [call EXCEPT ![t].pc = "driver", ![t].buffer = p]
          PROVE  call' \in [Threads -> CallRecord']
      <4>1. p \in Producers \cup {NoProducer}
        BY <1>1, <3>1 DEF CallRecord, ReadProducer
      <4>2. [call[t] EXCEPT !.pc = "driver", !.buffer = p] \in CallRecord
        BY <1>1, <2>9, <4>1, CallUpdates
      <4>3. QED
        BY <1>1, <1>3, <2>1, <3>1, <4>2
    <3>2. QED
      BY <2>3, <2>9, <3>1 DEF SetBufferProducer
  <2>10. CASE DriverSetBufferProducer(t) \/ Reply(t)
    BY <2>3, <2>5, <2>6, <2>10 DEF DriverSetBufferProducer, Reply
  <2>11. QED
    BY <1>7, <2>7, <2>8, <2>9, <2>10 DEF ClientThread, ServiceThread
<1>8. ASSUME UNCHANGED <<instances, call>> PROVE call' \in [Threads -> CallRecord']
  BY <1>1, <1>3, <1>8
<1>9. QED
  BY <1>2, <1>5, <1>6, <1>7, <1>8
  DEF Next, Processes, Dies, Serves, OnRemoteDied, DriverStarts, DriverTakesOrphan, vars

-------------------------------------------------------------------------------
(* What a step does to one call, whatever happens to the others: it leaves *)
(* it alone, or it is one of the steps of the call, or a death.            *)
ServiceDeath(t) ==
    /\ ServiceDies /\ InService(t)
    /\ call'[t] = [call[t] EXCEPT !.pc = "done", !.result = FACE_AUTH_ERROR]

DriverDeath(t) ==
    /\ DriverDies /\ call[t].pc = "driver"
    /\ call'[t] = [call[t] EXCEPT !.pc = "reply", !.result = FACE_AUTH_ERROR]

RestUnchanged(t) == calls'[t] = calls[t] /\ thrown'[t] = thrown[t]

LEMMA OneCall ==
    ASSUME TypeOK, [Next]_vars, NEW t \in Threads
    PROVE  \/ /\ call'[t] = call[t] \/ ServiceDeath(t) \/ DriverDeath(t) \/ ServiceThread(t)
              /\ RestUnchanged(t)
           \/ ClientThread(t)
           \/ \E api \in {"napi", "ets"}, text \in Inputs : SetSurfaceId(t, api, text)
<1>1. call \in [Threads -> CallRecord] /\ calls \in [Threads -> 0..MaxCalls]
      /\ thrown \in [Threads -> Results \cup {RESULT_CODE_FAIL}]
  BY DEF TypeOK
<1> USE DEF RestUnchanged
<1>2. CASE Processes
  BY <1>1, <1>2 DEF Processes, OnStart, DriverStarts, DriverDies, DriverTakesOrphan, DriverDeath
<1>3. CASE Dies
  BY <1>1, <1>3 DEF Dies, ServiceDies, ServiceDeath
<1>4. ASSUME NEW i \in notices, OnRemoteDied(i) PROVE call'[t] = call[t] /\ RestUnchanged(t)
  BY <1>4 DEF OnRemoteDied
<1>5. ASSUME NEW u \in Threads, u # t, ClientThread(u) PROVE call'[t] = call[t] /\ RestUnchanged(t)
  BY <1>1, <1>5
  DEF ClientThread, Return, CheckSystemPermission, GetProxy, AddRecipient, SendRequest, Moves, Ends
<1>6. ASSUME NEW u \in Threads, u # t, ServiceThread(u) PROVE call'[t] = call[t]
  BY <1>1, <1>6 DEF ServiceThread, SetBufferProducer, DriverSetBufferProducer, Reply, Moves, Ends, Answers
<1>7. ASSUME NEW u \in Threads, u # t, NEW api, NEW text, SetSurfaceId(u, api, text)
      PROVE  call'[t] = call[t] /\ RestUnchanged(t)
  BY <1>1, <1>7 DEF SetSurfaceId
<1>8. CASE UNCHANGED vars
  BY <1>8 DEF vars
<1>9. QED
  BY <1>2, <1>3, <1>4, <1>5, <1>6, <1>7, <1>8 DEF Next, Serves

(* Instances are counted up, one at a time.                                *)
LEMMA InstancesGrow == TypeOK /\ [Next]_vars => instances \in Nat /\ instances' \in {instances, instances + 1}
<1> SUFFICES ASSUME TypeOK, [Next]_vars PROVE instances \in Nat /\ instances' \in {instances, instances + 1}
  OBVIOUS
<1>1. instances \in Nat
  BY ClientConstants DEF TypeOK
<1>2. CASE Processes
  BY <1>1, <1>2 DEF Processes, OnStart, DriverStarts, DriverDies, DriverTakesOrphan
<1>3. CASE Dies
  BY <1>1, <1>3 DEF Dies, ServiceDies
<1>4. CASE \E i \in notices : OnRemoteDied(i)
  BY <1>1, <1>4 DEF OnRemoteDied, serviceVars
<1>5. ASSUME NEW t \in Threads, ClientThread(t) PROVE instances' = instances
  BY <1>5 DEF ClientThread, Return, CheckSystemPermission, GetProxy, AddRecipient, SendRequest, serviceVars
<1>6. ASSUME NEW t \in Threads, ServiceThread(t) PROVE instances' = instances
  BY <1>6 DEF ServiceThread, SetBufferProducer, DriverSetBufferProducer, Reply, serviceVars
<1>7. ASSUME NEW t \in Threads, NEW api, NEW text, SetSurfaceId(t, api, text) PROVE instances' = instances
  BY <1>7 DEF SetSurfaceId, serviceVars
<1>8. CASE UNCHANGED vars
  BY <1>1, <1>8 DEF vars, serviceVars
<1>9. QED
  BY <1>1, <1>2, <1>3, <1>4, <1>5, <1>6, <1>7, <1>8 DEF Next, Serves

LEMMA InstanceKnownStep == TypeOK /\ InstanceKnown /\ [Next]_vars => InstanceKnown'
<1> SUFFICES ASSUME TypeOK, InstanceKnown, [Next]_vars, NEW t \in Threads,
                    call'[t].pc \in {"recipient", "send", "request", "driver", "reply"}
             PROVE  call'[t].instance \in 1..instances'
  BY DEF InstanceKnown
<1>1. call \in [Threads -> CallRecord] /\ call[t] \in CallRecord
  BY DEF TypeOK
<1>2. 1..instances \subseteq 1..instances'
  BY InstancesGrow
<1>3. call[t].pc \in {"recipient", "send", "request", "driver", "reply"} => call[t].instance \in 1..instances
  BY DEF InstanceKnown
<1>4. SUFFICES call'[t].instance \in 1..instances
  BY <1>2
<1>5. CASE call'[t] = call[t]
  BY <1>3, <1>5
<1>6. CASE ServiceDeath(t)
  BY <1>1, <1>6 DEF ServiceDeath, CallRecord
<1>7. CASE DriverDeath(t)
  BY <1>1, <1>3, <1>7 DEF DriverDeath, CallRecord
<1>8. CASE CheckSystemPermission(t)
  BY <1>1, <1>8 DEF CheckSystemPermission, Moves, Ends, CallRecord
<1>9. CASE GetProxy(t)
  <2>1. instances \in Nat /\ proxy \in 0..instances /\ running \in 0..instances
    BY ClientConstants DEF TypeOK
  <2>2. QED
    BY <1>1, <1>9, <2>1 DEF GetProxy, Ends, CallRecord
<1>10. CASE AddRecipient(t)
  BY <1>1, <1>3, <1>10 DEF AddRecipient, Moves, Ends, CallRecord
<1>11. CASE SendRequest(t)
  BY <1>1, <1>3, <1>11 DEF SendRequest, Moves, Ends, CallRecord
<1>12. CASE Return(t)
  BY <1>1, <1>12 DEF Return, Moves, CallRecord
<1>13. CASE SetBufferProducer(t)
  BY <1>1, <1>3, <1>13 DEF SetBufferProducer, Answers, CallRecord
<1>14. CASE DriverSetBufferProducer(t)
  BY <1>1, <1>3, <1>14 DEF DriverSetBufferProducer, Answers, CallRecord
<1>15. CASE Reply(t)
  BY <1>1, <1>15 DEF Reply, Ends, CallRecord
<1>16. ASSUME NEW api, NEW text, SetSurfaceId(t, api, text) PROVE call'[t].pc \in {"check", "done"}
  BY <1>1, <1>16 DEF SetSurfaceId, IdleCall
<1>17. QED
  BY <1>5, <1>6, <1>7, <1>8, <1>9, <1>10, <1>11, <1>12, <1>13, <1>14, <1>15, <1>16, OneCall
  DEF ClientThread, ServiceThread

LEMMA ThrownType == \A r \in Results : BusinessError(r) \in Results \cup {RESULT_CODE_FAIL}
BY DEF BusinessError, Results

LEMMA TypeStep == TypeOK /\ InstanceKnown /\ [Next]_vars => TypeOK'
<1> SUFFICES ASSUME TypeOK, InstanceKnown, [Next]_vars PROVE TypeOK'
  OBVIOUS
<1>1. call' \in [Threads -> CallRecord']
  BY CallType
<1>2. instances \in Nat /\ instances' \in {instances, instances + 1}
  BY InstancesGrow
<1>3. 0..instances \subseteq 0..instances' /\ 1..instances \subseteq 1..instances'
  BY <1>2
<1>4. ASSUME UNCHANGED <<instances, clientVars, calls, thrown>>,
             token' \in Tokens /\ running' \in 0..instances,
             driverUp' \in BOOLEAN /\ driverDeaths' \in 0..MaxDriverDeaths,
             shown' \in Producers \cup {NoProducer} /\ orphans' \subseteq Producers \cup {NoProducer}
      PROVE  TypeOK'
  BY <1>1, <1>4 DEF TypeOK, clientVars
<1>5. CASE Processes
  <2>1. CASE OnStart /\ UNCHANGED <<clientVars, calls, thrown>>
    <3>1. instances' \in 0..MaxInstances /\ running' \in 0..instances'
      BY <2>1, ClientConstants DEF OnStart, TypeOK
    <3>2. proxy' \in 0..instances' /\ recipients' \subseteq 1..instances' /\ notices' \subseteq 1..instances'
      BY <1>3, <2>1 DEF clientVars, TypeOK
    <3>3. QED
      BY <1>1, <2>1, <3>1, <3>2 DEF OnStart, TypeOK, clientVars
  <2>2. CASE DriverStarts /\ UNCHANGED <<clientVars, calls, thrown>>
    BY <1>4, <2>2 DEF DriverStarts, TypeOK
  <2>3. CASE DriverDies /\ UNCHANGED <<clientVars, calls, thrown>>
    <3>1. driverDeaths' \in 0..MaxDriverDeaths
      <4>1. driverDeaths \in 0..MaxDriverDeaths /\ driverDeaths < MaxDriverDeaths /\ driverDeaths' = driverDeaths + 1
        BY <2>3 DEF DriverDies, TypeOK
      <4>2. QED
        BY <4>1, ClientConstants
    <3>2. QED
      BY <1>4, <2>3, <3>1 DEF DriverDies, TypeOK
  <2>4. CASE DriverTakesOrphan /\ UNCHANGED <<clientVars, calls, thrown>>
    BY <1>4, <2>4 DEF DriverTakesOrphan, TypeOK
  <2>5. QED
    BY <1>5, <2>1, <2>2, <2>3, <2>4 DEF Processes
<1>6. CASE Dies
  <2>1. \A t \in Threads : call[t].buffer \in Producers \cup {NoProducer}
    BY DEF TypeOK, CallRecord
  <2>2. orphans' \subseteq Producers \cup {NoProducer}
    <3>1. orphans \subseteq Producers \cup {NoProducer}
      BY DEF TypeOK
    <3>2. orphans' \subseteq orphans \cup {call[t].buffer : t \in Threads}
      BY <1>6 DEF Dies, ServiceDies
    <3>3. QED
      BY <2>1, <3>1, <3>2
  <2>3. /\ running' = 0 /\ running \in 1..instances
        /\ UNCHANGED <<token, instances, driverUp, driverDeaths, shown, proxy, mutex, calls, thrown>>
    <3>1. running \in 0..instances /\ running # 0
      BY <1>6 DEF Dies, ServiceDies, TypeOK
    <3>2. running \in 1..instances
      BY <1>2, <3>1
    <3>3. QED
      BY <1>6, <3>2 DEF Dies, ServiceDies
  <2>4. recipients' \subseteq 1..instances /\ notices' \subseteq 1..instances
    BY <1>6, <2>3 DEF Dies, TypeOK
  <2>5. QED
    BY <1>1, <1>2, <2>2, <2>3, <2>4 DEF TypeOK
<1>7. ASSUME NEW i \in notices, OnRemoteDied(i) PROVE TypeOK'
  BY <1>1, <1>2, <1>7 DEF OnRemoteDied, serviceVars, TypeOK
<1>8. ASSUME NEW t \in Threads, ServiceThread(t), UNCHANGED <<clientVars, calls, thrown>> PROVE TypeOK'
  <2>1. call[t].buffer \in Producers \cup {NoProducer}
    BY DEF TypeOK, CallRecord
  <2>2. shown' \in Producers \cup {NoProducer}
    BY <1>8, <2>1 DEF ServiceThread, SetBufferProducer, DriverSetBufferProducer, Reply, serviceVars, TypeOK
  <2>3. UNCHANGED <<token, running, instances, driverUp, driverDeaths, orphans>>
    BY <1>8 DEF ServiceThread, SetBufferProducer, DriverSetBufferProducer, Reply, serviceVars
  <2>4. QED
    BY <1>4, <1>8, <2>2, <2>3 DEF TypeOK
<1>9. ASSUME NEW t \in Threads, ClientThread(t) PROVE TypeOK'
  <2>1. call[t].result \in Results
    BY <1>9 DEF TypeOK, CallRecord
  <2>2. CASE CheckSystemPermission(t)
    BY <1>1, <2>2 DEF CheckSystemPermission, serviceVars, clientVars, TypeOK
  <2>3. CASE GetProxy(t)
    BY <1>1, <2>3 DEF GetProxy, serviceVars, TypeOK
  <2>4. CASE AddRecipient(t)
    <3>1. call[t].instance \in 1..instances
      BY <1>9, <2>4 DEF AddRecipient, InstanceKnown
    <3>2. /\ proxy' \in 0..instances /\ recipients' \subseteq 1..instances
          /\ UNCHANGED <<token, serviceVars, notices, calls, thrown>> /\ mutex' = NoThread
      BY <1>2, <2>4, <3>1 DEF AddRecipient, TypeOK
    <3>3. QED
      BY <1>1, <3>2 DEF serviceVars, TypeOK
  <2>5. CASE SendRequest(t)
    BY <1>1, <2>5 DEF SendRequest, serviceVars, clientVars, TypeOK
  <2>6. CASE Return(t)
    <3>1. thrown' \in [Threads -> Results \cup {RESULT_CODE_FAIL}]
      BY <2>1, <2>6, ThrownType DEF Return, TypeOK
    <3>2. QED
      BY <1>1, <2>6, <3>1 DEF Return, serviceVars, clientVars, TypeOK
  <2>7. QED
    BY <1>9, <2>2, <2>3, <2>4, <2>5, <2>6 DEF ClientThread
<1>10. ASSUME NEW t \in Threads, NEW api, NEW text \in Inputs, SetSurfaceId(t, api, text) PROVE TypeOK'
  <2>1. calls' \in [Threads -> 0..MaxCalls]
    <3>1. /\ calls \in [Threads -> 0..MaxCalls] /\ calls[t] < MaxCalls
          /\ calls' = [calls EXCEPT ![t] = @ + 1]
      BY <1>10 DEF SetSurfaceId, TypeOK
    <3>2. QED
      BY <1>10, <3>1, ClientConstants
  <2>2. thrown' \in [Threads -> Results \cup {RESULT_CODE_FAIL}]
    <3>1. 0 \in Results \cup {RESULT_CODE_FAIL}
      BY StepsAndResults
    <3>2. thrown \in [Threads -> Results \cup {RESULT_CODE_FAIL}] /\ thrown' = [thrown EXCEPT ![t] = 0]
      BY <1>10 DEF SetSurfaceId, TypeOK
    <3>3. QED
      BY <1>10, <3>1, <3>2
  <2>3. QED
    BY <1>1, <1>10, <2>1, <2>2 DEF SetSurfaceId, serviceVars, clientVars, TypeOK
<1>11. CASE UNCHANGED vars
  BY <1>1, <1>11 DEF vars, serviceVars, clientVars, TypeOK
<1>12. QED
  BY <1>5, <1>6, <1>7, <1>8, <1>9, <1>10, <1>11 DEF Next, Serves

(* The variables of the client, the service and the driver keep their      *)
(* types; in particular a recipient is only ever added to an instance of   *)
(* the service that exists, though the proxy is chosen before and added    *)
(* after the unlocked look-up of the remote object.                        *)
THEOREM ClientTypeCorrect == Spec => []TypeOK
<1>1. Init => TypeOK /\ InstanceKnown
  BY ClientInit
<1>2. TypeOK /\ InstanceKnown /\ [Next]_vars => (TypeOK /\ InstanceKnown)'
  BY TypeStep, InstanceKnownStep
<1>3. QED
  BY <1>1, <1>2, PTL DEF Spec

-------------------------------------------------------------------------------
(* The cached proxy.                                                       *)

(* A cached proxy stands for the running instance, with a recipient on it, *)
(* or the notice of its death is on its way.                               *)
ProxyWatched == proxy # 0 => proxy \in notices \/ (proxy = running /\ proxy \in recipients)

LEMMA ProxyWatchedStep == TypeOK /\ ProxyWatched /\ [Next]_vars => ProxyWatched'
<1> SUFFICES ASSUME TypeOK, ProxyWatched, [Next]_vars PROVE ProxyWatched'
  OBVIOUS
<1> USE DEF ProxyWatched, serviceVars, clientVars
<1>1. CASE Processes
  BY <1>1 DEF Processes, OnStart, DriverStarts, DriverDies, DriverTakesOrphan
<1>2. CASE Dies
  BY <1>2 DEF Dies, ServiceDies
<1>3. ASSUME NEW i \in notices, OnRemoteDied(i) PROVE ProxyWatched'
  BY <1>3 DEF OnRemoteDied
<1>4. ASSUME NEW t \in Threads, ClientThread(t) PROVE ProxyWatched'
  BY <1>4 DEF ClientThread, Return, CheckSystemPermission, GetProxy, AddRecipient, SendRequest
<1>5. ASSUME NEW t \in Threads, Serves(t) PROVE ProxyWatched'
  BY <1>5 DEF Serves, ServiceThread, SetBufferProducer, DriverSetBufferProducer, Reply
<1>6. ASSUME NEW t \in Threads, NEW api, NEW text, SetSurfaceId(t, api, text) PROVE ProxyWatched'
  BY <1>6 DEF SetSurfaceId
<1>7. CASE UNCHANGED vars
  BY <1>7 DEF vars
<1>8. QED
  BY <1>1, <1>2, <1>3, <1>4, <1>5, <1>6, <1>7 DEF Next

(* A client is never left with the proxy of a service that has died: the   *)
(* recipient is added before the proxy is kept (FaceAuthClientImpl::       *)
(* GetProxy), adding it to a dead object is an error, and the notice only  *)
(* drops the proxy it is about (ResetProxy).                               *)
THEOREM StaleProxyCorrect == Spec => []StaleProxyNoticed
<1>1. Init => ProxyWatched
  BY DEF Init, ProxyWatched
<1>2. ProxyWatched => StaleProxyNoticed
  BY DEF ProxyWatched, StaleProxyNoticed
<1>3. QED
  BY <1>1, <1>2, ProxyWatchedStep, ClientTypeCorrect, PTL DEF Spec

-------------------------------------------------------------------------------
(* Results.                                                                *)

Entitled == token.permitted /\ (token.hap => token.system)

(* What a result, kept in the call or thrown, says of the call.            *)
Truthful(t, result) ==
    /\ result = FACE_AUTH_SUCCESS => call[t].taken
    /\ result = FACE_AUTH_CHECK_PERMISSION_FAILED => ~call[t].taken /\ ~token.permitted
    /\ result = FACE_AUTH_CHECK_SYSTEM_PERMISSION_FAILED => ~call[t].taken /\ token.hap /\ ~token.system

(* The invariant behind ResultTruthful: nothing is taken before the driver *)
(* has been reached, which needs both permissions, what is taken is the    *)
(* caller's or null, and from the answer on the result is true of the call. *)
CallTruthful(t) ==
    /\ call[t].buffer \in {call[t].producer, NoProducer}
    /\ call[t].pc \in {"check", "proxy", "recipient", "send", "request", "driver"} => ~call[t].taken
    /\ call[t].pc = "driver" \/ call[t].taken => Entitled
    /\ call[t].pc \in {"reply", "done"} => Truthful(t, call[t].result)
    /\ call[t].pc = "idle" /\ calls[t] > 0 => Truthful(t, thrown[t])

AllTruthful == \A t \in Threads : CallTruthful(t)

(* The application's token does not change.                                *)
LEMMA TokenFixed == [Next]_vars => token' = token
BY DEF Next, vars, Processes, OnStart, DriverStarts, DriverDies, DriverTakesOrphan, Dies, ServiceDies, OnRemoteDied,
       ClientThread, Return, CheckSystemPermission, GetProxy, AddRecipient, SendRequest,
       Serves, ServiceThread, SetBufferProducer, DriverSetBufferProducer, Reply, SetSurfaceId

LEMMA TruthfulStep == TypeOK /\ AllTruthful /\ [Next]_vars => AllTruthful'
<1> SUFFICES ASSUME TypeOK, AllTruthful, [Next]_vars, NEW t \in Threads PROVE CallTruthful(t)'
  BY DEF AllTruthful
<1>1. call \in [Threads -> CallRecord] /\ call[t] \in CallRecord
  BY DEF TypeOK
<1>2. CallTruthful(t)
  BY DEF AllTruthful
<1>3. token' = token
  BY TokenFixed
<1> USE DEF CallTruthful, Truthful, Entitled, CallRecord, FACE_AUTH_SUCCESS, FACE_AUTH_ERROR,
            FACE_AUTH_CHECK_PERMISSION_FAILED, FACE_AUTH_CHECK_SYSTEM_PERMISSION_FAILED
<1>4. CASE call'[t] = call[t] /\ RestUnchanged(t)
  BY <1>2, <1>3, <1>4 DEF RestUnchanged
<1>5. CASE ServiceDeath(t)
  BY <1>1, <1>2, <1>3, <1>5 DEF ServiceDeath
<1>6. CASE DriverDeath(t)
  BY <1>1, <1>2, <1>3, <1>6 DEF DriverDeath
<1>7. CASE SetBufferProducer(t)
  BY <1>1, <1>2, <1>3, <1>7 DEF SetBufferProducer, ReadProducer, Answers
<1>8. CASE DriverSetBufferProducer(t)
  BY <1>1, <1>2, <1>3, <1>8 DEF DriverSetBufferProducer, Answers
<1>9. CASE Reply(t)
  BY <1>1, <1>2, <1>3, <1>9 DEF Reply, Ends
<1>10. CASE CheckSystemPermission(t)
  BY <1>1, <1>2, <1>3, <1>10 DEF CheckSystemPermission, Moves, Ends
<1>11. CASE GetProxy(t)
  BY <1>1, <1>2, <1>3, <1>11 DEF GetProxy, Ends
<1>12. CASE AddRecipient(t)
  BY <1>1, <1>2, <1>3, <1>12 DEF AddRecipient, Moves, Ends
<1>13. CASE SendRequest(t)
  BY <1>1, <1>2, <1>3, <1>13 DEF SendRequest, Moves, Ends
<1>14. CASE Return(t)
  <2>1. /\ thrown'[t] = BusinessError(call[t].result) /\ call'[t].pc = "idle" /\ call'[t].taken = call[t].taken
        /\ call'[t].buffer = call[t].buffer /\ call'[t].producer = call[t].producer
    BY <1>1, <1>14 DEF Return, Moves, TypeOK
  <2>2. Truthful(t, call[t].result)
    BY <1>2, <1>14 DEF Return
  <2>3. call[t].result \in Results
    BY <1>1
  <2>4. Truthful(t, BusinessError(call[t].result))
    BY <2>2, <2>3 DEF BusinessError, RESULT_CODE_FAIL, Results
  <2>5. QED
    BY <1>2, <1>3, <2>1, <2>4
<1>15. ASSUME NEW api, NEW text, SetSurfaceId(t, api, text) PROVE CallTruthful(t)'
  <2>1. ASSUME NEW p, call' = [call EXCEPT ![t] = [IdleCall EXCEPT !.pc = "check", !.producer = p]]
        PROVE  CallTruthful(t)'
    BY <1>1, <2>1 DEF IdleCall
  <2>2. ASSUME call' = [call EXCEPT ![t] = [IdleCall EXCEPT !.pc = "done", !.result = FACE_AUTH_ERROR]]
        PROVE  CallTruthful(t)'
    BY <1>1, <2>2 DEF IdleCall
  <2>3. QED
    BY <1>15, <2>1, <2>2 DEF SetSurfaceId
<1>16. QED
  BY <1>4, <1>5, <1>6, <1>7, <1>8, <1>9, <1>10, <1>11, <1>12, <1>13, <1>14, <1>15, OneCall
  DEF ClientThread, ServiceThread

(* setSurfaceId never tells an application that it worked when the driver  *)
(* has taken nothing, or the producer of another call, nor that a          *)
(* permission is missing when it is not, and the driver is never reached   *)
(* for a token without both rights: for any number of threads and deaths   *)
(* between any two steps of the call.  That the driver has the caller's    *)
(* own producer is not promised: the stub takes one that it cannot read    *)
(* for the null producer.                                                  *)
THEOREM ResultCorrect == Spec => []ResultTruthful
<1>1. Init => AllTruthful
  BY DEF Init, ServiceInit, IdleCall, AllTruthful, CallTruthful
<1>2. AllTruthful => ResultTruthful
  BY DEF AllTruthful, CallTruthful, Truthful, Entitled, ResultTruthful, FACE_AUTH_SUCCESS,
         FACE_AUTH_CHECK_PERMISSION_FAILED, FACE_AUTH_CHECK_SYSTEM_PERMISSION_FAILED
<1>3. QED
  BY <1>1, <1>2, TruthfulStep, ClientTypeCorrect, PTL DEF Spec
===============================================================================
