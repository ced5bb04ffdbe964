---------------------------- MODULE FaceAuthService ---------------------------
(***************************************************************************)
(* The service's side of SetBufferProducer: FaceAuthStub, FaceAuthService  *)
(* and FaceAuthDriverHdi::SetBufferProducer, called by Threads of one      *)
(* application.  The service's process may die and be started again, so    *)
(* may the driver's; a call that has reached the driver is carried out     *)
(* there even when the service has died meanwhile.                         *)
(***************************************************************************)
EXTENDS Naturals, FiniteSets

CONSTANTS Threads, Producers,
          NoProducer,        \* the null pointer: the preview is given up
          Tokens,            \* tokens the application may hold
          MaxInstances,      \* bound: times the service is started
          MaxDriverDeaths    \* bound: times the driver dies

(* What the access token kit says of a token: it is a HAP's, a system      *)
(* application's, and has ohos.permission.MANAGE_USER_IDM.                 *)
Token == [hap : BOOLEAN, system : BOOLEAN, permitted : BOOLEAN]

ASSUME ServiceAssumption ==
    /\ NoProducer \notin Producers
    /\ Tokens \subseteq Token
    /\ MaxInstances \in Nat /\ MaxDriverDeaths \in Nat

FACE_AUTH_SUCCESS == 0
FACE_AUTH_ERROR == 1
FACE_AUTH_CHECK_PERMISSION_FAILED == 201
FACE_AUTH_CHECK_SYSTEM_PERMISSION_FAILED == 202

Results == {FACE_AUTH_SUCCESS, FACE_AUTH_ERROR, FACE_AUTH_CHECK_PERMISSION_FAILED,
            FACE_AUTH_CHECK_SYSTEM_PERMISSION_FAILED}

VARIABLES
    token,         \* the application's token
    running,       \* the instance of the service that runs, 0: none
    instances,     \* instances started so far
    driverUp,      \* the driver runs
    driverDeaths,  \* times it has died
    shown,         \* the producer the driver draws on
    orphans,       \* buffers of calls whose service died while the driver had them
    call           \* each thread's call

serviceVars == <<running, instances, driverUp, driverDeaths, shown, orphans>>

(* A call: where it is, the producer its caller passed, the buffer the     *)
(* stub has read of it, the instance it was sent to, its result, and       *)
(* whether the driver has taken the buffer.                                *)
IdleCall == [pc |-> "idle", producer |-> NoProducer, buffer |-> NoProducer,
             instance |-> 0, result |-> FACE_AUTH_SUCCESS, taken |-> FALSE]

ServiceInit ==
    /\ token \in Tokens
    /\ running = 0
    /\ instances = 0
    /\ driverUp \in BOOLEAN
    /\ driverDeaths = 0
    /\ shown = NoProducer
    /\ orphans = {}
    /\ call = [t \in Threads |-> IdleCall]

Moves(t, pc) == call' = [call EXCEPT ![t].pc = pc]
Ends(t, result) == call' = [call EXCEPT ![t].pc = "done", ![t].result = result]
Answers(t, result) == call' = [call EXCEPT ![t].pc = "reply", ![t].result = result]

-------------------------------------------------------------------------------
(* Processes that come and go.                                             *)

(* OnStart: the driver manager is started, the service published.          *)
OnStart ==
    /\ running = 0
    /\ instances < MaxInstances
    /\ instances' = instances + 1
    /\ running' = instances + 1
    /\ UNCHANGED <<token, driverUp, driverDeaths, shown, orphans, call>>

(* The death of the service fails the calls it has not answered.           *)
InService(t) == call[t].pc \in {"request", "driver", "reply"} /\ call[t].instance = running

ServiceDies ==
    /\ running # 0
    /\ running' = 0
    /\ orphans' = orphans \cup {call[t].buffer : t \in {u \in Threads : InService(u) /\ call[u].pc = "driver"}}
    /\ call' = [t \in Threads |-> IF InService(t)
                                  THEN [call[t] EXCEPT !.pc = "done", !.result = FACE_AUTH_ERROR]
                                  ELSE call[t]]
    /\ UNCHANGED <<token, instances, driverUp, driverDeaths, shown>>

DriverStarts ==
    /\ ~driverUp
    /\ driverUp' = TRUE
    /\ UNCHANGED <<token, running, instances, driverDeaths, shown, orphans, call>>

(* The driver's death fails the call it has; its producer is gone.         *)
DriverDies ==
    /\ driverUp
    /\ driverDeaths < MaxDriverDeaths
    /\ driverUp' = FALSE
    /\ driverDeaths' = driverDeaths + 1
    /\ shown' = NoProducer
    /\ orphans' = {}
    /\ call' = [t \in Threads |-> IF call[t].pc = "driver"
                                  THEN [call[t] EXCEPT !.pc = "reply", !.result = FACE_AUTH_ERROR]
                                  ELSE call[t]]
    /\ UNCHANGED <<token, running, instances>>

-------------------------------------------------------------------------------
(* The handler of a request, one at a time: the stub is serial and the     *)
(* service holds mutex_.                                                   *)

(* What FaceAuthSetBufferProducer may read of the producer that was sent:  *)
(* a remote object that cannot be read is null, and the stub takes that    *)
(* for the null producer.                                                  *)
ReadProducer(producer) == {producer, NoProducer}

(* OnRemoteRequest, FaceAuthSetBufferProducer and SetBufferProducer up to  *)
(* the driver.  A descriptor that does not match, a remote object that is  *)
(* not a producer's and a driver that is not there are errors.             *)
SetBufferProducer(t) ==
    /\ call[t].pc = "request"
    /\ \A u \in Threads : call[u].pc # "driver"
    /\ \/ token.hap /\ ~token.system /\ Answers(t, FACE_AUTH_CHECK_SYSTEM_PERMISSION_FAILED)
       \/ (token.hap => token.system) /\ ~token.permitted /\ Answers(t, FACE_AUTH_CHECK_PERMISSION_FAILED)
       \/ /\ (token.hap => token.system) /\ token.permitted /\ driverUp
          /\ \E p \in ReadProducer(call[t].producer) :
                call' = [call EXCEPT ![t].pc = "driver", ![t].buffer = p]
       \/ Answers(t, FACE_AUTH_ERROR)
    /\ UNCHANGED <<token, serviceVars>>

(* The driver takes the buffer, or refuses it.                             *)
DriverSetBufferProducer(t) ==
    /\ call[t].pc = "driver"
    /\ \/ /\ shown' = call[t].buffer
          /\ call' = [call EXCEPT ![t].pc = "reply", ![t].result = FACE_AUTH_SUCCESS, ![t].taken = TRUE]
       \/ /\ Answers(t, FACE_AUTH_ERROR)
          /\ UNCHANGED shown
    /\ UNCHANGED <<token, running, instances, driverUp, driverDeaths, orphans>>

(* The driver takes the buffer of a call nobody waits for any more.        *)
DriverTakesOrphan ==
    /\ \E p \in orphans : shown' = p /\ orphans' = orphans \ {p}
    /\ UNCHANGED <<token, running, instances, driverUp, driverDeaths, call>>

(* The reply is written and read, or the write fails.                      *)
Reply(t) ==
    /\ call[t].pc = "reply"
    /\ Ends(t, call[t].result) \/ Ends(t, FACE_AUTH_ERROR)
    /\ UNCHANGED <<token, serviceVars>>

ServiceThread(t) == SetBufferProducer(t) \/ DriverSetBufferProducer(t) \/ Reply(t)
===============================================================================
