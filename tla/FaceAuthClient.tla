---------------------------- MODULE FaceAuthClient ----------------------------
(***************************************************************************)
(* The application's side of setSurfaceId: the JavaScript (NAPI) and ETS   *)
(* (ANI) bindings, FaceAuthClientImpl with its cached proxy, and           *)
(* FaceAuthProxy, on top of the service.                                   *)
(*                                                                         *)
(* A text is what the bindings can make of a surface id's characters: a    *)
(* record of its kind, its number, and the number that its first 24        *)
(* characters spell.  Surface ids are 0 and the producers themselves, and  *)
(* "unknown" for a number that no surface has.                             *)
(***************************************************************************)
EXTENDS FaceAuthService

CONSTANTS NoThread, MaxCalls       \* bound: calls of each thread

SurfaceIds == {"0", "unknown"} \cup Producers

Texts == [kind : {"number"}, id : SurfaceIds, cut : SurfaceIds]
            \cup [kind : {"empty", "letters", "overflow"}]

CONSTANT Inputs          \* the arguments that are passed

ASSUME ClientAssumption ==
    /\ NoThread \notin Threads
    /\ Inputs \subseteq Texts \cup {[kind |-> "no text"]}
    /\ MaxCalls \in Nat

RESULT_CODE_FAIL == 12700001

VARIABLES
    proxy,         \* the instance proxy_ stands for, 0: null
    mutex,         \* who holds FaceAuthClientImpl::mutex_
    recipients,    \* instances that have a recipient of their death
    notices,       \* deaths the application has not been told of yet
    calls,         \* calls each thread has made
    thrown         \* the error code each thread's last call has thrown, 0: none

clientVars == <<proxy, mutex, recipients, notices>>
vars == <<token, serviceVars, call, clientVars, calls, thrown>>

Init ==
    /\ ServiceInit
    /\ proxy = 0
    /\ mutex = NoThread
    /\ recipients = {}
    /\ notices = {}
    /\ calls = [t \in Threads |-> 0]
    /\ thrown = [t \in Threads |-> 0]

-------------------------------------------------------------------------------
(* The bindings.                                                           *)

(* The surface ids SetSurfaceId may read from a text; none: it throws.     *)
(* The JavaScript binding copies 24 characters and refuses what is not a   *)
(* number.  The ETS binding does not look whether the stream has failed:   *)
(* letters leave 0 and a number too large the largest one, but an empty    *)
(* text leaves the variable as it was, which is uninitialized.             *)
ReadSurfaceId(api, text) ==
    CASE text.kind = "number" -> {IF api = "napi" THEN text.cut ELSE text.id}
      [] text.kind = "letters" /\ api = "ets" -> {"0"}
      [] text.kind = "overflow" /\ api = "ets" -> {"unknown"}
      [] text.kind = "empty" /\ api = "ets" -> SurfaceIds
      [] OTHER -> {}

(* Mutant: the surface is not looked up.                                   *)
GetBufferProducerUnchecked(id) == IF id = "0" THEN {NoProducer} ELSE {id}

(* GetBufferProducerBySurfaceId; a surface may also have no producer.      *)
GetBufferProducerBySurfaceId(id) ==
    CASE id = "0" -> {NoProducer}
      [] id = "unknown" -> {}
      [] OTHER -> {id}

(* The code the application sees: GenerateBusinessError, ThrowBusinessError. *)
BusinessError(result) ==
    IF result \in {FACE_AUTH_SUCCESS, FACE_AUTH_CHECK_PERMISSION_FAILED,
                   FACE_AUTH_CHECK_SYSTEM_PERMISSION_FAILED}
    THEN result
    ELSE RESULT_CODE_FAIL

(* SetSurfaceId up to the call of the client, or to an early throw.        *)
SetSurfaceId(t, api, text) ==
    /\ call[t].pc = "idle"
    /\ calls[t] < MaxCalls
    /\ text.kind = "no text" => api = "napi"
    /\ calls' = [calls EXCEPT ![t] = @ + 1]
    /\ thrown' = [thrown EXCEPT ![t] = 0]
    /\ \/ \E id \in ReadSurfaceId(api, text) : \E p \in GetBufferProducerBySurfaceId(id) :
             call' = [call EXCEPT ![t] = [IdleCall EXCEPT !.pc = "check", !.producer = p]]
       \/ /\ \/ ReadSurfaceId(api, text) = {}
             \/ \E id \in ReadSurfaceId(api, text) : id # "0"
          /\ call' = [call EXCEPT ![t] = [IdleCall EXCEPT !.pc = "done", !.result = FACE_AUTH_ERROR]]
    /\ UNCHANGED <<token, serviceVars, clientVars>>

(* The binding returns or throws.                                          *)
Return(t) ==
    /\ call[t].pc = "done"
    /\ thrown' = [thrown EXCEPT ![t] = BusinessError(call[t].result)]
    /\ Moves(t, "idle")
    /\ UNCHANGED <<token, serviceVars, clientVars, calls>>

-------------------------------------------------------------------------------
(* FaceAuthClientImpl and FaceAuthProxy.                                   *)

CheckSystemPermission(t) ==
    /\ call[t].pc = "check"
    /\ IF token.hap /\ ~token.system
       THEN Ends(t, FACE_AUTH_CHECK_SYSTEM_PERMISSION_FAILED) ELSE Moves(t, "proxy")
    /\ UNCHANGED <<token, serviceVars, clientVars, calls, thrown>>

(* GetProxy to the fetch of the remote object; mutex_ is kept after it.    *)
GetProxy(t) ==
    /\ call[t].pc = "proxy"
    /\ mutex = NoThread
    /\ \/ /\ proxy # 0
          /\ call' = [call EXCEPT ![t].pc = "send", ![t].instance = proxy]
          /\ UNCHANGED mutex
       \/ /\ proxy = 0 /\ running # 0
          /\ call' = [call EXCEPT ![t].pc = "recipient", ![t].instance = running]
          /\ mutex' = t
       \/ /\ proxy = 0
          /\ Ends(t, FACE_AUTH_ERROR)
          /\ UNCHANGED mutex
    /\ UNCHANGED <<token, serviceVars, proxy, recipients, notices, calls, thrown>>

(* Mutant: a recipient that could not be added is not an error.            *)
AddRecipientUnchecked(t) ==
    /\ call[t].pc = "recipient"
    /\ proxy' = call[t].instance
    /\ recipients' = IF call[t].instance = running THEN recipients \cup {running} ELSE recipients
    /\ Moves(t, "send")
    /\ mutex' = NoThread
    /\ UNCHANGED <<token, serviceVars, notices, calls, thrown>>

(* Mutant: the error path returns with mutex_ locked.                      *)
AddRecipientLocked(t) ==
    /\ call[t].pc = "recipient"
    /\ \/ /\ call[t].instance = running
          /\ recipients' = recipients \cup {running}
          /\ proxy' = running
          /\ Moves(t, "send")
          /\ mutex' = NoThread
       \/ /\ Ends(t, FACE_AUTH_ERROR)
          /\ UNCHANGED <<recipients, proxy, mutex>>
    /\ UNCHANGED <<token, serviceVars, notices, calls, thrown>>

(* The rest of GetProxy: the recipient is added, which a dead object       *)
(* refuses, and the proxy is kept.                                         *)
AddRecipient(t) ==
    /\ call[t].pc = "recipient"
    /\ \/ /\ call[t].instance = running
          /\ recipients' = recipients \cup {running}
          /\ proxy' = running
          /\ Moves(t, "send")
       \/ /\ Ends(t, FACE_AUTH_ERROR)
          /\ UNCHANGED <<recipients, proxy>>
    /\ mutex' = NoThread
    /\ UNCHANGED <<token, serviceVars, notices, calls, thrown>>

(* Mutant: a request that cannot be sent is taken for one that was answered *)
(* with an empty reply, from which ReadInt32 reads 0.                      *)
SendRequestUnchecked(t) ==
    /\ call[t].pc = "send"
    /\ \/ call[t].instance = running /\ Moves(t, "request")
       \/ Ends(t, FACE_AUTH_SUCCESS)
    /\ UNCHANGED <<token, serviceVars, clientVars, calls, thrown>>

(* FaceAuthProxy::SetBufferProducer and SendRequest: a parcel that cannot  *)
(* be written and an object that is dead are errors.                       *)
SendRequest(t) ==
    /\ call[t].pc = "send"
    /\ \/ call[t].instance = running /\ Moves(t, "request")
       \/ Ends(t, FACE_AUTH_ERROR)
    /\ UNCHANGED <<token, serviceVars, clientVars, calls, thrown>>

(* The application learns of a death it has a recipient for.               *)
Dies ==
    /\ ServiceDies
    /\ recipients' = recipients \ {running}
    /\ notices' = IF running \in recipients THEN notices \cup {running} ELSE notices
    /\ UNCHANGED <<proxy, mutex, calls, thrown>>

(* OnRemoteDied and ResetProxy: only the proxy of the dead object is reset. *)
OnRemoteDied(i) ==
    /\ i \in notices
    /\ mutex = NoThread
    /\ notices' = notices \ {i}
    /\ proxy' = IF proxy = i THEN 0 ELSE proxy
    /\ UNCHANGED <<token, serviceVars, call, mutex, recipients, calls, thrown>>

-------------------------------------------------------------------------------
ClientThread(t) ==
    \/ CheckSystemPermission(t) \/ GetProxy(t) \/ AddRecipient(t) \/ SendRequest(t)
    \/ Return(t)

Serves(t) == ServiceThread(t) /\ UNCHANGED <<clientVars, calls, thrown>>

Processes == (OnStart \/ DriverStarts \/ DriverDies \/ DriverTakesOrphan) /\ UNCHANGED <<clientVars, calls, thrown>>

Next ==
    \/ Processes \/ Dies
    \/ \E i \in notices : OnRemoteDied(i)
    \/ \E t \in Threads : \/ ClientThread(t) \/ Serves(t)
                          \/ \E api \in {"napi", "ets"}, text \in Inputs : SetSurfaceId(t, api, text)

(* Threads run, and the binder delivers the notices of deaths.             *)
Fairness ==
    /\ \A t \in Threads : WF_vars(ClientThread(t) \/ Serves(t))
    /\ WF_vars(\E i \in notices : OnRemoteDied(i))

Spec == Init /\ [][Next]_vars
FairSpec == Spec /\ Fairness

-------------------------------------------------------------------------------
Steps == {"idle", "check", "proxy", "recipient", "send", "request", "driver", "reply", "done"}
CallRecord == [pc : Steps, producer : Producers \cup {NoProducer}, buffer : Producers \cup {NoProducer},
               instance : 0..instances, result : Results, taken : BOOLEAN]

(* Every variable has its type.                                            *)
TypeOK ==
    /\ token \in Tokens
    /\ instances \in 0..MaxInstances /\ running \in 0..instances
    /\ driverUp \in BOOLEAN /\ driverDeaths \in 0..MaxDriverDeaths
    /\ shown \in Producers \cup {NoProducer} /\ orphans \subseteq Producers \cup {NoProducer}
    /\ call \in [Threads -> CallRecord]
    /\ proxy \in 0..instances
    /\ mutex \in Threads \cup {NoThread}
    /\ recipients \subseteq 1..instances /\ notices \subseteq 1..instances
    /\ calls \in [Threads -> 0..MaxCalls]
    /\ thrown \in [Threads -> Results \cup {RESULT_CODE_FAIL}]

(* What setSurfaceId tells the application is what happened: when it       *)
(* throws nothing the driver has taken the caller's producer, or the null  *)
(* producer that the stub takes for one it cannot read, and never that of  *)
(* another call; when it throws one of the permission errors the driver    *)
(* has taken nothing and the token really lacks the right, whatever died   *)
(* meanwhile; no other token is served.                                    *)
ResultTruthful ==
    \A t \in Threads : call[t].pc = "idle" /\ calls[t] > 0 =>
        /\ thrown[t] = 0 => call[t].taken /\ call[t].buffer \in {call[t].producer, NoProducer}
        /\ thrown[t] \in {201, 202} => ~call[t].taken
        /\ thrown[t] = 201 => ~token.permitted
        /\ thrown[t] = 202 => token.hap /\ ~token.system
        /\ call[t].taken => token.permitted /\ (token.hap => token.system)

(* A cached proxy whose service has died is one whose notice is on its way: *)
(* the client is never left with it, and calls fail only until then.       *)
StaleProxyNoticed == proxy # 0 /\ proxy # running => proxy \in notices

(* The client drops the proxy of a service that has died.                  *)
StaleProxyDropped == \A i \in 1..MaxInstances : proxy = i /\ running # i ~> proxy # i

(* setSurfaceId returns, whatever dies while it is under way.              *)
CallsReturn == \A t \in Threads : call[t].pc # "idle" ~> call[t].pc = "idle"
===============================================================================
