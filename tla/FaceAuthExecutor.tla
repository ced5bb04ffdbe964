--------------------------- MODULE FaceAuthExecutor ---------------------------
(***************************************************************************)
(* FaceAuthAllInOneExecutorHdi, through which the framework asks the       *)
(* driver, and FaceAuthExecutorCallbackHdi, through which the driver       *)
(* reports.  Every request goes through the same stages; the driver may    *)
(* report before the request returns, after it has refused it, more than   *)
(* once, or not at all, and may die at any moment.  Codes of the framework *)
(* (UserAuth::ResultCode) that have the name of a driver's code have its   *)
(* number here.  (OnRegisterFinish and OnHdiDisconnect are FaceAuthDriver's.) *)
(***************************************************************************)
EXTENDS Naturals, Sequences, FiniteSets

CONSTANTS Requests,
          Kinds,         \* kinds of request the framework makes
          Modes,         \* modes of SendCommand
          KeyLists,      \* lists of keys of GetProperty
          Codes,         \* result codes the driver reports
          MaxReports     \* bound: reports of the driver for a request

CallbackKinds == {"Enroll", "Authenticate", "Identify", "SendCommand"}
PlainKinds == {"GetExecutorInfo", "SendMessage", "Delete", "Cancel", "GetProperty", "SetCachedTemplates"}

ASSUME ExecutorAssumption ==
    /\ Kinds \subseteq CallbackKinds \cup PlainKinds
    /\ KeyLists \subseteq Seq(STRING)
    /\ Codes \subseteq Nat
    /\ MaxReports \in Nat

SUCCESS == 0
FAIL == 1
GENERAL_ERROR == 2
TIMEOUT == 4
BUSY == 7
INVALID_PARAMETERS == 8
OPERATION_NOT_SUPPORT == 11
VENDOR_RESULT_CODE_BEGIN == 10000

-------------------------------------------------------------------------------
(* Conversions.                                                            *)

(* Mutant: the default is the first entry of the table.                    *)
ConvertResultCodeDefault(in) ==
    IF in > VENDOR_RESULT_CODE_BEGIN \/ in \in {0, 1, 2, 3, 4, 7, 8, 9, 10} THEN in ELSE SUCCESS

(* FaceAuthExecutorCallbackHdi::ConvertResultCode: what a reported code is *)
(* for the framework.                                                      *)
ConvertResultCode(in) ==
    IF in > VENDOR_RESULT_CODE_BEGIN \/ in \in {0, 1, 2, 3, 4, 7, 8, 9, 10} THEN in
    ELSE IF in = OPERATION_NOT_SUPPORT THEN FAIL
    ELSE GENERAL_ERROR

HdfStatus == {"HDF_SUCCESS", "HDF_FAILURE", "HDF_ERR_TIMEOUT", "HDF_ERR_QUEUE_FULL",
              "HDF_ERR_DEVICE_BUSY", "other"}

(* FaceAuthAllInOneExecutorHdi::ConvertResultCode: what the status of a    *)
(* call of the driver is for the framework.                                *)
ConvertStatus(in) ==
    CASE in = "HDF_SUCCESS" -> SUCCESS
      [] in = "HDF_ERR_TIMEOUT" -> TIMEOUT
      [] in \in {"HDF_ERR_QUEUE_FULL", "HDF_ERR_DEVICE_BUSY"} -> BUSY
      [] OTHER -> GENERAL_ERROR

(* ConvertCommandId: the driver's command, "none" when there is none.  A   *)
(* mode above VENDOR_COMMAND_BEGIN is passed on as it is.                  *)
ConvertCommandId(mode) ==
    CASE mode = "PROPERTY_INIT_ALGORITHM" -> "INIT_ALGORITHM"
      [] mode = "PROPERTY_MODE_FREEZE" -> "LOCK_TEMPLATE"
      [] mode = "PROPERTY_MODE_UNFREEZE" -> "UNLOCK_TEMPLATE"
      [] mode = "VENDOR_COMMAND_BEGIN + 1" -> mode
      [] OTHER -> "none"

PropertyType ==
    [ATTR_PIN_SUB_TYPE |-> "AUTH_SUB_TYPE", ATTR_FREEZING_TIME |-> "LOCKOUT_DURATION",
     ATTR_REMAIN_TIMES |-> "REMAIN_ATTEMPTS", ATTR_ENROLL_PROGRESS |-> "ENROLL_PROGRESS",
     ATTR_SENSOR_INFO |-> "SENSOR_INFO"]

(* Mutant: a key without a type is skipped, as the camera's is.            *)
ConvertKeySkipping(acc, key) ==
    IF key \in DOMAIN PropertyType THEN [acc EXCEPT !.types = Append(@, PropertyType[key])] ELSE acc

(* ConvertAttributeKeyVectorToPropertyType, for a key: the first that has  *)
(* no type ends it; the camera's status is not the driver's business.      *)
ConvertKey(acc, key) ==
    IF ~acc.ok \/ key = "ATTR_CAMERA_STATUS" THEN acc
    ELSE IF key \in DOMAIN PropertyType THEN [acc EXCEPT !.types = Append(@, PropertyType[key])]
    ELSE [acc EXCEPT !.ok = FALSE]

PropertyTypes(keys) ==
    LET after[n \in 0..Len(keys)] ==
          IF n = 0 THEN [ok |-> TRUE, types |-> <<>>] ELSE ConvertKey(after[n - 1], keys[n])
    IN  after[Len(keys)]

(* MoveHdiExecutorInfo: a driver may describe an executor by a role, a     *)
(* type and a security level that the framework knows or does not know.    *)
ExecutorInfos == [role : {"COLLECTOR", "VERIFIER", "ALL_IN_ONE", "other"}, authType : {"FACE", "other"},
                  esl : {"ESL0", "ESL1", "ESL2", "ESL3", "other"}]

MoveHdiExecutorInfo(info) ==
    IF "other" \in {info.role, info.authType, info.esl} THEN GENERAL_ERROR ELSE SUCCESS

(* MoveHdiProperty: the camera's status is filled in when it is asked for. *)
MoveHdiProperty(keys) == \E i \in DOMAIN keys : keys[i] = "ATTR_CAMERA_STATUS"

-------------------------------------------------------------------------------
VARIABLES
    up,            \* the driver runs
    req,           \* each request
    asked,         \* requests whose callback the driver has
    sent,          \* history: what the driver has reported on each request
    told,          \* what the framework's callback has been told
    report,        \* the report of each request that is under way
    vibrations     \* times the phone has vibrated for each request

vars == <<up, req, asked, sent, told, report, vibrations>>

(* A request: its stage, its arguments, what the driver was asked for,     *)
(* what the framework got.                                                 *)
NoRequest == [pc |-> "none", kind |-> "none", mode |-> "none", keys |-> <<>>, types |-> <<>>,
              camera |-> FALSE, result |-> SUCCESS]

NoReport == [pc |-> "none", what |-> "none", code |-> 0]

Init ==
    /\ up = TRUE
    /\ req = [r \in Requests |-> NoRequest]
    /\ asked = {}
    /\ sent = [r \in Requests |-> <<>>]
    /\ told = [r \in Requests |-> <<>>]
    /\ report = [r \in Requests |-> NoReport]
    /\ vibrations = [r \in Requests |-> 0]

(* What is refused before the driver is asked, with the error; SUCCESS:    *)
(* nothing.                                                                *)
Refusal(kind, callback, mode, keys) ==
    CASE kind \in CallbackKinds /\ ~callback -> GENERAL_ERROR
      [] kind = "SendCommand" /\ ConvertCommandId(mode) = "none" -> INVALID_PARAMETERS
      [] kind = "GetProperty" /\ ~PropertyTypes(keys).ok -> GENERAL_ERROR
      [] OTHER -> SUCCESS

(* A request of the framework, to the call of the driver.                  *)
Request(r, kind, callback, mode, keys) ==
    LET refusal == Refusal(kind, callback, mode, keys)
        this == [NoRequest EXCEPT !.kind = kind, !.mode = mode, !.keys = keys]
    IN
    /\ req[r].pc = "none"
    /\ \/ /\ refusal # SUCCESS
          /\ req' = [req EXCEPT ![r] = [this EXCEPT !.pc = "returned", !.result = refusal]]
          /\ UNCHANGED asked
       \/ /\ refusal = SUCCESS
          /\ req' = [req EXCEPT ![r] = [this EXCEPT !.pc = "driver",
                                                    !.mode = ConvertCommandId(mode),
                                                    !.types = PropertyTypes(keys).types]]
          /\ asked' = IF up /\ kind \in CallbackKinds THEN asked \cup {r} ELSE asked
    /\ UNCHANGED <<up, sent, told, report, vibrations>>

(* The driver's call returns; a call of a driver that has died fails.      *)
Returns(r, status, info) ==
    LET result == IF ConvertStatus(status) = SUCCESS /\ req[r].kind = "GetExecutorInfo"
                  THEN MoveHdiExecutorInfo(info) ELSE ConvertStatus(status)
    IN
    /\ req[r].pc = "driver"
    /\ ~up => status = "other"
    /\ req' = [req EXCEPT ![r].pc = "returned", ![r].result = result,
                          ![r].camera = /\ req[r].kind = "GetProperty"
                                        /\ result = SUCCESS
                                        /\ MoveHdiProperty(req[r].keys)]
    /\ UNCHANGED <<up, asked, sent, told, report, vibrations>>

-------------------------------------------------------------------------------
(* The driver reports, one report of a request after the other.            *)
Reports(r, what, code) ==
    /\ up
    /\ r \in asked
    /\ report[r].pc = "none"
    /\ Len(sent[r]) < MaxReports
    /\ sent' = [sent EXCEPT ![r] = Append(@, [what |-> what, code |-> code])]
    /\ report' = [report EXCEPT ![r] = [pc |-> "called", what |-> what, code |-> code]]
    /\ UNCHANGED <<up, req, asked, told, vibrations>>

(* Mutant: the vibrator is used for every request.                         *)
DoVibratorAlways(r) ==
    /\ report[r].pc = "called" /\ report[r].what = "result"
    /\ ConvertResultCode(report[r].code) = FAIL
    /\ \/ vibrations' = [vibrations EXCEPT ![r] = @ + 1]
       \/ UNCHANGED vibrations
    /\ report' = [report EXCEPT ![r].pc = "tell"]
    /\ UNCHANGED <<up, req, asked, sent, told>>

(* The first half of OnResult, when an authentication has failed: the      *)
(* effect may not be supported, and each of the calls may fail.            *)
DoVibrator(r) ==
    /\ report[r].pc = "called" /\ report[r].what = "result"
    /\ req[r].kind = "Authenticate" /\ ConvertResultCode(report[r].code) = FAIL
    /\ \/ vibrations' = [vibrations EXCEPT ![r] = @ + 1]
       \/ UNCHANGED vibrations
    /\ report' = [report EXCEPT ![r].pc = "tell"]
    /\ UNCHANGED <<up, req, asked, sent, told>>

Tells(r, code) ==
    /\ told' = [told EXCEPT ![r] = Append(@, [what |-> report[r].what, code |-> code])]
    /\ report' = [report EXCEPT ![r] = NoReport]
    /\ UNCHANGED <<up, req, asked, sent, vibrations>>

(* The rest of OnResult.                                                   *)
OnResult(r) ==
    /\ report[r].what = "result"
    /\ \/ report[r].pc = "tell"
       \/ /\ report[r].pc = "called"
          /\ ~(req[r].kind = "Authenticate" /\ ConvertResultCode(report[r].code) = FAIL)
    /\ Tells(r, ConvertResultCode(report[r].code))

OnTip(r) == report[r].what = "tip" /\ Tells(r, report[r].code)

OnMessage(r) == report[r].what = "message" /\ Tells(r, report[r].code)

DriverDies ==
    /\ up
    /\ up' = FALSE
    /\ UNCHANGED <<req, asked, sent, told, report, vibrations>>

Next ==
    \/ DriverDies
    \/ \E r \in Requests :
          \/ \E kind \in Kinds, callback \in BOOLEAN :
                \E mode \in IF kind = "SendCommand" THEN Modes ELSE {"none"} :
                \E keys \in IF kind = "GetProperty" THEN KeyLists ELSE {<<>>} :
                   Request(r, kind, callback, mode, keys)
          \/ \E status \in HdfStatus, info \in ExecutorInfos : Returns(r, status, info)
          \/ \E code \in Codes : Reports(r, "result", code)
          \/ \E what \in {"tip", "message"} : Reports(r, what, 0)
          \/ DoVibrator(r) \/ OnResult(r) \/ OnTip(r) \/ OnMessage(r)

Spec == Init /\ [][Next]_vars

-------------------------------------------------------------------------------
(* The framework is told of every report, once and in the driver's order,  *)
(* but for the one under way, and of a success exactly when the driver     *)
(* reported one: no vendor's, undefined or unsupported code becomes one.   *)
ToldFaithfully ==
    \A r \in Requests :
        /\ Len(told[r]) = Len(sent[r]) - (IF report[r].pc = "none" THEN 0 ELSE 1)
        /\ \A i \in DOMAIN told[r] :
              /\ told[r][i].what = sent[r][i].what
              /\ told[r][i].what = "result" =>
                    (told[r][i].code = SUCCESS <=> sent[r][i].code = SUCCESS)

(* The phone vibrates for nothing but a result by which an authentication  *)
(* failed, at most once for each.                                          *)
VibratesForFailure ==
    \A r \in Requests :
        vibrations[r] <= Cardinality({i \in DOMAIN sent[r] :
            /\ req[r].kind = "Authenticate"
            /\ sent[r][i].what = "result"
            /\ sent[r][i].code \in {FAIL, OPERATION_NOT_SUPPORT}})

Wanted(keys) == {i \in DOMAIN keys : keys[i] # "ATTR_CAMERA_STATUS"}
Rank(i, set) == Cardinality({j \in set : j <= i})

(* The driver is asked for the properties that were asked for, in order,   *)
(* and for nothing else; a list with a key it has none for is an error.    *)
PropertiesAsked ==
    \A r \in Requests : req[r].kind = "GetProperty" =>
        LET keys == req[r].keys
            wanted == Wanted(keys)
            all == \A i \in wanted : keys[i] \in DOMAIN PropertyType
        IN  /\ all => /\ Len(req[r].types) = Cardinality(wanted)
                      /\ \A i \in wanted : req[r].types[Rank(i, wanted)] = PropertyType[keys[i]]
            /\ req[r].camera => req[r].result = SUCCESS
            /\ ~all => req[r].result # SUCCESS
===============================================================================
