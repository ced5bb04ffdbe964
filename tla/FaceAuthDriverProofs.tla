------------------------- MODULE FaceAuthDriverProofs -------------------------
(***************************************************************************)
(* Proofs about SaCommandManager and FaceAuthDriver, for any threads,      *)
(* executors, processors and lists of commands, and any number of starts   *)
(* of the driver.                                                          *)
(***************************************************************************)
EXTENDS FaceAuthDriver, SequenceTheorems, TLAPS

(* What the proofs use of the constants.                                   *)
LEMMA DriverConstants ==
    /\ NoExecutor \notin Executors /\ Framework \notin Threads
    /\ \A p \in Processors : CommandsOf[p] \subseteq Ids
    /\ Lists \subseteq Seq(Ids)
    /\ MaxCalls \in Nat /\ MaxStarts \in Nat
BY CommandAssumption, DriverAssumption

-------------------------------------------------------------------------------
(* Types.                                                                  *)

CallsTyped ==
    /\ call \in [Threads -> CallRecord]
    /\ \A t \in Threads : call[t].at <= Len(call[t].list)

RegistryTyped ==
    /\ processors \subseteq Processors
    /\ known \subseteq Ids
    /\ byCommand \in [Ids -> SUBSET Processors]
    /\ readers \subseteq Threads \cup {Framework}
    /\ calls \in [Threads -> 0..MaxCalls]
    /\ owner \in [Processors -> Executors \cup {NoExecutor}]
    /\ left \subseteq Processors

DriverTyped ==
    /\ up \in BOOLEAN /\ starts \in 0..MaxStarts
    /\ madeBy \in [Executors -> 0..starts]
    /\ registered \subseteq Executors /\ executorList \subseteq Executors
    /\ notices \in Seq({"up", "down"}) /\ fw \in FwRecord
    /\ told \subseteq Executors /\ late \subseteq Executors

LEMMA DriverTypeParts == TypeOK <=> CallsTyped /\ RegistryTyped /\ DriverTyped
BY DEF TypeOK, CallsTyped, RegistryTyped, DriverTyped

(* One call changes, the others do not.                                    *)
OthersUnchanged(t) == \A u \in Threads \ {t} : call'[u] = call[u]

LEMMA OneCallChanges ==
    ASSUME CallsTyped, NEW t \in Threads, NEW c \in CallRecord, c.at <= Len(c.list), call' = [call EXCEPT ![t] = c]
    PROVE  CallsTyped' /\ call'[t] = c /\ OthersUnchanged(t)
<1>1. call' \in [Threads -> CallRecord] /\ call'[t] = c /\ \A u \in Threads \ {t} : call'[u] = call[u]
  BY DEF CallsTyped
<1>2. \A u \in Threads : call'[u].at <= Len(call'[u].list)
  BY <1>1 DEF CallsTyped
<1>3. QED
  BY <1>1, <1>2 DEF CallsTyped, OthersUnchanged

(* A call that is over, and the calls that begin.                          *)
LEMMA IdleCallType == IdleCall \in CallRecord /\ IdleCall.at = 0 /\ IdleCall.list = <<>> /\ Len(<<>>) = 0
                      /\ IdleCall.done = {} /\ IdleCall.pc = "idle" /\ IdleCall.executor = NoExecutor
BY DEF IdleCall, CallRecord

LEMMA RegisterCallStep ==
    ASSUME CallsTyped, NEW t \in Threads, NEW p \in Processors, RegisterCall(t, p) \/ UnregisterCall(t, p)
    PROVE  /\ CallsTyped' /\ OthersUnchanged(t)
           /\ call'[t].pc \in {"register", "unregister"} /\ call'[t].done = {} /\ call'[t].at = 0
           /\ call'[t].executor = NoExecutor
<1> DEFINE c(step) == [IdleCall EXCEPT !.pc = step, !.todo = {p}]
<1>1. ASSUME NEW step \in {"register", "unregister"}
      PROVE  /\ c(step) \in CallRecord /\ c(step).at = 0 /\ c(step).list = <<>> /\ c(step).done = {}
             /\ c(step).pc = step /\ c(step).executor = NoExecutor
  <2>1. {p} \in SUBSET Processors
    OBVIOUS
  <2>2. c(step) \in CallRecord
    BY <1>1, <2>1, IdleCallType DEF CallRecord
  <2>3. QED
    BY <1>1, <2>2 DEF IdleCall
<1>2. PICK step \in {"register", "unregister"} : call' = [call EXCEPT ![t] = c(step)]
  <2>1. call' = [call EXCEPT ![t] = c("register")] \/ call' = [call EXCEPT ![t] = c("unregister")]
    BY DEF RegisterCall, UnregisterCall, Starts
  <2> HIDE DEF c
  <2>2. QED
    BY <2>1
<1> HIDE DEF c
<1>3. c(step).at <= Len(c(step).list)
  BY <1>1, IdleCallType
<1>4. QED
  BY <1>1, <1>2, <1>3, OneCallChanges

LEMMA OnSaCommandsStep ==
    ASSUME CallsTyped, NEW t \in Threads, NEW x \in Executors, NEW l \in Lists, OnSaCommands(t, x, l)
    PROVE  /\ CallsTyped' /\ OthersUnchanged(t)
           /\ call'[t].pc = "lock" /\ call'[t].done = {} /\ call'[t].at = 0 /\ call'[t].executor = x
<1>1. l \in Seq(Ids) /\ Len(l) \in Nat
  BY DriverConstants, LenProperties
<1> DEFINE c == [IdleCall EXCEPT !.pc = "lock", !.executor = x, !.list = l]
<1>2. c \in CallRecord /\ c.at = 0 /\ c.list = l /\ c.done = {} /\ c.pc = "lock" /\ c.executor = x
  BY <1>1 DEF IdleCall, CallRecord
<1>3. call' = [call EXCEPT ![t] = c]
  BY DEF OnSaCommands, Starts
<1> HIDE DEF c
<1>4. c.at <= Len(c.list)
  BY <1>1, <1>2
<1>5. QED
  BY <1>1, <1>2, <1>3, <1>4, OneCallChanges

(* The steps of a call that is under way.                                  *)
LEMMA EndsStep ==
    ASSUME CallsTyped, NEW t \in Threads, call' = [call EXCEPT ![t] = IdleCall]
    PROVE  CallsTyped' /\ OthersUnchanged(t) /\ call'[t] = IdleCall
<1>1. IdleCall.at <= Len(IdleCall.list)
  BY IdleCallType
<1>2. QED
  BY <1>1, IdleCallType, OneCallChanges

LEMMA PcStep ==
    ASSUME CallsTyped, NEW t \in Threads, NEW step \in {"next", "unlock"}, call' = [call EXCEPT ![t].pc = step]
    PROVE  CallsTyped' /\ OthersUnchanged(t) /\ call'[t] = [call[t] EXCEPT !.pc = step]
<1> DEFINE c == [call[t] EXCEPT !.pc = step]
<1>1. call[t] \in CallRecord /\ call[t].at <= Len(call[t].list)
  BY DEF CallsTyped
<1>2. c \in CallRecord /\ c.at = call[t].at /\ c.list = call[t].list
  BY <1>1 DEF CallRecord
<1>3. call' = [call EXCEPT ![t] = c]
  OBVIOUS
<1> HIDE DEF c
<1>4. QED
  BY <1>1, <1>2, <1>3, OneCallChanges DEF c

(* The next command of the list is begun ...                               *)
LEMMA BeginCommandStep ==
    ASSUME CallsTyped, RegistryTyped, NEW t \in Threads, call[t].at < Len(call[t].list),
           call' = [call EXCEPT ![t].pc = "process", ![t].at = @ + 1,
                                ![t].todo = byCommand[call[t].list[call[t].at + 1]]]
    PROVE  /\ CallsTyped' /\ OthersUnchanged(t)
           /\ call'[t] = [call[t] EXCEPT !.pc = "process", !.at = @ + 1,
                                         !.todo = byCommand[call[t].list[call[t].at + 1]]]
<1> DEFINE c == [call[t] EXCEPT !.pc = "process", !.at = @ + 1, !.todo = byCommand[call[t].list[call[t].at + 1]]]
<1>1. /\ call[t] \in CallRecord /\ call[t].list \in Seq(Ids) /\ call[t].at \in Nat
      /\ Len(call[t].list) \in Nat
  BY LenProperties DEF CallsTyped, CallRecord
<1>2. call[t].list[call[t].at + 1] \in Ids
  BY <1>1, ElementOfSeq
<1>3. byCommand[call[t].list[call[t].at + 1]] \in SUBSET Processors
  BY <1>2 DEF RegistryTyped
<1>4. c \in CallRecord /\ c.at = call[t].at + 1 /\ c.list = call[t].list
  <2>1. call[t].at + 1 \in Nat
    BY <1>1
  <2>2. QED
    BY <1>1, <1>3, <2>1 DEF CallRecord
<1>5. call' = [call EXCEPT ![t] = c]
  OBVIOUS
<1>6. c.at <= Len(c.list)
  BY <1>1, <1>4
<1> HIDE DEF c
<1>7. QED
  BY <1>4, <1>5, <1>6, OneCallChanges DEF c

(* ... or is one nobody knows ...                                          *)
LEMMA UnknownCommandStep ==
    ASSUME CallsTyped, NEW t \in Threads, call[t].at < Len(call[t].list),
           call' = [call EXCEPT ![t].pc = "unlock", ![t].at = @ + 1, ![t].ok = FALSE]
    PROVE  /\ CallsTyped' /\ OthersUnchanged(t)
           /\ call'[t] = [call[t] EXCEPT !.pc = "unlock", !.at = @ + 1, !.ok = FALSE]
<1> DEFINE c == [call[t] EXCEPT !.pc = "unlock", !.at = @ + 1, !.ok = FALSE]
<1>1. /\ call[t] \in CallRecord /\ call[t].list \in Seq(Ids) /\ call[t].at \in Nat
      /\ Len(call[t].list) \in Nat
  BY LenProperties DEF CallsTyped, CallRecord
<1>2. c \in CallRecord /\ c.at = call[t].at + 1 /\ c.list = call[t].list
  <2>1. call[t].at + 1 \in Nat
    BY <1>1
  <2>2. QED
    BY <1>1, <2>1 DEF CallRecord
<1>3. call' = [call EXCEPT ![t] = c]
  OBVIOUS
<1>4. c.at <= Len(c.list)
  BY <1>1, <1>2
<1> HIDE DEF c
<1>5. QED
  BY <1>2, <1>3, <1>4, OneCallChanges DEF c

(* ... and is done by a processor ...                                      *)
LEMMA DoneStep ==
    ASSUME CallsTyped, NEW t \in Threads, NEW p \in call[t].todo,
           call' = [call EXCEPT ![t].todo = @ \ {p}, ![t].done = @ \cup {<<call[t].at, p>>}]
    PROVE  /\ CallsTyped' /\ OthersUnchanged(t)
           /\ call'[t] = [call[t] EXCEPT !.todo = @ \ {p}, !.done = @ \cup {<<call[t].at, p>>}]
<1> DEFINE c == [call[t] EXCEPT !.todo = @ \ {p}, !.done = @ \cup {<<call[t].at, p>>}]
<1>1. /\ call[t] \in CallRecord /\ call[t].at \in Nat /\ call[t].at <= Len(call[t].list)
      /\ call[t].todo \in SUBSET Processors /\ call[t].done \in SUBSET (Nat \X Processors)
  BY DEF CallsTyped, CallRecord
<1>2. /\ call[t].todo \ {p} \in SUBSET Processors
      /\ call[t].done \cup {<<call[t].at, p>>} \in SUBSET (Nat \X Processors)
  BY <1>1
<1>3. c \in CallRecord /\ c.at = call[t].at /\ c.list = call[t].list
  BY <1>1, <1>2 DEF CallRecord
<1>4. call' = [call EXCEPT ![t] = c]
  OBVIOUS
<1> HIDE DEF c
<1>5. QED
  BY <1>1, <1>3, <1>4, OneCallChanges DEF c

(* ... or fails.                                                           *)
LEMMA FailsStep ==
    ASSUME CallsTyped, NEW t \in Threads, call' = [call EXCEPT ![t].pc = "unlock", ![t].ok = FALSE]
    PROVE  /\ CallsTyped' /\ OthersUnchanged(t)
           /\ call'[t] = [call[t] EXCEPT !.pc = "unlock", !.ok = FALSE]
<1> DEFINE c == [call[t] EXCEPT !.pc = "unlock", !.ok = FALSE]
<1>1. call[t] \in CallRecord /\ call[t].at <= Len(call[t].list)
  BY DEF CallsTyped
<1>2. c \in CallRecord /\ c.at = call[t].at /\ c.list = call[t].list
  BY <1>1 DEF CallRecord
<1>3. call' = [call EXCEPT ![t] = c]
  OBVIOUS
<1> HIDE DEF c
<1>4. QED
  BY <1>1, <1>2, <1>3, OneCallChanges DEF c

(* The steps of the threads keep the types.                                *)
LEMMA CallsStepType ==
    ASSUME CallsTyped, RegistryTyped, NEW t \in Threads, CallGoesOn(t)
    PROVE  CallsTyped' /\ OthersUnchanged(t)
<1>1. CASE RegisterSaCommandProcessor(t) \/ UnregisterSaCommandProcessor(t) \/ Return(t)
  BY <1>1, EndsStep DEF RegisterSaCommandProcessor, UnregisterSaCommandProcessor, Return
<1>2. CASE LockShared(t)
  BY <1>2, PcStep DEF LockShared
<1>3. CASE NextCommand(t)
  BY <1>3, PcStep, BeginCommandStep, UnknownCommandStep DEF NextCommand
<1>4. CASE ProcessSaCommand(t)
  BY <1>4, PcStep, DoneStep, FailsStep DEF ProcessSaCommand
<1>5. QED
  BY <1>1, <1>2, <1>3, <1>4 DEF CallGoesOn

LEMMA RegistryStepType ==
    ASSUME CallsTyped, RegistryTyped, NEW t \in Threads, CallGoesOn(t)
    PROVE  RegistryTyped'
<1>1. /\ call[t].todo \subseteq Processors /\ call[t].executor \in Executors \cup {NoExecutor}
  BY DEF CallsTyped, CallRecord
<1>2. CASE RegisterSaCommandProcessor(t)
  <2>1. known' \subseteq Ids
    BY <1>1, <1>2, DriverConstants DEF RegisterSaCommandProcessor, RegistryTyped
  <2>2. byCommand' \in [Ids -> SUBSET Processors] /\ processors' \subseteq Processors
    BY <1>1, <1>2 DEF RegisterSaCommandProcessor, RegistryTyped
  <2>3. QED
    BY <1>2, <2>1, <2>2 DEF RegisterSaCommandProcessor, RegistryTyped
<1>3. CASE UnregisterSaCommandProcessor(t)
  <2>1. byCommand' \in [Ids -> SUBSET Processors] /\ processors' \subseteq Processors /\ left' \subseteq Processors
    BY <1>1, <1>3 DEF UnregisterSaCommandProcessor, RegistryTyped
  <2>2. QED
    BY <1>3, <2>1 DEF UnregisterSaCommandProcessor, RegistryTyped
<1>4. CASE LockShared(t) \/ Return(t)
  BY <1>4 DEF LockShared, Return, RegistryTyped, registryVars
<1>5. CASE NextCommand(t)
  BY <1>5 DEF NextCommand, RegistryTyped, registryVars
<1>6. CASE ProcessSaCommand(t)
  <2>1. owner' \in [Processors -> Executors \cup {NoExecutor}]
    BY <1>1, <1>6 DEF ProcessSaCommand, OwnerAfter, RegistryTyped
  <2>2. QED
    BY <1>6, <2>1 DEF ProcessSaCommand, RegistryTyped, registryVars
<1>7. QED
  BY <1>2, <1>3, <1>4, <1>5, <1>6 DEF CallGoesOn

LEMMA StartsType ==
    ASSUME RegistryTyped, NEW t \in Threads, NEW c, Starts(t, c)
    PROVE  RegistryTyped'
<1>1. calls \in [Threads -> 0..MaxCalls] /\ calls[t] < MaxCalls /\ calls' = [calls EXCEPT ![t] = @ + 1]
  BY DEF Starts, RegistryTyped
<1>2. calls' \in [Threads -> 0..MaxCalls]
  BY <1>1, DriverConstants
<1>3. QED
  BY <1>2 DEF Starts, RegistryTyped, registryVars

(* So do the driver and the framework.                                     *)
LEMMA IdleFwType == IdleFw \in FwRecord /\ IdleFw.pc = "idle" /\ IdleFw.todo = {}
BY DEF IdleFw, FwRecord

LEMMA FwUpdates ==
    ASSUME NEW f \in FwRecord, NEW S \in SUBSET Executors, NEW x \in Executors, NEW P \in SUBSET Processors
    PROVE  /\ [IdleFw EXCEPT !.pc = "update", !.todo = S] \in FwRecord
           /\ [IdleFw EXCEPT !.pc = "disconnect", !.todo = S] \in FwRecord
           /\ [f EXCEPT !.pc = "tell", !.todo = @ \ {x}, !.executor = x, !.tell = P] \in FwRecord
           /\ [f EXCEPT !.tell = P] \in FwRecord
           /\ [f EXCEPT !.pc = "disconnect", !.executor = NoExecutor] \in FwRecord
<1>1. f.todo \ {x} \in SUBSET Executors
  BY DEF FwRecord
<1>2. QED
  BY <1>1 DEF FwRecord, IdleFw

LEMMA NoticesType ==
    ASSUME DriverTyped
    PROVE  /\ Append(notices, "up") \in Seq({"up", "down"}) /\ Append(notices, "down") \in Seq({"up", "down"})
           /\ notices # <<>> => Tail(notices) \in Seq({"up", "down"})
<1>1. notices \in Seq({"up", "down"})
  BY DEF DriverTyped
<1>2. QED
  BY <1>1, AppendProperties, HeadTailProperties

LEMMA DriverStepType ==
    ASSUME TypeOK, DriverStarts \/ DriverDies \/ \E x \in Executors : OnRegisterFinish(x)
    PROVE  TypeOK'
<1>1. CallsTyped /\ RegistryTyped /\ DriverTyped
  BY DriverTypeParts
<1>2. ASSUME UNCHANGED commandVars, DriverTyped' PROVE TypeOK'
  BY <1>1, <1>2 DEF TypeOK, CallsTyped, RegistryTyped, DriverTyped, commandVars, registryVars
<1>3. CASE DriverStarts
  <2>1. starts' \in 0..MaxStarts /\ 0..starts \subseteq 0..starts'
    BY <1>1, <1>3, DriverConstants DEF DriverStarts, DriverTyped
  <2>2. madeBy' \in [Executors -> 0..starts']
    BY <1>1, <1>3, <2>1 DEF DriverStarts, DriverTyped
  <2>3. up' \in BOOLEAN
    BY <1>3 DEF DriverStarts
  <2>4. QED
    BY <1>1, <1>2, <1>3, <2>1, <2>2, <2>3, NoticesType DEF DriverStarts, DriverTyped
<1>4. CASE DriverDies
  <2>1. up' \in BOOLEAN
    BY <1>4 DEF DriverDies
  <2>2. QED
    BY <1>1, <1>2, <1>4, <2>1, NoticesType DEF DriverDies, DriverTyped
<1>5. ASSUME NEW x \in Executors, OnRegisterFinish(x) PROVE TypeOK'
  BY <1>1, <1>2, <1>5 DEF OnRegisterFinish, DriverTyped
<1>6. QED
  BY <1>3, <1>4, <1>5
(* Notices alternate, the last one tells whether the driver runs, and the  *)
(* list is only filled between the notice of a start and the end of the    *)
(* notice of the death that follows.                                       *)
NoticesAlternate ==
    /\ \A i \in 1..Len(notices) - 1 : notices[i] # notices[i + 1]
    /\ notices # <<>> => (up <=> notices[Len(notices)] = "up")
    /\ executorList # {} \/ fw.pc # "idle" =>
          IF notices = <<>> THEN up /\ fw.pc \in {"idle", "update"} ELSE notices[1] = "down"
    /\ fw.pc = "update" => executorList = {}

(* What the framework's thread still has to tell.                          *)
Telling ==
    /\ fw.pc \in {"disconnect", "tell"} => /\ fw.todo \subseteq executorList
                                           /\ executorList \subseteq told \cup fw.todo \cup {fw.executor}
    /\ fw.pc = "disconnect" => fw.executor = NoExecutor
    /\ fw.pc = "tell" => fw.executor \in Executors /\ madeBy[fw.executor] # 0
    /\ up => starts > 0
    /\ fw.pc = "update" => \A x \in fw.todo : madeBy[x] # 0
    /\ \A x \in executorList \cup told : madeBy[x] # 0


LEMMA FrameworkStepType ==
    ASSUME TypeOK, NoticesAlternate, Telling, FrameworkThread
    PROVE  TypeOK'
<1>1. CallsTyped /\ RegistryTyped /\ DriverTyped /\ fw \in FwRecord
  BY DriverTypeParts DEF DriverTyped
<1>2. /\ processors \in SUBSET Processors /\ executorList \in SUBSET Executors
      /\ fw.todo \in SUBSET Executors /\ fw.tell \in SUBSET Processors
      /\ fw.executor \in Executors \cup {NoExecutor}
  BY <1>1 DEF RegistryTyped, DriverTyped, FwRecord
<1>3. ASSUME UNCHANGED <<registryVars, call, calls, left>>, RegistryTyped', DriverTyped' PROVE TypeOK'
  BY <1>1, <1>3 DEF TypeOK, CallsTyped, RegistryTyped, DriverTyped, registryVars
<1>4. ASSUME UNCHANGED commandVars PROVE RegistryTyped' /\ UNCHANGED <<registryVars, call, calls, left>>
  BY <1>1, <1>4 DEF RegistryTyped, commandVars, registryVars
<1>5. CASE GetExecutorList
  <2>1. fw' \in FwRecord
    <3>1. ASSUME NEW S \in SUBSET {x \in Executors : madeBy[x] = 0}, fw' = [IdleFw EXCEPT !.pc = "update", !.todo = S]
          PROVE  fw' \in FwRecord
      <4>1. S \in SUBSET Executors /\ [IdleFw EXCEPT !.pc = "update", !.todo = S] \in FwRecord
        BY IdleFwType DEF FwRecord
      <4>2. QED
        BY <3>1, <4>1
    <3>2. QED
      BY <1>1, <1>5, <3>1 DEF GetExecutorList
  <2>2. madeBy' \in [Executors -> 0..starts']
    <3>1. starts' = starts /\ starts \in 0..MaxStarts /\ madeBy \in [Executors -> 0..starts]
      BY <1>1, <1>5 DEF GetExecutorList, DriverTyped
    <3>2. starts \in 0..starts
      BY <3>1, DriverConstants
    <3>3. QED
      BY <1>5, <3>1, <3>2 DEF GetExecutorList
  <2>3. notices' \in Seq({"up", "down"})
    BY <1>1, <1>5, NoticesType DEF GetExecutorList
  <2>4. DriverTyped'
    BY <1>1, <1>5, <2>1, <2>2, <2>3 DEF GetExecutorList, DriverTyped
  <2>5. QED
    BY <1>3, <1>4, <1>5, <2>4 DEF GetExecutorList
<1>6. CASE UpdateList
  <2>1. DriverTyped'
    BY <1>1, <1>2, <1>6, IdleFwType DEF UpdateList, DriverTyped
  <2>2. QED
    BY <1>3, <1>4, <1>6, <2>1 DEF UpdateList
<1>7. CASE OnHdiDisconnect
  <2>1. fw' \in FwRecord
    BY <1>2, <1>7, IdleFwType DEF OnHdiDisconnect, FwRecord
  <2>2. DriverTyped'
    BY <1>1, <1>7, <2>1 DEF OnHdiDisconnect, DriverTyped
  <2>3. QED
    BY <1>3, <1>4, <1>7, <2>2 DEF OnHdiDisconnect
<1>8. CASE DisconnectExecutor
  <2>1. fw' \in FwRecord /\ late' \subseteq Executors
    <3>1. PICK x \in fw.todo :
             /\ fw' = [fw EXCEPT !.pc = "tell", !.todo = @ \ {x}, !.executor = x, !.tell = processors]
             /\ late' = late \cup {x} \/ late' = late
      BY <1>8 DEF DisconnectExecutor
    <3>2. x \in Executors
      BY <1>2
    <3>3. [fw EXCEPT !.pc = "tell", !.todo = @ \ {x}, !.executor = x, !.tell = processors] \in FwRecord
      BY <1>1, <1>2, <3>2, FwUpdates
    <3>4. QED
      BY <1>1, <3>1, <3>2, <3>3 DEF DriverTyped
  <2>2. DriverTyped'
    BY <1>1, <1>8, <2>1 DEF DisconnectExecutor, DriverTyped
  <2>3. RegistryTyped'
    BY <1>1, <1>8 DEF DisconnectExecutor, RegistryTyped, registryVars
  <2>4. QED
    BY <1>3, <1>8, <2>2, <2>3 DEF DisconnectExecutor
<1>9. CASE TellProcessor
  <2>1. PICK p \in fw.tell : /\ fw' = [fw EXCEPT !.tell = @ \ {p}]
                             /\ owner' = [owner EXCEPT ![p] = NoExecutor] \/ owner' = owner
    BY <1>9 DEF TellProcessor
  <2>2. fw' \in FwRecord
    <3>1. fw.tell \ {p} \in SUBSET Processors
      BY <1>2
    <3>2. QED
      BY <1>1, <2>1, <3>1 DEF FwRecord
  <2>3. owner' \in [Processors -> Executors \cup {NoExecutor}]
    BY <1>1, <2>1 DEF RegistryTyped
  <2>4. DriverTyped'
    BY <1>1, <1>9, <2>2 DEF TellProcessor, DriverTyped
  <2>5. RegistryTyped'
    BY <1>1, <1>9, <2>3 DEF TellProcessor, RegistryTyped, registryVars
  <2>6. QED
    BY <1>3, <1>9, <2>4, <2>5 DEF TellProcessor
<1>10. CASE ExecutorTold
  <2>1. fw' \in FwRecord
    BY <1>1, <1>10 DEF ExecutorTold, FwRecord
  <2>2. told' \subseteq Executors
    BY <1>1, <1>2, <1>10 DEF ExecutorTold, DriverTyped, Telling
  <2>3. DriverTyped'
    BY <1>1, <1>10, <2>1, <2>2 DEF ExecutorTold, DriverTyped
  <2>4. RegistryTyped'
    BY <1>1, <1>10 DEF ExecutorTold, RegistryTyped, registryVars
  <2>5. QED
    BY <1>3, <1>10, <2>3, <2>4 DEF ExecutorTold
<1>11. CASE DisconnectEnds
  <2>1. notices # <<>>
    BY <1>11 DEF DisconnectEnds, NoticesAlternate
  <2>2. DriverTyped'
    BY <1>1, <1>11, <2>1, IdleFwType, NoticesType DEF DisconnectEnds, DriverTyped
  <2>3. QED
    BY <1>3, <1>4, <1>11, <2>2 DEF DisconnectEnds
<1>12. QED
  BY <1>5, <1>6, <1>7, <1>8, <1>9, <1>10, <1>11 DEF FrameworkThread

LEMMA ThreadStepType ==
    ASSUME TypeOK, NEW t \in Threads,
           \/ CommandThread(t) \/ (\E p \in Processors : Registers(t, p))
           \/ \E x \in Executors, l \in Lists : DriverSends(t, x, l)
    PROVE  TypeOK' /\ OthersUnchanged(t) /\ UNCHANGED driverVars
<1>1. CallsTyped /\ RegistryTyped /\ DriverTyped
  BY DriverTypeParts
<1>2. ASSUME UNCHANGED driverVars, CallsTyped', RegistryTyped' PROVE TypeOK'
  BY <1>1, <1>2 DEF TypeOK, CallsTyped, RegistryTyped, DriverTyped, driverVars
<1>3. CASE CommandThread(t)
  BY <1>1, <1>2, <1>3, CallsStepType, RegistryStepType DEF CommandThread
<1>4. ASSUME NEW p \in Processors, Registers(t, p) PROVE TypeOK' /\ OthersUnchanged(t) /\ UNCHANGED driverVars
  <2>1. RegistryTyped'
    BY <1>1, <1>4, StartsType DEF Registers, RegisterCall, UnregisterCall
  <2>2. QED
    BY <1>1, <1>2, <1>4, <2>1, RegisterCallStep DEF Registers
<1>5. ASSUME NEW x \in Executors, NEW l \in Lists, DriverSends(t, x, l)
      PROVE  TypeOK' /\ OthersUnchanged(t) /\ UNCHANGED driverVars
  <2>1. RegistryTyped'
    BY <1>1, <1>5, StartsType DEF DriverSends, OnSaCommands
  <2>2. QED
    BY <1>1, <1>2, <1>5, <2>1, OnSaCommandsStep DEF DriverSends
<1>6. QED
  BY <1>3, <1>4, <1>5

-------------------------------------------------------------------------------
(* The framework's thread and the notices it handles.                      *)

LEMMA NoticeFacts ==
    ASSUME TypeOK
    PROVE  /\ notices \in Seq({"up", "down"}) /\ Len(notices) \in Nat
           /\ notices # <<>> <=> Len(notices) > 0
           /\ notices # <<>> => /\ Head(notices) = notices[1] /\ Len(Tail(notices)) = Len(notices) - 1
                                /\ Tail(notices) \in Seq({"up", "down"})
                                /\ \A i \in 1..Len(notices) - 1 : Tail(notices)[i] = notices[i + 1]
           /\ \A i \in 1..Len(notices) : notices[i] \in {"up", "down"}
<1>1. notices \in Seq({"up", "down"})
  BY DEF TypeOK
<1>2. QED
  BY <1>1, LenProperties, EmptySeq, HeadTailProperties, ElementOfSeq

(* A notice is added: what is known of the longer sequence.                *)
LEMMA NoticeAdded ==
    ASSUME TypeOK, NEW n \in {"up", "down"}
    PROVE  /\ Len(Append(notices, n)) = Len(notices) + 1 /\ Append(notices, n) # <<>>
           /\ Append(notices, n)[Len(notices) + 1] = n
           /\ \A i \in 1..Len(notices) : Append(notices, n)[i] = notices[i]
<1>1. notices \in Seq({"up", "down"}) /\ Len(notices) \in Nat
  BY NoticeFacts
<1>2. /\ Len(Append(notices, n)) = Len(notices) + 1 /\ Append(notices, n) \in Seq({"up", "down"})
      /\ Append(notices, n)[Len(notices) + 1] = n
      /\ \A i \in 1..Len(notices) : Append(notices, n)[i] = notices[i]
  BY <1>1, AppendProperties
<1>3. QED
  BY <1>1, <1>2, EmptySeq

LEMMA NoticesStep ==
    ASSUME TypeOK, NoticesAlternate, DriverStarts \/ DriverDies \/ FrameworkThread
    PROVE  NoticesAlternate'
<1>1. /\ Len(notices) \in Nat /\ (notices # <<>> <=> Len(notices) > 0) /\ up \in BOOLEAN
      /\ fw \in FwRecord
  BY NoticeFacts DEF TypeOK
<1>2. CASE DriverStarts \/ DriverDies
  <2>1. PICK n \in {"up", "down"} : /\ notices' = Append(notices, n) /\ up' = (n = "up") /\ up = (n = "down")
                                   /\ UNCHANGED <<fw, executorList>>
    BY <1>1, <1>2 DEF DriverStarts, DriverDies
  <2>2. /\ Len(notices') = Len(notices) + 1 /\ notices' # <<>> /\ notices'[Len(notices) + 1] = n
        /\ \A i \in 1..Len(notices) : notices'[i] = notices[i]
    BY <2>1, NoticeAdded
  <2>3. notices # <<>> => notices[Len(notices)] # n
    BY <2>1 DEF NoticesAlternate
  <2>4. \A i \in 1..Len(notices') - 1 : notices'[i] # notices'[i + 1]
    <3>1. ASSUME NEW i \in 1..Len(notices') - 1 PROVE notices'[i] # notices'[i + 1]
      <4>1. CASE i = Len(notices)
        BY <1>1, <2>2, <2>3, <4>1
      <4>2. CASE i # Len(notices)
        BY <1>1, <2>2, <4>2 DEF NoticesAlternate
      <4>3. QED
        BY <4>1, <4>2
    <3>2. QED
      BY <3>1
  <2>5. up' <=> notices'[Len(notices')] = "up"
    BY <2>1, <2>2
  <2>6. executorList # {} \/ fw.pc # "idle" => notices'[1] = "down"
    <3>1. CASE notices = <<>>
      <4>1. executorList # {} \/ fw.pc # "idle" => up
        BY <3>1 DEF NoticesAlternate
      <4>2. up => n = "down"
        BY <2>1
      <4>3. notices'[1] = n
        BY <1>1, <2>2, <3>1
      <4>4. QED
        BY <4>1, <4>2, <4>3
    <3>2. CASE notices # <<>>
      BY <1>1, <2>2, <3>2 DEF NoticesAlternate
    <3>3. QED
      BY <3>1, <3>2
  <2>7. QED
    BY <2>1, <2>2, <2>4, <2>5, <2>6 DEF NoticesAlternate
(* The first notice is taken off.                                          *)
<1>3. ASSUME notices # <<>>, notices' = Tail(notices), UNCHANGED up
      PROVE  /\ \A i \in 1..Len(notices') - 1 : notices'[i] # notices'[i + 1]
             /\ notices' # <<>> => (up' <=> notices'[Len(notices')] = "up")
             /\ notices' # <<>> => notices'[1] # notices[1]
             /\ notices' = <<>> => (up <=> notices[1] = "up")
  <2>1. /\ Len(notices') = Len(notices) - 1 /\ notices' \in Seq({"up", "down"})
        /\ \A i \in 1..Len(notices) - 1 : notices'[i] = notices[i + 1]
    BY <1>3, NoticeFacts
  <2>2. notices' # <<>> <=> Len(notices') > 0
    BY <2>1, EmptySeq, LenProperties
  <2>3. \A i \in 1..Len(notices') - 1 : notices'[i] # notices'[i + 1]
    BY <1>1, <2>1 DEF NoticesAlternate
  <2>4. notices' # <<>> => (up' <=> notices'[Len(notices')] = "up")
    BY <1>1, <1>3, <2>1, <2>2 DEF NoticesAlternate
  <2>5. notices' # <<>> => notices'[1] # notices[1]
    BY <1>1, <2>1, <2>2 DEF NoticesAlternate
  <2>6. notices' = <<>> => (up <=> notices[1] = "up")
    BY <1>1, <1>3, <2>1, <2>2 DEF NoticesAlternate
  <2>7. QED
    BY <2>3, <2>4, <2>5, <2>6
<1>4. CASE GetExecutorList
  <2>1. notices # <<>> /\ notices[1] = "up" /\ notices' = Tail(notices) /\ UNCHANGED <<up, executorList>>
    BY <1>4, NoticeFacts DEF GetExecutorList
  <2>2. executorList = {}
    BY <2>1 DEF NoticesAlternate
  <2>3. fw'.pc \in {"idle", "update"}
    BY <1>4 DEF GetExecutorList, IdleFw
  <2>4. notices' # <<>> => notices'[1] = "down"
    <3>1. notices' # <<>> => notices'[1] \in {"up", "down"}
      <4>1. Tail(notices) \in Seq({"up", "down"})
        BY <2>1, NoticeFacts
      <4>2. QED
        BY <2>1, <4>1, EmptySeq, LenProperties, ElementOfSeq
    <3>2. notices' # <<>> => notices'[1] # notices[1]
      BY <1>3, <2>1
    <3>3. QED
      BY <2>1, <3>1, <3>2
  <2>5. notices' = <<>> => up'
    BY <1>1, <1>3, <2>1
  <2>6. QED
    BY <1>3, <2>1, <2>2, <2>3, <2>4, <2>5 DEF NoticesAlternate
<1>5. CASE UpdateList
  BY <1>5, IdleFwType DEF UpdateList, NoticesAlternate
<1>6. CASE OnHdiDisconnect
  <2>1. notices[1] = "down" /\ fw'.pc = "disconnect" /\ notices # <<>>
    BY <1>6, NoticeFacts DEF OnHdiDisconnect, IdleFw
  <2>2. QED
    BY <1>6, <2>1 DEF OnHdiDisconnect, NoticesAlternate
<1>7. CASE DisconnectExecutor \/ TellProcessor \/ ExecutorTold
  <2>1. /\ fw.pc \in {"disconnect", "tell"} /\ fw'.pc \in {"disconnect", "tell"}
        /\ UNCHANGED <<notices, up, executorList>>
    BY <1>1, <1>7 DEF DisconnectExecutor, TellProcessor, ExecutorTold, FwRecord
  <2>2. QED
    BY <2>1 DEF NoticesAlternate
<1>8. CASE DisconnectEnds
  <2>1. notices # <<>> /\ notices' = Tail(notices) /\ executorList' = {} /\ fw'.pc = "idle" /\ UNCHANGED up
    BY <1>8, IdleFwType DEF DisconnectEnds, NoticesAlternate
  <2>2. QED
    BY <1>3, <2>1 DEF NoticesAlternate
<1>9. QED
  BY <1>2, <1>4, <1>5, <1>6, <1>7, <1>8 DEF FrameworkThread

(* What is known of the framework's thread is kept by its steps.           *)
LEMMA TellingStep ==
    ASSUME TypeOK, NoticesAlternate, Telling, NoneForgotten,
           DriverStarts \/ DriverDies \/ FrameworkThread
    PROVE  Telling' /\ NoneForgotten'
<1>1. /\ fw \in FwRecord /\ madeBy \in [Executors -> 0..starts] /\ starts \in Nat
      /\ executorList \subseteq Executors /\ told \subseteq Executors
      /\ fw.todo \subseteq Executors
  BY DEF TypeOK, FwRecord
<1>2. CASE DriverStarts \/ DriverDies
  <2>1. up' => starts' > 0
    BY <1>1, <1>2 DEF DriverStarts, DriverDies
  <2>2. QED
    BY <1>2, <2>1 DEF DriverStarts, DriverDies, Telling, NoneForgotten
<1>3. CASE GetExecutorList
  <2>1. PICK S \in SUBSET Executors :
          /\ \A x \in S : madeBy[x] = 0
          /\ \A x \in Executors \ S : madeBy'[x] = madeBy[x]
          /\ S # {} => fw'.pc = "update" /\ fw'.todo = S
          /\ fw'.pc = "update" => fw'.todo = S /\ \A x \in S : madeBy'[x] # 0
          /\ fw'.pc \in {"idle", "update"}
    <3>1. CASE UNCHANGED <<madeBy, fw>>
      <4>1. {} \in SUBSET Executors /\ fw.pc = "idle"
        BY <1>3 DEF GetExecutorList
      <4>2. QED
        BY <3>1, <4>1
    <3>2. CASE ~UNCHANGED <<madeBy, fw>>
      <4>1. PICK S \in SUBSET {x \in Executors : madeBy[x] = 0} :
                /\ madeBy' = [x \in Executors |-> IF x \in S THEN starts ELSE madeBy[x]]
                /\ fw' = [IdleFw EXCEPT !.pc = "update", !.todo = S]
        BY <1>3, <3>2 DEF GetExecutorList
      <4>2. fw'.pc = "update" /\ fw'.todo = S
        BY <4>1 DEF IdleFw
      <4>3. up
        BY <1>3, <3>2 DEF GetExecutorList
      <4>4. starts # 0
        BY <1>1, <4>3 DEF Telling
      <4>5. S \in SUBSET Executors /\ (\A x \in S : madeBy[x] = 0 /\ madeBy'[x] = starts) /\ \A x \in Executors \ S : madeBy'[x] = madeBy[x]
        BY <4>1
      <4>6. QED
        BY <4>2, <4>4, <4>5
    <3>3. QED
      BY <3>1, <3>2
  <2>2. fw.pc = "idle" /\ UNCHANGED <<executorList, told, up, starts>>
    BY <1>3 DEF GetExecutorList
  <2>3. Telling'
    BY <1>1, <2>1, <2>2 DEF Telling
  <2>4. NoneForgotten'
    BY <1>1, <2>1, <2>2 DEF NoneForgotten
  <2>5. QED
    BY <2>3, <2>4
<1>4. CASE UpdateList
  <2>1. fw.pc = "update" /\ executorList = {} /\ executorList' = fw.todo /\ fw'.pc = "idle" /\ UNCHANGED <<madeBy, told, up, starts>>
    BY <1>4, IdleFwType DEF UpdateList, NoticesAlternate
  <2>2. Telling'
    BY <2>1 DEF Telling
  <2>3. NoneForgotten'
    BY <2>1 DEF NoneForgotten
  <2>4. QED
    BY <2>2, <2>3
<1>5. CASE OnHdiDisconnect
  <2>1. /\ fw.pc = "idle" /\ fw'.pc = "disconnect" /\ fw'.todo = executorList /\ fw'.executor = NoExecutor
        /\ UNCHANGED <<executorList, told, madeBy, up, starts>>
    BY <1>5 DEF OnHdiDisconnect, IdleFw
  <2>2. QED
    BY <2>1 DEF Telling, NoneForgotten
<1>6. CASE DisconnectExecutor
  <2>1. PICK x \in fw.todo : fw' = [fw EXCEPT !.pc = "tell", !.todo = @ \ {x}, !.executor = x, !.tell = processors]
    BY <1>6 DEF DisconnectExecutor
  <2>2. /\ fw.pc = "disconnect" /\ fw'.pc = "tell" /\ fw'.todo = fw.todo \ {x} /\ fw'.executor = x
        /\ UNCHANGED <<executorList, told, madeBy, up, starts>>
    BY <1>1, <1>6, <2>1 DEF DisconnectExecutor, FwRecord
  <2>3. x \in Executors /\ x \in executorList /\ madeBy[x] # 0
    BY <1>1, <2>2 DEF Telling
  <2>4. executorList \subseteq told \cup fw.todo
    BY <1>1, <2>2, DriverConstants DEF Telling
  <2>5. QED
    BY <2>2, <2>3, <2>4 DEF Telling, NoneForgotten
<1>7. CASE TellProcessor
  <2>1. /\ fw'.pc = fw.pc /\ fw'.todo = fw.todo /\ fw'.executor = fw.executor /\ UNCHANGED <<executorList, told, madeBy, up, starts>>
    BY <1>1, <1>7 DEF TellProcessor, FwRecord
  <2>2. QED
    BY <2>1 DEF Telling, NoneForgotten
<1>8. CASE ExecutorTold
  <2>1. /\ fw.pc = "tell" /\ fw'.pc = "disconnect" /\ fw'.todo = fw.todo /\ fw'.executor = NoExecutor
        /\ told' = told \cup {fw.executor} /\ UNCHANGED <<executorList, madeBy, up, starts>>
    BY <1>1, <1>8 DEF ExecutorTold, FwRecord
  <2>2. QED
    BY <2>1 DEF Telling, NoneForgotten
<1>9. CASE DisconnectEnds
  <2>1. fw.pc = "disconnect" /\ fw.todo = {} /\ fw'.pc = "idle" /\ executorList' = {} /\ UNCHANGED <<madeBy, told, up, starts>>
    BY <1>9, IdleFwType DEF DisconnectEnds
  <2>2. executorList \subseteq told
    BY <1>1, <2>1, DriverConstants DEF Telling
  <2>3. QED
    BY <1>1, <2>1, <2>2 DEF Telling, NoneForgotten
<1>10. QED
  BY <1>2, <1>3, <1>4, <1>5, <1>6, <1>7, <1>8, <1>9 DEF FrameworkThread

-------------------------------------------------------------------------------
(* The mutex of the command manager.                                       *)

Locked == {"next", "process", "unlock"}

(* The mutex is held by the calls that use the registry, and by the thread *)
(* of the framework while it tells the processors, and by nobody else.     *)
LockHeld ==
    /\ \A t \in Threads : t \in readers <=> call[t].pc \in Locked
    /\ Framework \in readers <=> fw.pc = "tell"

(* What a step of a call's own thread does to it.                          *)
CallEffect(t) ==
    \/ call'[t] = IdleCall
    \/ call'[t] = [call[t] EXCEPT !.pc = "next"] \/ call'[t] = [call[t] EXCEPT !.pc = "unlock"]
    \/ /\ call[t].at < Len(call[t].list)
       /\ \/ call'[t] = [call[t] EXCEPT !.pc = "process", !.at = @ + 1,
                                       !.todo = byCommand[call[t].list[call[t].at + 1]]]
          \/ call'[t] = [call[t] EXCEPT !.pc = "unlock", !.at = @ + 1, !.ok = FALSE]
    \/ \E p \in call[t].todo :
          call'[t] = [call[t] EXCEPT !.todo = @ \ {p}, !.done = @ \cup {<<call[t].at, p>>}]
    \/ call'[t] = [call[t] EXCEPT !.pc = "unlock", !.ok = FALSE]

LEMMA CallEffects ==
    ASSUME TypeOK, NEW t \in Threads, CallGoesOn(t)
    PROVE  CallEffect(t)
<1>1. CallsTyped /\ RegistryTyped
  BY DriverTypeParts
<1>2. CASE RegisterSaCommandProcessor(t) \/ UnregisterSaCommandProcessor(t) \/ Return(t)
  BY <1>1, <1>2, EndsStep DEF RegisterSaCommandProcessor, UnregisterSaCommandProcessor, Return, CallEffect
<1>3. CASE LockShared(t)
  BY <1>1, <1>3, PcStep DEF LockShared, CallEffect
<1>4. CASE NextCommand(t)
  BY <1>1, <1>4, PcStep, BeginCommandStep, UnknownCommandStep DEF NextCommand, CallEffect
<1>5. CASE ProcessSaCommand(t)
  BY <1>1, <1>5, PcStep, DoneStep, FailsStep DEF ProcessSaCommand, CallEffect
<1>6. QED
  BY <1>2, <1>3, <1>4, <1>5 DEF CallGoesOn

(* The fields of a call after a step.                                      *)
LEMMA CallFields ==
    ASSUME NEW c \in CallRecord, NEW step \in {"next", "unlock", "process"}, NEW P \in SUBSET Processors, NEW p
    PROVE  /\ LET d == [c EXCEPT !.pc = step]
              IN  /\ d.pc = step /\ d.executor = c.executor /\ d.list = c.list /\ d.at = c.at /\ d.todo = c.todo
                  /\ d.done = c.done /\ d.ok = c.ok
           /\ LET d == [c EXCEPT !.pc = "process", !.at = @ + 1, !.todo = P]
              IN  /\ d.pc = "process" /\ d.executor = c.executor /\ d.list = c.list /\ d.at = c.at + 1 /\ d.todo = P
                  /\ d.done = c.done /\ d.ok = c.ok
           /\ LET d == [c EXCEPT !.pc = "unlock", !.at = @ + 1, !.ok = FALSE]
              IN  /\ d.pc = "unlock" /\ d.executor = c.executor /\ d.list = c.list /\ d.at = c.at + 1 /\ d.todo = c.todo
                  /\ d.done = c.done /\ d.ok = FALSE
           /\ LET d == [c EXCEPT !.todo = @ \ {p}, !.done = @ \cup {<<c.at, p>>}]
              IN  /\ d.pc = c.pc /\ d.executor = c.executor /\ d.list = c.list /\ d.at = c.at /\ d.todo = c.todo \ {p}
                  /\ d.done = c.done \cup {<<c.at, p>>} /\ d.ok = c.ok
           /\ LET d == [c EXCEPT !.pc = "unlock", !.ok = FALSE]
              IN  /\ d.pc = "unlock" /\ d.executor = c.executor /\ d.list = c.list /\ d.at = c.at /\ d.todo = c.todo
                  /\ d.done = c.done /\ d.ok = FALSE
BY DEF CallRecord

(* One step nearer to the release of the mutex: a command fewer to begin,  *)
(* or, of the present one, a processor fewer to call.                      *)
Nearer(c, d) ==
    \/ c.pc = "unlock" /\ d.pc = "idle"
    \/ /\ d.pc \in Locked /\ d.list = c.list
       /\ \/ d.at \in c.at + 1 .. Len(c.list)
          \/ /\ d.at = c.at
             /\ \/ c.pc = "process" /\ d.pc = "process" /\ d.todo \subseteq c.todo /\ d.todo # c.todo
                \/ c.pc = "process" /\ d.pc = "next"
                \/ c.pc # "unlock" /\ d.pc = "unlock"

LEMMA MovesOn ==
    ASSUME CallsTyped, RegistryTyped, NEW t \in Threads, NextCommand(t) \/ ProcessSaCommand(t)
    PROVE  Nearer(call[t], call'[t]) /\ call'[t].pc \in Locked
<1> DEFINE c == call[t]
<1>1. c \in CallRecord /\ c.at \in Nat /\ c.at <= Len(c.list) /\ Len(c.list) \in Nat /\ c.todo \subseteq Processors
  BY DEF CallsTyped, CallRecord
<1>2. CASE NextCommand(t)
  <2>1. CASE call' = [call EXCEPT ![t].pc = "unlock"]
    <3>1. call'[t] = [c EXCEPT !.pc = "unlock"]
      BY <2>1, PcStep
    <3>2. QED
      BY <1>1, <1>2, <3>1, CallFields DEF NextCommand, Nearer, Locked
  <2>2. CASE /\ c.at < Len(c.list) /\ c.list[c.at + 1] \in known
             /\ call' = [call EXCEPT ![t].pc = "process", ![t].at = @ + 1, ![t].todo = byCommand[c.list[c.at + 1]]]
    <3>1. call'[t] = [c EXCEPT !.pc = "process", !.at = @ + 1, !.todo = byCommand[c.list[c.at + 1]]]
      BY <2>2, BeginCommandStep
    <3>2. c.list \in Seq(Ids)
      BY <1>1 DEF CallRecord
    <3>3. c.list[c.at + 1] \in Ids
      BY <1>1, <2>2, <3>2, ElementOfSeq
    <3>4. byCommand[c.list[c.at + 1]] \in SUBSET Processors
      BY <3>3 DEF RegistryTyped
    <3>5. /\ call'[t].pc = "process" /\ call'[t].list = c.list /\ call'[t].at = c.at + 1
      BY <1>1, <3>1, <3>4, CallFields
    <3>6. QED
      BY <1>1, <2>2, <3>5 DEF Nearer, Locked
  <2>3. CASE /\ c.at < Len(c.list)
             /\ call' = [call EXCEPT ![t].pc = "unlock", ![t].at = @ + 1, ![t].ok = FALSE]
    <3>1. call'[t] = [c EXCEPT !.pc = "unlock", !.at = @ + 1, !.ok = FALSE]
      BY <2>3, UnknownCommandStep
    <3>2. call'[t].pc = "unlock" /\ call'[t].list = c.list /\ call'[t].at = c.at + 1
      BY <1>1, <3>1 DEF CallRecord
    <3>3. QED
      BY <1>1, <2>3, <3>2 DEF Nearer, Locked
  <2>4. QED
    BY <1>2, <2>1, <2>2, <2>3 DEF NextCommand
<1>3. CASE ProcessSaCommand(t)
  <2>1. CASE call' = [call EXCEPT ![t].pc = "next"]
    <3>1. call'[t] = [c EXCEPT !.pc = "next"]
      BY <2>1, PcStep
    <3>2. QED
      BY <1>1, <1>3, <3>1, CallFields DEF ProcessSaCommand, Nearer, Locked
  <2>2. ASSUME NEW p \in c.todo,
               call' = [call EXCEPT ![t].todo = @ \ {p}, ![t].done = @ \cup {<<c.at, p>>}]
        PROVE  Nearer(c, call'[t]) /\ call'[t].pc \in Locked
    <3>1. call'[t] = [c EXCEPT !.todo = @ \ {p}, !.done = @ \cup {<<c.at, p>>}]
      BY <1>1, <2>2, DoneStep
    <3>2. c.pc = "process"
      BY <1>3 DEF ProcessSaCommand
    <3>3. /\ call'[t].pc = c.pc /\ call'[t].list = c.list /\ call'[t].at = c.at /\ call'[t].todo = c.todo \ {p}
      BY <1>1, <3>1 DEF CallRecord
    <3>4. QED
      BY <2>2, <3>2, <3>3 DEF Nearer, Locked
  <2>3. CASE call' = [call EXCEPT ![t].pc = "unlock", ![t].ok = FALSE]
    <3>1. call'[t] = [c EXCEPT !.pc = "unlock", !.ok = FALSE]
      BY <2>3, FailsStep
    <3>2. QED
      BY <1>1, <1>3, <3>1, CallFields DEF ProcessSaCommand, Nearer, Locked
  <2>4. QED
    BY <1>3, <2>1, <2>2, <2>3 DEF ProcessSaCommand
<1>4. QED
  BY <1>2, <1>3

LEMMA LockStep ==
    ASSUME TypeOK, LockHeld, Next
    PROVE  LockHeld'
<1>1. /\ Framework \notin Threads /\ fw \in FwRecord /\ CallsTyped /\ RegistryTyped
      /\ \A t \in Threads : call[t] \in CallRecord
  BY DriverConstants, DriverTypeParts DEF TypeOK
<1>2. CASE DriverStarts \/ DriverDies \/ \E x \in Executors : OnRegisterFinish(x)
  BY <1>2 DEF DriverStarts, DriverDies, OnRegisterFinish, commandVars, LockHeld
<1>3. CASE FrameworkThread
  <2>1. CASE GetExecutorList \/ UpdateList \/ OnHdiDisconnect \/ DisconnectEnds
    <3>1. fw.pc # "tell"
      BY <2>1 DEF GetExecutorList, UpdateList, OnHdiDisconnect, DisconnectEnds
    <3>2. fw'.pc # "tell"
      <4>1. CASE GetExecutorList
        <5>1. CASE UNCHANGED fw
          BY <3>1, <5>1
        <5>2. CASE \E S : fw' = [IdleFw EXCEPT !.pc = "update", !.todo = S]
          BY <5>2 DEF IdleFw
        <5>3. QED
          BY <4>1, <5>1, <5>2 DEF GetExecutorList
      <4>2. CASE UpdateList \/ DisconnectEnds
        BY <4>2, IdleFwType DEF UpdateList, DisconnectEnds
      <4>3. CASE OnHdiDisconnect
        BY <4>3 DEF OnHdiDisconnect, IdleFw
      <4>4. QED
        BY <2>1, <4>1, <4>2, <4>3
    <3>3. UNCHANGED <<call, readers>>
      BY <2>1 DEF GetExecutorList, UpdateList, OnHdiDisconnect, DisconnectEnds, commandVars
    <3>4. QED
      BY <3>1, <3>2, <3>3 DEF LockHeld
  <2>2. CASE DisconnectExecutor
    <3>1. fw'.pc = "tell"
      BY <1>1, <2>2 DEF DisconnectExecutor, FwRecord
    <3>2. QED
      BY <1>1, <2>2, <3>1 DEF DisconnectExecutor, LockHeld
  <2>3. CASE TellProcessor
    <3>1. fw.pc = "tell" /\ fw'.pc = "tell"
      BY <1>1, <2>3 DEF TellProcessor, FwRecord
    <3>2. QED
      BY <2>3, <3>1 DEF TellProcessor, LockHeld
  <2>4. CASE ExecutorTold
    <3>1. fw'.pc # "tell"
      BY <1>1, <2>4 DEF ExecutorTold, FwRecord
    <3>2. QED
      BY <1>1, <2>4, <3>1 DEF ExecutorTold, LockHeld
  <2>5. QED
    BY <1>3, <2>1, <2>2, <2>3, <2>4 DEF FrameworkThread
<1>4. ASSUME NEW t \in Threads, OthersUnchanged(t), UNCHANGED driverVars, readers' = readers,
             call'[t].pc \in Locked <=> t \in readers
      PROVE  LockHeld'
  BY <1>4 DEF OthersUnchanged, LockHeld, driverVars
<1>5. ASSUME NEW t \in Threads, CommandThread(t) PROVE LockHeld'
  <2>1. CallGoesOn(t) /\ UNCHANGED driverVars /\ OthersUnchanged(t)
    BY <1>1, <1>5, CallsStepType DEF CommandThread
  <2>2. CASE RegisterSaCommandProcessor(t) \/ UnregisterSaCommandProcessor(t)
    <3>1. call'[t].pc = "idle" /\ readers' = readers /\ readers = {}
      BY <1>1, <2>2, EndsStep, IdleCallType DEF RegisterSaCommandProcessor, UnregisterSaCommandProcessor
    <3>2. QED
      BY <1>4, <2>1, <3>1 DEF Locked
  <2>3. CASE LockShared(t)
    <3>1. call'[t].pc = "next" /\ readers' = readers \cup {t}
      <4>1. call'[t] = [call[t] EXCEPT !.pc = "next"]
        BY <1>1, <2>3, PcStep DEF LockShared
      <4>2. QED
        BY <1>1, <2>3, <4>1 DEF LockShared, CallRecord
    <3>2. \A u \in Threads \ {t} : call'[u] = call[u] /\ (u \in readers' <=> u \in readers)
      BY <2>1, <3>1 DEF OthersUnchanged
    <3>3. t \in readers' /\ (Framework \in readers' <=> Framework \in readers) /\ fw' = fw
      BY <1>1, <2>1, <3>1 DEF driverVars
    <3>4. QED
      BY <3>1, <3>2, <3>3 DEF LockHeld, Locked
  <2>4. CASE NextCommand(t) \/ ProcessSaCommand(t)
    <3>1. call[t].pc \in Locked /\ readers' = readers
      BY <2>4 DEF NextCommand, ProcessSaCommand, Locked
    <3>2. call'[t].pc \in Locked
      BY <1>1, <2>4, MovesOn DEF Nearer
    <3>3. QED
      BY <1>4, <2>1, <3>1, <3>2 DEF LockHeld
  <2>5. CASE Return(t)
    <3>1. call'[t].pc = "idle" /\ readers' = readers \ {t}
      BY <1>1, <2>5, EndsStep, IdleCallType DEF Return
    <3>2. QED
      BY <1>1, <2>1, <3>1 DEF OthersUnchanged, LockHeld, driverVars, Locked
  <2>6. QED
    BY <2>1, <2>2, <2>3, <2>4, <2>5 DEF CallGoesOn
<1>6. ASSUME NEW t \in Threads, NEW p \in Processors, Registers(t, p) PROVE LockHeld'
  <2>1. OthersUnchanged(t) /\ call'[t].pc \in {"register", "unregister"} /\ UNCHANGED driverVars
    BY <1>1, <1>6, RegisterCallStep DEF Registers
  <2>2. readers' = readers /\ call[t].pc = "idle"
    BY <1>6 DEF Registers, RegisterCall, UnregisterCall, Starts
  <2>3. QED
    BY <1>4, <2>1, <2>2 DEF Locked, LockHeld
<1>7. ASSUME NEW t \in Threads, NEW x \in Executors, NEW l \in Lists, DriverSends(t, x, l) PROVE LockHeld'
  <2>1. OthersUnchanged(t) /\ call'[t].pc = "lock" /\ UNCHANGED driverVars
    BY <1>1, <1>7, OnSaCommandsStep DEF DriverSends
  <2>2. readers' = readers /\ call[t].pc = "idle"
    BY <1>7 DEF DriverSends, OnSaCommands, Starts
  <2>3. QED
    BY <1>4, <2>1, <2>2 DEF Locked, LockHeld
<1>8. QED
  BY <1>2, <1>3, <1>5, <1>6, <1>7 DEF Next

-------------------------------------------------------------------------------
(* The progress of a call.                                                 *)

(* Nothing is done past the present command, every processor of the        *)
(* present one is still to be called or has been, and every one of those   *)
(* before it has been.                                                     *)
Progress(c) ==
    /\ \A d \in c.done : d[1] <= c.at
    /\ c.pc = "lock" => c.at = 0
    /\ c.pc = "process" =>
          /\ c.at > 0
          /\ \A p \in byCommand[c.list[c.at]] : p \in c.todo \/ <<c.at, p>> \in c.done
    /\ c.pc \in Locked =>
          \A i \in 1..c.at : i < c.at \/ c.pc = "next" \/ (c.pc = "unlock" /\ c.ok) =>
              \A p \in byCommand[c.list[i]] : <<i, p>> \in c.done

AllProgress == \A t \in Threads : Progress(call[t])

(* The registry's two halves agree, a call only uses processors that are   *)
(* registered, and only those, or those that have left, have an owner.     *)
RegistryAgrees ==
    /\ \A id \in Ids : \A p \in byCommand[id] : p \in processors /\ id \in CommandsOf[p]
    /\ \A t \in Threads : call[t].pc = "process" => call[t].todo \subseteq processors
    /\ \A p \in Processors : owner[p] # NoExecutor => p \in processors \cup left

LEMMA ProgressIsOrder == AllProgress => AppliedInOrder
BY DEF AllProgress, Progress, AppliedInOrder, Locked

(* The steps of a call under way keep its progress: those that begin a     *)
(* command, give it to a processor, or end.                                *)
LEMMA OwnProgress ==
    ASSUME TypeOK, NEW t \in Threads, Progress(call[t]), byCommand' = byCommand,
           \/ LockShared(t) \/ NextCommand(t) \/ ProcessSaCommand(t) \/ Return(t)
    PROVE  Progress(call[t])'
<1> DEFINE c == call[t]
<1>1. /\ CallsTyped /\ RegistryTyped /\ c \in CallRecord /\ c.at \in Nat /\ c.list \in Seq(Ids)
      /\ c.todo \in SUBSET Processors /\ Len(c.list) \in Nat /\ c.done \in SUBSET (Nat \X Processors)
  BY DriverTypeParts, LenProperties DEF CallsTyped, CallRecord
<1>2. CASE Return(t)
  <2>1. call'[t] = IdleCall
    BY <1>1, <1>2, EndsStep DEF Return
  <2>2. QED
    BY <2>1, IdleCallType DEF Progress, Locked
<1>3. CASE LockShared(t)
  <2>1. call'[t] = [c EXCEPT !.pc = "next"]
    BY <1>1, <1>3, PcStep DEF LockShared
  <2>2. c.at = 0
    BY <1>3 DEF LockShared, Progress
  <2>3. call'[t].pc = "next" /\ call'[t].at = 0 /\ call'[t].done = c.done
    BY <1>1, <2>1, <2>2 DEF CallRecord
  <2>4. \A d \in c.done : d[1] <= 0
    BY <2>2 DEF Progress
  <2>5. 1..0 = {}
    OBVIOUS
  <2> HIDE DEF c
  <2>6. QED
    BY <2>3, <2>4, <2>5 DEF Progress
<1>4. CASE NextCommand(t)
  <2>1. CASE c.at = Len(c.list) /\ call' = [call EXCEPT ![t].pc = "unlock"]
    <3>1. call'[t] = [c EXCEPT !.pc = "unlock"]
      BY <1>1, <2>1, PcStep
    <3>2. /\ call'[t].pc = "unlock" /\ call'[t].list = c.list /\ call'[t].at = c.at /\ call'[t].done = c.done
          /\ c.pc = "next"
      BY <1>1, <1>4, <3>1, CallFields DEF NextCommand
    <3>3. QED
      BY <3>2 DEF Progress, Locked
  <2>2. CASE /\ c.at < Len(c.list)
             /\ call' = [call EXCEPT ![t].pc = "process", ![t].at = @ + 1, ![t].todo = byCommand[c.list[c.at + 1]]]
    <3>1. call'[t] = [c EXCEPT !.pc = "process", !.at = @ + 1, !.todo = byCommand[c.list[c.at + 1]]]
      BY <1>1, <2>2, BeginCommandStep
    <3>2. byCommand[c.list[c.at + 1]] \in SUBSET Processors
      <4>1. c.list[c.at + 1] \in Ids
        BY <1>1, <2>2, ElementOfSeq
      <4>2. QED
        BY <1>1, <4>1 DEF RegistryTyped
    <3>3. /\ call'[t].pc = "process" /\ call'[t].list = c.list /\ call'[t].at = c.at + 1 /\ call'[t].done = c.done
          /\ call'[t].todo = byCommand[c.list[c.at + 1]] /\ c.pc = "next"
      BY <1>1, <1>4, <3>1, <3>2, CallFields DEF NextCommand
    <3>4. \A i \in 1..c.at : \A p \in byCommand[c.list[i]] : <<i, p>> \in c.done
      BY <3>3 DEF Progress, Locked
    <3>5. \A d \in c.done : d[1] <= c.at /\ d[1] \in Nat
      BY <1>1 DEF Progress
    <3>6. \A d \in c.done : d[1] <= c.at + 1
      BY <1>1, <3>5
    <3>7. \A i \in 1..c.at + 1 : i < c.at + 1 => i \in 1..c.at
      BY <1>1
    <3>8. c.at + 1 > 0
      BY <1>1
    <3> HIDE DEF c
    <3>9. QED
      BY <3>3, <3>4, <3>6, <3>7, <3>8 DEF Progress
  <2>3. CASE /\ c.at < Len(c.list)
             /\ call' = [call EXCEPT ![t].pc = "unlock", ![t].at = @ + 1, ![t].ok = FALSE]
    <3>1. call'[t] = [c EXCEPT !.pc = "unlock", !.at = @ + 1, !.ok = FALSE]
      BY <1>1, <2>3, UnknownCommandStep
    <3>2. /\ call'[t].pc = "unlock" /\ call'[t].list = c.list /\ call'[t].at = c.at + 1 /\ call'[t].done = c.done
          /\ call'[t].ok = FALSE /\ c.pc = "next"
      BY <1>1, <1>4, <3>1, CallFields DEF NextCommand
    <3>3. \A i \in 1..c.at : \A p \in byCommand[c.list[i]] : <<i, p>> \in c.done
      BY <3>2 DEF Progress, Locked
    <3>4. \A d \in c.done : d[1] <= c.at /\ d[1] \in Nat
      BY <1>1 DEF Progress
    <3>5. \A d \in c.done : d[1] <= c.at + 1
      BY <1>1, <3>4
    <3>6. \A i \in 1..c.at + 1 : i < c.at + 1 => i \in 1..c.at
      BY <1>1
    <3> HIDE DEF c
    <3>7. QED
      BY <3>2, <3>3, <3>5, <3>6 DEF Progress
  <2>4. QED
    BY <1>4, <2>1, <2>2, <2>3 DEF NextCommand
<1>5. CASE ProcessSaCommand(t)
  <2>0. c.pc = "process" /\ c.at > 0 /\ \A d \in c.done : d[1] <= c.at
    BY <1>5 DEF ProcessSaCommand, Progress
  <2>1. /\ \A p \in byCommand[c.list[c.at]] : p \in c.todo \/ <<c.at, p>> \in c.done
        /\ \A i \in 1..c.at : i < c.at => \A p \in byCommand[c.list[i]] : <<i, p>> \in c.done
    BY <2>0 DEF Progress, Locked
  <2>2. CASE c.todo = {} /\ call' = [call EXCEPT ![t].pc = "next"]
    <3>1. call'[t] = [c EXCEPT !.pc = "next"]
      BY <1>1, <2>2, PcStep
    <3>2. call'[t].pc = "next" /\ call'[t].list = c.list /\ call'[t].at = c.at /\ call'[t].done = c.done
      BY <1>1, <3>1, CallFields
    <3>3. \A i \in 1..c.at : \A p \in byCommand[c.list[i]] : <<i, p>> \in c.done
      <4>1. \A i \in 1..c.at : i < c.at \/ i = c.at
        BY <1>1
      <4>2. QED
        BY <2>1, <2>2, <4>1
    <3> HIDE DEF c
    <3>4. QED
      BY <2>0, <3>2, <3>3 DEF Progress
  <2>3. ASSUME NEW p \in c.todo, call' = [call EXCEPT ![t].todo = @ \ {p}, ![t].done = @ \cup {<<c.at, p>>}]
        PROVE  Progress(call[t])'
    <3>1. call'[t] = [c EXCEPT !.todo = @ \ {p}, !.done = @ \cup {<<c.at, p>>}]
      BY <1>1, <2>3, DoneStep
    <3>2. /\ call'[t].pc = "process" /\ call'[t].list = c.list /\ call'[t].at = c.at
          /\ call'[t].todo = c.todo \ {p} /\ call'[t].done = c.done \cup {<<c.at, p>>}
      BY <1>1, <2>0, <3>1, CallFields
    <3>3. \A d \in c.done \cup {<<c.at, p>>} : d[1] <= c.at
      BY <1>1, <2>0
    <3>4. \A q \in byCommand[c.list[c.at]] : q \in c.todo \ {p} \/ <<c.at, q>> \in c.done \cup {<<c.at, p>>}
      BY <2>1
    <3>5. \A i \in 1..c.at : i < c.at => \A q \in byCommand[c.list[i]] : <<i, q>> \in c.done \cup {<<c.at, p>>}
      BY <2>1
    <3> HIDE DEF c
    <3>6. QED
      BY <2>0, <3>2, <3>3, <3>4, <3>5 DEF Progress
  <2>4. CASE call' = [call EXCEPT ![t].pc = "unlock", ![t].ok = FALSE]
    <3>1. call'[t] = [c EXCEPT !.pc = "unlock", !.ok = FALSE]
      BY <1>1, <2>4, FailsStep
    <3>2. /\ call'[t].pc = "unlock" /\ call'[t].list = c.list /\ call'[t].at = c.at /\ call'[t].done = c.done
          /\ call'[t].ok = FALSE
      BY <1>1, <3>1, CallFields
    <3> HIDE DEF c
    <3>3. QED
      BY <2>0, <2>1, <3>2 DEF Progress
  <2>5. QED
    BY <1>5, <2>2, <2>3, <2>4 DEF ProcessSaCommand
<1>6. QED
  BY <1>2, <1>3, <1>4, <1>5

LEMMA ProgressStep ==
    ASSUME TypeOK, LockHeld, AllProgress, Next
    PROVE  AllProgress'
<1>1. CallsTyped /\ RegistryTyped /\ \A t \in Threads : Progress(call[t])
  BY DriverTypeParts DEF AllProgress
<1>2. CASE UNCHANGED <<call, byCommand>>
  BY <1>1, <1>2 DEF AllProgress, Progress
(* While a call uses the registry nobody registers.                        *)
<1>3. ASSUME NEW t \in Threads, NEW u \in Threads \ {t}, OthersUnchanged(t), byCommand' = byCommand \/ readers = {}
      PROVE  Progress(call[u])'
  <2>1. call'[u] = call[u]
    BY <1>3 DEF OthersUnchanged
  <2>2. CASE byCommand' = byCommand
    BY <1>1, <2>1, <2>2 DEF Progress
  <2>3. CASE readers = {}
    <3>1. call[u].pc \notin Locked /\ call[u].pc # "process"
      BY <2>3 DEF LockHeld, Locked
    <3>2. QED
      BY <1>1, <2>1, <3>1 DEF Progress
  <2>4. QED
    BY <1>3, <2>2, <2>3
<1>4. ASSUME NEW t \in Threads, OthersUnchanged(t), byCommand' = byCommand \/ readers = {},
             call'[t].done = {}, call'[t].pc \in {"idle", "register", "unregister", "lock"}, call'[t].at = 0
      PROVE  AllProgress'
  <2>1. Progress(call[t])'
    BY <1>4 DEF Progress, Locked
  <2>2. QED
    BY <1>3, <1>4, <2>1 DEF AllProgress
<1>5. ASSUME NEW t \in Threads, CommandThread(t) PROVE AllProgress'
  <2>1. CallGoesOn(t) /\ OthersUnchanged(t)
    BY <1>1, <1>5, CallsStepType DEF CommandThread
  <2>2. CASE RegisterSaCommandProcessor(t) \/ UnregisterSaCommandProcessor(t)
    <3>1. call'[t] = IdleCall /\ readers = {}
      BY <1>1, <2>2, EndsStep DEF RegisterSaCommandProcessor, UnregisterSaCommandProcessor
    <3>2. QED
      BY <1>4, <2>1, <3>1, IdleCallType
  <2>3. CASE LockShared(t) \/ NextCommand(t) \/ ProcessSaCommand(t) \/ Return(t)
    <3>1. byCommand' = byCommand
      BY <2>3 DEF LockShared, NextCommand, ProcessSaCommand, Return, registryVars
    <3>2. Progress(call[t])'
      BY <1>1, <2>3, <3>1, OwnProgress
    <3>3. QED
      BY <1>3, <2>1, <3>1, <3>2 DEF AllProgress
  <2>4. QED
    BY <2>1, <2>2, <2>3 DEF CallGoesOn
<1>6. ASSUME NEW t \in Threads, NEW p \in Processors, Registers(t, p) PROVE AllProgress'
  <2>1. byCommand' = byCommand
    BY <1>6 DEF Registers, RegisterCall, UnregisterCall, Starts, registryVars
  <2>2. /\ OthersUnchanged(t) /\ call'[t].pc \in {"register", "unregister"} /\ call'[t].done = {} /\ call'[t].at = 0
    BY <1>1, <1>6, RegisterCallStep DEF Registers
  <2>3. QED
    BY <1>4, <2>1, <2>2
<1>7. ASSUME NEW t \in Threads, NEW x \in Executors, NEW l \in Lists, DriverSends(t, x, l) PROVE AllProgress'
  <2>1. byCommand' = byCommand
    BY <1>7 DEF DriverSends, OnSaCommands, Starts, registryVars
  <2>2. OthersUnchanged(t) /\ call'[t].pc = "lock" /\ call'[t].done = {} /\ call'[t].at = 0
    BY <1>1, <1>7, OnSaCommandsStep DEF DriverSends
  <2>3. QED
    BY <1>4, <2>1, <2>2
<1>8. ASSUME DriverStarts \/ DriverDies \/ FrameworkThread \/ \E x \in Executors : OnRegisterFinish(x)
      PROVE  UNCHANGED <<call, byCommand>>
  BY <1>8 DEF DriverStarts, DriverDies, FrameworkThread, OnRegisterFinish, GetExecutorList, UpdateList,
              OnHdiDisconnect, DisconnectExecutor, TellProcessor, ExecutorTold, DisconnectEnds,
              commandVars, registryVars
<1>9. QED
  BY <1>2, <1>5, <1>6, <1>7, <1>8 DEF Next

-------------------------------------------------------------------------------
(* The registry and the owners of the processors.                          *)

LEMMA RegistryStep ==
    ASSUME TypeOK, LockHeld, RegistryAgrees, Next
    PROVE  RegistryAgrees'
<1>1. /\ CallsTyped /\ RegistryTyped /\ fw \in FwRecord /\ byCommand \in [Ids -> SUBSET Processors]
      /\ owner \in [Processors -> Executors \cup {NoExecutor}]
  BY DriverTypeParts DEF TypeOK
<1>2. CASE UNCHANGED <<processors, byCommand, call, owner, left>>
  BY <1>2 DEF RegistryAgrees
<1>3. CASE DriverStarts \/ DriverDies \/ \E x \in Executors : OnRegisterFinish(x)
  BY <1>2, <1>3 DEF DriverStarts, DriverDies, OnRegisterFinish, commandVars, registryVars
<1>4. CASE FrameworkThread
  <2>1. UNCHANGED <<processors, byCommand, call, left>>
    BY <1>4 DEF FrameworkThread, GetExecutorList, UpdateList, OnHdiDisconnect, DisconnectExecutor, TellProcessor,
                ExecutorTold, DisconnectEnds, commandVars, registryVars
  <2>2. \A p \in Processors : owner'[p] \in {owner[p], NoExecutor}
    <3>1. CASE UNCHANGED owner
      BY <3>1
    <3>2. CASE TellProcessor
      <4>1. PICK p \in fw.tell : owner' = owner \/ owner' = [owner EXCEPT ![p] = NoExecutor]
        BY <3>2 DEF TellProcessor
      <4>2. QED
        BY <1>1, <4>1
    <3>3. QED
      BY <1>4, <3>1, <3>2 DEF FrameworkThread, GetExecutorList, UpdateList, OnHdiDisconnect, DisconnectExecutor,
                              ExecutorTold, DisconnectEnds, commandVars
  <2>3. QED
    BY <2>1, <2>2 DEF RegistryAgrees
<1>5. ASSUME NEW t \in Threads, CommandThread(t) PROVE RegistryAgrees'
  <2>1. CallGoesOn(t) /\ OthersUnchanged(t)
    BY <1>1, <1>5, CallsStepType DEF CommandThread
  <2>2. /\ call[t] \in CallRecord /\ call[t].todo \in SUBSET Processors /\ call[t].list \in Seq(Ids)
        /\ call[t].at \in Nat /\ Len(call[t].list) \in Nat
    BY <1>1, LenProperties DEF CallsTyped, CallRecord
  <2>3. CASE RegisterSaCommandProcessor(t) \/ UnregisterSaCommandProcessor(t)
    <3>1. call'[t].pc = "idle" /\ readers = {}
      BY <1>1, <2>3, EndsStep, IdleCallType DEF RegisterSaCommandProcessor, UnregisterSaCommandProcessor
    <3>2. \A u \in Threads : call'[u].pc # "process"
      BY <2>1, <3>1 DEF OthersUnchanged, LockHeld, Locked
    <3>3. CASE RegisterSaCommandProcessor(t)
      <4>1. /\ processors' = processors \cup call[t].todo /\ UNCHANGED <<owner, left>>
            /\ \A id \in Ids : byCommand'[id] = byCommand[id] \cup {p \in call[t].todo : id \in CommandsOf[p]}
        BY <3>3 DEF RegisterSaCommandProcessor
      <4>2. QED
        BY <3>2, <4>1 DEF RegistryAgrees
    <3>4. CASE UnregisterSaCommandProcessor(t)
      <4>1. /\ processors' = processors \ call[t].todo /\ left' = left \cup call[t].todo /\ UNCHANGED owner
            /\ \A id \in Ids : byCommand'[id] = byCommand[id] \ {p \in call[t].todo : id \in CommandsOf[p]}
        BY <3>4 DEF UnregisterSaCommandProcessor
      <4>2. QED
        BY <3>2, <4>1 DEF RegistryAgrees
    <3>5. QED
      BY <2>3, <3>3, <3>4
  <2>4. ASSUME UNCHANGED <<registryVars, left>>, call'[t].pc = "process" => call'[t].todo \subseteq processors,
               \A p \in Processors : owner'[p] # NoExecutor => owner[p] # NoExecutor \/ p \in processors
        PROVE  RegistryAgrees'
    BY <2>1, <2>4 DEF RegistryAgrees, OthersUnchanged, registryVars
  <2>5. CASE LockShared(t) \/ Return(t)
    <3>1. UNCHANGED <<registryVars, left, owner>>
      BY <2>5 DEF LockShared, Return
    <3>2. call'[t].pc # "process"
      <4>1. CASE LockShared(t)
        <5>1. call'[t] = [call[t] EXCEPT !.pc = "next"]
          BY <1>1, <4>1, PcStep DEF LockShared
        <5>2. QED
          BY <2>2, <5>1 DEF CallRecord
      <4>2. CASE Return(t)
        BY <1>1, <4>2, EndsStep, IdleCallType DEF Return
      <4>3. QED
        BY <2>5, <4>1, <4>2
    <3>3. QED
      BY <2>4, <3>1, <3>2
  <2>6. CASE NextCommand(t)
    <3>1. UNCHANGED <<registryVars, left, owner>>
      BY <2>6 DEF NextCommand
    <3>2. call'[t].pc = "process" => call'[t].todo \subseteq processors
      <4>1. CASE call' = [call EXCEPT ![t].pc = "unlock"]
        <5>1. call'[t] = [call[t] EXCEPT !.pc = "unlock"]
          BY <1>1, <4>1, PcStep
        <5>2. QED
          BY <2>2, <5>1 DEF CallRecord
      <4>2. CASE /\ call[t].at < Len(call[t].list)
                 /\ call' = [call EXCEPT ![t].pc = "process", ![t].at = @ + 1,
                                         ![t].todo = byCommand[call[t].list[call[t].at + 1]]]
        <5>1. call[t].list[call[t].at + 1] \in Ids
          BY <2>2, <4>2, ElementOfSeq
        <5>2. byCommand[call[t].list[call[t].at + 1]] \subseteq processors
          BY <5>1 DEF RegistryAgrees
        <5>3. byCommand[call[t].list[call[t].at + 1]] \in SUBSET Processors
          BY <1>1, <5>1
        <5>4. call'[t].todo = byCommand[call[t].list[call[t].at + 1]]
          <6>1. call'[t] = [call[t] EXCEPT !.pc = "process", !.at = @ + 1,
                                           !.todo = byCommand[call[t].list[call[t].at + 1]]]
            BY <1>1, <4>2, BeginCommandStep
          <6>2. QED
            BY <2>2, <5>3, <6>1 DEF CallRecord
        <5>5. QED
          BY <5>2, <5>4
      <4>3. CASE /\ call[t].at < Len(call[t].list)
                 /\ call' = [call EXCEPT ![t].pc = "unlock", ![t].at = @ + 1, ![t].ok = FALSE]
        <5>1. call'[t] = [call[t] EXCEPT !.pc = "unlock", !.at = @ + 1, !.ok = FALSE]
          BY <1>1, <4>3, UnknownCommandStep
        <5>2. QED
          BY <2>2, <5>1 DEF CallRecord
      <4>4. QED
        BY <2>6, <4>1, <4>2, <4>3 DEF NextCommand
    <3>3. QED
      BY <2>4, <3>1, <3>2
  <2>7. CASE ProcessSaCommand(t)
    <3>1. UNCHANGED <<registryVars, left>> /\ call[t].pc = "process" /\ call[t].todo \subseteq processors
      BY <2>7 DEF ProcessSaCommand, RegistryAgrees
    <3>2. call'[t].pc = "process" => call'[t].todo \subseteq processors
      <4>1. CASE call' = [call EXCEPT ![t].pc = "next"]
        <5>1. call'[t] = [call[t] EXCEPT !.pc = "next"]
          BY <1>1, <4>1, PcStep
        <5>2. QED
          BY <2>2, <5>1 DEF CallRecord
      <4>2. ASSUME NEW p \in call[t].todo,
                   call' = [call EXCEPT ![t].todo = @ \ {p}, ![t].done = @ \cup {<<call[t].at, p>>}]
            PROVE  call'[t].todo \subseteq processors
        <5>1. call'[t].todo = call[t].todo \ {p}
          <6>1. call'[t] = [call[t] EXCEPT !.todo = @ \ {p}, !.done = @ \cup {<<call[t].at, p>>}]
            BY <1>1, <4>2, DoneStep
          <6>2. QED
            BY <2>2, <6>1 DEF CallRecord
        <5>2. QED
          BY <3>1, <5>1
      <4>3. CASE call' = [call EXCEPT ![t].pc = "unlock", ![t].ok = FALSE]
        <5>1. call'[t] = [call[t] EXCEPT !.pc = "unlock", !.ok = FALSE]
          BY <1>1, <4>3, FailsStep
        <5>2. QED
          BY <2>2, <5>1 DEF CallRecord
      <4>4. QED
        BY <2>7, <4>1, <4>2, <4>3 DEF ProcessSaCommand
    <3>3. \A p \in Processors : owner'[p] # NoExecutor => owner[p] # NoExecutor \/ p \in processors
      <4>1. CASE UNCHANGED owner
        BY <4>1
      <4>2. CASE \E p \in call[t].todo : owner' = [owner EXCEPT ![p] = OwnerAfter(call[t].executor, call[t].list[call[t].at])]
        BY <1>1, <3>1, <4>2
      <4>3. QED
        BY <2>7, <4>1, <4>2 DEF ProcessSaCommand
    <3>4. QED
      BY <2>4, <3>1, <3>2, <3>3
  <2>8. QED
    BY <2>1, <2>3, <2>5, <2>6, <2>7 DEF CallGoesOn
<1>6. ASSUME NEW t \in Threads, OthersUnchanged(t), call'[t].pc # "process", UNCHANGED <<processors, byCommand, owner, left>>
      PROVE  RegistryAgrees'
  BY <1>6 DEF RegistryAgrees, OthersUnchanged
<1>7. ASSUME NEW t \in Threads, NEW p \in Processors, Registers(t, p) PROVE RegistryAgrees'
  <2>1. UNCHANGED <<processors, byCommand, owner, left>>
    BY <1>7 DEF Registers, RegisterCall, UnregisterCall, Starts, registryVars
  <2>2. OthersUnchanged(t) /\ call'[t].pc \in {"register", "unregister"}
    BY <1>1, <1>7, RegisterCallStep DEF Registers
  <2>3. QED
    BY <1>6, <2>1, <2>2
<1>8. ASSUME NEW t \in Threads, NEW x \in Executors, NEW l \in Lists, DriverSends(t, x, l) PROVE RegistryAgrees'
  <2>1. UNCHANGED <<processors, byCommand, owner, left>>
    BY <1>8 DEF DriverSends, OnSaCommands, Starts, registryVars
  <2>2. OthersUnchanged(t) /\ call'[t].pc = "lock"
    BY <1>1, <1>8, OnSaCommandsStep DEF DriverSends
  <2>3. QED
    BY <1>6, <2>1, <2>2
<1>9. QED
  BY <1>3, <1>4, <1>5, <1>7, <1>8 DEF Next

-------------------------------------------------------------------------------
(* The loss of an executor.                                                *)

(* An executor that was told, or is being told, of a disconnect in time    *)
(* has no call and will have none; it owns nothing once it has been told,  *)
(* and until then only what is still to be told.                           *)
Lost == told \cup (IF fw.pc = "tell" THEN {fw.executor} ELSE {})

LostInTime ==
    \A x \in Lost \ late :
        /\ ~Alive(x)
        /\ \A t \in Threads : call[t].executor # x
        /\ \A p \in Processors \ left :
              owner[p] = x => x \notin told /\ fw.pc = "tell" /\ x = fw.executor /\ p \in fw.tell

LEMMA LostReleased == LostInTime => OwnerReleased
BY DEF LostInTime, Lost, OwnerReleased

(* The steps of the threads: no call is made for a lost executor.          *)
LEMMA LostThreadStep ==
    ASSUME TypeOK, Telling, LostInTime, NEW t \in Threads,
           \/ CommandThread(t) \/ (\E p \in Processors : Registers(t, p))
           \/ \E x \in Executors, l \in Lists : DriverSends(t, x, l)
    PROVE  LostInTime'
<1>1. /\ CallsTyped /\ RegistryTyped /\ NoExecutor \notin Executors /\ Lost \subseteq Executors
      /\ call[t] \in CallRecord /\ owner \in [Processors -> Executors \cup {NoExecutor}]
      /\ call[t].todo \subseteq Processors
  BY DriverTypeParts, DriverConstants DEF CallsTyped, CallRecord, TypeOK, Lost, Telling
<1>2. OthersUnchanged(t) /\ UNCHANGED driverVars
  BY ThreadStepType
<1>3. ASSUME \A x \in Lost \ late : call'[t].executor # x,
             left \subseteq left',
             \A p \in Processors : owner'[p] \in {owner[p], NoExecutor, call[t].executor}
      PROVE  LostInTime'
  <2>1. Lost' = Lost /\ UNCHANGED <<late, fw, told>> /\ \A x : Alive(x)' <=> Alive(x)
    BY <1>2 DEF Lost, Alive, driverVars
  <2>2. ASSUME NEW x \in Lost \ late
        PROVE  /\ \A u \in Threads : call'[u].executor # x
               /\ \A p \in Processors \ left' : owner'[p] = x => owner[p] = x /\ p \notin left
    <3>1. x # NoExecutor /\ call[t].executor # x
      BY <1>1, <2>2 DEF LostInTime
    <3>2. \A u \in Threads : call'[u].executor # x
      BY <1>2, <1>3, <2>2 DEF LostInTime, OthersUnchanged
    <3>3. QED
      BY <1>3, <3>1, <3>2
  <2>3. QED
    BY <2>1, <2>2 DEF LostInTime
<1>4. ASSUME NEW p \in Processors, Registers(t, p) PROVE LostInTime'
  <2>1. call'[t].executor = NoExecutor /\ UNCHANGED <<owner, left>>
    BY <1>1, <1>4, RegisterCallStep DEF Registers, RegisterCall, UnregisterCall, Starts
  <2>2. QED
    BY <1>1, <1>3, <2>1
<1>5. ASSUME NEW x \in Executors, NEW l \in Lists, DriverSends(t, x, l) PROVE LostInTime'
  <2>1. call'[t].executor = x /\ Alive(x) /\ UNCHANGED <<owner, left>>
    BY <1>1, <1>5, OnSaCommandsStep DEF DriverSends, OnSaCommands, Starts
  <2>2. \A y \in Lost \ late : call'[t].executor # y
    BY <2>1 DEF LostInTime
  <2>3. QED
    BY <1>3, <2>1, <2>2
<1>6. CASE CommandThread(t)
  <2>1. CallGoesOn(t) /\ CallEffect(t)
    BY <1>6, CallEffects DEF CommandThread
  <2>2. call'[t].executor \in {call[t].executor, NoExecutor}
    <3>1. CASE call'[t] = IdleCall
      BY <3>1, IdleCallType
    <3>2. CASE call'[t] # IdleCall
      BY <1>1, <2>1, <3>2 DEF CallEffect, CallRecord
    <3>3. QED
      BY <3>1, <3>2
  <2>3. left \subseteq left'
    BY <2>1 DEF CallGoesOn, RegisterSaCommandProcessor, UnregisterSaCommandProcessor, LockShared, NextCommand,
                ProcessSaCommand, Return
  <2>4. \A p \in Processors : owner'[p] \in {owner[p], NoExecutor, call[t].executor}
    <3>1. CASE UNCHANGED owner
      BY <3>1
    <3>2. CASE \E p \in call[t].todo :
                 owner' = [owner EXCEPT ![p] = OwnerAfter(call[t].executor, call[t].list[call[t].at])]
      BY <1>1, <3>2 DEF OwnerAfter
    <3>3. QED
      BY <2>1, <3>1, <3>2 DEF CallGoesOn, RegisterSaCommandProcessor, UnregisterSaCommandProcessor, LockShared,
                              NextCommand, ProcessSaCommand, Return
  <2>5. \A x \in Lost \ late : call'[t].executor # x
    BY <1>1, <2>2 DEF LostInTime
  <2>6. QED
    BY <1>3, <2>3, <2>4, <2>5
<1>7. QED
  BY <1>4, <1>5, <1>6

(* The steps of the driver and of the framework.                           *)
LEMMA LostDriverStep ==
    ASSUME TypeOK, RegistryAgrees, Telling, LostInTime,
           DriverStarts \/ DriverDies \/ FrameworkThread \/ \E x \in Executors : OnRegisterFinish(x)
    PROVE  LostInTime'
<1>1. /\ NoExecutor \notin Executors /\ Lost \subseteq Executors /\ fw \in FwRecord
      /\ owner \in [Processors -> Executors \cup {NoExecutor}]
      /\ madeBy \in [Executors -> 0..starts] /\ starts \in Nat /\ fw.todo \subseteq Executors
      /\ fw.tell \subseteq Processors /\ \A x \in Lost : madeBy[x] # 0
  BY DriverConstants DEF TypeOK, Lost, Telling, FwRecord
(* The lost stay lost while what they own changes as told.                 *)
<1>2. ASSUME UNCHANGED <<call, owner, left, late, fw, told>>, \A x \in Lost : Alive(x)' => Alive(x)
      PROVE  LostInTime'
  <2>1. Lost' = Lost
    BY <1>2 DEF Lost
  <2>2. QED
    BY <1>2, <2>1 DEF LostInTime
<1>3. ASSUME UNCHANGED <<call, owner, left, late, told>>, \A x \in Lost : Alive(x)' => Alive(x),
             fw.pc # "tell", fw'.pc # "tell"
      PROVE  LostInTime'
  <2>1. Lost' = Lost
    BY <1>3 DEF Lost
  <2>2. QED
    BY <1>3, <2>1 DEF LostInTime
<1>4. CASE DriverStarts
  <2>1. UNCHANGED <<call, owner, left, late, fw, told, madeBy>> /\ starts' = starts + 1
    BY <1>4 DEF DriverStarts, commandVars
  <2>2. \A x \in Lost : ~Alive(x)'
    <3>1. \A x \in Lost : madeBy[x] \in 0..starts
      BY <1>1
    <3>2. \A x \in Lost : madeBy[x] # starts + 1
      BY <1>1, <3>1
    <3>3. QED
      BY <2>1, <3>2 DEF Alive
  <2>3. QED
    BY <1>2, <2>1, <2>2
<1>5. CASE DriverDies \/ \E x \in Executors : OnRegisterFinish(x)
  <2>1. UNCHANGED <<call, owner, left, late, fw, told>>
    BY <1>5 DEF DriverDies, OnRegisterFinish, commandVars
  <2>2. \A x \in Lost : Alive(x)' => Alive(x)
    BY <1>5 DEF DriverDies, OnRegisterFinish, Alive
  <2>3. QED
    BY <1>2, <2>1, <2>2
<1>6. CASE GetExecutorList
  <2>1. UNCHANGED <<call, owner, left, late, told, up, starts>> /\ fw.pc = "idle"
    BY <1>6 DEF GetExecutorList, commandVars
  <2>2. fw'.pc # "tell"
    <3>1. CASE UNCHANGED fw
      BY <2>1, <3>1
    <3>2. CASE \E S : fw' = [IdleFw EXCEPT !.pc = "update", !.todo = S]
      BY <3>2 DEF IdleFw
    <3>3. QED
      BY <1>6, <3>1, <3>2 DEF GetExecutorList
  <2>3. \A x \in Lost : madeBy'[x] = madeBy[x]
    BY <1>1, <1>6 DEF GetExecutorList
  <2>4. QED
    BY <1>3, <2>1, <2>2, <2>3 DEF Alive
<1>7. CASE UpdateList \/ DisconnectEnds
  <2>1. UNCHANGED <<call, owner, left, late, told, up, starts, madeBy>> /\ fw.pc # "tell" /\ fw'.pc # "tell"
    BY <1>7, IdleFwType DEF UpdateList, DisconnectEnds, commandVars
  <2>2. QED
    BY <1>3, <2>1 DEF Alive
<1>8. CASE OnHdiDisconnect
  <2>1. UNCHANGED <<call, owner, left, late, told, up, starts, madeBy>> /\ fw.pc # "tell"
    BY <1>8 DEF OnHdiDisconnect, commandVars
  <2>2. fw'.pc # "tell"
    BY <1>8 DEF OnHdiDisconnect, IdleFw
  <2>3. QED
    BY <1>3, <2>1, <2>2 DEF Alive
<1>9. CASE DisconnectExecutor
  <2>1. PICK x \in fw.todo :
           /\ fw' = [fw EXCEPT !.pc = "tell", !.todo = @ \ {x}, !.executor = x, !.tell = processors]
           /\ late' = IF Alive(x) \/ \E t \in Threads : call[t].executor = x THEN late \cup {x} ELSE late
    BY <1>9 DEF DisconnectExecutor
  <2>2. /\ fw.pc = "disconnect" /\ fw'.pc = "tell" /\ fw'.executor = x /\ fw'.tell = processors
        /\ UNCHANGED <<call, owner, left, told, up, starts, madeBy>>
    BY <1>1, <1>9, <2>1 DEF DisconnectExecutor, FwRecord
  <2>3. Lost' = told \cup {x} /\ Lost = told /\ x \in Executors /\ late \subseteq late'
    BY <1>1, <2>1, <2>2 DEF Lost
  <2>4. ASSUME NEW y \in told \ late'
        PROVE  ~Alive(y) /\ (\A t \in Threads : call[t].executor # y) /\ \A p \in Processors \ left : owner[p] # y
    BY <2>2, <2>3, <2>4 DEF LostInTime
  <2>5. ASSUME x \notin late'
        PROVE  /\ ~Alive(x) /\ (\A t \in Threads : call[t].executor # x)
               /\ \A p \in Processors \ left : owner[p] = x => p \in processors
    <3>1. ~Alive(x) /\ \A t \in Threads : call[t].executor # x
      BY <2>1, <2>5
    <3>2. x # NoExecutor
      BY <1>1, <2>3
    <3>3. QED
      BY <3>1, <3>2 DEF RegistryAgrees
  <2>6. \A y : Alive(y)' <=> Alive(y)
    BY <2>2 DEF Alive
  <2>7. ASSUME NEW y \in Lost' \ late'
        PROVE  /\ ~Alive(y)' /\ (\A t \in Threads : call'[t].executor # y)
               /\ \A p \in Processors \ left' :
                     owner'[p] = y => y \notin told' /\ fw'.pc = "tell" /\ y = fw'.executor /\ p \in fw'.tell
    <3>1. CASE y \in told
      BY <2>2, <2>4, <2>6, <2>7, <3>1
    <3>2. CASE y \notin told
      BY <2>2, <2>3, <2>5, <2>6, <2>7, <3>2
    <3>3. QED
      BY <3>1, <3>2
  <2>8. QED
    BY <2>7 DEF LostInTime
<1>10. CASE TellProcessor
  <2>1. PICK p \in fw.tell :
           /\ owner' = IF owner[p] = fw.executor THEN [owner EXCEPT ![p] = NoExecutor] ELSE owner
           /\ fw' = [fw EXCEPT !.tell = @ \ {p}]
    BY <1>10 DEF TellProcessor
  <2>2. /\ fw.pc = "tell" /\ fw'.pc = "tell" /\ fw'.executor = fw.executor /\ fw'.tell = fw.tell \ {p}
        /\ UNCHANGED <<call, left, told, late, up, starts, madeBy>>
    BY <1>1, <1>10, <2>1 DEF TellProcessor, FwRecord
  <2>3. /\ owner'[p] # fw.executor \/ fw.executor = NoExecutor
        /\ \A q \in Processors : owner'[q] \in {owner[q], NoExecutor}
    BY <1>1, <2>1
  <2>4. Lost' = Lost /\ \A y : Alive(y)' <=> Alive(y)
    BY <2>2 DEF Lost, Alive
  <2>5. fw.executor # NoExecutor
    BY <1>1, <2>2 DEF Telling
  <2>6. ASSUME NEW y \in Lost \ late, NEW q \in Processors \ left, owner'[q] = y
        PROVE  y \notin told /\ y = fw.executor /\ q \in fw.tell \ {p}
    <3>1. y # NoExecutor /\ owner[q] = y
      BY <1>1, <2>3, <2>6
    <3>2. y \notin told /\ y = fw.executor /\ q \in fw.tell
      BY <2>6, <3>1 DEF LostInTime
    <3>3. q # p
      BY <2>3, <2>5, <2>6, <3>2
    <3>4. QED
      BY <3>2, <3>3
  <2>7. QED
    BY <2>2, <2>4, <2>6 DEF LostInTime
<1>11. CASE ExecutorTold
  <2>1. /\ fw.pc = "tell" /\ fw.tell = {} /\ fw'.pc = "disconnect" /\ told' = told \cup {fw.executor}
        /\ UNCHANGED <<call, owner, left, late, up, starts, madeBy>>
    BY <1>1, <1>11 DEF ExecutorTold, FwRecord
  <2>2. Lost' = Lost /\ \A y : Alive(y)' <=> Alive(y)
    BY <2>1 DEF Lost, Alive
  <2>3. \A y \in Lost \ late : \A p \in Processors \ left : owner[p] # y
    BY <2>1 DEF LostInTime
  <2>4. QED
    BY <2>1, <2>2, <2>3 DEF LostInTime
<1>12. QED
  BY <1>4, <1>5, <1>6, <1>7, <1>8, <1>9, <1>10, <1>11 DEF FrameworkThread

-------------------------------------------------------------------------------
(* The inductive invariant.                                                *)

DriverInv ==
    /\ TypeOK /\ NoticesAlternate /\ Telling /\ NoneForgotten
    /\ LockHeld /\ AllProgress /\ RegistryAgrees /\ LostInTime

LEMMA DriverInitially == Init => DriverInv
<1> SUFFICES ASSUME Init PROVE DriverInv
  OBVIOUS
<1>1. /\ processors = {} /\ byCommand = [id \in Ids |-> {}] /\ readers = {} /\ known = {} /\ left = {}
      /\ call = [t \in Threads |-> IdleCall] /\ calls = [t \in Threads |-> 0]
      /\ owner = [p \in Processors |-> NoExecutor]
      /\ up = FALSE /\ starts = 0 /\ madeBy = [x \in Executors |-> 0] /\ registered = {} /\ executorList = {}
      /\ notices = <<>> /\ fw = IdleFw /\ told = {} /\ late = {}
  BY DEF Init, CommandInit
<1>2. /\ fw.pc = "idle" /\ \A t \in Threads : call[t] = IdleCall
  BY <1>1, IdleFwType
<1>3. CallsTyped
  <2>1. IdleCall.at <= Len(IdleCall.list)
    BY IdleCallType
  <2>2. QED
    BY <1>1, <2>1, IdleCallType DEF CallsTyped
<1>4. RegistryTyped
  BY <1>1, DriverConstants DEF RegistryTyped
<1>5. DriverTyped
  <2>1. notices \in Seq({"up", "down"})
    BY <1>1, EmptySeq
  <2>2. up \in BOOLEAN
    BY <1>1
  <2>3. starts \in 0..MaxStarts /\ madeBy \in [Executors -> 0..starts]
    BY <1>1, DriverConstants
  <2>4. QED
    BY <1>1, <2>1, <2>2, <2>3, IdleFwType DEF DriverTyped
<1>6. TypeOK
  BY <1>3, <1>4, <1>5, DriverTypeParts
<1>7. NoticesAlternate
  <2>1. Len(notices) = 0 /\ 1..(0 - 1) = {}
    BY <1>1
  <2>2. QED
    BY <1>1, <1>2, <2>1 DEF NoticesAlternate
<1>8. Telling /\ NoneForgotten
  BY <1>1, <1>2 DEF Telling, NoneForgotten
<1>9. LockHeld /\ RegistryAgrees /\ LostInTime
  BY <1>1, <1>2, IdleCallType DEF LockHeld, RegistryAgrees, LostInTime, Lost, Locked
<1>10. AllProgress
  BY <1>2, IdleCallType DEF AllProgress, Progress, Locked
<1>11. QED
  BY <1>6, <1>7, <1>8, <1>9, <1>10 DEF DriverInv

LEMMA DriverInductive == DriverInv /\ [Next]_vars => DriverInv'
<1> SUFFICES ASSUME DriverInv, [Next]_vars PROVE DriverInv'
  OBVIOUS
<1> USE DEF DriverInv
<1>1. CASE UNCHANGED vars
  BY <1>1 DEF vars, commandVars, registryVars, driverVars, TypeOK, NoticesAlternate, Telling, NoneForgotten, LockHeld,
              AllProgress, Progress, RegistryAgrees, LostInTime, Lost, Alive
<1>2. CASE Next
  <2>1. LockHeld' /\ AllProgress' /\ RegistryAgrees'
    BY <1>2, LockStep, ProgressStep, RegistryStep
  <2>2. CASE DriverStarts \/ DriverDies \/ FrameworkThread
    BY <2>1, <2>2, DriverStepType, FrameworkStepType, NoticesStep, TellingStep, LostDriverStep
  <2>3. CASE \E x \in Executors : OnRegisterFinish(x)
    <3>1. UNCHANGED <<up, starts, madeBy, executorList, notices, fw, told>>
      BY <2>3 DEF OnRegisterFinish
    <3>2. NoticesAlternate' /\ Telling' /\ NoneForgotten'
      BY <3>1 DEF NoticesAlternate, Telling, NoneForgotten
    <3>3. QED
      BY <2>1, <2>3, <3>2, DriverStepType, LostDriverStep
  <2>4. ASSUME NEW t \in Threads,
               \/ CommandThread(t) \/ (\E p \in Processors : Registers(t, p))
               \/ \E x \in Executors, l \in Lists : DriverSends(t, x, l)
        PROVE  DriverInv'
    <3>1. TypeOK' /\ UNCHANGED driverVars /\ LostInTime'
      BY <2>4, ThreadStepType, LostThreadStep
    <3>2. NoticesAlternate' /\ Telling' /\ NoneForgotten'
      BY <3>1 DEF NoticesAlternate, Telling, NoneForgotten, driverVars
    <3>3. QED
      BY <2>1, <3>1, <3>2
  <2>5. QED
    BY <1>2, <2>2, <2>3, <2>4 DEF Next
<1>3. QED
  BY <1>1, <1>2

LEMMA DriverInvariant == Spec => []DriverInv
BY DriverInitially, DriverInductive, PTL DEF Spec

(* Every variable of the command manager, the driver and the framework's   *)
(* thread keeps its type, and no call reads past its list of commands,     *)
(* whatever the driver sends and whenever it dies.                         *)
THEOREM DriverTypeCorrect == Spec => []TypeOK
<1>1. DriverInv => TypeOK
  BY DEF DriverInv
<1>2. QED
  BY <1>1, DriverInvariant, PTL

(* ProcessSaCommands applies its list in order and whole: a call that      *)
(* returns HDF_SUCCESS has given every command to every processor that is  *)
(* registered for it, and one that fails has done so up to the command     *)
(* that failed.  The shared mutex is what keeps the registry still.        *)
THEOREM AppliedInOrderCorrect == Spec => []AppliedInOrder
<1>1. DriverInv => AppliedInOrder
  BY ProgressIsOrder DEF DriverInv
<1>2. QED
  BY <1>1, DriverInvariant, PTL

(* GetExecutorList may replace faceAuthExecutorList_ because the death of  *)
(* the driver before has been handled: no executor that the framework was  *)
(* given is dropped without OnHdiDisconnect.                               *)
THEOREM NoneForgottenCorrect == Spec => []NoneForgotten
<1>1. DriverInv => NoneForgotten
  BY DEF DriverInv
<1>2. QED
  BY <1>1, DriverInvariant, PTL

(* The safety of CallsReturn.  The holders of the shared mutex are exactly *)
(* the calls that are using the registry and the framework's thread while  *)
(* it tells the processors: nobody waits for the mutex that holds it.      *)
MutexHolders ==
    readers = {t \in Threads : call[t].pc \in Locked} \cup {f \in {Framework} : fw.pc = "tell"}

(* Whatever happens to a call or to the framework's thread while it holds  *)
(* the mutex brings it nearer to the release, of which there are finitely  *)
(* many steps; nothing another thread does takes it back.                  *)
HoldersAdvance ==
    /\ \A t \in Threads : call[t].pc \in Locked /\ call'[t] # call[t] => Nearer(call[t], call'[t])
    /\ fw.pc = "tell" /\ fw' # fw =>
          \/ fw'.pc = "disconnect" /\ fw'.todo = fw.todo
          \/ fw'.pc = "tell" /\ fw'.todo = fw.todo /\ fw'.tell \subseteq fw.tell /\ fw'.tell # fw.tell

LEMMA HeldIsHolders == TypeOK /\ LockHeld => MutexHolders
BY DriverConstants DEF TypeOK, LockHeld, MutexHolders

LEMMA AdvanceStep ==
    ASSUME TypeOK, [Next]_vars
    PROVE  HoldersAdvance
<1>1. /\ CallsTyped /\ RegistryTyped /\ fw \in FwRecord
  BY DriverTypeParts DEF TypeOK
<1>2. CASE UNCHANGED vars
  BY <1>2 DEF vars, commandVars, driverVars, HoldersAdvance
<1>3. CASE DriverStarts \/ DriverDies \/ \E x \in Executors : OnRegisterFinish(x)
  BY <1>3 DEF DriverStarts, DriverDies, OnRegisterFinish, commandVars, HoldersAdvance
<1>4. CASE FrameworkThread
  <2>1. UNCHANGED call
    BY <1>4 DEF FrameworkThread, GetExecutorList, UpdateList, OnHdiDisconnect, DisconnectExecutor, TellProcessor,
                ExecutorTold, DisconnectEnds, commandVars
  <2>2. CASE TellProcessor
    <3>1. PICK p \in fw.tell : fw' = [fw EXCEPT !.tell = @ \ {p}]
      BY <2>2 DEF TellProcessor
    <3>2. fw'.pc = fw.pc /\ fw'.todo = fw.todo /\ fw'.tell = fw.tell \ {p}
      BY <1>1, <3>1 DEF FwRecord
    <3>3. QED
      BY <2>1, <2>2, <3>2 DEF HoldersAdvance, TellProcessor
  <2>3. CASE ExecutorTold
    <3>1. fw'.pc = "disconnect" /\ fw'.todo = fw.todo
      BY <1>1, <2>3 DEF ExecutorTold, FwRecord
    <3>2. QED
      BY <2>1, <3>1 DEF HoldersAdvance
  <2>4. CASE ~TellProcessor /\ ~ExecutorTold
    <3>1. fw.pc # "tell"
      BY <1>4, <2>4 DEF FrameworkThread, GetExecutorList, UpdateList, OnHdiDisconnect, DisconnectExecutor, DisconnectEnds
    <3>2. QED
      BY <2>1, <3>1 DEF HoldersAdvance
  <2>5. QED
    BY <2>2, <2>3, <2>4
<1>5. ASSUME NEW t \in Threads, OthersUnchanged(t), UNCHANGED driverVars,
             call[t].pc \in Locked => Nearer(call[t], call'[t])
      PROVE  HoldersAdvance
  BY <1>5 DEF OthersUnchanged, driverVars, HoldersAdvance
<1>6. ASSUME NEW t \in Threads, CommandThread(t) PROVE HoldersAdvance
  <2>1. CallGoesOn(t) /\ UNCHANGED driverVars /\ OthersUnchanged(t)
    BY <1>1, <1>6, CallsStepType DEF CommandThread
  <2>2. CASE RegisterSaCommandProcessor(t) \/ UnregisterSaCommandProcessor(t) \/ LockShared(t)
    BY <1>5, <2>1, <2>2 DEF RegisterSaCommandProcessor, UnregisterSaCommandProcessor, LockShared, Locked
  <2>3. CASE NextCommand(t) \/ ProcessSaCommand(t)
    BY <1>1, <1>5, <2>1, <2>3, MovesOn
  <2>4. CASE Return(t)
    <3>1. call[t].pc = "unlock" /\ call'[t].pc = "idle"
      BY <1>1, <2>4, EndsStep, IdleCallType DEF Return
    <3>2. QED
      BY <1>5, <2>1, <3>1 DEF Nearer
  <2>5. QED
    BY <2>1, <2>2, <2>3, <2>4 DEF CallGoesOn
<1>7. ASSUME NEW t \in Threads, NEW p \in Processors, Registers(t, p) PROVE HoldersAdvance
  <2>1. OthersUnchanged(t) /\ UNCHANGED driverVars /\ call[t].pc = "idle"
    BY <1>1, <1>7, RegisterCallStep DEF Registers, RegisterCall, UnregisterCall, Starts
  <2>2. QED
    BY <1>5, <2>1 DEF Locked
<1>8. ASSUME NEW t \in Threads, NEW x \in Executors, NEW l \in Lists, DriverSends(t, x, l) PROVE HoldersAdvance
  <2>1. OthersUnchanged(t) /\ UNCHANGED driverVars /\ call[t].pc = "idle"
    BY <1>1, <1>8, OnSaCommandsStep DEF DriverSends, OnSaCommands, Starts
  <2>2. QED
    BY <1>5, <2>1 DEF Locked
<1>9. QED
  BY <1>2, <1>3, <1>4, <1>6, <1>7, <1>8 DEF Next

(* The calls of the command manager cannot block each other for ever: its  *)
(* shared mutex is only held by threads that do not wait for it, and each  *)
(* of their steps, and no step of another thread, brings its release       *)
(* nearer.  Together with the fairness of the threads this is CallsReturn. *)
THEOREM MutexReleased == Spec => []MutexHolders /\ [][HoldersAdvance]_vars
<1>1. DriverInv => MutexHolders
  BY HeldIsHolders DEF DriverInv
<1>2. DriverInv /\ [Next]_vars => HoldersAdvance
  BY AdvanceStep DEF DriverInv
<1>3. QED
  BY <1>1, <1>2, DriverInvariant, PTL DEF Spec

(* After OnHdiDisconnect of an executor no processor that is registered    *)
(* still has it as its owner, unless it was told too early.                *)
THEOREM OwnerReleasedCorrect == Spec => []OwnerReleased
<1>1. DriverInv => OwnerReleased
  BY LostReleased DEF DriverInv
<1>2. QED
  BY <1>1, DriverInvariant, PTL
===============================================================================
