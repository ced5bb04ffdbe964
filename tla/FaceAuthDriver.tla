---------------------------- MODULE FaceAuthDriver ----------------------------
(***************************************************************************)
(* FaceAuthDriverHdi and its executors, on top of the command manager: the *)
(* driver process comes and goes, the framework's thread is notified in    *)
(* that order and calls GetExecutorList and OnHdiDisconnect; executors     *)
(* that finish their registration pass the driver's commands on.           *)
(*                                                                         *)
(* External, as the code uses them: the driver, whose calls under way      *)
(* outlive it, and the framework, which handles one notice at a time but   *)
(* finishes the registration of an executor whenever it likes.             *)
(***************************************************************************)
EXTENDS SaCommandManager

CONSTANT MaxStarts       \* bound: times the driver is started

Framework == "framework"

ASSUME DriverAssumption == MaxStarts \in Nat /\ Framework \notin Threads

VARIABLES
    up,              \* the driver is running
    starts,          \* times it has been started
    madeBy,          \* the start each executor was made for, 0: none yet
    registered,      \* executors whose command callback the driver has
    executorList,    \* faceAuthExecutorList_
    notices,         \* notices of starts and deaths not handled yet
    fw,              \* the framework's thread
    told,            \* history: executors told of a disconnect
    late             \* history: those that could still send, or had a call under way

driverVars == <<up, starts, madeBy, registered, executorList, notices, fw, told, late>>
vars == <<commandVars, driverVars>>

(* The framework's thread: the executors it has fetched or still has to    *)
(* tell, the one it is telling and the processors still to be told.        *)
IdleFw == [pc |-> "idle", todo |-> {}, executor |-> NoExecutor, tell |-> {}]

Init ==
    /\ CommandInit
    /\ up = FALSE
    /\ starts = 0
    /\ madeBy = [x \in Executors |-> 0]
    /\ registered = {}
    /\ executorList = {}
    /\ notices = <<>>
    /\ fw = IdleFw
    /\ told = {}
    /\ late = {}

(* The driver of x runs: its executors die with it.                        *)
Alive(x) == up /\ madeBy[x] = starts

-------------------------------------------------------------------------------
(* The driver.                                                             *)
DriverStarts ==
    /\ ~up
    /\ starts < MaxStarts
    /\ up' = TRUE
    /\ starts' = starts + 1
    /\ notices' = Append(notices, "up")
    /\ UNCHANGED <<commandVars, madeBy, registered, executorList, fw, told, late>>

DriverDies ==
    /\ up
    /\ up' = FALSE
    /\ notices' = Append(notices, "down")
    /\ UNCHANGED <<commandVars, starts, madeBy, registered, executorList, fw, told, late>>

DriverSends(t, x, l) ==
    /\ x \in registered
    /\ Alive(x)
    /\ OnSaCommands(t, x, l)
    /\ UNCHANGED driverVars

-------------------------------------------------------------------------------
(* The framework's thread.                                                 *)

(* GetExecutorList, first half: the driver is asked for its executors and  *)
(* an object is made for each.  It may not answer.                         *)
GetExecutorList ==
    /\ fw.pc = "idle"
    /\ notices # <<>>
    /\ Head(notices) = "up"
    /\ notices' = Tail(notices)
    /\ \/ \E S \in SUBSET {x \in Executors : madeBy[x] = 0} :
            /\ up
            /\ madeBy' = [x \in Executors |-> IF x \in S THEN starts ELSE madeBy[x]]
            /\ fw' = [IdleFw EXCEPT !.pc = "update", !.todo = S]
       \/ UNCHANGED <<madeBy, fw>>
    /\ UNCHANGED <<commandVars, up, starts, registered, executorList, told, late>>

(* Second half, under mutex_: the list is replaced.                        *)
UpdateList ==
    /\ fw.pc = "update"
    /\ executorList' = fw.todo
    /\ fw' = IdleFw
    /\ UNCHANGED <<commandVars, up, starts, madeBy, registered, notices, told, late>>

(* OnRegisterFinish and RegisterSaCommandCallback of an executor that the  *)
(* framework got.  Both are calls of the driver; if one fails, so does the *)
(* registration.                                                           *)
OnRegisterFinish(x) ==
    /\ x \in executorList \cup told
    /\ x \notin registered
    /\ Alive(x)
    /\ registered' = registered \cup {x}
    /\ UNCHANGED <<commandVars, up, starts, madeBy, executorList, notices, fw, told, late>>

(* OnHdiDisconnect of the driver, under its mutex_, to the end of the list. *)
OnHdiDisconnect ==
    /\ fw.pc = "idle"
    /\ notices # <<>>
    /\ Head(notices) = "down"
    /\ fw' = [IdleFw EXCEPT !.pc = "disconnect", !.todo = executorList]
    /\ UNCHANGED <<commandVars, up, starts, madeBy, registered, executorList, notices, told, late>>

(* Mutant: only the first executor of the list is told.                    *)
DisconnectOne ==
    /\ fw.pc = "disconnect"
    /\ \E x \in fw.todo :
          /\ fw' = [fw EXCEPT !.pc = "tell", !.todo = {}, !.executor = x, !.tell = processors]
          /\ late' = IF Alive(x) \/ \E t \in Threads : call[t].executor = x
                     THEN late \cup {x} ELSE late
    /\ readers' = readers \cup {Framework}
    /\ UNCHANGED <<registryVars, call, calls, owner, left, up, starts, madeBy, registered,
                   executorList, notices, told>>

(* OnHdiDisconnect of the next executor: the command manager takes its     *)
(* mutex shared.                                                           *)
DisconnectExecutor ==
    /\ fw.pc = "disconnect"
    /\ \E x \in fw.todo :
          /\ fw' = [fw EXCEPT !.pc = "tell", !.todo = @ \ {x}, !.executor = x, !.tell = processors]
          /\ late' = IF Alive(x) \/ \E t \in Threads : call[t].executor = x
                     THEN late \cup {x} ELSE late
    /\ readers' = readers \cup {Framework}
    /\ UNCHANGED <<registryVars, call, calls, owner, left, up, starts, madeBy, registered,
                   executorList, notices, told>>

(* Mutant: the manager stops at the first processor another executor owns. *)
TellFirst ==
    /\ fw.pc = "tell"
    /\ \E p \in fw.tell :
          /\ owner' = IF owner[p] = fw.executor THEN [owner EXCEPT ![p] = NoExecutor] ELSE owner
          /\ fw' = [fw EXCEPT !.tell = IF owner[p] = fw.executor THEN @ \ {p} ELSE {}]
    /\ UNCHANGED <<registryVars, readers, call, calls, left, up, starts, madeBy, registered,
                   executorList, notices, told, late>>

(* Every processor is told; the owner's loss frees it.                     *)
TellProcessor ==
    /\ fw.pc = "tell"
    /\ \E p \in fw.tell :
          /\ owner' = IF owner[p] = fw.executor THEN [owner EXCEPT ![p] = NoExecutor] ELSE owner
          /\ fw' = [fw EXCEPT !.tell = @ \ {p}]
    /\ UNCHANGED <<registryVars, readers, call, calls, left, up, starts, madeBy, registered,
                   executorList, notices, told, late>>

ExecutorTold ==
    /\ fw.pc = "tell"
    /\ fw.tell = {}
    /\ readers' = readers \ {Framework}
    /\ told' = told \cup {fw.executor}
    /\ fw' = [fw EXCEPT !.pc = "disconnect", !.executor = NoExecutor]
    /\ UNCHANGED <<registryVars, call, calls, owner, left, up, starts, madeBy, registered,
                   executorList, notices, late>>

DisconnectEnds ==
    /\ fw.pc = "disconnect"
    /\ fw.todo = {}
    /\ executorList' = {}
    /\ notices' = Tail(notices)
    /\ fw' = IdleFw
    /\ UNCHANGED <<commandVars, up, starts, madeBy, registered, told, late>>

-------------------------------------------------------------------------------
FrameworkThread ==
    \/ GetExecutorList \/ UpdateList
    \/ OnHdiDisconnect \/ DisconnectExecutor \/ TellProcessor \/ ExecutorTold \/ DisconnectEnds

CommandThread(t) == CallGoesOn(t) /\ UNCHANGED driverVars

Registers(t, p) == (RegisterCall(t, p) \/ UnregisterCall(t, p)) /\ UNCHANGED driverVars

Next ==
    \/ DriverStarts \/ DriverDies
    \/ FrameworkThread
    \/ \E x \in Executors : OnRegisterFinish(x)
    \/ \E t \in Threads : \/ CommandThread(t)
                          \/ \E p \in Processors : Registers(t, p)
                          \/ \E x \in Executors, l \in Lists : DriverSends(t, x, l)

Fairness == WF_vars(FrameworkThread) /\ \A t \in Threads : WF_vars(CommandThread(t))

Spec == Init /\ [][Next]_vars
FairSpec == Spec /\ Fairness

-------------------------------------------------------------------------------
CallRecord == [pc : {"idle", "register", "unregister", "lock", "next", "process", "unlock"},
               executor : Executors \cup {NoExecutor}, list : Seq(Ids), at : Nat,
               todo : SUBSET Processors, done : SUBSET (Nat \X Processors), ok : BOOLEAN]
FwRecord == [pc : {"idle", "update", "disconnect", "tell"}, todo : SUBSET Executors,
             executor : Executors \cup {NoExecutor}, tell : SUBSET Processors]

(* Every variable has its type; a call does not go past its list.          *)
TypeOK ==
    /\ processors \subseteq Processors
    /\ known \subseteq Ids
    /\ byCommand \in [Ids -> SUBSET Processors]
    /\ readers \subseteq Threads \cup {Framework}
    /\ call \in [Threads -> CallRecord]
    /\ \A t \in Threads : call[t].at <= Len(call[t].list)
    /\ calls \in [Threads -> 0..MaxCalls]
    /\ owner \in [Processors -> Executors \cup {NoExecutor}]
    /\ left \subseteq Processors
    /\ up \in BOOLEAN /\ starts \in 0..MaxStarts
    /\ madeBy \in [Executors -> 0..starts]
    /\ registered \subseteq Executors /\ executorList \subseteq Executors
    /\ notices \in Seq({"up", "down"}) /\ fw \in FwRecord
    /\ told \subseteq Executors /\ late \subseteq Executors

(* A call that returns HDF_SUCCESS has had every command of its list done  *)
(* by every processor registered for it; one that fails has had all the    *)
(* commands before the one that failed done, and none after it.            *)
AppliedInOrder ==
    \A t \in Threads : LET c == call[t] IN
        /\ \A d \in c.done : d[1] <= c.at
        /\ c.pc \in {"next", "process", "unlock"} =>
              \A i \in 1..c.at : i < c.at \/ c.pc = "next" \/ (c.pc = "unlock" /\ c.ok) =>
                  \A p \in byCommand[c.list[i]] : <<i, p>> \in c.done

(* An executor that has been told of the loss of its driver owns nothing,  *)
(* unless it was told while it could still send, or while a call of its    *)
(* was under way, or the processor has left the manager.                   *)
OwnerReleased ==
    \A p \in Processors : owner[p] \in told => owner[p] \in late \/ p \in left

(* Every executor the framework was given is in the list or has been told: *)
(* replacing the list never forgets one.                                   *)
NoneForgotten ==
    \A x \in Executors : madeBy[x] # 0 =>
        x \in executorList \cup told \/ (fw.pc = "update" /\ x \in fw.todo)

(* Every call returns: the mutexes of driver, command manager and          *)
(* processor are taken in one order.                                       *)
CallsReturn == \A t \in Threads : call[t].pc # "idle" ~> call[t].pc = "idle"

(* The loss of a driver frees what its executors own, with the same        *)
(* exceptions.                                                             *)
LostOwnerReleased ==
    \A p \in Processors, x \in Executors :
        owner[p] = x /\ ~Alive(x) ~> owner[p] # x \/ x \in late \/ p \in left
===============================================================================
