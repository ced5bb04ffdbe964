--------------------------- MODULE SaCommandManager ---------------------------
(***************************************************************************)
(* SaCommandManager: the processors registered for the commands a driver   *)
(* sends, and the calls that use them.  Its shared mutex is held for the   *)
(* whole of a list of commands; registering takes it exclusively.  Every   *)
(* call is made by one of Threads (the binder threads of the service).     *)
(*                                                                         *)
(* A processor is abstracted to what ScreenBrightnessManager is to its     *)
(* callers: BEGIN makes an executor the owner when there is none, END and  *)
(* the loss of the executor take it away from the owner only.              *)
(***************************************************************************)
EXTENDS Naturals, Sequences, FiniteSets

CONSTANTS Threads, Executors, Processors,
          NoExecutor,
          CommandsOf,    \* the commands each processor registers for
          Lists,         \* lists of commands a driver sends
          MaxCalls       \* bound: calls of each thread

Ids == {"BEGIN", "END", "OTHER"}

ASSUME CommandAssumption ==
    /\ NoExecutor \notin Executors
    /\ CommandsOf \in [Processors -> SUBSET Ids]
    /\ Lists \subseteq Seq(Ids)
    /\ MaxCalls \in Nat

VARIABLES
    processors,      \* processors_
    known,           \* the keys of commandId2Processors_
    byCommand,       \* commandId2Processors_
    readers,         \* who holds mutex_ shared
    call,            \* each thread's call
    calls,           \* calls each thread has made
    owner,           \* each processor's executorInProc_
    left             \* history: processors that have unregistered

registryVars == <<processors, known, byCommand>>
commandVars == <<registryVars, readers, call, calls, owner, left>>

(* A call: where it is, whose commands, how many of them have been begun,  *)
(* the processors still to be given the present one, what has been done,   *)
(* as pairs of a command's place in the list and a processor, and whether  *)
(* all went well.                                                          *)
IdleCall == [pc |-> "idle", executor |-> NoExecutor, list |-> <<>>, at |-> 0, todo |-> {},
             done |-> {}, ok |-> TRUE]

CommandInit ==
    /\ processors = {}
    /\ known = {}
    /\ byCommand = [id \in Ids |-> {}]
    /\ readers = {}
    /\ call = [t \in Threads |-> IdleCall]
    /\ calls = [t \in Threads |-> 0]
    /\ owner = [p \in Processors |-> NoExecutor]
    /\ left = {}

Starts(t, c) ==
    /\ call[t].pc = "idle"
    /\ calls[t] < MaxCalls
    /\ calls' = [calls EXCEPT ![t] = @ + 1]
    /\ call' = [call EXCEPT ![t] = c]
    /\ UNCHANGED <<registryVars, readers, owner, left>>

-------------------------------------------------------------------------------
(* Registration: called, then done when nobody else holds the mutex.       *)

RegisterCall(t, p) == Starts(t, [IdleCall EXCEPT !.pc = "register", !.todo = {p}])

RegisterSaCommandProcessor(t) ==
    /\ call[t].pc = "register"
    /\ readers = {}
    /\ processors' = processors \cup call[t].todo
    /\ known' = known \cup UNION {CommandsOf[p] : p \in call[t].todo}
    /\ byCommand' = [id \in Ids |-> byCommand[id] \cup {p \in call[t].todo : id \in CommandsOf[p]}]
    /\ call' = [call EXCEPT ![t] = IdleCall]
    /\ UNCHANGED <<readers, calls, owner, left>>

UnregisterCall(t, p) == Starts(t, [IdleCall EXCEPT !.pc = "unregister", !.todo = {p}])

(* The commands stay known when their last processor leaves.               *)
UnregisterSaCommandProcessor(t) ==
    /\ call[t].pc = "unregister"
    /\ readers = {}
    /\ processors' = processors \ call[t].todo
    /\ byCommand' = [id \in Ids |-> byCommand[id] \ {p \in call[t].todo : id \in CommandsOf[p]}]
    /\ left' = left \cup call[t].todo
    /\ call' = [call EXCEPT ![t] = IdleCall]
    /\ UNCHANGED <<known, readers, calls, owner>>

-------------------------------------------------------------------------------
(* OnSaCommands and ProcessSaCommands.                                     *)

OnSaCommands(t, x, l) == Starts(t, [IdleCall EXCEPT !.pc = "lock", !.executor = x, !.list = l])

LockShared(t) ==
    /\ call[t].pc = "lock"
    /\ readers' = readers \cup {t}
    /\ call' = [call EXCEPT ![t].pc = "next"]
    /\ UNCHANGED <<registryVars, calls, owner, left>>

(* Mutant: the end of the list is counted as a command.                    *)
NextCommandPastEnd(t) ==
    LET c == call[t] IN
    /\ c.pc = "next"
    /\ \/ /\ c.at = Len(c.list)
          /\ call' = [call EXCEPT ![t].pc = "unlock", ![t].at = @ + 1]
       \/ /\ c.at < Len(c.list)
          /\ c.list[c.at + 1] \in known
          /\ call' = [call EXCEPT ![t].pc = "process", ![t].at = @ + 1,
                                  ![t].todo = byCommand[c.list[c.at + 1]]]
    /\ UNCHANGED <<registryVars, readers, calls, owner, left>>

(* A command nobody has ever registered for ends the call.                 *)
NextCommand(t) ==
    LET c == call[t] IN
    /\ c.pc = "next"
    /\ \/ /\ c.at = Len(c.list)
          /\ call' = [call EXCEPT ![t].pc = "unlock"]
       \/ /\ c.at < Len(c.list)
          /\ c.list[c.at + 1] \in known
          /\ call' = [call EXCEPT ![t].pc = "process", ![t].at = @ + 1,
                                  ![t].todo = byCommand[c.list[c.at + 1]]]
       \/ /\ c.at < Len(c.list)
          /\ c.list[c.at + 1] \notin known
          /\ call' = [call EXCEPT ![t].pc = "unlock", ![t].at = @ + 1, ![t].ok = FALSE]
    /\ UNCHANGED <<registryVars, readers, calls, owner, left>>

(* ProcessSaCommand of a processor, under its own mutex: the owner it is   *)
(* left with.                                                              *)
Accepts(p, x, id) ==
    \/ id = "BEGIN" /\ owner[p] = NoExecutor
    \/ id = "END" /\ owner[p] = x

OwnerAfter(x, id) == IF id = "BEGIN" THEN x ELSE NoExecutor

(* Mutant: the next processor is called though this one failed.            *)
ProcessGoesOn(t) ==
    LET c == call[t]
        id == c.list[c.at]
    IN
    /\ c.pc = "process"
    /\ \/ /\ c.todo = {}
          /\ call' = [call EXCEPT ![t].pc = "next"]
          /\ UNCHANGED owner
       \/ \E p \in c.todo :
            /\ call' = [call EXCEPT ![t].todo = @ \ {p},
                                    ![t].done = IF Accepts(p, c.executor, id) THEN @ \cup {<<c.at, p>>} ELSE @]
            /\ owner' = IF Accepts(p, c.executor, id)
                        THEN [owner EXCEPT ![p] = OwnerAfter(c.executor, id)] ELSE owner
    /\ UNCHANGED <<registryVars, readers, calls, left>>

(* The processors of the present command, one after the other, in an order *)
(* that depends on their addresses; the first that fails ends the call.    *)
(* A BEGIN may also fail because the library cannot be loaded.             *)
ProcessSaCommand(t) ==
    LET c == call[t]
        id == c.list[c.at]
    IN
    /\ c.pc = "process"
    /\ \/ /\ c.todo = {}
          /\ call' = [call EXCEPT ![t].pc = "next"]
          /\ UNCHANGED owner
       \/ \E p \in c.todo :
            /\ Accepts(p, c.executor, id)
            /\ call' = [call EXCEPT ![t].todo = @ \ {p}, ![t].done = @ \cup {<<c.at, p>>}]
            /\ owner' = [owner EXCEPT ![p] = OwnerAfter(c.executor, id)]
       \/ \E p \in c.todo :
            /\ ~Accepts(p, c.executor, id) \/ id = "BEGIN"
            /\ call' = [call EXCEPT ![t].pc = "unlock", ![t].ok = FALSE]
            /\ UNCHANGED owner
    /\ UNCHANGED <<registryVars, readers, calls, left>>

(* Mutant: a call that failed keeps the mutex.                             *)
ReturnLocked(t) ==
    /\ call[t].pc = "unlock"
    /\ readers' = IF call[t].ok THEN readers \ {t} ELSE readers
    /\ call' = [call EXCEPT ![t] = IdleCall]
    /\ UNCHANGED <<registryVars, calls, owner, left>>

Return(t) ==
    /\ call[t].pc = "unlock"
    /\ readers' = readers \ {t}
    /\ call' = [call EXCEPT ![t] = IdleCall]
    /\ UNCHANGED <<registryVars, calls, owner, left>>

CallGoesOn(t) ==
    \/ RegisterSaCommandProcessor(t) \/ UnregisterSaCommandProcessor(t)
    \/ LockShared(t) \/ NextCommand(t) \/ ProcessSaCommand(t) \/ Return(t)
===============================================================================
