---------------------------- MODULE SerialMachine ----------------------------
(***************************************************************************)
(* What FiniteStateMachine (services_ex/inc/finite_state_machine.h)        *)
(* promises its users: the events given to Schedule are taken one at a     *)
(* time, in the order they were accepted, each exactly once, and move the  *)
(* machine along its transition table (an event without a transition       *)
(* leaves the state alone).  While the machine is owned no accepted event  *)
(* waits forever; when its owner lets go of it what is left may be         *)
(* discarded.                                                              *)
(***************************************************************************)
EXTENDS Sequences

CONSTANTS Events, InitialState, Transition

VARIABLES queue,   \* accepted events that have not taken effect
          state,   \* the machine's state
          open     \* somebody still owns the machine

serialVars == <<queue, state, open>>

Target(s, e) == IF <<s, e>> \in DOMAIN Transition THEN Transition[<<s, e>>] ELSE s

Init == queue = <<>> /\ state = InitialState /\ open = TRUE

Accept == /\ \E e \in Events : queue' = Append(queue, e)
          /\ UNCHANGED <<state, open>>

Process == /\ queue # <<>>
           /\ state' = Target(state, Head(queue))
           /\ queue' = Tail(queue)
           /\ UNCHANGED open

Close == /\ open
         /\ open' = FALSE
         /\ queue' \in {queue, <<>>}
         /\ UNCHANGED state

Discard == /\ ~open
           /\ queue # <<>>
           /\ queue' = <<>>
           /\ UNCHANGED <<state, open>>

Next == Accept \/ Process \/ Close \/ Discard

Safety == Init /\ [][Next]_serialVars

Spec == Safety /\ WF_serialVars(Process \/ Discard)
==============================================================================
