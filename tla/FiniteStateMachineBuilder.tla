---------------------- MODULE FiniteStateMachineBuilder -----------------------
(***************************************************************************)
(* FiniteStateMachineBuilder: transitions and the handlers of entering and *)
(* leaving a state are collected in three maps and handed to a machine     *)
(* once.  A transition's key packs its state and its event, numbers below  *)
(* Span (2^32 in the code), into one below its square (2^64).              *)
(***************************************************************************)
EXTENDS Naturals, FiniteSets

CONSTANTS Span,          \* numbers a state and an event may be: a power of 2
          Actions,       \* handlers; a transition may have none, NoAction
          NoAction,
          MaxMakes       \* bound: calls that add an entry

ASSUME BuilderAssumption == Span \in Nat \ {0} /\ MaxMakes \in Nat /\ NoAction \notin Actions

Numbers == 0..(Span - 1)

(* Mutant: the state is shifted by one bit too few.                        *)
TransitionIndexNarrow(state, event) == (state * (Span \div 2) + event) % (Span * Span)

(* The state is shifted by the width of the event, with which it then has  *)
(* no bit in common, so that + is the code's |.                            *)
GetTransitionIndex(state, event) == (state * Span + event) % (Span * Span)

VARIABLES
    valid,         \* valid_
    transitionMap, \* transitionMap_, enterMap_, leaveMap_, as sets of entries
    enterMap,
    leaveMap,
    machines,      \* the machines Build has returned, with the maps each was given
    asked          \* history: the calls that were made, with how often

vars == <<valid, transitionMap, enterMap, leaveMap, machines, asked>>

Entry(key, next, action) == [key |-> key, next |-> next, action |-> action]

HasKey(map, key) == \E x \in map : x.key = key

(* std::unordered_map::try_emplace: an entry that is there stays.          *)
Emplaced(map, x) == IF HasKey(map, x.key) THEN map ELSE map \cup {x}

Init ==
    /\ valid = TRUE
    /\ transitionMap = {} /\ enterMap = {} /\ leaveMap = {}
    /\ machines = {}
    /\ asked = {}

(* The n-th call, remembered as it was made.                               *)
Remember(what, state, event, next, action) ==
    /\ Cardinality(asked) < MaxMakes
    /\ asked' = asked \cup {[n |-> Cardinality(asked) + 1, what |-> what, state |-> state,
                             event |-> event, next |-> next, action |-> action]}

(* Both forms of MakeTransition: with an action and without.               *)
MakeTransition(state, event, next, action) ==
    LET key == GetTransitionIndex(state, event) IN
    /\ Remember("transition", state, event, next, action)
    /\ transitionMap' = Emplaced(transitionMap, Entry(key, next, action))
    /\ valid' = (valid /\ ~HasKey(transitionMap, key))
    /\ UNCHANGED <<enterMap, leaveMap, machines>>

MakeOnStateEnter(state, action) ==
    /\ Remember("enter", state, 0, 0, action)
    /\ enterMap' = Emplaced(enterMap, Entry(state, 0, action))
    /\ valid' = (valid /\ ~HasKey(enterMap, state))
    /\ UNCHANGED <<transitionMap, leaveMap, machines>>

MakeOnStateLeave(state, action) ==
    /\ Remember("leave", state, 0, 0, action)
    /\ leaveMap' = Emplaced(leaveMap, Entry(state, 0, action))
    /\ valid' = (valid /\ ~HasKey(leaveMap, state))
    /\ UNCHANGED <<transitionMap, enterMap, machines>>

(* Build returns null when the builder is not valid; the machine takes     *)
(* over the maps, which leaves the builder's empty.                        *)
Build ==
    /\ valid
    /\ valid' = FALSE
    /\ machines' = machines \cup {[transitions |-> transitionMap, enter |-> enterMap, leave |-> leaveMap,
                                   asked |-> asked]}
    /\ transitionMap' = {} /\ enterMap' = {} /\ leaveMap' = {}
    /\ UNCHANGED asked

Next ==
    \/ Build
    \/ \E state, event, next \in Numbers, action \in Actions \cup {NoAction} :
          MakeTransition(state, event, next, action)
    \/ \E state \in Numbers, action \in Actions :
          MakeOnStateEnter(state, action) \/ MakeOnStateLeave(state, action)

Spec == Init /\ [][Next]_vars

-------------------------------------------------------------------------------
Lookup(map, key) == {<<x.next, x.action>> : x \in {y \in map : y.key = key}}
Wanted(m, what, state, event) ==
    {<<q.next, q.action>> : q \in {p \in m.asked : p.what = what /\ p.state = state /\ p.event = event}}

(* A machine does in every state, for every event, what was asked for it   *)
(* before it was built, and nothing else: no two pairs of a state and an   *)
(* event meet in one key, no call has overruled another, and a second      *)
(* Build does not return a machine with the emptied maps.                  *)
BuiltAsAsked ==
    \A m \in machines : \A state, event \in Numbers :
        /\ Lookup(m.transitions, GetTransitionIndex(state, event)) = Wanted(m, "transition", state, event)
        /\ Lookup(m.enter, state) = Wanted(m, "enter", state, 0)
        /\ Lookup(m.leave, state) = Wanted(m, "leave", state, 0)
===============================================================================
