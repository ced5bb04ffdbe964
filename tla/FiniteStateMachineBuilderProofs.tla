-------------------- MODULE FiniteStateMachineBuilderProofs --------------------
(***************************************************************************)
(* Proofs about FiniteStateMachineBuilder, for any number of calls, any    *)
(* handlers and numbers of any width.                                      *)
(***************************************************************************)
EXTENDS FiniteStateMachineBuilder, TLAPS

(* The packing of a state and an event loses nothing: no two pairs have    *)
(* the same key.                                                           *)
LEMMA KeysDistinct ==
    ASSUME NEW s \in Numbers, NEW e \in Numbers, NEW t \in Numbers, NEW f \in Numbers
    PROVE  GetTransitionIndex(s, e) = GetTransitionIndex(t, f) <=> s = t /\ e = f
<1> DEFINE W == Span
<1>1. W \in Nat /\ W > 0 /\ s \in 0..(W - 1) /\ e \in 0..(W - 1) /\ t \in 0..(W - 1) /\ f \in 0..(W - 1)
  BY BuilderAssumption DEF Numbers
<1>2. ASSUME NEW a \in 0..(W - 1), NEW b \in 0..(W - 1)
      PROVE  a * W + b \in 0..(W * W - 1)
  <2>1. a * W <= (W - 1) * W
    BY <1>1
  <2>2. (W - 1) * W = W * W - W
    BY <1>1
  <2>3. a * W \in Nat /\ W * W \in Nat
    BY <1>1
  <2>4. QED
    BY <1>1, <2>1, <2>2, <2>3
<1>3. ASSUME NEW x \in Nat, NEW m \in Nat, x < m PROVE x % m = x
  BY <1>3
<1>4. GetTransitionIndex(s, e) = s * W + e /\ GetTransitionIndex(t, f) = t * W + f
  <2>1. /\ s * W + e \in Nat /\ s * W + e < W * W /\ t * W + f \in Nat /\ t * W + f < W * W
        /\ W * W \in Nat
    BY <1>1, <1>2
  <2>2. QED
    BY <1>3, <2>1 DEF GetTransitionIndex
<1>5. s * W + e = t * W + f => s = t
  <2>1. ASSUME s < t PROVE s * W + e < t * W + f
    <3>1. s + 1 <= t /\ (s + 1) * W <= t * W /\ (s + 1) * W = s * W + W
      BY <1>1, <2>1
    <3>2. s * W \in Nat /\ t * W \in Nat
      BY <1>1
    <3>3. QED
      BY <1>1, <3>1, <3>2
  <2>2. ASSUME t < s PROVE t * W + f < s * W + e
    <3>1. t + 1 <= s /\ (t + 1) * W <= s * W /\ (t + 1) * W = t * W + W
      BY <1>1, <2>2
    <3>2. s * W \in Nat /\ t * W \in Nat
      BY <1>1
    <3>3. QED
      BY <1>1, <3>1, <3>2
  <2>3. s * W + e \in Nat /\ t * W + f \in Nat
    BY <1>1
  <2>4. QED
    BY <1>1, <2>1, <2>2, <2>3
<1>6. s * W + e = s * W + f => e = f
  <2>1. s * W \in Nat
    BY <1>1
  <2>2. QED
    BY <1>1, <2>1
<1>7. QED
  BY <1>4, <1>5, <1>6

-------------------------------------------------------------------------------
(* What was asked for so far.                                              *)
Asked(what, state, event) ==
    {<<q.next, q.action>> : q \in {p \in asked : p.what = what /\ p.state = state /\ p.event = event}}

(* As long as the builder is valid its maps hold what was asked for.       *)
MapsAgree ==
    valid => \A state, event \in Numbers :
        /\ Lookup(transitionMap, GetTransitionIndex(state, event)) = Asked("transition", state, event)
        /\ Lookup(enterMap, state) = Asked("enter", state, 0)
        /\ Lookup(leaveMap, state) = Asked("leave", state, 0)

BuilderInv == valid \in BOOLEAN /\ MapsAgree /\ BuiltAsAsked

(* A new entry is found under its key and under no other.                  *)
LEMMA LookupEmplaced ==
    ASSUME NEW map, NEW key, NEW next, NEW action, ~HasKey(map, key), NEW k
    PROVE  Lookup(Emplaced(map, Entry(key, next, action)), k) =
              IF k = key THEN {<<next, action>>} ELSE Lookup(map, k)
<1> DEFINE x == Entry(key, next, action)
<1>1. x.key = key /\ x.next = next /\ x.action = action
  BY DEF Entry
<1>2. Emplaced(map, x) = map \cup {x}
  BY <1>1 DEF Emplaced
<1> HIDE DEF x
<1>3. CASE k = key
  <2>1. {y \in map \cup {x} : y.key = k} = {x}
    BY <1>1, <1>3 DEF HasKey
  <2>2. QED
    BY <1>1, <1>2, <1>3, <2>1 DEF Lookup, x
<1>4. CASE k # key
  <2>1. {y \in map \cup {x} : y.key = k} = {y \in map : y.key = k}
    BY <1>1, <1>4
  <2>2. QED
    BY <1>2, <1>4, <2>1 DEF Lookup, x
<1>5. QED
  BY <1>3, <1>4

(* Without its key a map has no entry.                                     *)
LEMMA LookupMissing == ASSUME NEW map, NEW key, ~HasKey(map, key) PROVE Lookup(map, key) = {}
BY DEF HasKey, Lookup

LEMMA AskedRemembered ==
    ASSUME NEW what, NEW state, NEW event, NEW next, NEW action, Remember(what, state, event, next, action),
           NEW w, NEW s, NEW e
    PROVE  Asked(w, s, e)' = IF w = what /\ s = state /\ e = event
                             THEN Asked(w, s, e) \cup {<<next, action>>} ELSE Asked(w, s, e)
<1> DEFINE x == [n |-> Cardinality(asked) + 1, what |-> what, state |-> state,
                 event |-> event, next |-> next, action |-> action]
<1>1. /\ x.what = what /\ x.state = state /\ x.event = event /\ x.next = next /\ x.action = action
      /\ asked' = asked \cup {x}
  BY DEF Remember
<1> HIDE DEF x
<1>2. PICK y : y = x
  OBVIOUS
<1>3. asked' = asked \cup {y} /\ y.what = what /\ y.state = state /\ y.event = event /\ y.next = next /\ y.action = action
  BY <1>1, <1>2
<1>4. Asked(w, s, e)' = {<<q.next, q.action>> : q \in {p \in asked \cup {y} : p.what = w /\ p.state = s /\ p.event = e}}
  BY <1>3 DEF Asked
<1>5. CASE w = what /\ s = state /\ e = event
  <2>1. {p \in asked \cup {y} : p.what = w /\ p.state = s /\ p.event = e} =
           {p \in asked : p.what = w /\ p.state = s /\ p.event = e} \cup {y}
    BY <1>3, <1>5
  <2>2. QED
    BY <1>3, <1>4, <1>5, <2>1 DEF Asked
<1>6. CASE ~(w = what /\ s = state /\ e = event)
  <2>1. {p \in asked \cup {y} : p.what = w /\ p.state = s /\ p.event = e} =
           {p \in asked : p.what = w /\ p.state = s /\ p.event = e}
    BY <1>3, <1>6
  <2>2. QED
    BY <1>4, <1>6, <2>1 DEF Asked
<1>7. QED
  BY <1>5, <1>6

-------------------------------------------------------------------------------
LEMMA BuilderInit == Init => BuilderInv
BY DEF Init, BuilderInv, MapsAgree, BuiltAsAsked, Lookup, Asked

(* Entries that are added leave the machines that were built alone.        *)
LEMMA MachinesKept == ASSUME BuiltAsAsked, UNCHANGED machines PROVE BuiltAsAsked'
BY DEF BuiltAsAsked, Lookup, Wanted

LEMMA TransitionAdded ==
    ASSUME BuilderInv, NEW s \in Numbers, NEW e \in Numbers, NEW next, NEW action, MakeTransition(s, e, next, action)
    PROVE  BuilderInv'
<1> DEFINE key == GetTransitionIndex(s, e)
<1>1. /\ Remember("transition", s, e, next, action) /\ valid' = (valid /\ ~HasKey(transitionMap, key))
      /\ transitionMap' = Emplaced(transitionMap, Entry(key, next, action))
      /\ UNCHANGED <<enterMap, leaveMap, machines>>
  BY DEF MakeTransition
<1>2. BuiltAsAsked' /\ valid' \in BOOLEAN
  BY <1>1, MachinesKept DEF BuilderInv
<1>3. ASSUME valid', NEW t \in Numbers, NEW f \in Numbers
      PROVE  /\ Lookup(transitionMap', GetTransitionIndex(t, f)) = Asked("transition", t, f)'
             /\ Lookup(enterMap', t) = Asked("enter", t, 0)'
             /\ Lookup(leaveMap', t) = Asked("leave", t, 0)'
  <2>1. valid /\ ~HasKey(transitionMap, key)
    BY <1>1, <1>3 DEF BuilderInv
  <2>2. /\ Lookup(transitionMap, GetTransitionIndex(t, f)) = Asked("transition", t, f)
        /\ Lookup(enterMap, t) = Asked("enter", t, 0) /\ Lookup(leaveMap, t) = Asked("leave", t, 0)
    BY <2>1 DEF BuilderInv, MapsAgree
  <2>3. Asked("enter", t, 0)' = Asked("enter", t, 0) /\ Asked("leave", t, 0)' = Asked("leave", t, 0)
    BY <1>1, AskedRemembered
  <2>4. CASE t = s /\ f = e
    <3>1. Asked("transition", t, f)' = Asked("transition", t, f) \cup {<<next, action>>}
      BY <1>1, <2>4, AskedRemembered
    <3>2. Lookup(transitionMap', key) = {<<next, action>>} /\ Lookup(transitionMap, key) = {}
      BY <1>1, <2>1, LookupEmplaced, LookupMissing
    <3>3. QED
      BY <1>1, <2>2, <2>3, <2>4, <3>1, <3>2
  <2>5. CASE ~(t = s /\ f = e)
    <3>1. Asked("transition", t, f)' = Asked("transition", t, f)
      BY <1>1, <2>5, AskedRemembered
    <3>2. GetTransitionIndex(t, f) # key
      BY <2>5, KeysDistinct
    <3>3. Lookup(transitionMap', GetTransitionIndex(t, f)) = Lookup(transitionMap, GetTransitionIndex(t, f))
      BY <1>1, <2>1, <3>2, LookupEmplaced
    <3>4. QED
      BY <1>1, <2>2, <2>3, <3>1, <3>3
  <2>6. QED
    BY <2>4, <2>5
<1>4. MapsAgree'
  BY <1>3 DEF MapsAgree
<1>5. QED
  BY <1>2, <1>4 DEF BuilderInv

LEMMA EnterAdded ==
    ASSUME BuilderInv, NEW s \in Numbers, NEW action, MakeOnStateEnter(s, action)
    PROVE  BuilderInv'
<1>1. /\ Remember("enter", s, 0, 0, action) /\ valid' = (valid /\ ~HasKey(enterMap, s))
      /\ enterMap' = Emplaced(enterMap, Entry(s, 0, action))
      /\ UNCHANGED <<transitionMap, leaveMap, machines>>
  BY DEF MakeOnStateEnter
<1>2. BuiltAsAsked' /\ valid' \in BOOLEAN
  BY <1>1, MachinesKept DEF BuilderInv
<1>3. ASSUME valid', NEW t \in Numbers, NEW f \in Numbers
      PROVE  /\ Lookup(transitionMap', GetTransitionIndex(t, f)) = Asked("transition", t, f)'
             /\ Lookup(enterMap', t) = Asked("enter", t, 0)'
             /\ Lookup(leaveMap', t) = Asked("leave", t, 0)'
  <2>1. valid /\ ~HasKey(enterMap, s)
    BY <1>1, <1>3 DEF BuilderInv
  <2>2. /\ Lookup(transitionMap, GetTransitionIndex(t, f)) = Asked("transition", t, f)
        /\ Lookup(enterMap, t) = Asked("enter", t, 0) /\ Lookup(leaveMap, t) = Asked("leave", t, 0)
    BY <2>1 DEF BuilderInv, MapsAgree
  <2>3. Asked("transition", t, f)' = Asked("transition", t, f) /\ Asked("leave", t, 0)' = Asked("leave", t, 0)
    BY <1>1, AskedRemembered
  <2>4. Asked("enter", t, 0)' = IF t = s THEN Asked("enter", t, 0) \cup {<<0, action>>} ELSE Asked("enter", t, 0)
    BY <1>1, AskedRemembered
  <2>5. Lookup(enterMap', t) = IF t = s THEN {<<0, action>>} ELSE Lookup(enterMap, t)
    BY <1>1, <2>1, LookupEmplaced
  <2>6. Lookup(enterMap, s) = {}
    BY <2>1, LookupMissing
  <2>7. QED
    BY <1>1, <2>2, <2>3, <2>4, <2>5, <2>6
<1>4. MapsAgree'
  BY <1>3 DEF MapsAgree
<1>5. QED
  BY <1>2, <1>4 DEF BuilderInv

LEMMA LeaveAdded ==
    ASSUME BuilderInv, NEW s \in Numbers, NEW action, MakeOnStateLeave(s, action)
    PROVE  BuilderInv'
<1>1. /\ Remember("leave", s, 0, 0, action) /\ valid' = (valid /\ ~HasKey(leaveMap, s))
      /\ leaveMap' = Emplaced(leaveMap, Entry(s, 0, action))
      /\ UNCHANGED <<transitionMap, enterMap, machines>>
  BY DEF MakeOnStateLeave
<1>2. BuiltAsAsked' /\ valid' \in BOOLEAN
  BY <1>1, MachinesKept DEF BuilderInv
<1>3. ASSUME valid', NEW t \in Numbers, NEW f \in Numbers
      PROVE  /\ Lookup(transitionMap', GetTransitionIndex(t, f)) = Asked("transition", t, f)'
             /\ Lookup(enterMap', t) = Asked("enter", t, 0)'
             /\ Lookup(leaveMap', t) = Asked("leave", t, 0)'
  <2>1. valid /\ ~HasKey(leaveMap, s)
    BY <1>1, <1>3 DEF BuilderInv
  <2>2. /\ Lookup(transitionMap, GetTransitionIndex(t, f)) = Asked("transition", t, f)
        /\ Lookup(enterMap, t) = Asked("enter", t, 0) /\ Lookup(leaveMap, t) = Asked("leave", t, 0)
    BY <2>1 DEF BuilderInv, MapsAgree
  <2>3. Asked("transition", t, f)' = Asked("transition", t, f) /\ Asked("enter", t, 0)' = Asked("enter", t, 0)
    BY <1>1, AskedRemembered
  <2>4. Asked("leave", t, 0)' = IF t = s THEN Asked("leave", t, 0) \cup {<<0, action>>} ELSE Asked("leave", t, 0)
    BY <1>1, AskedRemembered
  <2>5. Lookup(leaveMap', t) = IF t = s THEN {<<0, action>>} ELSE Lookup(leaveMap, t)
    BY <1>1, <2>1, LookupEmplaced
  <2>6. Lookup(leaveMap, s) = {}
    BY <2>1, LookupMissing
  <2>7. QED
    BY <1>1, <2>2, <2>3, <2>4, <2>5, <2>6
<1>4. MapsAgree'
  BY <1>3 DEF MapsAgree
<1>5. QED
  BY <1>2, <1>4 DEF BuilderInv

LEMMA BuildBuilds == ASSUME BuilderInv, Build PROVE BuilderInv'
<1> DEFINE m == [transitions |-> transitionMap, enter |-> enterMap, leave |-> leaveMap, asked |-> asked]
<1>1. valid /\ ~valid' /\ valid' \in BOOLEAN /\ machines' = machines \cup {m}
  BY DEF Build
<1>2. PICK n : n = m
  OBVIOUS
<1>3. n.transitions = transitionMap /\ n.enter = enterMap /\ n.leave = leaveMap /\ n.asked = asked
  BY <1>2
<1>4. ASSUME NEW state \in Numbers, NEW event \in Numbers
      PROVE  /\ Lookup(n.transitions, GetTransitionIndex(state, event)) = Wanted(n, "transition", state, event)
             /\ Lookup(n.enter, state) = Wanted(n, "enter", state, 0)
             /\ Lookup(n.leave, state) = Wanted(n, "leave", state, 0)
  <2>1. \A w, s, e : Wanted(n, w, s, e) = Asked(w, s, e)
    BY <1>3 DEF Wanted, Asked
  <2>2. QED
    BY <1>1, <1>3, <2>1 DEF BuilderInv, MapsAgree
<1>5. machines' = machines \cup {n}
  BY <1>1, <1>2
<1> HIDE DEF m
<1>6. BuiltAsAsked'
  BY <1>4, <1>5 DEF BuilderInv, BuiltAsAsked, Lookup, Wanted
<1>7. QED
  BY <1>1, <1>6 DEF BuilderInv, MapsAgree

(* A machine has, for every state and event of any width, exactly the row  *)
(* and the handlers that were asked for before it was built: the packed    *)
(* keys of two pairs never meet, a call never overrules an earlier one,    *)
(* and no machine is built from maps that another one took.                *)
THEOREM BuiltCorrect == Spec => []BuiltAsAsked
<1>1. BuilderInv /\ [Next]_vars => BuilderInv'
  <2> SUFFICES ASSUME BuilderInv, [Next]_vars PROVE BuilderInv'
    OBVIOUS
  <2>1. CASE UNCHANGED vars
    BY <2>1 DEF vars, BuilderInv, MapsAgree, BuiltAsAsked, Lookup, Asked, Wanted
  <2>2. CASE Next
    BY <2>2, TransitionAdded, EnterAdded, LeaveAdded, BuildBuilds DEF Next
  <2>3. QED
    BY <2>1, <2>2
<1>2. BuilderInv => BuiltAsAsked
  BY DEF BuilderInv
<1>3. QED
  BY <1>1, <1>2, BuilderInit, PTL DEF Spec
===============================================================================
