------------------------ MODULE MCFiniteStateMachine ------------------------
(* Instances of FiniteStateMachine.  The table has the shapes the          *)
(* repository's tables have: a start, a self loop, an event ignored in     *)
(* some states, an action on entry that schedules the stop itself.         *)
EXTENDS FiniteStateMachine, TLC

CONSTANTS t1, t2

MCStates == {"init", "busy", "end"}
MCEvents == {"start", "stop"}

MCTransition == (<<"init", "start">> :> "busy") @@ (<<"busy", "start">> :> "busy")
                @@ (<<"busy", "stop">> :> "end") @@ (<<"end", "stop">> :> "end")

Outer(e) == [op |-> "outer", event |-> e]
Inner(e) == [op |-> "inner", event |-> e]

NoCalls == [s \in MCStates |-> <<>>]
NoActions == [x \in DOMAIN MCTransition |-> <<>>]

(* ScreenBrightnessTask: the action on the way into a state schedules the  *)
(* stop through the machine itself.                                        *)
OuterEnter == [NoCalls EXCEPT !["busy"] = <<Outer("stop")>>]

(* test MachineScheduleDeadlock: an action that always schedules its own   *)
(* event again through the Inner machine.                                  *)
RunawayActions == [NoActions EXCEPT ![<<"busy", "start">>] = <<Inner("start")>>]
RunawayLeave == [NoCalls EXCEPT !["init"] = <<Inner("start")>>]
=============================================================================
