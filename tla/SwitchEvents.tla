----------------------------- MODULE SwitchEvents -----------------------------
(***************************************************************************)
(* What a switch of the return box promises to loop(): however the contact  *)
(* bounces and however long it is held, one press for each time it is held  *)
(* down, one long press after it where the switch has one, and nothing      *)
(* while it is up.  loop() takes the event by clearing it, at any moment.   *)
(***************************************************************************)
EXTENDS Naturals

VARIABLES long,   \* the switch reports long presses (never changes)
          closed, \* the contact
          event,  \* keyIn: 0 nothing, 1 a press, 3 a long press
          stage   \* what has been reported of the present hold

vars == <<long, closed, event, stage>>

Init == long \in BOOLEAN /\ closed = FALSE /\ event = 0 /\ stage = "nothing"

Bounce    == closed' = ~closed /\ UNCHANGED <<event, stage>>
Press     == closed /\ stage = "nothing" /\ stage' = "press" /\ event' = 1 /\ UNCHANGED closed
LongPress == closed /\ long /\ stage = "press" /\ stage' = "long" /\ event' = 3 /\ UNCHANGED closed
Release   == ~closed /\ stage # "nothing" /\ stage' = "nothing" /\ UNCHANGED <<event, closed>>
Clear     == event' = 0 /\ UNCHANGED <<stage, closed>>

Next == (Bounce \/ Press \/ LongPress \/ Release \/ Clear) /\ long' = long

Spec == Init /\ [][Next]_vars
=============================================================================
