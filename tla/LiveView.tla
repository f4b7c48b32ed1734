------------------------------ MODULE LiveView ------------------------------
(***************************************************************************)
(* What the deck's panel is promised: a live view with room for one frame. *)
(* A frame is taken of what the interface looks like at that moment, and   *)
(* another only once the first is shown or given up; looks that are gone   *)
(* by then are never shown.                                                *)
(***************************************************************************)
EXTENDS Naturals

VARIABLES
  look,    \* how often the interface has been drawn anew
  frame,   \* the look on its way to the panel, 0 for none
  shown    \* the look the panel shows, 0 for none of this program's

ViewInit == look = 1 /\ frame = 0 /\ shown = 0

Redraw ==
  /\ look' = look + 1
  /\ UNCHANGED <<frame, shown>>

Grab ==
  /\ frame = 0
  /\ frame' = look
  /\ UNCHANGED <<look, shown>>

Show ==
  /\ frame # 0
  /\ shown' = frame
  /\ UNCHANGED <<look, frame>>

Over ==
  /\ frame # 0
  /\ frame' = 0
  /\ UNCHANGED <<look, shown>>

ViewNext == Redraw \/ Grab \/ Show \/ Over

ViewSpec == ViewInit /\ [][ViewNext]_<<look, frame, shown>>

=============================================================================
