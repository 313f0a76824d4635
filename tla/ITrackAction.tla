---------------------------- MODULE ITrackAction ----------------------------
(***************************************************************************)
(* struct itrack_action_s: one change the gestures ask the post stage to   *)
(* make.  guesture.c builds every action by zeroing the structure and then *)
(* setting the few fields it needs, and so does this module.               *)
(*                                                                         *)
(* A button mask is the set of its bits.  Positions are abstracted to      *)
(* whether the pointer moves at all; the scroll velocity keeps its value,  *)
(* because the post stage compares it with a threshold and derives the     *)
(* duration of the inertia from it.                                        *)
(***************************************************************************)
EXTENDS Integers

CONSTANT Buttons     \* the buttons in use, bits of the masks

DeferOps == {"NONE", "NEW", "DELAY", "CANCEL", "TRIGGER"}

ActionType ==
  [ holding:     BOOLEAN,          \* scroll.holding
    vx:          Int,              \* scroll.velocity_x
    vy:          Int,              \* scroll.velocity_y
    physical:    SUBSET Buttons,   \* physical_button
    down:        SUBSET Buttons,   \* button.down
    up:          SUBSET Buttons,   \* button.up
    defer:       DeferOps,         \* button.defer_up.operation
    deferButton: SUBSET Buttons,   \* button.defer_up.button
    moved:       BOOLEAN ]         \* pointer.x # 0 or pointer.y # 0

(* bzero(action, sizeof(struct itrack_action_s)) *)
Zeroed ==
  [ holding |-> FALSE, vx |-> 0, vy |-> 0, physical |-> {}, down |-> {},
    up |-> {}, defer |-> "NONE", deferButton |-> {}, moved |-> FALSE ]

Movement(moved)    == [Zeroed EXCEPT !.moved = moved]
ButtonUp(b)        == [Zeroed EXCEPT !.up = {b}]
ButtonUpDefer(b)   == [Zeroed EXCEPT !.defer = "NEW", !.deferButton = {b}]
ButtonUpCancel     == [Zeroed EXCEPT !.defer = "CANCEL"]
ButtonDown(b)      == [Zeroed EXCEPT !.down = {b}]
(* Mutant: the deferred mask is not shifted.                               *)
DownAndUpOf0(b)    == [Zeroed EXCEPT !.down = {b}, !.defer = "NEW",
                                     !.deferButton = {0}]

ButtonDownAndUp(b) == [Zeroed EXCEPT !.down = {b}, !.defer = "NEW",
                                     !.deferButton = {b}]
Scroll(vx, vy)     == [Zeroed EXCEPT !.holding = TRUE, !.vx = vx, !.vy = vy]
ScrollEnd          == Zeroed

(* The action on_physical_button_update queues at the start of a packet.   *)
PhysicalButton(bs) == [Zeroed EXCEPT !.physical = bs]

(* The two operations of the interface that no gesture issues today.       *)
ButtonUpDelay      == [Zeroed EXCEPT !.defer = "DELAY"]
ButtonUpTrigger    == [Zeroed EXCEPT !.defer = "TRIGGER"]
=============================================================================
