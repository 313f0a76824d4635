---------------------------- MODULE GestureManager ----------------------------
(***************************************************************************)
(* guesture/*.c and touch-handler.c: the gesture manager, the gestures it  *)
(* arbitrates between, and what they stage for the post stage.             *)
(*                                                                         *)
(* The manager is called back by the gestures it calls: ending a tap asks  *)
(* for a match, the match may accept a gesture, and accepting one ends the *)
(* others, taps among them.  A handler is therefore one atomic step whose  *)
(* effect is an operator on the manager's state m, composed of operators   *)
(* named after the functions of the code.                                  *)
(*                                                                         *)
(* Times and distances are abstracted to the comparisons the code makes    *)
(* with them (the record Samples); a call of the manager is one step, and  *)
(* the touches are those of the dispatch loop of itrack_read.              *)
(***************************************************************************)
EXTENDS Gestures

CONSTANTS
  MaxFingers,   \* bound: fingers on the pad
  MaxStaged,    \* bound: staged actions when a touch moves
  Pads,         \* the physical button masks the hardware may report
  Speeds        \* the velocities a scroll may have

ASSUME SpeedsAssumption  == Speeds \subseteq [x : Int, y : Int]
ASSUME MaskAssumption    == Pads \subseteq SUBSET Buttons
ASSUME BoundsAssumption  == MaxFingers \in Nat /\ MaxStaged \in Nat

VARIABLES
  gm,        \* struct guesture_manager_s with its gestures
  fingers,   \* the touches itrack_read has dispatched and not released
  held       \* history: a drag has queued a press and not yet the release

vars == <<gm, fingers, held>>

-----------------------------------------------------------------------------
(* The state.                                                              *)

TypeOK ==
  /\ gm \in Managers
  /\ gm.maxTouches <= MaxFingers
  /\ fingers \in 0..MaxFingers
  /\ held \in BOOLEAN

(* guesture_manager_init after the gestures are allocated: malloc leaves   *)
(* drag's hold_time unset.                                                 *)
Fresh ==
  [ state |-> "NONE", maxTouches |-> 0, list |-> <<>>,
    accepted |-> Nobody, match |-> [g \in Gestures |-> "NONE"],
    essential |-> {}, post |-> [g \in Gestures |-> "null"],
    staged |-> NothingStaged, out |-> <<>>, owners |-> {}, alt |-> Nobody,
    physical |-> {}, settle |-> "NONE", loaded |-> FALSE,
    hold |-> "garbage", readGarbage |-> FALSE ]

Init ==
  /\ gm = Fresh
  /\ fingers = 0
  /\ held = FALSE

-----------------------------------------------------------------------------
(* The calls of GestureMatch at each level.  Only a tap asks for a match   *)
(* when it ends, a list has one tap, and it leaves MATHING when it asks:   *)
(* a second nested request changes nothing.                                *)
Unheard(m, g) == m
Second == INSTANCE GestureMatch WITH Ask <- Unheard

AskAgain(m, g) == Second!SetMatch(m, g, "OK")
First == INSTANCE GestureMatch WITH Ask <- AskAgain

SetOK(m, g) == First!SetMatch(m, g, "OK")
Manager == INSTANCE GestureMatch WITH Ask <- SetOK

EndGesture(m, g) == Manager!End(m, g)
Match(m, g, how) == Manager!SetMatch(m, g, how)

-----------------------------------------------------------------------------
(* The on_update callbacks.  A sample says what the code compares:         *)
(*   elapsed   the debounce time of the manager is over                    *)
(*   far       the touch moved GUESTURE_PRE_WAITTING_DIST in all           *)
(*   tapFails  it is held too long or moved too far for a tap              *)
(*   step      its last movement: none, small, or PHYSICAL_BUTTON_MIN_MOVE *)
(*   speed     the two velocities a scroll computes                        *)

Samples == [elapsed : BOOLEAN, far : BOOLEAN, tapFails : BOOLEAN,
            step : {"none", "small", "big"}, speed : Speeds]

UpdateTap(m, g, sample) == IF sample.tapFails THEN Match(m, g, "NO") ELSE m

UpdateMove(m, sample) ==
  IF m.physical # {} THEN
    LET n == IF m.settle = "NONE"
               THEN Match([m EXCEPT !.settle = "SETTLE"], "move", "ESSENTIAL")
               ELSE m
    IN  IF n.settle = "SETTLE" /\ sample.step = "big"
          THEN [n EXCEPT !.settle = "CLEAR"] ELSE n
  ELSE IF m.settle # "NONE" THEN [m EXCEPT !.settle = "NONE"]
  ELSE IF m.match["move"] = "MATHING" THEN Match(m, "move", "OK")
  ELSE Post(m, "move", Movement(sample.step # "none"))

UpdateScroll(m, sample) ==
  Post(Match(m, "scroll", "OK"), "scroll",
       Scroll(sample.speed.x, sample.speed.y))

UpdateDrag(m, sample) ==
  IF sample.step = "none" THEN m
  ELSE IF m.accepted = "drag"
    THEN Post(Post(m, "drag", Movement(TRUE)), "drag", ButtonUpCancel)
  ELSE LET n == IF m.match["drag"] = "MATHING"
                  THEN Post(Match(m, "drag", "OK"),
                            "drag", ButtonDown(DragButton))
                  ELSE m
       IN  Post(n, "drag", Movement(TRUE))

(* s_guesture_update                                                       *)
Update(m, g, sample) ==
  IF ~Active(m, g) THEN m
  ELSE CASE g \in Taps   -> UpdateTap(m, g, sample)
         [] g = "move"   -> UpdateMove(m, sample)
         [] g = "scroll" -> UpdateScroll(m, sample)
         [] g = "drag"   -> UpdateDrag(m, sample)

-----------------------------------------------------------------------------
(* The handlers of the manager.                                            *)

(* s_guesture_reset and s_guesture_start                                   *)
Start(m, g) ==
  [EndGesture(m, g) EXCEPT
     !.match[g] = "MATHING",
     !.post[g]  = "stage",
     !.loaded   = @ \/ g = "drag"]

(* A new list is started: everything about the previous one is forgotten,  *)
(* the staged actions only by the caller.                                  *)
StartList(m, list) ==
  [ForEachCurrent(Start, [m EXCEPT !.list = list, !.owners = {}])
     EXCEPT !.state = "UPDATING", !.accepted = Nobody]

(* Mutant: an accepted gesture is dropped, not ended.                      *)
EndUnaccepted(m) ==
  [(IF m.accepted # Nobody THEN m ELSE ForEachCurrent(EndGesture, m))
     EXCEPT !.accepted = Nobody, !.list = <<>>]

(* What touch_start and touch_end do with the gestures that run.           *)
EndRunning(m) ==
  [(IF m.accepted # Nobody THEN EndGesture(m, m.accepted)
                           ELSE ForEachCurrent(EndGesture, m))
     EXCEPT !.accepted = Nobody, !.list = <<>>]

(* guesture_manager_touch_start                                            *)
TouchStart(m, count) ==
  LET n == CASE m.state \in {"NONE", "WAITING"} -> [m EXCEPT !.state = "WAITING"]
             [] m.state = "UPDATING" ->
                  [EndRunning(m) EXCEPT !.state = "WAITING"]
             [] m.state = "CHANGING" -> m
  IN  [n EXCEPT !.maxTouches = count]

(* guesture_manager_touch_update                                           *)
UpdateRunning(m, sample) ==
  IF m.accepted # Nobody THEN Update(m, m.accepted, sample)
  ELSE LET Do(n, g) == Update(n, g, sample) IN ForEachCurrent(Do, m)

TouchUpdate(m, idx, count, sample) ==
  LET waiting  == \/ m.state = "WAITING"
                  \/ m.state = "CHANGING" /\ sample.elapsed
      debounced == m.state = "WAITING" /\ idx = 0 /\ sample.elapsed
      altOnly  == m.alt # Nobody /\ RequiredTouches[m.alt] = count
      list     == IF altOnly THEN <<m.alt>> ELSE GesturesFor(count)
      begun    == IF ~waiting THEN m
                  ELSE IF altOnly \/ debounced \/ sample.far
                    THEN [StartList(m, list) EXCEPT !.staged = NothingStaged]
                    ELSE [m EXCEPT !.state = "WAITING"]
  IN  IF begun.state = "UPDATING" /\ idx = 0
        THEN UpdateRunning(begun, sample) ELSE begun

(* guesture_manager_touch_end                                              *)
TouchEnd(m, count) ==
  CASE m.state = "NONE" -> m
    [] m.state = "WAITING" ->
         IF count = 1
           THEN [ForEachCurrent(EndGesture,
                                StartList(m, GesturesFor(m.maxTouches)))
                   EXCEPT !.state = "NONE"]
           ELSE m
    [] m.state = "UPDATING" ->
         [EndRunning(m) EXCEPT !.state = IF count = 1 THEN "NONE"
                                                      ELSE "CHANGING"]
    [] m.state = "CHANGING" ->
         [m EXCEPT !.state = IF count = 1 THEN "NONE" ELSE @]
-----------------------------------------------------------------------------
(* The actions: one call of the manager each.  The counts are those of the *)
(* dispatch loop for fingers that are neither thumbs nor palms: a touch    *)
(* that lands or leaves is counted, moves come with the final count.       *)

Presses(e)  == e.by = "drag" /\ e.action.down # {}
Releases(e) == e.by = "drag" /\ e.action.defer = "NEW"

Call(m) ==
  /\ gm' = m
  /\ held' = IF \E e \in ToSet(m.out) : Releases(e) THEN FALSE
             ELSE held \/ \E e \in ToSet(m.out) : Presses(e)

Calling == [gm EXCEPT !.out = <<>>]

(* on_touch_start                                                          *)
Land ==
  /\ fingers < MaxFingers
  /\ fingers' = fingers + 1
  /\ Call(TouchStart(Calling, fingers + 1))

(* on_touch_release                                                        *)
Lift ==
  /\ fingers > 0
  /\ fingers' = fingers - 1
  /\ Call(TouchEnd(Calling, fingers))

(* on_touch_move                                                           *)
Move(idx, sample) ==
  /\ \A g \in Gestures : Len(gm.staged[g]) <= MaxStaged
  /\ Call(TouchUpdate(Calling, idx, fingers, sample))
  /\ UNCHANGED fingers

(* on_physical_button_update (the action it queues is the post stage's).   *)
PhysicalUpdate(buttons) ==
  /\ Call([Calling EXCEPT !.physical = buttons])
  /\ UNCHANGED fingers

(* touch_handler_set_post_scrolling_state: the post stage's inertia starts *)
(* or ends.  The gesture it looks up by name is registered for as long as  *)
(* the gestures live (ITrack has the call that comes after they are freed).*)
SetPostScrollingState(isOn) ==
  /\ Call([Calling EXCEPT !.alt = IF isOn THEN "scroll" ELSE Nobody])
  /\ UNCHANGED fingers

(* The SWIPE3_HOLD_TIME after a drag passes.                               *)
HoldPasses ==
  /\ gm.hold = "open"
  /\ Call([Calling EXCEPT !.hold = "over"])
  /\ UNCHANGED fingers

(* touch_handler_init: the device is opened again, whatever the fingers    *)
(* and gestures were doing when it was closed.                             *)
Reopen ==
  /\ gm' = Fresh
  /\ fingers' = 0
  /\ held' = FALSE

Next ==
  \/ Reopen
  \/ Land
  \/ Lift
  \/ \E idx \in 0..(fingers - 1), sample \in Samples : Move(idx, sample)
  \/ \E buttons \in Pads : PhysicalUpdate(buttons)
  \/ \E isOn \in BOOLEAN : SetPostScrollingState(isOn)
  \/ HoldPasses

Spec == Init /\ [][Next]_vars

-----------------------------------------------------------------------------
(* Properties.                                                             *)

Queues(m, P(_)) == \E e \in ToSet(m.out) : P(e)

IsClick(e) == e.by \in Taps /\ e.action.down # {}

(* The fingers of one recognition do one thing: from the start of a list   *)
(* to the next, all queued actions come from one gesture, although taps    *)
(* still stage clicks while another gesture's acceptance cancels them.     *)
OneOwner == Cardinality(gm.owners) <= 1

(* Once a gesture is accepted no other is running: nothing later in the    *)
(* recognition can compete with it.                                        *)
AcceptedRunsAlone ==
  gm.state = "UPDATING" /\ gm.accepted # Nobody =>
    \A g \in Gestures \ {gm.accepted} : ~Active(gm, g)

(* The manager comes to rest with the fingers: it is in NONE ("not started *)
(* 0 touch", guesture_manager.h:38) exactly while none is down; the        *)
(* handlers that leave UPDATING leave no gesture running, so each was ended*)
(* once, which is what releases what it holds; and what they leave staged, *)
(* which touch_end does not clear and the next acceptance might queue, are *)
(* only endings, never a press, a movement or a scroll.                    *)
QuietOutsideUpdating ==
  /\ gm.state = "NONE" <=> fingers = 0
  /\ gm.state # "UPDATING" =>
       /\ \A g \in Gestures : ~Active(gm, g)
       /\ \A g \in Gestures : \A action \in ToSet(gm.staged[g]) :
            action.down = {} /\ ~action.moved /\ ~action.holding

(* A drag that has pressed its button is the accepted gesture and running, *)
(* so whatever ends it schedules the release.                              *)
DragWillRelease ==
  held => /\ gm.state = "UPDATING"
          /\ gm.accepted = "drag"
          /\ gm.match["drag"] = "OK"

(* drag's hold_time is not read before it is written, although its         *)
(* callback is registered first.                                           *)
HoldIsSet == ~gm.readGarbage

(* A click is queued by a finger that lands or leaves; a tap that is ended *)
(* because another gesture is accepted leaves no click behind.             *)
NoClickWhileMoving ==
  [][Queues(gm', IsClick) => fingers' # fingers]_vars

(* Fingers that land and leave at once click the button of their number    *)
(* ("1,2,3 finger tap (map to button 0,2,1)", README.md:17).               *)
InstantTapClicks ==
  [][\A g \in Taps :
       /\ Lift /\ fingers = 1
       /\ gm.state = "WAITING"
       /\ gm.maxTouches = RequiredTouches[g]
       => Queues(gm', LAMBDA e : e.by = g /\ IsClick(e))]_vars
===============================================================================
