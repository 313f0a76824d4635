-------------------------------- MODULE ITrack --------------------------------
(***************************************************************************)
(* The driver from touches to X events: the gesture manager posting into   *)
(* the post stage, the post stage telling the touch handler of its inertia,*)
(* and the order itrack_read and read_input give them (itrack-main.c,      *)
(* itrack.c).                                                              *)
(*                                                                         *)
(* Every action is one of GestureManager, one of PostStage, or one of each;*)
(* the calls of the handlers come in the order TouchCalls promises.        *)
(* gm.out holds what the call that runs hands to itrack_post_own: each Own *)
(* takes one action of it, and nothing else happens before it is empty.    *)
(***************************************************************************)
EXTENDS GestureManager

CONSTANTS
  SpeedTrigger, Friction, Interval,         \* of PostStage
  MaxQueue, MaxOpens, QuietClose,
  Moves,          \* the samples of moving touches
  PromptTimers    \* environment: the release of a click is made before a finger
                  \* lands or leaves or three move, that of a drag before its
                  \* hold_time is over

VARIABLES
  on, opens, phase, pad, queue, lastButton, isDefering, deferTimer,
  deferButton, velocity, isSliding, slideTimer, strays, passed, start,
  duration, alt, pressed, slid,             \* of PostStage
  cursor, old,                              \* of TouchCalls
  restarted,  \* the debounce time began with a call of this packet
  aborted,    \* an assertion of the driver failed, and the X server is gone
  owed      \* history: buttons tapped in this packet and not yet pressed

P == INSTANCE PostStage WITH Offers <- Postable, SpacedClicks <- FALSE
Dispatch == INSTANCE TouchCalls

ASSUME MovesAssumption == Moves \subseteq Samples
ASSUME PromptAssumption == PromptTimers \in BOOLEAN
ASSUME StageAssumption ==
  /\ SpeedTrigger \in Nat
  /\ Friction \in Nat \ {0}
  /\ Interval \in Nat \ {0}
  /\ MaxQueue \in Nat
  /\ MaxOpens \in Nat

manager == <<gm, fingers, held>>
stage   == <<on, opens, phase, pad, queue, lastButton, isDefering, deferTimer,
             deferButton, velocity, isSliding, slideTimer, strays, passed,
             start, duration, alt, pressed, slid>>
calls   == <<cursor, old, restarted>>
driverVars == <<manager, stage, calls, aborted, owed>>

DriverTypeOK ==
  /\ TypeOK
  /\ P!TypeOK
  /\ cursor \in 0..MaxFingers
  /\ old \in 0..fingers
  /\ restarted \in BOOLEAN
  /\ aborted \in BOOLEAN
  /\ owed \in SUBSET Buttons

DriverInit ==
  /\ Init
  /\ P!Init
  /\ cursor = 0
  /\ old = 0
  /\ restarted = FALSE
  /\ aborted = FALSE
  /\ owed = {}

-----------------------------------------------------------------------------
(* The calls of itrack_read, in the order ITrackRead keeps (TouchCalls).   *)

(* The server runs, and this step leaves it running.                       *)
Up == ~aborted /\ UNCHANGED aborted

Between  == phase = "idle"
Dispatching == phase = "gestures" /\ gm.out = <<>>
Returned == Len(queue) + Len(gm'.out) <= MaxQueue

(* hold is "open" from a drag's end until another gesture is accepted or   *)
(* its hold_time is over: the release that is pending is the drag's.  The  *)
(* acceptance queues its cancellation.                                     *)
TapPending ==
  /\ isDefering
  /\ gm.hold # "open"
  /\ \A i \in 1..Len(queue) : queue[i].defer # "CANCEL"
Spaced     == PromptTimers => ~TapPending

(* on_physical_button_update queues its action and sets physical_button.   *)
Packet ==
  /\ Up
  /\ P!Packet
  /\ \E buttons \in Pads : buttons = pad' /\ PhysicalUpdate(buttons)
  /\ Dispatch!Begin
  /\ restarted' = FALSE
  /\ owed' = {}

(* A start or release begins the debounce time anew, except that of        *)
(* CHANGING, which runs from the release that led there.                   *)
Debounce ==
  restarted' = (restarted \/ gm.state # "CHANGING" \/ gm'.state # "CHANGING")

(* on_touch_start                                                          *)
StartCall ==
  /\ Up
  /\ Dispatching
  /\ Spaced
  /\ Dispatch!Started
  /\ Land
  /\ Returned
  /\ Debounce
  /\ UNCHANGED <<stage, owed>>

(* The button of a tap whose fingers leave before they are recognised.     *)
Tapped ==
  {TapButton[g] : g \in {h \in Taps : /\ gm.state = "WAITING"
                                      /\ gm.maxTouches = RequiredTouches[h]
                                      /\ fingers = 1}}

(* Mutant: a released finger is not left out of the loop of moves.         *)
ReleaseAndMove ==
  /\ Up
  /\ Dispatching
  /\ Spaced
  /\ cursor = 0 /\ old > 0
  /\ Lift
  /\ Returned
  /\ Debounce
  /\ owed' = owed \cup Tapped
  /\ UNCHANGED <<stage, cursor, old>>

(* on_touch_release                                                        *)
ReleaseCall ==
  /\ Up
  /\ Dispatching
  /\ Spaced
  /\ Dispatch!Released
  /\ Lift
  /\ Returned
  /\ Debounce
  /\ owed' = owed \cup Tapped
  /\ UNCHANGED stage

(* on_touch_move                                                           *)
MoveCall ==
  /\ Up
  /\ Dispatching
  /\ fingers = RequiredTouches["drag"] => Spaced
  /\ \E idx \in cursor..(fingers - old), sample \in Moves :
       /\ Dispatch!Moved(idx)
       /\ sample.elapsed => ~restarted
       /\ Move(idx, sample)
  /\ Returned
  /\ UNCHANGED <<stage, restarted, owed>>

(* itrack_post_own, called by the accepted gesture or by its acceptance.   *)
Own ==
  /\ Up
  /\ gm.out # <<>>
  /\ P!Own(Head(gm.out).action)
  /\ gm' = [gm EXCEPT !.out = Tail(@)]
  /\ UNCHANGED <<fingers, held, calls, owed>>

-----------------------------------------------------------------------------
(* The post stage.  Its state_change_fn is                                 *)
(* on_post_stage_inertia_scroll_state_change, which calls                  *)
(* touch_handler_set_post_scrolling_state.                                 *)

(* Mutant: no callback is registered.                                      *)
HeardNothing == UNCHANGED manager

Heard ==
  IF alt' = alt THEN UNCHANGED manager
  ELSE \E isOn \in BOOLEAN : isOn = alt' /\ SetPostScrollingState(isOn)

(* The callback looks for its gesture by name, and itrack_close freed the  *)
(* gestures (touch_handler_deinit) but left the inertia timer armed: what  *)
(* strcmp reads is anything, and assert(item) may fail.                    *)
NotFound == ~on /\ P!LastTick /\ aborted' = TRUE /\ UNCHANGED manager

(* What a tick of the inertia tells the touch handler.                     *)
TickHeard ==
  /\ ~aborted
  /\ \/ Heard /\ UNCHANGED aborted
     \/ NotFound

(* itrack_post_read                                                        *)
Read ==
  /\ Up
  /\ gm.out = <<>>
  /\ old = 0
  /\ P!Read
  /\ Heard
  /\ owed' = owed \ (Head(queue).down \ pressed)
  /\ cursor' = 0
  /\ restarted' = FALSE
  /\ UNCHANGED old

DeferFires == Up /\ P!DeferFires /\ UNCHANGED <<manager, calls, owed>>
SlideTick  == P!SlideTick /\ TickHeard /\ UNCHANGED <<calls, owed>>
StrayTick  == P!StrayTick /\ TickHeard /\ UNCHANGED <<calls, owed>>

HoldOver ==
  /\ Up
  /\ Between
  /\ PromptTimers => ~isDefering
  /\ HoldPasses
  /\ UNCHANGED <<stage, calls, owed>>

-----------------------------------------------------------------------------
(* itrack_open initialises the touch handler, then the post stage;         *)
(* itrack_close leaves the manager's fields as they are, with pointers to  *)
(* the gestures it frees, which only the ticks of an inertia go on to read.*)
Open ==
  /\ Up
  /\ P!Open
  /\ Reopen
  /\ UNCHANGED <<calls, owed>>

Close == Up /\ P!Close /\ UNCHANGED <<manager, calls, owed>>

DriverNext ==
  \/ Open
  \/ Close
  \/ Packet
  \/ StartCall
  \/ ReleaseCall
  \/ MoveCall
  \/ Own
  \/ Read
  \/ DeferFires
  \/ SlideTick
  \/ StrayTick
  \/ HoldOver

Fairness ==
  /\ WF_driverVars(Own)
  /\ SF_driverVars(Read)
  /\ SF_driverVars(DeferFires)
  /\ SF_driverVars(SlideTick)
  /\ SF_driverVars(StrayTick)

DriverSpec == DriverInit /\ [][DriverNext]_driverVars
FairSpec   == DriverSpec /\ Fairness

-----------------------------------------------------------------------------
(* Properties.                                                             *)

(* Unless the server is gone, the handler's alternative gesture is set     *)
(* exactly while there is an inertia, over all callbacks, ticks (the stray *)
(* ones, too) and reopenings.                                              *)
AltIsInertia == ~aborted => ((gm.alt = "scroll") <=> isSliding)

(* The callback of the inertia finds the gesture it is about, whenever its *)
(* timer fires ("assert(item)", touch-handler.c:103).                      *)
ItemFound == ~aborted

(* Between packets, every button X holds down is owed to something: the pad*)
(* that reports it, a release that is scheduled, or a drag that runs.      *)
NoStuckButton ==
  Between =>
    pressed \subseteq pad
                        \cup (IF isDefering THEN deferButton ELSE {})
                        \cup (IF held THEN {DragButton} ELSE {})

(* While a drag whose press was read runs, X releases its button only by   *)
(* the timer of the drag before it: a drag taken up again within hold_time *)
(* shows X no release, and no tap, move or packet in between lets go of    *)
(* what is dragged ("Three finger drag (like macos)", README.md:23).       *)
DragGoesOn ==
  [][ /\ held /\ held'
      /\ \A i \in 1..Len(queue) : DragButton \notin queue[i].down
      /\ DragButton \in pressed \ pressed'
      => DeferFires \/ Close ]_driverVars

(* Every tap ended in a packet presses its button anew before the packet is*)
(* drained.                                                                *)
TapsClick == Between => owed = {}

(* Once the fingers stay away, X holds no button and nothing slides.       *)
EndsAtRest ==
  <>[](fingers = 0) => <>[](pressed = {} /\ ~isSliding)
===============================================================================
