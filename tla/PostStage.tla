------------------------------ MODULE PostStage ------------------------------
(***************************************************************************)
(* post-stage.c: the queue of staged actions, the reader that turns them   *)
(* into X events, the deferred button release and the inertia of a scroll. *)
(*                                                                         *)
(* read_input (itrack.c) runs to completion: one packet queues its actions *)
(* and the queue is drained before control returns to the X server.  The   *)
(* two timers are X server timers: they fire between packets only, at any  *)
(* time after they were armed, so a late timer is just one that has not    *)
(* fired yet.  Closing and reopening the device (itrack_close, itrack_open)*)
(* also happens between packets.                                           *)
(***************************************************************************)
EXTENDS ITrackAction, Sequences

CONSTANTS
  Offers,        \* the actions gestures may stage
  Pads,          \* the physical button masks the hardware may report
  SpeedTrigger,  \* SCROLL_INERTIA_SPEED_TRIGER
  Friction,      \* SCROLL_FRICTION
  Interval,      \* ONE_SECOND_MS / SCROLL_INERTIA_POST_RATE
  MaxQueue,      \* bound: actions queued by one packet
  MaxOpens,      \* bound: times the device is turned on (then it stays on)
  SpacedClicks,  \* environment: no click is staged while a release is pending
  QuietClose     \* environment: the device is not turned off while sliding

ASSUME OffersAssumption ==
  /\ Offers \subseteq ActionType
  /\ \A a \in Offers : a.physical = {}   \* only the packet sets the field
ASSUME PadsAssumption     == Pads \subseteq SUBSET Buttons
ASSUME FrictionAssumption == Friction \in Nat \ {0}
ASSUME NumbersAssumption  ==
  /\ SpeedTrigger \in Nat
  /\ Interval \in Nat \ {0}
  /\ MaxQueue \in Nat
  /\ MaxOpens \in Nat

VARIABLES
  on,           \* between itrack_open and itrack_close
  opens,        \* how many times the device was turned on
  phase,        \* where read_input is
  pad,          \* hs.button of the current packet
  queue,        \* status_itr
  lastButton,   \* last_button_status
  isDefering,   \* is_defering
  deferTimer,   \* defer_timer
  deferButton,  \* defer_arg.button
  velocity,     \* scroll.velocity_x, scroll.velocity_y
  isSliding,    \* scroll.is_inertia_scrolling
  slideTimer,   \* scroll.inertia_sliding_timer
  strays,       \* armed inertia timers the handler no longer points at
  passed,       \* scroll.passed_time_ms
  start,        \* scroll.arg.y.start_velocity
  duration,     \* scroll.arg.y.duration
  alt,          \* what state_change_fn told the touch handler last
  pressed,      \* external: the buttons X holds down
  slid          \* external: scroll posted by this inertia, scaled (see Travel)

session == <<on, opens>>
input   == <<phase, pad, queue>>
defers  == <<isDefering, deferTimer, deferButton>>
slides  == <<isSliding, slideTimer, passed, start, duration, alt, slid>>
vars    == <<session, input, lastButton, defers, velocity, slides, strays,
             pressed>>

TimerStates == {"null", "unarmed", "armed"}

FlagsOK ==
  /\ on \in BOOLEAN
  /\ isDefering \in BOOLEAN
  /\ isSliding \in BOOLEAN
  /\ alt \in BOOLEAN

DataOK ==
  /\ opens \in Nat
  /\ phase \in {"idle", "gestures", "drain"}
  /\ pad \in SUBSET Buttons
  /\ queue \in Seq(ActionType)
  /\ lastButton \in SUBSET Buttons
  /\ deferTimer \in TimerStates
  /\ deferButton \in SUBSET Buttons
  /\ velocity \in [x : Int, y : Int]
  /\ slideTimer \in TimerStates
  /\ strays \in Nat
  /\ passed \in Nat
  /\ start \in Int
  /\ duration \in Nat
  /\ pressed \in SUBSET Buttons
  /\ slid \in Int

TypeOK == FlagsOK /\ DataOK

(* itrack_t is allocated zeroed and stays so until the first itrack_open.  *)
Init ==
  /\ on = FALSE
  /\ opens = 0
  /\ phase = "idle"
  /\ pad = {}
  /\ queue = <<>>
  /\ lastButton = {}
  /\ isDefering = FALSE
  /\ deferTimer = "null"
  /\ deferButton = {}
  /\ velocity = [x |-> 0, y |-> 0]
  /\ isSliding = FALSE
  /\ slideTimer = "null"
  /\ strays = 0
  /\ passed = 0
  /\ start = 0
  /\ duration = 0
  /\ alt = FALSE
  /\ pressed = {}
  /\ slid = 0

-----------------------------------------------------------------------------
(* The arithmetic of the inertia.                                          *)

Magnitude(v) == IF v < 0 THEN -v ELSE v
(* Mutant: no fabs().                                                      *)
SignedDuration(v) == (1000 * v) \div Friction

Duration(v)  == (1000 * Magnitude(v)) \div Friction

(* 2 * 1000 * T times scroll_distance_fn(v, t, T): an integer.             *)
Travel(v, t, T) == v * (2 * T - t) * t

Fast == \/ Magnitude(velocity.x) > SpeedTrigger
        \/ Magnitude(velocity.y) > SpeedTrigger

-----------------------------------------------------------------------------
(* Opening and closing the device.                                         *)

(* itrack_post_init forgets both timers without cancelling them, and says  *)
(* nothing of the velocity.  touch_handler_init, called just before it,    *)
(* clears the manager and with it the alternative gesture.                 *)
Open ==
  /\ ~on
  /\ on' = TRUE
  /\ opens' = opens + 1
  /\ isDefering' = FALSE
  /\ deferTimer' = "null"
  /\ lastButton' = {}
  /\ slideTimer' = "null"
  /\ strays' = IF slideTimer = "armed" THEN strays + 1 ELSE strays
  /\ isSliding' = FALSE
  /\ queue' = <<>>
  /\ alt' = FALSE
  /\ UNCHANGED <<phase, pad, deferButton, velocity, passed, start, duration,
                 pressed, slid>>

(* itrack_post_deinit frees the deferral only.  The X server releases the  *)
(* buttons of a device it disables.                                        *)
Close ==
  /\ on
  /\ opens < MaxOpens
  /\ phase = "idle"
  /\ QuietClose => slideTimer # "armed"
  /\ on' = FALSE
  /\ IF deferTimer # "null"
       THEN deferTimer' = "null" /\ isDefering' = FALSE
       ELSE UNCHANGED <<deferTimer, isDefering>>
  /\ pressed' = {}
  /\ UNCHANGED <<opens, input, lastButton, deferButton, velocity, slides,
                 strays>>

-----------------------------------------------------------------------------
(* A packet queues its actions.                                            *)

(* on_physical_button_update: the first action of every packet.            *)
Packet ==
  /\ on
  /\ phase = "idle"
  /\ \E buttons \in Pads :
       /\ pad' = buttons
       /\ queue' = Append(queue, PhysicalButton(buttons))
  /\ phase' = "gestures"
  /\ UNCHANGED <<session, lastButton, defers, velocity, slides, strays,
                 pressed>>

ClickPending == isDefering \/ \E i \in 1..Len(queue) : queue[i].defer = "NEW"

(* itrack_post_own, called by an accepted gesture.                         *)
Own(action) ==
  /\ phase = "gestures"
  /\ Len(queue) < MaxQueue
  /\ SpacedClicks /\ action.defer = "NEW" => ~ClickPending
  /\ queue' = Append(queue, action)
  /\ UNCHANGED <<session, phase, pad, lastButton, defers, velocity, slides,
                 strays, pressed>>

-----------------------------------------------------------------------------
(* itrack_post_read takes the head of the queue.  Its parts follow the     *)
(* order of the code: scroll, physical buttons, buttons, deferral.         *)

(* Mutant: the flag is not cleared.                                        *)
StopAltOnly == alt' = FALSE /\ UNCHANGED isSliding

(* The end of an inertia always tells the touch handler.                   *)
StopSliding == isSliding' = FALSE /\ alt' = FALSE

(* Mutant: TimerCancel is forgotten.                                       *)
CancelFlagOnly ==
  IF isSliding
    THEN StopSliding /\ UNCHANGED slideTimer
    ELSE UNCHANGED <<isSliding, alt, slideTimer>>

CancelSliding ==
  IF isSliding
    THEN StopSliding /\ slideTimer' = "unarmed"
    ELSE UNCHANGED <<isSliding, alt, slideTimer>>

ScrollHolding(action) ==
  /\ action.holding
  /\ CancelSliding
  /\ velocity' = [x |-> action.vx, y |-> action.vy]
  /\ UNCHANGED <<passed, start, duration, slid>>

StartSliding(action) ==
  /\ ~action.holding
  /\ Fast
  /\ isSliding' = TRUE
  /\ alt' = TRUE
  /\ passed' = 0
  /\ start' = velocity.y
  /\ duration' = Duration(velocity.y)
  /\ slideTimer' = "armed"
  /\ velocity' = [x |-> 0, y |-> 0]
  /\ slid' = 0

ScrollIdle(action) ==
  /\ ~action.holding
  /\ ~Fast
  /\ IF action.moved THEN CancelSliding
                     ELSE UNCHANGED <<isSliding, alt, slideTimer>>
  /\ velocity' = [x |-> 0, y |-> 0]
  /\ UNCHANGED <<passed, start, duration, slid>>

(* Mutant: last_button_status is kept, but no release is posted.           *)
NeverReleased(action) ==
  (pressed \cup (action.physical \ lastButton) \cup action.down) \ action.up

(* Mutant: every button the action does not press is released.             *)
OnlyItsButtons(action) == action.physical \cup (action.down \ action.up)

(* The physical buttons that changed, then button.down and button.up.      *)
AfterButtons(action) ==
  LET physical == (pressed \cup (action.physical \ lastButton))
                     \ (lastButton \ action.physical)
  IN  (physical \cup action.down) \ action.up

DeferNone(action) ==
  /\ action.defer = "NONE"
  /\ pressed' = AfterButtons(action)
  /\ UNCHANGED defers

(* defer_arg is overwritten before TimerSet(TimerForceOld) runs a pending  *)
(* callback, which therefore releases the new button.                      *)
DeferNew(action) ==
  /\ action.defer = "NEW"
  /\ deferButton' = action.deferButton
  /\ pressed' = AfterButtons(action)
                  \ (IF deferTimer = "armed" THEN action.deferButton ELSE {})
  /\ deferTimer' = "armed"
  /\ isDefering' = TRUE

DeferCancel(action) ==
  /\ action.defer = "CANCEL"
  /\ pressed' = AfterButtons(action)
  /\ IF isDefering
       THEN deferTimer' = "unarmed" /\ isDefering' = FALSE
       ELSE UNCHANGED <<deferTimer, isDefering>>
  /\ UNCHANGED deferButton

(* TimerForce runs the callback of a pending timer.                        *)
DeferTrigger(action) ==
  /\ action.defer = "TRIGGER"
  /\ IF isDefering
       THEN /\ pressed' = AfterButtons(action) \ deferButton
            /\ deferTimer' = "unarmed"
            /\ isDefering' = FALSE
       ELSE /\ pressed' = AfterButtons(action)
            /\ UNCHANGED <<deferTimer, isDefering>>
  /\ UNCHANGED deferButton

(* Mutant: the timer is set without looking at is_defering.                *)
DeferDelayAlways(action) ==
  /\ action.defer = "DELAY"
  /\ pressed' = AfterButtons(action)
  /\ deferTimer' = "armed"
  /\ UNCHANGED <<isDefering, deferButton>>

DeferDelay(action) ==
  /\ action.defer = "DELAY"
  /\ pressed' = AfterButtons(action)
  /\ deferTimer' = IF isDefering THEN "armed" ELSE deferTimer
  /\ UNCHANGED <<isDefering, deferButton>>

Read ==
  /\ phase # "idle"
  /\ LET action == Head(queue)
     IN  /\ \/ ScrollHolding(action)
            \/ StartSliding(action)
            \/ ScrollIdle(action)
         /\ \/ DeferNone(action)
            \/ DeferNew(action)
            \/ DeferCancel(action)
            \/ DeferTrigger(action)
            \/ DeferDelay(action)
         /\ lastButton' = action.physical
  /\ queue' = Tail(queue)
  /\ phase' = IF Tail(queue) = <<>> THEN "idle" ELSE "drain"
  /\ UNCHANGED <<session, pad, strays>>

-----------------------------------------------------------------------------
(* The timers.                                                             *)

(* Mutant: the callback only clears is_defering.                           *)
DeferFiresIdle ==
  /\ phase = "idle"
  /\ deferTimer = "armed"
  /\ deferTimer' = "unarmed"
  /\ isDefering' = FALSE
  /\ UNCHANGED <<session, input, lastButton, deferButton, velocity, slides,
                 strays, pressed>>

(* on_button_defer_callback                                                *)
DeferFires ==
  /\ phase = "idle"
  /\ deferTimer = "armed"
  /\ deferTimer' = "unarmed"
  /\ pressed' = pressed \ deferButton
  /\ isDefering' = FALSE
  /\ UNCHANGED <<session, input, lastButton, deferButton, velocity, slides,
                 strays>>

(* on_scroll_inertia_sliding_timer_update: the last step stops at the      *)
(* duration, and one that starts past it scrolls nothing.                  *)
LastTick == passed + Interval >= duration

(* Mutant: the last step is not cut short.                                 *)
TickPast == passed + Interval

TickTo == IF ~LastTick THEN passed + Interval
          ELSE IF passed < duration THEN duration ELSE passed

Tick ==
  /\ phase = "idle"
  /\ slid' = IF passed < duration
               THEN slid + Travel(start, TickTo, duration)
                         - Travel(start, passed, duration)
               ELSE slid
  /\ passed' = passed + Interval
  /\ IF LastTick THEN StopSliding ELSE UNCHANGED <<isSliding, alt>>
  /\ UNCHANGED <<session, input, lastButton, defers, velocity, start,
                 duration, pressed>>

SlideTick ==
  /\ slideTimer = "armed"
  /\ Tick
  /\ slideTimer' = IF LastTick THEN "unarmed" ELSE "armed"
  /\ UNCHANGED strays

(* A timer armed before the device was reopened runs on the same handler.  *)
StrayTick ==
  /\ strays > 0
  /\ Tick
  /\ strays' = IF LastTick THEN strays - 1 ELSE strays
  /\ UNCHANGED slideTimer

-----------------------------------------------------------------------------
Next ==
  \/ Open
  \/ Close
  \/ Packet
  \/ \E action \in Offers : Own(action)
  \/ Read
  \/ DeferFires
  \/ SlideTick
  \/ StrayTick

(* read_input drains the queue in one call; the X server runs an armed     *)
(* timer sooner or later, although packets keep coming between.            *)
Fairness ==
  /\ WF_vars(Read)
  /\ SF_vars(DeferFires)
  /\ SF_vars(SlideTick)
  /\ SF_vars(StrayTick)

Spec     == Init /\ [][Next]_vars
FairSpec == Spec /\ Fairness
-----------------------------------------------------------------------------
(* Properties.                                                             *)

(* is_defering says exactly that the deferral timer is armed: no release   *)
(* is promised that no timer will make, none is made that nobody knows of, *)
(* over new, cancelled, delayed and forced deferrals and reopenings.       *)
DeferArmed == isDefering <=> deferTimer = "armed"

(* An inertia that is on has a timer of its own that will end it, however  *)
(* cancelling, restarting and reopening interleave with the ticks.         *)
SlidingHasTimer == isSliding => slideTimer = "armed"

(* The touch handler's view (the alternative gesture) never lags behind    *)
(* is_inertia_scrolling, which the reader, the timer and reopening change. *)
AltFollowsSliding == alt <=> isSliding

(* A running inertia is never restarted: the velocity that would start one *)
(* is gone while it runs, until a finger scroll has cancelled it.          *)
RestWhileSliding == isSliding => velocity = [x |-> 0, y |-> 0]

(* The three together: post-stage.c and the touch handler never lose track *)
(* of an inertia, which ends by its own timer and never starts by itself.  *)
InertiaTracked == SlidingHasTimer /\ AltFollowsSliding /\ RestWhileSliding

(* The steps of an inertia, however the ticks of its timer were delayed or *)
(* cut short, add up to the distance of the deceleration at passed_time:   *)
(* nothing is scrolled twice, skipped, or scrolled past the duration.      *)
InertiaTravel ==
  slid = Travel(start, IF passed < duration THEN passed ELSE duration,
                duration)

(* The buttons no gesture presses.                                         *)
PadOnly == Buttons \ UNION {action.down : action \in Offers}

(* Once a packet is drained, X holds such a button only while the pad      *)
(* reports it: the release reaches X with the packet that has it, whatever *)
(* gestures queued behind the mask, and no reopening loses it.             *)
NoGhostPhysical == phase = "idle" => pressed \cap PadOnly \subseteq pad

(* Once a packet is drained, a button X holds down is one the pad reports  *)
(* or has its release scheduled.                                           *)
NoStuckClick ==
  phase = "idle" =>
    pressed \subseteq pad \cup (IF isDefering THEN deferButton ELSE {})

(* Reading a finger scroll leaves no inertia timer armed: the page does    *)
(* not keep sliding under the finger ("cancel sliding", post-stage.c:150). *)
HoldingStopsInertia ==
  [][Read /\ Head(queue).holding => slideTimer' # "armed" /\ strays' = 0]_vars

(* Once a packet is drained, the physical buttons X was told of are those  *)
(* the pad reported: a press lasts as long as the finger presses.          *)
PhysicalHeld == phase = "idle" /\ on => lastButton = pad

(* A scheduled release reaches X.                                          *)
ClickEnds ==
  \A b \in Buttons :
    (isDefering /\ b \in deferButton) ~> (b \notin pressed)

(* An inertia ends.                                                        *)
SlidingEnds == isSliding ~> ~isSliding
=============================================================================
