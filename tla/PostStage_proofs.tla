--------------------------- MODULE PostStage_proofs ---------------------------
(***************************************************************************)
(* Proofs about PostStage, for every set of staged actions, every set of   *)
(* physical masks and every value of the numbers.                          *)
(*                                                                         *)
(* The safety invariants are not inductive one by one: that no ghost press *)
(* is left needs to know every queued action, that the flags of the timers *)
(* tell the truth needs them to agree with one another.  Inv conjoins them *)
(* with QueueInv, what the queue holds between and within packets.  Each   *)
(* part has a lemma with one step per action.                              *)
(***************************************************************************)
EXTENDS PostStage, TLAPS

(* Between packets the queue is drained, a closed device has no packet,    *)
(* and no queued action presses a physical button the pad does not report. *)
QueueInv ==
  /\ phase = "idle" <=> queue = <<>>
  /\ ~on => phase = "idle"
  /\ \A i \in 1..Len(queue) : queue[i].physical \subseteq pad

(* What the flags of the two timers say of the timers.                     *)
TimersInv ==
  /\ DeferArmed
  /\ SlidingHasTimer
  /\ AltFollowsSliding
  /\ RestWhileSliding

(* X holds a button no gesture presses only if last_button_status has it,  *)
(* which is the pad's mask, or nothing, once a packet is drained; a device *)
(* that is off holds no button, so that Open may forget the mask.          *)
PhysicalInv ==
  /\ phase = "idle" => lastButton \subseteq pad
  /\ pressed \cap PadOnly \subseteq lastButton
  /\ ~on => pressed = {}
  /\ \A i \in 1..Len(queue) : queue[i].down \cap PadOnly = {}

Inv ==
  /\ TypeOK
  /\ QueueInv
  /\ TimersInv
  /\ InertiaTravel
  /\ PhysicalInv

-----------------------------------------------------------------------------
(* Facts about the operators.                                              *)

(* Every action a packet may queue is a well-formed one.                   *)
LEMMA OffersType == Offers \subseteq ActionType
BY OffersAssumption DEF OffersAssumption

LEMMA PhysicalButtonType ==
  ASSUME NEW b \in SUBSET Buttons
  PROVE  /\ PhysicalButton(b) \in ActionType
         /\ PhysicalButton(b).physical = b
<1>1. Zeroed \in ActionType
  BY DEF Zeroed, ActionType, DeferOps
<1> HIDE DEF Zeroed
<1> QED BY <1>1 DEF PhysicalButton, ActionType

(* scroll_duration_ms_calc is never negative.                              *)
LEMMA DurationNat ==
  ASSUME NEW v \in Int
  PROVE  Duration(v) \in Nat
<1>1. Magnitude(v) \in Nat
  BY DEF Magnitude
<1> QED
  BY <1>1, FrictionAssumption DEF FrictionAssumption, Duration

(* Travel is an integer, and is nothing at the start.                      *)
LEMMA TravelInt ==
  ASSUME NEW v \in Int, NEW t \in Int, NEW T \in Int
  PROVE  Travel(v, t, T) \in Int /\ Travel(v, 0, T) = 0
BY DEF Travel

(* While a packet is processed there is an action to read.                 *)
LEMMA QueueHead ==
  ASSUME DataOK, QueueInv, phase # "idle"
  PROVE  /\ queue # <<>>
         /\ Head(queue) \in ActionType
         /\ Tail(queue) \in Seq(ActionType)
         /\ Head(queue).physical \subseteq pad
         /\ \A i \in 1..Len(Tail(queue)) : Tail(queue)[i].physical \subseteq pad
<1>1. queue # <<>> /\ queue \in Seq(ActionType)
  BY DEF QueueInv, DataOK
<1>2. Head(queue) \in ActionType /\ Tail(queue) \in Seq(ActionType)
  BY <1>1
<1>3. Head(queue) = queue[1] /\ 1 \in 1..Len(queue)
  BY <1>1
<1>4. Head(queue).physical \subseteq pad
  BY <1>3 DEF QueueInv
<1>5. ASSUME NEW i \in 1..Len(Tail(queue))
      PROVE  Tail(queue)[i].physical \subseteq pad
  <2>1. Tail(queue)[i] = queue[i + 1] /\ i + 1 \in 1..Len(queue)
    BY <1>1
  <2> QED BY <2>1 DEF QueueInv
<1> QED BY <1>1, <1>2, <1>4, <1>5
-----------------------------------------------------------------------------
(* The initial state satisfies the invariant.                              *)
THEOREM InitInv == Init => Inv
<1> SUFFICES ASSUME Init PROVE Inv
  OBVIOUS
<1>1. FlagsOK
  BY DEF Init, FlagsOK
<1>2. DataOK
  BY DEF Init, DataOK, TimerStates
<1>3. QueueInv
  BY DEF Init, QueueInv
<1>4. TimersInv
  BY DEF Init, TimersInv, DeferArmed, SlidingHasTimer, AltFollowsSliding,
         RestWhileSliding
<1>5. InertiaTravel
  BY DEF Init, InertiaTravel, Travel
<1>6. PhysicalInv
  BY DEF Init, PhysicalInv
<1> QED
  BY <1>1, <1>2, <1>3, <1>4, <1>5, <1>6 DEF Inv, TypeOK

-----------------------------------------------------------------------------
(* The flags stay Boolean.                                                 *)
LEMMA FlagsStep ==
  ASSUME FlagsOK, Next
  PROVE  FlagsOK'
<1>1. CASE Open
  BY <1>1 DEF FlagsOK, Open
<1>2. CASE Close
  BY <1>2 DEF FlagsOK, Close, slides
<1>3. CASE Packet
  BY <1>3 DEF FlagsOK, Packet, session, defers, slides
<1>4. ASSUME NEW action \in Offers, Own(action)
      PROVE  FlagsOK'
  BY <1>4 DEF FlagsOK, Own, session, defers, slides
<1>5. CASE Read
  <2>1. on' \in BOOLEAN
    BY <1>5 DEF FlagsOK, Read, session
  <2>2. isSliding' \in BOOLEAN /\ alt' \in BOOLEAN
    BY <1>5 DEF FlagsOK, Read, ScrollHolding, StartSliding, ScrollIdle,
                CancelSliding, StopSliding
  <2>3. isDefering' \in BOOLEAN
    BY <1>5 DEF FlagsOK, Read, DeferNone, DeferNew, DeferCancel,
                DeferTrigger, DeferDelay, defers
  <2> QED BY <2>1, <2>2, <2>3 DEF FlagsOK
<1>6. CASE DeferFires
  BY <1>6 DEF FlagsOK, DeferFires, session, slides
<1>7. CASE SlideTick
  BY <1>7 DEF FlagsOK, SlideTick, Tick, StopSliding, session, defers
<1>8. CASE StrayTick
  BY <1>8 DEF FlagsOK, StrayTick, Tick, StopSliding, session, defers
<1> QED
  BY <1>1, <1>2, <1>3, <1>4, <1>5, <1>6, <1>7, <1>8 DEF Next

(* What a tick of either inertia timer does to the data it touches.        *)
LEMMA TickData ==
  ASSUME DataOK, Tick
  PROVE  /\ passed' \in Nat
         /\ slid' \in Int
<1>1. passed \in Nat /\ duration \in Nat /\ start \in Int /\ slid \in Int
      /\ Interval \in Nat
  BY NumbersAssumption DEF DataOK, NumbersAssumption
<1>2. passed' \in Nat
  BY <1>1 DEF Tick
<1>3. TickTo \in Int
  BY <1>1 DEF TickTo
<1>4. /\ Travel(start, TickTo, duration) \in Int
      /\ Travel(start, passed, duration) \in Int
  BY <1>1, <1>3, TravelInt
<1>5. slid' \in Int
  BY <1>1, <1>4 DEF Tick
<1> QED BY <1>2, <1>5

(* The buttons X holds after an action stay buttons.                       *)
LEMMA AfterButtonsType ==
  ASSUME DataOK, NEW action \in ActionType
  PROVE  AfterButtons(action) \in SUBSET Buttons
BY DEF DataOK, ActionType, AfterButtons

(* The remaining variables keep their types.                               *)
LEMMA DataStep ==
  ASSUME DataOK, QueueInv, Next
  PROVE  DataOK'
<1>1. CASE Open
  <2>1. strays' \in Nat
    BY <1>1 DEF DataOK, Open
  <2> QED BY <1>1, <2>1 DEF DataOK, Open, TimerStates
<1>2. CASE Close
  BY <1>2 DEF DataOK, Close, input, slides, TimerStates
<1>3. CASE Packet
  <2>1. PICK buttons \in Pads :
          pad' = buttons /\ queue' = Append(queue, PhysicalButton(buttons))
    BY <1>3 DEF Packet
  <2>2. buttons \in SUBSET Buttons
    BY PadsAssumption DEF PadsAssumption
  <2>3. queue' \in Seq(ActionType)
    BY <2>1, <2>2, PhysicalButtonType DEF DataOK
  <2> QED
    BY <1>3, <2>1, <2>2, <2>3
       DEF DataOK, Packet, session, defers, slides
<1>4. ASSUME NEW action \in Offers, Own(action)
      PROVE  DataOK'
  <2>1. queue' \in Seq(ActionType)
    BY <1>4, OffersType DEF DataOK, Own
  <2> QED BY <1>4, <2>1 DEF DataOK, Own, session, defers, slides
<1>5. CASE Read
  <2> DEFINE action == Head(queue)
  <2>1. action \in ActionType /\ queue' \in Seq(ActionType)
    BY <1>5, QueueHead DEF Read
  <2>2. velocity' \in [x : Int, y : Int] /\ slideTimer' \in TimerStates
    <3>1. action.vx \in Int /\ action.vy \in Int
      BY <2>1 DEF ActionType
    <3>2. \/ velocity' = [x |-> action.vx, y |-> action.vy]
          \/ velocity' = [x |-> 0, y |-> 0]
      BY <1>5 DEF Read, ScrollHolding, StartSliding, ScrollIdle
    <3>3. slideTimer' \in {slideTimer, "unarmed", "armed"}
      BY <1>5 DEF Read, ScrollHolding, StartSliding, ScrollIdle,
                  CancelSliding
    <3> QED BY <3>1, <3>2, <3>3 DEF DataOK, TimerStates
  <2>3. velocity.y \in Int /\ Duration(velocity.y) \in Nat
    BY DurationNat DEF DataOK
  <2>4. /\ passed' \in Nat /\ start' \in Int
        /\ duration' \in Nat /\ slid' \in Int
    BY <1>5, <2>3 DEF DataOK, Read, ScrollHolding, StartSliding, ScrollIdle
  <2>5. AfterButtons(action) \in SUBSET Buttons
    BY <2>1, AfterButtonsType
  <2>6. /\ pressed' \in SUBSET Buttons
        /\ deferTimer' \in TimerStates
        /\ deferButton' \in SUBSET Buttons
    BY <1>5, <2>1, <2>5
       DEF DataOK, Read, DeferNone, DeferNew, DeferCancel, DeferTrigger,
           DeferDelay, defers, TimerStates, ActionType
  <2>7. lastButton' \in SUBSET Buttons
    BY <1>5, <2>1 DEF Read, ActionType
  <2>8. /\ phase' \in {"idle", "gestures", "drain"}
        /\ opens' \in Nat /\ pad' \in SUBSET Buttons /\ strays' \in Nat
    BY <1>5 DEF DataOK, Read, session
  <2> QED
    BY <2>1, <2>2, <2>4, <2>6, <2>7, <2>8 DEF DataOK
<1>6. CASE DeferFires
  BY <1>6 DEF DataOK, DeferFires, session, input, slides, TimerStates
<1>7. CASE SlideTick
  <2>1. passed' \in Nat /\ slid' \in Int
    BY <1>7, TickData DEF SlideTick
  <2> QED
    BY <1>7, <2>1 DEF DataOK, SlideTick, Tick, session, input, defers,
                      TimerStates
<1>8. CASE StrayTick
  <2>1. passed' \in Nat /\ slid' \in Int
    BY <1>8, TickData DEF StrayTick
  <2>2. strays' \in Nat
    BY <1>8 DEF DataOK, StrayTick
  <2> QED
    BY <1>8, <2>1, <2>2 DEF DataOK, StrayTick, Tick, session, input, defers
<1> QED
  BY <1>1, <1>2, <1>3, <1>4, <1>5, <1>6, <1>7, <1>8 DEF Next

(* The queue is drained between packets and stays harmless.                *)
LEMMA QueueStep ==
  ASSUME DataOK, QueueInv, Next
  PROVE  QueueInv'
<1>1. CASE Open
  BY <1>1 DEF QueueInv, Open
<1>2. CASE Close
  BY <1>2 DEF QueueInv, Close, input
<1>3. CASE Packet
  <2>1. PICK buttons \in Pads :
          pad' = buttons /\ queue' = Append(queue, PhysicalButton(buttons))
    BY <1>3 DEF Packet
  <2>2. PhysicalButton(buttons).physical = buttons
    BY PadsAssumption, PhysicalButtonType DEF PadsAssumption
  <2>3. queue = <<>> /\ queue' = <<PhysicalButton(buttons)>>
    BY <1>3, <2>1 DEF Packet, QueueInv
  <2>4. on' /\ phase' = "gestures"
    BY <1>3 DEF Packet, session
  <2> QED BY <2>1, <2>2, <2>3, <2>4 DEF QueueInv
<1>4. ASSUME NEW action \in Offers, Own(action)
      PROVE  QueueInv'
  <2>1. action.physical = {}
    BY OffersAssumption DEF OffersAssumption
  <2>2. queue \in Seq(ActionType) /\ action \in ActionType
    BY OffersType DEF DataOK
  <2>3. queue' # <<>> /\ Len(queue') = Len(queue) + 1
    BY <1>4, <2>2 DEF Own
  <2>4. ASSUME NEW i \in 1..Len(queue')
        PROVE  queue'[i].physical \subseteq pad'
    <3>1. CASE i \in 1..Len(queue)
      <4>1. queue'[i] = queue[i]
        BY <1>4, <2>2, <3>1 DEF Own
      <4> QED BY <1>4, <3>1, <4>1 DEF QueueInv, Own
    <3>2. CASE i = Len(queue) + 1
      <4>1. queue'[i] = action
        BY <1>4, <2>2, <3>2 DEF Own
      <4> QED BY <2>1, <4>1
    <3> QED BY <2>2, <2>3, <3>1, <3>2
  <2>5. phase' = "gestures" /\ phase = "gestures" /\ on' = on
    BY <1>4 DEF Own, session
  <2> QED BY <2>3, <2>4, <2>5 DEF QueueInv
<1>5. CASE Read
  <2>1. /\ queue' = Tail(queue) /\ pad' = pad /\ on' = on
        /\ phase' = IF Tail(queue) = <<>> THEN "idle" ELSE "drain"
        /\ phase # "idle"
    BY <1>5 DEF Read, session
  <2>2. \A i \in 1..Len(Tail(queue)) : Tail(queue)[i].physical \subseteq pad
    BY <2>1, QueueHead
  <2> QED BY <2>1, <2>2 DEF QueueInv
<1>6. CASE DeferFires
  BY <1>6 DEF QueueInv, DeferFires, session, input
<1>7. CASE SlideTick
  BY <1>7 DEF QueueInv, SlideTick, Tick, session, input
<1>8. CASE StrayTick
  BY <1>8 DEF QueueInv, StrayTick, Tick, session, input
<1> QED
  BY <1>1, <1>2, <1>3, <1>4, <1>5, <1>6, <1>7, <1>8 DEF Next

(* The flags keep telling the truth about the timers.                      *)
LEMMA TimersStep ==
  ASSUME FlagsOK, DataOK, TimersInv, Next
  PROVE  TimersInv'
<1> USE DEF TimersInv
<1>1. CASE Open
  BY <1>1 DEF DeferArmed, SlidingHasTimer, AltFollowsSliding,
              RestWhileSliding, Open
<1>2. CASE Close
  BY <1>2 DEF DeferArmed, SlidingHasTimer, AltFollowsSliding,
              RestWhileSliding, Close, slides
<1>3. CASE Packet
  BY <1>3 DEF DeferArmed, SlidingHasTimer, AltFollowsSliding,
              RestWhileSliding, Packet, defers, slides
<1>4. ASSUME NEW action \in Offers, Own(action)
      PROVE  TimersInv'
  BY <1>4 DEF DeferArmed, SlidingHasTimer, AltFollowsSliding,
              RestWhileSliding, Own, defers, slides
<1>5. CASE Read
  <2>1. DeferArmed'
    BY <1>5 DEF DeferArmed, Read, DeferNone, DeferNew, DeferCancel,
                DeferTrigger, DeferDelay, defers
  <2>2. SlidingHasTimer' /\ AltFollowsSliding'
    BY <1>5 DEF SlidingHasTimer, AltFollowsSliding, Read, ScrollHolding,
                StartSliding, ScrollIdle, CancelSliding, StopSliding
  <2>3. RestWhileSliding'
    BY <1>5 DEF RestWhileSliding, Read, ScrollHolding, StartSliding,
                ScrollIdle, CancelSliding, StopSliding
  <2> QED BY <2>1, <2>2, <2>3
<1>6. CASE DeferFires
  BY <1>6 DEF DeferArmed, SlidingHasTimer, AltFollowsSliding,
              RestWhileSliding, DeferFires, slides
<1>7. CASE SlideTick
  BY <1>7 DEF DeferArmed, SlidingHasTimer, AltFollowsSliding,
              RestWhileSliding, SlideTick, Tick, StopSliding, defers
<1>8. CASE StrayTick
  BY <1>8 DEF DeferArmed, SlidingHasTimer, AltFollowsSliding,
              RestWhileSliding, StrayTick, Tick, StopSliding, defers
<1> QED
  BY <1>1, <1>2, <1>3, <1>4, <1>5, <1>6, <1>7, <1>8 DEF Next

(* The distance scrolled is a function of the time passed.                 *)
LEMMA TravelStep ==
  ASSUME DataOK, InertiaTravel, Next
  PROVE  InertiaTravel'
<1>1. ASSUME Tick
      PROVE  InertiaTravel'
  <2>1. /\ passed \in Nat /\ duration \in Nat /\ start \in Int /\ slid \in Int
        /\ Interval \in Nat
    BY NumbersAssumption DEF DataOK, NumbersAssumption
  <2>2. start' = start /\ duration' = duration /\ passed' = passed + Interval
    BY <1>1 DEF Tick
  <2>3. CASE passed < duration
    <3>1. TickTo = IF passed' < duration THEN passed' ELSE duration
      BY <2>1, <2>2, <2>3 DEF TickTo, LastTick
    <3>2. slid = Travel(start, passed, duration)
      BY <2>3 DEF InertiaTravel
    <3>3. /\ Travel(start, passed, duration) \in Int
          /\ Travel(start, TickTo, duration) \in Int
      BY <2>1, <2>2, <3>1, TravelInt
    <3>4. slid' = Travel(start, TickTo, duration)
      BY <1>1, <2>3, <3>2, <3>3 DEF Tick
    <3> QED BY <2>2, <3>1, <3>4 DEF InertiaTravel
  <2>4. CASE ~(passed < duration)
    BY <1>1, <2>1, <2>2, <2>4 DEF InertiaTravel, Tick
  <2> QED BY <2>3, <2>4
<1>2. CASE Open
  BY <1>2 DEF InertiaTravel, Open
<1>3. CASE Close
  BY <1>3 DEF InertiaTravel, Close, slides
<1>4. CASE Packet
  BY <1>4 DEF InertiaTravel, Packet, slides
<1>5. ASSUME NEW action \in Offers, Own(action)
      PROVE  InertiaTravel'
  BY <1>5 DEF InertiaTravel, Own, slides
<1>6. CASE Read
  <2>1. CASE StartSliding(Head(queue))
    <3>1. velocity.y \in Int /\ Duration(velocity.y) \in Nat
      BY DurationNat DEF DataOK
    <3>2. /\ start' \in Int /\ duration' \in Nat
          /\ passed' = 0 /\ slid' = 0
      BY <2>1, <3>1 DEF StartSliding
    <3>3. Travel(start', 0, duration') = 0
      BY <3>2, TravelInt
    <3> QED BY <3>2, <3>3 DEF InertiaTravel
  <2>2. CASE ScrollHolding(Head(queue)) \/ ScrollIdle(Head(queue))
    BY <2>2 DEF InertiaTravel, ScrollHolding, ScrollIdle
  <2> QED BY <1>6, <2>1, <2>2 DEF Read
<1>7. CASE DeferFires
  BY <1>7 DEF InertiaTravel, DeferFires, slides
<1>8. CASE SlideTick
  BY <1>1, <1>8 DEF SlideTick
<1>9. CASE StrayTick
  BY <1>1, <1>9 DEF StrayTick
<1> QED
  BY <1>2, <1>3, <1>4, <1>5, <1>6, <1>7, <1>8, <1>9 DEF Next

(* What gestures queue presses no button that is the pad's alone.          *)
LEMMA OffersAvoid ==
  ASSUME NEW action \in Offers
  PROVE  action.down \cap PadOnly = {}
BY DEF PadOnly

(* Reading an action posts the release of every physical button its mask   *)
(* has no longer, and presses none that is the pad's alone but by the mask.*)
LEMMA ReadPhysical ==
  ASSUME DataOK, QueueInv, PhysicalInv, Read
  PROVE  pressed' \cap PadOnly \subseteq lastButton'
<1> DEFINE a == Head(queue)
<1>1. a.down \cap PadOnly = {}
  <2>1. a = queue[1] /\ 1 \in 1..Len(queue)
    BY QueueHead DEF Read, DataOK
  <2> QED BY <2>1 DEF PhysicalInv
<1>2. lastButton' = a.physical /\ pressed \cap PadOnly \subseteq lastButton
  BY DEF Read, PhysicalInv
<1> HIDE DEF a
<1>3. AfterButtons(a) \cap PadOnly \subseteq lastButton'
  BY <1>1, <1>2 DEF AfterButtons
<1>4. pressed' \subseteq AfterButtons(a)
  BY DEF Read, a, DeferNone, DeferNew, DeferCancel, DeferTrigger, DeferDelay
<1> QED BY <1>3, <1>4

(* No step leaves X with a physical button the pad has released.           *)
LEMMA PhysicalStep ==
  ASSUME DataOK, QueueInv, PhysicalInv, Next
  PROVE  PhysicalInv'
<1> USE DEF PhysicalInv
<1>1. CASE Open
  BY <1>1 DEF Open
<1>2. CASE Close
  BY <1>2 DEF Close, input
<1>3. CASE Packet
  <2>1. PICK buttons \in Pads :
          queue' = Append(queue, PhysicalButton(buttons))
    BY <1>3 DEF Packet
  <2>2. queue' = <<PhysicalButton(buttons)>>
    BY <1>3, <2>1 DEF Packet, QueueInv
  <2>3. PhysicalButton(buttons).down = {}
    BY DEF PhysicalButton, Zeroed
  <2> QED BY <1>3, <2>2, <2>3 DEF Packet, session
<1>4. ASSUME NEW action \in Offers, Own(action)
      PROVE  PhysicalInv'
  <2>1. queue \in Seq(ActionType) /\ queue' = Append(queue, action)
    BY <1>4 DEF DataOK, Own
  <2>2. \A i \in 1..Len(queue') :
          \/ i \in 1..Len(queue) /\ queue'[i] = queue[i]
          \/ queue'[i] = action
    BY <2>1, OffersType
  <2> QED BY <1>4, <2>2, OffersAvoid DEF Own, session
<1>5. CASE Read
  <2>1. queue \in Seq(ActionType) /\ queue # <<>> /\ queue' = Tail(queue)
    BY <1>5, QueueHead DEF Read, DataOK
  <2>2. \A i \in 1..Len(queue') :
          queue'[i] = queue[i + 1] /\ i + 1 \in 1..Len(queue)
    BY <2>1
  <2>3. \A i \in 1..Len(queue') : queue'[i].down \cap PadOnly = {}
    BY <2>2
  <2>4. lastButton' \subseteq pad' /\ on'
    BY <1>5, QueueHead DEF Read, QueueInv, session
  <2> QED BY <1>5, <2>3, <2>4, ReadPhysical
<1>6. CASE DeferFires
  BY <1>6 DEF DeferFires, session, input
<1>7. CASE SlideTick \/ StrayTick
  BY <1>7 DEF SlideTick, StrayTick, Tick, session, input
<1> QED
  BY <1>1, <1>2, <1>3, <1>4, <1>5, <1>6, <1>7 DEF Next

(* A step that changes nothing preserves the invariant.                    *)
LEMMA StutterStep ==
  ASSUME Inv, UNCHANGED vars
  PROVE  Inv'
<1> USE DEF Inv, vars, session, input, defers, slides
<1>1. FlagsOK'
  BY DEF TypeOK, FlagsOK
<1>2. DataOK'
  BY DEF TypeOK, DataOK
<1>3. QueueInv'
  BY DEF QueueInv
<1>4. TimersInv'
  BY DEF TimersInv, DeferArmed, SlidingHasTimer, AltFollowsSliding,
         RestWhileSliding
<1>5. InertiaTravel' /\ PhysicalInv'
  BY DEF InertiaTravel, PhysicalInv
<1> QED BY <1>1, <1>2, <1>3, <1>4, <1>5 DEF TypeOK

-----------------------------------------------------------------------------
(* The invariant holds in every reachable state.                           *)
THEOREM Invariance == Spec => []Inv
<1>1. Inv /\ [Next]_vars => Inv'
  <2>1. ASSUME Inv, Next
        PROVE  Inv'
    <3>1. FlagsOK /\ DataOK /\ QueueInv /\ TimersInv /\ InertiaTravel
            /\ PhysicalInv
      BY <2>1 DEF Inv, TypeOK
    <3>2. TypeOK'
      BY <2>1, <3>1, FlagsStep, DataStep DEF TypeOK
    <3>3. QueueInv' /\ TimersInv'
      BY <2>1, <3>1, QueueStep, TimersStep
    <3>4. InertiaTravel' /\ PhysicalInv'
      BY <2>1, <3>1, TravelStep, PhysicalStep
    <3> QED BY <3>2, <3>3, <3>4 DEF Inv
  <2> QED BY <2>1, StutterStep
<1> QED
  BY <1>1, InitInv, PTL DEF Spec

(* Every variable keeps its type: the queue holds actions, the timers are  *)
(* in a known state, the elapsed time and the duration are never negative. *)
THEOREM TypeCorrect == Spec => []TypeOK
BY Invariance, PTL DEF Inv

(* is_defering is true exactly while the deferral timer is armed, whatever *)
(* deferrals post-stage.c is asked for and whenever the timer fires.       *)
THEOREM DeferralIsTracked == Spec => []DeferArmed
BY Invariance, PTL DEF Inv, TimersInv

(* A running inertia has a timer of its own, the touch handler knows of it,*)
(* and nothing can restart it, also with timers left over from before the  *)
(* device was reopened.                                                    *)
THEOREM InertiaIsTracked == Spec => []InertiaTracked
BY Invariance, PTL DEF Inv, TimersInv, InertiaTracked

(* The ticks of an inertia add up to the deceleration formula, for every   *)
(* velocity, friction and interval.                                        *)
THEOREM InertiaDistance == Spec => []InertiaTravel
BY Invariance, PTL DEF Inv

(* Once a packet is drained, X holds a button that no gesture presses only *)
(* while the pad reports it: no physical press outlives the packet in which*)
(* the pad released it, whatever is queued behind the mask.                *)
THEOREM PhysicalIsReleased == Spec => []NoGhostPhysical
<1>1. Inv => NoGhostPhysical
  BY DEF Inv, PhysicalInv, NoGhostPhysical
<1> QED BY <1>1, Invariance, PTL

-----------------------------------------------------------------------------
(* Two properties that the code keeps only in a calmer environment, which  *)
(* the runs reopen and overlap show to be needed.                          *)

(* While the device is never turned off during an inertia, an armed timer  *)
(* is one that isSliding tells of, so that CancelSliding reaches it.       *)
QuietInv ==
  /\ slideTimer = "armed" => isSliding /\ on
  /\ strays = 0

LEMMA QuietStep ==
  ASSUME QuietClose, QueueInv, QuietInv, [Next]_vars
  PROVE  QuietInv'
<1> USE DEF QuietInv
<1>1. CASE Open
  BY <1>1 DEF Open
<1>2. CASE Close
  BY <1>2 DEF Close, slides
<1>3. CASE Packet
  BY <1>3 DEF Packet, session, slides
<1>4. ASSUME NEW action \in Offers, Own(action)
      PROVE  QuietInv'
  BY <1>4 DEF Own, session, slides
<1>5. CASE Read
  BY <1>5 DEF QueueInv, Read, ScrollHolding, StartSliding, ScrollIdle,
              CancelSliding, StopSliding, session
<1>6. CASE DeferFires
  BY <1>6 DEF DeferFires, session, slides
<1>7. CASE SlideTick
  BY <1>7 DEF SlideTick, Tick, StopSliding, session
<1>8. CASE StrayTick
  BY <1>8 DEF StrayTick
<1>9. CASE UNCHANGED vars
  BY <1>9 DEF vars, session, slides
<1> QED
  BY <1>1, <1>2, <1>3, <1>4, <1>5, <1>6, <1>7, <1>8, <1>9 DEF Next

(* Reading a finger scroll leaves no inertia timer armed, whatever the     *)
(* velocities, as long as no inertia runs when the device is turned off.   *)
THEOREM FingerStopsInertia ==
  ASSUME QuietClose
  PROVE  Spec => HoldingStopsInertia
<1>1. Init => QuietInv
  BY DEF Init, QuietInv
<1>2. Inv /\ QuietInv /\ [Next]_vars => QuietInv'
  BY QuietStep DEF Inv
<1>3. QuietInv => [Read /\ Head(queue).holding
                     => slideTimer' # "armed" /\ strays' = 0]_vars
  <2> SUFFICES ASSUME QuietInv, Read, Head(queue).holding
               PROVE  slideTimer' # "armed" /\ strays' = 0
    OBVIOUS
  <2> QED BY DEF QuietInv, Read, ScrollHolding, StartSliding, ScrollIdle,
                 CancelSliding, StopSliding
<1> QED
  BY <1>1, <1>2, <1>3, Invariance, PTL DEF Spec, HoldingStopsInertia

-----------------------------------------------------------------------------
(* Clicks.                                                                 *)

(* What taps, movements and scrolls stage: a press comes with its release, *)
(* and no release is cancelled.                                            *)
Paired(a) ==
  /\ a.defer # "CANCEL"
  /\ a.down # {} => a.defer = "NEW" /\ a.down \subseteq a.deferButton

TapsOnly == \A a \in Offers : Paired(a)

Scheduled == IF isDefering THEN deferButton ELSE {}

(* A new deferral in the queue is the only one, and none is pending.       *)
NewIsAlone ==
  \A i \in 1..Len(queue) :
    queue[i].defer = "NEW" =>
      /\ ~isDefering
      /\ \A j \in 1..Len(queue) : queue[j].defer = "NEW" => j = i

(* NoStuckClick holds within packets, too, and a device that is off holds  *)
(* no button, which Open relies on when it forgets the physical ones.      *)
ClickInv ==
  /\ pressed \subseteq lastButton \cup Scheduled
  /\ ~on => pressed = {}
  /\ \A i \in 1..Len(queue) : Paired(queue[i])
  /\ NewIsAlone

(* Reading the head of the queue: what X is told.                          *)
LEMMA ReadClicks ==
  ASSUME DataOK, QueueInv, DeferArmed, ClickInv, Read
  PROVE  pressed' \subseteq lastButton' \cup Scheduled'
<1> DEFINE a == Head(queue)
<1>1. a \in ActionType /\ a = queue[1] /\ 1 \in 1..Len(queue)
  <2>1. queue # <<>> /\ queue \in Seq(ActionType)
    BY QueueHead DEF Read, DataOK
  <2> QED BY <2>1
<1>2. Paired(a) /\ (a.defer = "NEW" => ~isDefering)
  BY <1>1 DEF ClickInv, NewIsAlone
<1>3. lastButton' = a.physical /\ pressed \subseteq lastButton \cup Scheduled
  BY DEF Read, ClickInv
<1> HIDE DEF a
<1>4. AfterButtons(a) \subseteq lastButton' \cup a.down \cup Scheduled
  BY <1>3 DEF AfterButtons
<1>5. CASE DeferNew(a)
  BY <1>2, <1>4, <1>5 DEF DeferNew, DeferArmed, Scheduled, Paired
<1>6. CASE DeferNone(a)
  BY <1>2, <1>4, <1>6 DEF DeferNone, Scheduled, Paired, defers
<1>7. CASE DeferTrigger(a)
  BY <1>2, <1>4, <1>7 DEF DeferTrigger, Scheduled, Paired
<1>8. CASE DeferDelay(a)
  BY <1>2, <1>4, <1>8 DEF DeferDelay, Scheduled, Paired
<1>9. ~DeferCancel(a)
  BY <1>2 DEF DeferCancel, Paired
<1> QED BY <1>5, <1>6, <1>7, <1>8, <1>9 DEF Read, a

(* What is left of the queue, and what it becomes.                         *)
LEMMA ReadLeaves ==
  ASSUME DataOK, QueueInv, ClickInv, Read
  PROVE  (\A i \in 1..Len(queue) : Paired(queue[i]))' /\ NewIsAlone'
<1>1. queue # <<>> /\ queue \in Seq(ActionType) /\ queue' = Tail(queue)
  BY QueueHead DEF Read, DataOK
<1>2. \A i \in 1..Len(queue') :
        queue'[i] = queue[i + 1] /\ i + 1 \in 1..Len(queue)
  BY <1>1
<1>3. \A i \in 1..Len(queue') : Paired(queue'[i])
  BY <1>2 DEF ClickInv
<1>4. NewIsAlone'
  <2> SUFFICES ASSUME NEW i \in 1..Len(queue'), queue'[i].defer = "NEW"
               PROVE  /\ ~isDefering'
                      /\ \A j \in 1..Len(queue') :
                           queue'[j].defer = "NEW" => j = i
    BY DEF NewIsAlone
  <2>1. queue[i + 1].defer = "NEW" /\ i + 1 \in 1..Len(queue)
    BY <1>2
  <2>2. ~isDefering /\ \A j \in 1..Len(queue) :
                          queue[j].defer = "NEW" => j = i + 1
    BY <2>1 DEF ClickInv, NewIsAlone
  <2>3. ASSUME NEW j \in 1..Len(queue'), queue'[j].defer = "NEW"
        PROVE  j = i
    <3>1. j + 1 = i + 1
      BY <1>2, <2>2, <2>3
    <3> QED BY <3>1
  <2>4. Head(queue).defer # "NEW"
    <3>1. Head(queue) = queue[1] /\ 1 \in 1..Len(queue) /\ 1 # i + 1
      BY <1>1
    <3> QED BY <2>2, <3>1
  <2>5. ~isDefering'
    BY <2>2, <2>4 DEF Read, DeferNone, DeferNew, DeferCancel, DeferTrigger,
                      DeferDelay, defers
  <2> QED BY <2>3, <2>5
<1> QED BY <1>3, <1>4

LEMMA ClickStep ==
  ASSUME SpacedClicks, TapsOnly, DataOK, QueueInv, DeferArmed, ClickInv,
         [Next]_vars
  PROVE  ClickInv'
<1> USE DEF ClickInv
<1>1. CASE Open
  BY <1>1 DEF Open, NewIsAlone
<1>2. CASE Close
  <2>1. pressed' = {} /\ queue' = queue /\ (isDefering' => isDefering)
    BY <1>2 DEF Close, input
  <2> QED BY <2>1 DEF NewIsAlone
<1>3. CASE Packet
  <2>1. PICK buttons \in Pads :
          queue' = Append(queue, PhysicalButton(buttons))
    BY <1>3 DEF Packet
  <2>2. queue' = <<PhysicalButton(buttons)>>
    BY <1>3, <2>1 DEF Packet, QueueInv
  <2>3. PhysicalButton(buttons).defer = "NONE"
        /\ PhysicalButton(buttons).down = {}
    BY DEF PhysicalButton, Zeroed
  <2>4. (\A i \in 1..Len(queue) : Paired(queue[i]))' /\ NewIsAlone'
    <3>1. \A i \in 1..Len(queue') : queue'[i] = PhysicalButton(buttons)
      BY <2>2
    <3> QED BY <2>3, <3>1 DEF NewIsAlone, Paired
  <2> QED
    BY <1>3, <2>4 DEF Packet, session, defers, Scheduled
<1>4. ASSUME NEW action \in Offers, Own(action)
      PROVE  ClickInv'
  <2>1. /\ queue \in Seq(ActionType) /\ action \in ActionType
        /\ queue' = Append(queue, action)
    BY <1>4, OffersType DEF DataOK, Own
  <2>2. \A i \in 1..Len(queue') :
          \/ i \in 1..Len(queue) /\ queue'[i] = queue[i]
          \/ i = Len(queue') /\ queue'[i] = action
    BY <2>1
  <2>3. \A i \in 1..Len(queue') : Paired(queue'[i])
    BY <2>2 DEF TapsOnly
  <2>4. NewIsAlone'
    <3>1. isDefering' = isDefering
      BY <1>4 DEF Own, defers
    <3>2. CASE action.defer # "NEW"
      BY <2>2, <3>1, <3>2 DEF NewIsAlone
    <3>3. CASE action.defer = "NEW"
      <4>1. ~isDefering /\ \A i \in 1..Len(queue) : queue[i].defer # "NEW"
        BY <1>4, <3>3 DEF Own, ClickPending
      <4> QED BY <2>2, <3>1, <4>1 DEF NewIsAlone
    <3> QED BY <3>2, <3>3
  <2> QED
    BY <1>4, <2>3, <2>4 DEF Own, session, defers, Scheduled
<1>5. CASE Read
  <2>1. on' /\ on
    BY <1>5 DEF Read, session, QueueInv
  <2> QED BY <1>5, <2>1, ReadClicks, ReadLeaves
<1>6. CASE DeferFires
  <2>1. /\ pressed' = pressed \ deferButton /\ ~isDefering' /\ on' = on
        /\ queue' = queue /\ lastButton' = lastButton
    BY <1>6 DEF DeferFires, session, input
  <2> QED BY <2>1 DEF NewIsAlone, Scheduled
<1>7. CASE SlideTick \/ StrayTick
  BY <1>7 DEF SlideTick, StrayTick, Tick, NewIsAlone, Scheduled, session,
              input, defers
<1>8. CASE UNCHANGED vars
  BY <1>8 DEF vars, NewIsAlone, Scheduled, session, input, defers
<1> QED
  BY <1>1, <1>2, <1>3, <1>4, <1>5, <1>6, <1>7, <1>8 DEF Next

(* Once a packet is drained, a button X holds down is one the pad reports, *)
(* or has its release scheduled, for taps of any buttons, as long as no click is  *)
(* staged while the release of another is pending.                         *)
THEOREM ClicksAreReleased ==
  ASSUME SpacedClicks, TapsOnly
  PROVE  Spec => []NoStuckClick
<1>1. Init => ClickInv
  BY DEF Init, ClickInv, NewIsAlone
<1>2. Inv /\ ClickInv /\ [Next]_vars => ClickInv'
  BY ClickStep DEF Inv, TypeOK, TimersInv
<1>3. Inv /\ ClickInv => NoStuckClick
  BY DEF Inv, PhysicalInv, ClickInv, NoStuckClick, Scheduled
<1> QED
  BY <1>1, <1>2, <1>3, Invariance, PTL DEF Spec

=============================================================================
