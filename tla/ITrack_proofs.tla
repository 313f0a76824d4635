----------------------------- MODULE ITrack_proofs -----------------------------
(***************************************************************************)
(* The whole driver: what is proved of the gesture manager and of the post *)
(* stage holds of their composition.                                       *)
(*                                                                         *)
(* Each step of the driver is one of the manager, or takes away an action  *)
(* it has queued, and so keeps the invariant of GestureManager_proofs; and *)
(* as that gives every queued action its type, each step is a step of the  *)
(* post stage or leaves it alone: the driver implements PostStage, whose   *)
(* theorems then hold of it.                                               *)
(***************************************************************************)
EXTENDS ITrack, GestureManager_proofs

PP == INSTANCE PostStage_proofs WITH Offers <- Postable, SpacedClicks <- FALSE

-----------------------------------------------------------------------------
(* The names of PostStage mean the same in both instances.                 *)

LEMMA SameInit == P!Init <=> PP!Init
BY DEF P!Init, PP!Init

LEMMA SameRead == P!Read <=> PP!Read
<1>1. ASSUME NEW action
      PROVE  /\ P!ScrollHolding(action) <=> PP!ScrollHolding(action)
             /\ P!StartSliding(action) <=> PP!StartSliding(action)
             /\ P!ScrollIdle(action) <=> PP!ScrollIdle(action)
  <2>1. P!CancelSliding <=> PP!CancelSliding
    BY DEF P!CancelSliding, PP!CancelSliding, P!StopSliding, PP!StopSliding
  <2>2. P!Fast <=> PP!Fast
    BY DEF P!Fast, PP!Fast, P!Magnitude, PP!Magnitude
  <2>3. P!Duration(velocity.y) = PP!Duration(velocity.y)
    BY DEF P!Duration, PP!Duration, P!Magnitude, PP!Magnitude
  <2> QED
    BY <2>1, <2>2, <2>3 DEF P!ScrollHolding, PP!ScrollHolding,
       P!StartSliding, PP!StartSliding, P!ScrollIdle, PP!ScrollIdle
<1>2. ASSUME NEW action
      PROVE  /\ P!DeferNone(action) <=> PP!DeferNone(action)
             /\ P!DeferNew(action) <=> PP!DeferNew(action)
             /\ P!DeferCancel(action) <=> PP!DeferCancel(action)
             /\ P!DeferTrigger(action) <=> PP!DeferTrigger(action)
             /\ P!DeferDelay(action) <=> PP!DeferDelay(action)
  <2>1. P!AfterButtons(action) = PP!AfterButtons(action)
    BY DEF P!AfterButtons, PP!AfterButtons
  <2> QED
    BY <2>1 DEF P!defers, PP!defers, P!DeferNone, PP!DeferNone, P!DeferNew, PP!DeferNew,
       P!DeferCancel, PP!DeferCancel, P!DeferTrigger, PP!DeferTrigger,
       P!DeferDelay, PP!DeferDelay
<1> QED BY <1>1, <1>2 DEF P!Read, PP!Read, P!session, PP!session

LEMMA SameNext == P!Next <=> PP!Next
<1> USE DEF P!session, PP!session, P!input, PP!input, P!defers, PP!defers,
            P!slides, PP!slides
<1>1. /\ P!Open <=> PP!Open
      /\ P!Close <=> PP!Close
  BY DEF P!Open, PP!Open, P!Close, PP!Close
<1>2. P!Packet <=> PP!Packet
  <2>1. \A bs : P!PhysicalButton(bs) = PP!PhysicalButton(bs)
    BY DEF P!PhysicalButton, PP!PhysicalButton, P!Zeroed, PP!Zeroed
  <2> QED BY <2>1 DEF P!Packet, PP!Packet
<1>3. \A action : P!Own(action) <=> PP!Own(action)
  BY DEF P!Own, PP!Own, P!ClickPending, PP!ClickPending
<1>4. P!DeferFires <=> PP!DeferFires
  BY DEF P!DeferFires, PP!DeferFires
<1>5. /\ P!SlideTick <=> PP!SlideTick
      /\ P!StrayTick <=> PP!StrayTick
  <2>1. P!LastTick <=> PP!LastTick
    BY DEF P!LastTick, PP!LastTick
  <2>2. P!TickTo = PP!TickTo
    BY <2>1 DEF P!TickTo, PP!TickTo
  <2>3. P!Tick <=> PP!Tick
    BY <2>1, <2>2 DEF P!Tick, PP!Tick, P!Travel, PP!Travel, P!StopSliding,
       PP!StopSliding
  <2> QED
    BY <2>1, <2>3 DEF P!SlideTick, PP!SlideTick, P!StrayTick, PP!StrayTick
<1> QED
  BY <1>1, <1>2, <1>3, <1>4, <1>5, SameRead DEF P!Next, PP!Next

-----------------------------------------------------------------------------
(* Between packets every call was made and every action taken; a closed    *)
(* device has no packet; and the gesture manager knows of the inertia.     *)

CallsInv ==
  /\ cursor \in 0..MaxFingers
  /\ old \in 0..fingers
  /\ restarted \in BOOLEAN
  /\ owed \in SUBSET Buttons
  /\ phase # "gestures" => old = 0 /\ gm.out = <<>>

HeardInv ==
  /\ ~on => phase = "idle"
  /\ alt \in BOOLEAN
  /\ aborted \in BOOLEAN
  /\ ~aborted => (alt <=> gm.alt = "scroll")

DriverInv == IInv /\ CallsInv /\ HeardInv

LEMMA DriverInitInv ==
  DriverInit => DriverInv
<1> SUFFICES ASSUME DriverInit PROVE DriverInv
  OBVIOUS
<1>1. IInv
  BY InitInv DEF DriverInit
<1>2. gm.out = <<>> /\ gm.alt = Nobody /\ fingers = 0
  BY DEF DriverInit, Init, Fresh
<1>3. CallsInv
  <2>1. 0 \in 0..MaxFingers
    BY BoundsAssumption
  <2>2. cursor = 0 /\ old = 0 /\ owed = {} /\ restarted \in BOOLEAN
    BY DEF DriverInit
  <2> QED BY <1>2, <2>1, <2>2 DEF CallsInv
<1>4. HeardInv
  BY <1>2 DEF DriverInit, HeardInv, P!Init, Nobody
<1> QED BY <1>1, <1>3, <1>4 DEF DriverInv

-----------------------------------------------------------------------------
(* The gesture manager in the driver.                                      *)

(* itrack_post_own takes the action that was queued first.                 *)
LEMMA OwnSafe ==
  ASSUME IInv, Own
  PROVE  IInv' /\ gm'.alt = gm.alt
<1> DEFINE n == [gm EXCEPT !.out = Tail(gm.out)]
<1>1. gm' = n /\ fingers' = fingers /\ held' = held /\ gm.out # <<>>
  BY DEF Own
<1>2. gm \in Managers /\ Tail(gm.out) \in Seq(Entries)
  BY <1>1 DEF IInv, TypeOK, Managers
<1>3. /\ n \in Managers /\ Alike(gm, n)
      /\ n.state = gm.state /\ n.accepted = gm.accepted
      /\ n.list = gm.list /\ n.match = gm.match /\ n.alt = gm.alt
      /\ n.maxTouches = gm.maxTouches
  BY <1>1, <1>2 DEF Alike, Managers
<1> HIDE DEF n
<1>4. Sane(n) /\ Phase(n)
  BY <1>3, AlikeSane DEF IInv, Phase, Running
<1>5. TypeOK'
  BY <1>1, <1>3 DEF IInv, TypeOK
<1>6. DragWillRelease'
  BY <1>1, <1>3 DEF IInv, DragWillRelease
<1>7. Sane(gm)' /\ Phase(gm)'
  BY <1>1, <1>4 DEF Sane, Phase, Running
<1>8. (gm.state = "NONE" <=> fingers = 0)'
  BY <1>1, <1>3 DEF IInv
<1>9. Ready(gm, fingers)' /\ DragHeld'
  BY <1>1, <1>3, AlikeReady DEF IInv, Ready, Calm, DragHeld
<1> QED BY <1>1, <1>3, <1>5, <1>6, <1>7, <1>8, <1>9 DEF IInv

(* The callback of the post stage.                                         *)
LEMMA HeardSafe ==
  ASSUME IInv, Heard
  PROVE  IInv'
<1>1. CASE UNCHANGED manager
  <2>1. UNCHANGED vars
    BY <1>1 DEF manager, vars
  <2> QED BY <2>1, StepSafe
<1>2. CASE \E isOn \in BOOLEAN : SetPostScrollingState(isOn)
  <2>1. Next
    BY <1>2 DEF Next
  <2> QED BY <2>1, StepSafe
<1> QED BY <1>1, <1>2 DEF Heard

(* A tick tells the touch handler, or aborts and tells nobody.             *)
LEMMA TickSafe ==
  ASSUME IInv, TickHeard
  PROVE  IInv'
<1>1. CASE Heard
  BY <1>1, HeardSafe
<1>2. CASE NotFound
  <2>1. UNCHANGED vars
    BY <1>2 DEF NotFound, manager, vars
  <2> QED BY <2>1, StepSafe
<1> QED BY <1>1, <1>2 DEF TickHeard

LEMMA MoveIsNext ==
  ASSUME DriverInv, MoveCall
  PROVE  \E idx \in 0..(fingers - 1), sample \in Samples : Move(idx, sample)
<1>1. PICK idx \in cursor..(fingers - old), sample \in Moves :
        Dispatch!Moved(idx) /\ Move(idx, sample)
  BY DEF MoveCall
<1>2. idx \in 0..(fingers - 1)
  <2>1. old > 0 /\ old \in Int /\ cursor \in Nat /\ fingers \in Int
    BY <1>1 DEF Dispatch!Moved, DriverInv, CallsInv, IInv, TypeOK
  <2> QED BY <1>1, <2>1
<1>3. sample \in Samples
  BY MovesAssumption
<1> QED BY <1>1, <1>2, <1>3

LEMMA ManagerSafe ==
  ASSUME DriverInv, DriverNext
  PROVE  IInv'
<1>0. IInv
  BY DEF DriverInv
<1>1. CASE Open
  BY <1>0, <1>1, StepSafe DEF Open, Next
<1>2. CASE Packet
  BY <1>0, <1>2, StepSafe DEF Packet, Next
<1>3. CASE StartCall
  BY <1>0, <1>3, StepSafe DEF StartCall, Next
<1>4. CASE ReleaseCall
  BY <1>0, <1>4, StepSafe DEF ReleaseCall, Next
<1>5. CASE MoveCall
  BY <1>0, <1>5, MoveIsNext, StepSafe DEF Next
<1>6. CASE Own
  BY <1>0, <1>6, OwnSafe
<1>7. CASE Read
  BY <1>0, <1>7, HeardSafe DEF Read
<1>8. CASE SlideTick
  BY <1>0, <1>8, TickSafe DEF SlideTick
<1>9. CASE StrayTick
  BY <1>0, <1>9, TickSafe DEF StrayTick
<1>10. CASE HoldOver
  BY <1>0, <1>10, StepSafe DEF HoldOver, Next
<1>11. CASE Close \/ DeferFires
  <2>1. UNCHANGED vars
    BY <1>11 DEF Close, DeferFires, manager, vars
  <2> QED BY <1>0, <2>1, StepSafe
<1> QED
  BY <1>1, <1>2, <1>3, <1>4, <1>5, <1>6, <1>7, <1>8, <1>9, <1>10, <1>11
     DEF DriverNext

-----------------------------------------------------------------------------
(* The calls of a packet.                                                  *)

(* A step changes no more of the calls' variables than these do.           *)
LEMMA SameCalls ==
  ASSUME CallsInv, UNCHANGED calls, owed' \in SUBSET Buttons,
         fingers' = fingers \/ (old = 0 /\ fingers' = 0),
         phase' # "gestures" => phase # "gestures" /\ gm'.out \in {gm.out, <<>>}
  PROVE  CallsInv'
BY DEF CallsInv, calls

LEMMA HeardTells ==
  ASSUME IInv, HeardInv, Heard, ~aborted, alt' \in BOOLEAN
  PROVE  /\ fingers' = fingers
         /\ gm'.out \in {gm.out, <<>>}
         /\ alt' <=> gm'.alt = "scroll"
<1>1. CASE alt' = alt
  BY <1>1 DEF Heard, HeardInv, manager
<1>2. CASE alt' # alt
  <2>1. PICK isOn \in BOOLEAN : isOn = alt' /\ SetPostScrollingState(isOn)
    BY <1>2 DEF Heard
  <2>2. /\ gm' = [Calling EXCEPT !.alt = IF isOn THEN "scroll" ELSE Nobody]
        /\ fingers' = fingers
    BY <2>1 DEF SetPostScrollingState, Call
  <2>3. Calling \in Managers /\ Calling.out = <<>>
    BY CallingPhase DEF Sane
  <2>4. /\ gm'.out = <<>>
        /\ gm'.alt = IF isOn THEN "scroll" ELSE Nobody
    BY <2>2, <2>3 DEF Managers
  <2> QED BY <2>1, <2>2, <2>4 DEF Nobody
<1> QED BY <1>1, <1>2

LEMMA TickTells ==
  ASSUME IInv, HeardInv, TickHeard, alt' \in BOOLEAN
  PROVE  /\ fingers' = fingers
         /\ gm'.out \in {gm.out, <<>>}
         /\ aborted' \in BOOLEAN
         /\ ~aborted' => (alt' <=> gm'.alt = "scroll")
<1>1. CASE Heard /\ UNCHANGED aborted
  BY <1>1, HeardTells DEF TickHeard, HeardInv
<1>2. CASE NotFound
  BY <1>2 DEF NotFound, manager
<1> QED BY <1>1, <1>2 DEF TickHeard

(* The buttons a release owes are buttons.                                 *)
LEMMA TappedButtons == Tapped \subseteq Buttons
BY GestureButtons DEF Tapped

LEMMA CallsSafe ==
  ASSUME DriverInv, DriverNext, IInv', alt' \in BOOLEAN
  PROVE  CallsInv'
<1>0. /\ IInv /\ CallsInv /\ HeardInv
      /\ fingers \in 0..MaxFingers /\ fingers' \in 0..MaxFingers
      /\ MaxFingers \in Nat
  BY BoundsAssumption DEF DriverInv, IInv, TypeOK
<1>1. CASE Open
  <2>1. /\ fingers' = 0 /\ gm'.out = <<>>
        /\ UNCHANGED calls /\ UNCHANGED owed
    BY <1>1 DEF Open, Reopen, Fresh
  <2>2. phase' = phase /\ phase = "idle"
    BY <1>0, <1>1 DEF Open, P!Open, HeardInv
  <2>3. old = 0 /\ owed' \in SUBSET Buttons
    BY <1>0, <2>1, <2>2 DEF CallsInv
  <2> QED BY <1>0, <2>1, <2>2, <2>3, SameCalls
<1>2. CASE Packet
  <2>1. old' = fingers /\ cursor' = 0 /\ restarted' \in BOOLEAN /\ owed' = {}
    BY <1>2 DEF Packet, Dispatch!Begin
  <2>2. fingers' = fingers /\ phase' = "gestures"
    BY <1>2 DEF Packet, Dispatch!Begin, P!Packet
  <2> QED BY <1>0, <2>1, <2>2 DEF CallsInv
<1>3. CASE StartCall
  <2>1. fingers' = fingers + 1 /\ old' = old /\ cursor' = cursor
    BY <1>3 DEF StartCall, Dispatch!Started
  <2>2. restarted' \in BOOLEAN /\ owed' = owed
    BY <1>0, <1>3 DEF StartCall, Debounce, CallsInv
  <2>3. phase' = "gestures"
    BY <1>3 DEF StartCall, Dispatching, stage
  <2> QED BY <1>0, <2>1, <2>2, <2>3 DEF CallsInv
<1>4. CASE ReleaseCall
  <2>1. fingers' = fingers - 1 /\ old' = old - 1 /\ cursor' = cursor /\ old > 0
    BY <1>4 DEF ReleaseCall, Dispatch!Released
  <2>2. restarted' \in BOOLEAN /\ owed' \in SUBSET Buttons
    BY <1>0, <1>4, TappedButtons DEF ReleaseCall, Debounce, CallsInv
  <2>3. phase' = "gestures"
    BY <1>4 DEF ReleaseCall, Dispatching, stage
  <2> QED BY <1>0, <2>1, <2>2, <2>3 DEF CallsInv
<1>5. CASE MoveCall
  <2>1. PICK idx \in cursor..(fingers - old) : Dispatch!Moved(idx)
    BY <1>5 DEF MoveCall
  <2>2. /\ old > 0 /\ cursor' = idx + 1 /\ old' = old - 1
        /\ fingers' = fingers
    BY <2>1 DEF Dispatch!Moved
  <2>3. UNCHANGED <<restarted, owed>> /\ phase' = "gestures"
    BY <1>5 DEF MoveCall, Dispatching, stage
  <2>4. cursor' \in 0..MaxFingers /\ old' \in 0..fingers'
    BY <1>0, <2>1, <2>2 DEF CallsInv
  <2> QED BY <1>0, <2>3, <2>4 DEF CallsInv
<1>6. CASE Own
  <2>1. phase' = "gestures"
    BY <1>6 DEF Own, P!Own
  <2> QED BY <1>0, <1>6, <2>1, SameCalls DEF Own, CallsInv
<1>7. CASE Read
  <2>1. fingers' = fingers /\ gm'.out = <<>>
    BY <1>0, <1>7, HeardTells DEF Read, Up
  <2>2. old' = 0 /\ cursor' = 0 /\ restarted' \in BOOLEAN
    BY <1>7 DEF Read
  <2>3. owed' \in SUBSET Buttons
    BY <1>0, <1>7 DEF Read, CallsInv
  <2> QED BY <1>0, <2>1, <2>2, <2>3 DEF CallsInv
<1>8. CASE SlideTick
  <2>1. fingers' = fingers /\ gm'.out \in {gm.out, <<>>}
    BY <1>0, <1>8, TickTells DEF SlideTick
  <2> QED BY <1>0, <1>8, <2>1, SameCalls
          DEF SlideTick, P!SlideTick, P!Tick, P!input, CallsInv
<1>9. CASE StrayTick
  <2>1. fingers' = fingers /\ gm'.out \in {gm.out, <<>>}
    BY <1>0, <1>9, TickTells DEF StrayTick
  <2> QED BY <1>0, <1>9, <2>1, SameCalls
          DEF StrayTick, P!StrayTick, P!Tick, P!input, CallsInv
<1>10. CASE HoldOver
  <2>1. fingers' = fingers /\ gm' = [Calling EXCEPT !.hold = "over"]
    BY <1>10 DEF HoldOver, HoldPasses, Call
  <2>2. Calling \in Managers /\ Calling.out = <<>>
    BY <1>0, CallingPhase DEF Sane
  <2>3. gm'.out = <<>>
    BY <2>1, <2>2 DEF Managers
  <2> QED BY <1>0, <1>10, <2>1, <2>3, SameCalls DEF HoldOver, stage, CallsInv
<1>11. CASE Close
  BY <1>0, <1>11, SameCalls DEF Close, manager, P!Close, P!input, CallsInv
<1>12. CASE DeferFires
  BY <1>0, <1>12, SameCalls
     DEF DeferFires, manager, P!DeferFires, P!input, CallsInv
<1> QED
  BY <1>1, <1>2, <1>3, <1>4, <1>5, <1>6, <1>7, <1>8, <1>9, <1>10, <1>11,
     <1>12 DEF DriverNext

-----------------------------------------------------------------------------
(* The inertia and the alternative gesture.                                *)

LEMMA AltStep ==
  ASSUME alt \in BOOLEAN, P!Next
  PROVE  alt' \in BOOLEAN
<1>1. ASSUME P!CancelSliding PROVE alt' \in BOOLEAN
  BY <1>1 DEF P!CancelSliding, P!StopSliding
<1>2. CASE P!Read
  BY <1>1, <1>2 DEF P!Read, P!ScrollHolding, P!StartSliding, P!ScrollIdle
<1>3. CASE P!SlideTick \/ P!StrayTick
  BY <1>3 DEF P!SlideTick, P!StrayTick, P!Tick, P!StopSliding
<1>4. CASE P!Open
  BY <1>4 DEF P!Open
<1>5. CASE P!Close
  BY <1>5 DEF P!Close, P!slides
<1>6. CASE P!Packet
  BY <1>6 DEF P!Packet, P!slides
<1>7. CASE \E action \in Postable : P!Own(action)
  BY <1>7 DEF P!Own, P!slides
<1>8. CASE P!DeferFires
  BY <1>8 DEF P!DeferFires, P!slides
<1> QED
  BY <1>2, <1>3, <1>4, <1>5, <1>6, <1>7, <1>8 DEF P!Next

(* Each step of the driver is one of the post stage or leaves it alone.    *)
LEMMA StageStep ==
  ASSUME DriverInv, [DriverNext]_driverVars
  PROVE  [P!Next]_(P!vars)
<1>1. ASSUME UNCHANGED stage PROVE UNCHANGED P!vars
  BY <1>1 DEF stage, P!vars, P!session, P!input, P!defers, P!slides
<1>2. CASE UNCHANGED driverVars
  BY <1>1, <1>2 DEF driverVars
<1>3. CASE Own
  <2>1. gm.out # <<>> /\ gm.out \in Seq(Entries)
    BY <1>3 DEF Own, DriverInv, IInv, TypeOK, Managers
  <2>2. Head(gm.out) \in Entries
    BY <2>1
  <2>3. Head(gm.out).action \in Postable
    BY <2>2 DEF Entries
  <2> QED BY <1>3, <2>3 DEF Own, P!Next
<1>4. CASE Open \/ Close \/ Packet \/ Read \/ DeferFires \/ SlideTick
             \/ StrayTick
  BY <1>4 DEF Open, Close, Packet, Read, DeferFires, SlideTick, StrayTick,
     P!Next
<1>5. CASE StartCall \/ ReleaseCall \/ MoveCall \/ HoldOver
  BY <1>1, <1>5 DEF StartCall, ReleaseCall, MoveCall, HoldOver
<1> QED
  BY <1>2, <1>3, <1>4, <1>5 DEF DriverNext

LEMMA AltBoolean ==
  ASSUME DriverInv, DriverNext
  PROVE  alt' \in BOOLEAN
<1>1. alt \in BOOLEAN
  BY DEF DriverInv, HeardInv
<1>2. P!Next \/ UNCHANGED P!vars
  BY StageStep
<1>3. CASE UNCHANGED P!vars
  BY <1>1, <1>3 DEF P!vars, P!slides
<1> QED BY <1>1, <1>2, <1>3, AltStep

LEMMA HeardStep ==
  ASSUME DriverInv, DriverNext
  PROVE  HeardInv'
<1>0. IInv /\ HeardInv /\ alt' \in BOOLEAN
  BY AltBoolean DEF DriverInv
<1>1. ASSUME UNCHANGED <<on, phase>>, aborted' \in BOOLEAN,
             ~aborted' => (alt' <=> gm'.alt = "scroll")
      PROVE  HeardInv'
  BY <1>0, <1>1 DEF HeardInv
<1>2. ASSUME UNCHANGED stage, UNCHANGED aborted, gm'.alt = gm.alt
      PROVE  HeardInv'
  BY <1>0, <1>2 DEF HeardInv, stage
<1>3. CASE Open
  <2>1. on' /\ ~alt' /\ gm'.alt = Nobody
    BY <1>3 DEF Open, P!Open, Reopen, Fresh
  <2> QED BY <1>0, <1>3, <2>1 DEF Open, Up, HeardInv, Nobody
<1>4. CASE Close
  BY <1>0, <1>4
     DEF Close, Up, P!Close, P!input, P!slides, manager, HeardInv
<1>5. CASE Packet
  <2>1. PICK buttons \in Pads : PhysicalUpdate(buttons)
    BY <1>5 DEF Packet
  <2>2. gm' = [Calling EXCEPT !.physical = buttons]
    BY <2>1 DEF PhysicalUpdate, Call
  <2>3. Calling \in Managers /\ Calling.alt = gm.alt
    BY <1>0, CallingPhase DEF Sane
  <2>4. gm'.alt = gm.alt
    BY <2>2, <2>3 DEF Managers
  <2>5. on' /\ alt' = alt /\ aborted' = aborted
    BY <1>5 DEF Packet, Up, P!Packet, P!session, P!slides
  <2> QED BY <1>0, <2>4, <2>5 DEF HeardInv
<1>6. CASE StartCall
  <2>1. gm'.alt = gm.alt
    BY <1>0, <1>6, LandSafe DEF StartCall
  <2> QED BY <1>2, <1>6, <2>1 DEF StartCall, Up
<1>7. CASE ReleaseCall
  <2>1. gm'.alt = gm.alt
    BY <1>0, <1>7, LiftSafe DEF ReleaseCall
  <2> QED BY <1>2, <1>7, <2>1 DEF ReleaseCall, Up
<1>8. CASE MoveCall
  <2>1. gm'.alt = gm.alt
    BY <1>0, <1>8, MoveIsNext, MoveSafe
  <2> QED BY <1>2, <1>8, <2>1 DEF MoveCall, Up
<1>9. CASE Own
  <2>1. gm'.alt = gm.alt
    BY <1>0, <1>9, OwnSafe
  <2> QED BY <1>0, <1>1, <1>9, <2>1
          DEF Own, Up, P!Own, P!session, P!slides, HeardInv
<1>10. CASE Read
  <2>1. alt' <=> gm'.alt = "scroll"
    BY <1>0, <1>10, HeardTells DEF Read, Up
  <2>2. on /\ on' = on /\ aborted' = aborted
    BY <1>0, <1>10 DEF Read, Up, P!Read, P!session, HeardInv
  <2> QED BY <1>0, <2>1, <2>2 DEF HeardInv
<1>11. CASE SlideTick \/ StrayTick
  <2>1. aborted' \in BOOLEAN /\ (~aborted' => (alt' <=> gm'.alt = "scroll"))
    BY <1>0, <1>11, TickTells DEF SlideTick, StrayTick
  <2> QED BY <1>1, <1>11, <2>1
          DEF SlideTick, StrayTick, P!SlideTick, P!StrayTick, P!Tick,
              P!session, P!input
<1>12. CASE DeferFires
  BY <1>0, <1>12
     DEF DeferFires, Up, P!DeferFires, P!session, P!input, P!slides,
         manager, HeardInv
<1>13. CASE HoldOver
  <2>1. gm' = [Calling EXCEPT !.hold = "over"]
    BY <1>13 DEF HoldOver, HoldPasses, Call
  <2>2. Calling \in Managers /\ Calling.alt = gm.alt
    BY <1>0, CallingPhase DEF Sane
  <2>3. gm'.alt = gm.alt
    BY <2>1, <2>2 DEF Managers
  <2> QED BY <1>2, <1>13, <2>3 DEF HoldOver, Up
<1> QED
  BY <1>3, <1>4, <1>5, <1>6, <1>7, <1>8, <1>9, <1>10, <1>11, <1>12, <1>13
     DEF DriverNext

-----------------------------------------------------------------------------
(* The invariant holds in every reachable state.                           *)

LEMMA DriverStutter ==
  ASSUME DriverInv, UNCHANGED driverVars
  PROVE  DriverInv'
<1>1. IInv'
  BY StepSafe DEF DriverInv, driverVars, manager, vars
<1>2. CallsInv' /\ HeardInv'
  BY DEF DriverInv, CallsInv, HeardInv, driverVars, manager, calls, stage
<1> QED BY <1>1, <1>2 DEF DriverInv

LEMMA DriverInvariance == DriverSpec => []DriverInv
<1>1. DriverInv /\ [DriverNext]_driverVars => DriverInv'
  <2>1. ASSUME DriverInv, DriverNext PROVE DriverInv'
    BY <2>1, ManagerSafe, AltBoolean, CallsSafe, HeardStep DEF DriverInv
  <2> QED BY <2>1, DriverStutter
<1> QED BY <1>1, DriverInitInv, PTL DEF DriverSpec

(* The driver implements the post stage: whatever touches, calls, timers   *)
(* and reopenings do, the post stage is given only actions without a       *)
(* physical button, and everything PostStage_proofs says of it holds.      *)
THEOREM StageImplemented == DriverSpec => P!Spec
<1>1. DriverInit => P!Init
  BY DEF DriverInit
<1>2. DriverInv /\ [DriverNext]_driverVars => [P!Next]_(P!vars)
  BY StageStep
<1> QED BY <1>1, <1>2, DriverInvariance, PTL DEF DriverSpec, P!Spec

-----------------------------------------------------------------------------
(* What is proved of the parts holds of the whole.                         *)

LEMMA StageAssumptions ==
  /\ PP!OffersAssumption
  /\ PP!PadsAssumption
  /\ PP!FrictionAssumption
  /\ PP!NumbersAssumption
<1>1. PP!ActionType = ActionType
  BY DEF PP!ActionType, ActionType, PP!DeferOps, DeferOps
<1>2. PP!OffersAssumption
  BY <1>1 DEF PP!OffersAssumption, Postable
<1> QED
  BY <1>2, MaskAssumption, StageAssumption
     DEF MaskAssumption, StageAssumption, PP!PadsAssumption, PP!FrictionAssumption,
         PP!NumbersAssumption

LEMMA StageInvariance == DriverSpec => []PP!Inv
<1>1. P!Init <=> PP!Init
  BY SameInit
<1>2. [P!Next]_(P!vars) <=> [PP!Next]_(PP!vars)
  <2>1. UNCHANGED P!vars <=> UNCHANGED PP!vars
    BY DEF P!vars, PP!vars, P!session, PP!session, P!input, PP!input,
           P!defers, PP!defers, P!slides, PP!slides
  <2> QED BY <2>1, SameNext
<1>3. P!Spec => PP!Spec
  BY <1>1, <1>2, PTL DEF P!Spec, PP!Spec
<1>4. PP!Spec => []PP!Inv
  BY StageAssumptions, PP!Invariance
<1> QED BY <1>3, <1>4, StageImplemented, PTL

LEMMA SameTypes == PP!TypeOK => P!TypeOK
BY DEF PP!TypeOK, P!TypeOK, PP!FlagsOK, P!FlagsOK, PP!DataOK, P!DataOK,
       PP!TimerStates, P!TimerStates, PP!ActionType, P!ActionType,
       PP!DeferOps, P!DeferOps

(* Every variable of the driver keeps its type: the calls a packet owes,   *)
(* the actions a call hands over, the timers and the queue.                *)
THEOREM DriverTypes == DriverSpec => []DriverTypeOK
<1>1. DriverInv /\ PP!Inv => DriverTypeOK
  <2> SUFFICES ASSUME DriverInv, PP!Inv PROVE DriverTypeOK
    OBVIOUS
  <2>1. TypeOK
    BY DEF DriverInv, IInv
  <2>2. P!TypeOK
    BY SameTypes DEF PP!Inv
  <2> QED BY <2>1, <2>2 DEF DriverTypeOK, DriverInv, CallsInv, HeardInv
<1> QED BY <1>1, DriverInvariance, StageInvariance, PTL

(* As long as no assertion has failed, the touch handler's alternative     *)
(* gesture is set exactly while an inertia runs, over every callback, tick,*)
(* stray timer and reopening.                                              *)
THEOREM AltIsTheInertia == DriverSpec => []AltIsInertia
<1>1. DriverInv /\ PP!Inv => AltIsInertia
  <2> SUFFICES ASSUME DriverInv, PP!Inv PROVE AltIsInertia
    OBVIOUS
  <2>1. alt <=> isSliding
    BY DEF PP!Inv, PP!TimersInv, PP!AltFollowsSliding
  <2> QED BY <2>1 DEF DriverInv, HeardInv, AltIsInertia
<1> QED BY <1>1, DriverInvariance, StageInvariance, PTL

(* The callback of the inertia finds its gesture, as long as no inertia    *)
(* runs when the device is turned off: only then does a tick come to a     *)
(* touch handler whose gestures were freed (assert(item),                  *)
(* touch-handler.c:103).                                                   *)
THEOREM GestureIsFound ==
  ASSUME QuietClose PROVE DriverSpec => []ItemFound
<1>1. DriverInit => PP!QuietInv /\ ~aborted
  BY DEF DriverInit, P!Init, PP!QuietInv
<1>2. PP!Inv /\ PP!QuietInv /\ [P!Next]_(P!vars) => PP!QuietInv'
  <2>1. UNCHANGED P!vars <=> UNCHANGED PP!vars
    BY DEF P!vars, PP!vars, P!session, PP!session, P!input, PP!input,
           P!defers, PP!defers, P!slides, PP!slides
  <2>2. [P!Next]_(P!vars) <=> [PP!Next]_(PP!vars)
    BY <2>1, SameNext
  <2> QED BY <2>2, StageAssumptions, PP!QuietStep DEF PP!Inv
<1>3. PP!QuietInv /\ ~aborted /\ [DriverNext]_driverVars => ~aborted'
  <2> SUFFICES ASSUME PP!QuietInv, ~aborted, DriverNext
               PROVE  ~aborted'
    BY DEF driverVars
  <2>1. CASE SlideTick
    <3>1. on
      BY <2>1 DEF SlideTick, P!SlideTick, PP!QuietInv
    <3> QED BY <2>1, <3>1 DEF SlideTick, TickHeard, NotFound
  <2>2. ~StrayTick
    BY DEF StrayTick, P!StrayTick, PP!QuietInv
  <2>3. CASE ~SlideTick
    BY <2>2, <2>3
       DEF DriverNext, Open, Close, Packet, StartCall, ReleaseCall, MoveCall,
           Own, Read, DeferFires, HoldOver, Up
  <2> QED BY <2>1, <2>3
<1>4. DriverInv /\ [DriverNext]_driverVars => [P!Next]_(P!vars)
  BY StageStep
<1> QED
  BY <1>1, <1>2, <1>3, <1>4, DriverInvariance, StageInvariance, PTL
     DEF DriverSpec, ItemFound

(* What the gesture manager promises by itself holds with the post stage   *)
(* taking its actions one at a time and answering it through the callback. *)
THEOREM GesturesInDriver ==
  DriverSpec => [](/\ OneOwner
                   /\ AcceptedRunsAlone
                   /\ QuietOutsideUpdating
                   /\ DragWillRelease
                   /\ HoldIsSet)
<1>1. DriverInv => /\ OneOwner
                   /\ AcceptedRunsAlone
                   /\ QuietOutsideUpdating
                   /\ DragWillRelease
                   /\ HoldIsSet
  BY InvGives DEF DriverInv, IInv
<1> QED BY <1>1, DriverInvariance, PTL

(* What the post stage promises for any actions holds for those the        *)
(* gestures hand it: the flags tell the truth of the timers, an inertia    *)
(* travels its distance, and a drained packet leaves last_button_status    *)
(* without a button the pad does not report.                               *)
THEOREM StageInDriver ==
  DriverSpec => [](/\ P!DeferArmed
                   /\ P!InertiaTracked
                   /\ P!InertiaTravel
                   /\ phase = "idle" => lastButton \subseteq pad)
<1>1. PP!Inv => /\ P!DeferArmed
                /\ P!InertiaTracked
                /\ phase = "idle" => lastButton \subseteq pad
  BY DEF PP!Inv, PP!TimersInv, PP!DeferArmed, P!DeferArmed, PP!SlidingHasTimer,
     PP!AltFollowsSliding, PP!RestWhileSliding, P!InertiaTracked,
     P!SlidingHasTimer, P!AltFollowsSliding, P!RestWhileSliding,
     PP!PhysicalInv
<1>2. PP!Inv => P!InertiaTravel
  BY DEF PP!Inv, PP!InertiaTravel, P!InertiaTravel, PP!Travel, P!Travel
<1> QED BY <1>1, <1>2, StageInvariance, PTL

-----------------------------------------------------------------------------
(* What the gestures ask of the buttons between two steps of the driver:   *)
(* the actions of the queue, and those its call has yet to hand over.      *)

Script == queue \o Actions(gm.out)

Asked(a) == \/ Plain(a) \/ Pressing(a) \/ Lifting(a)
            \/ Cancelling(a) \/ Releasing(a) \/ Clicking(a)

AllPlain(s) == \A i \in 1..Len(s) : Plain(s[i])

(* At most one release is scheduled at a time, and a click only behind the *)
(* cancellation of the one that is pending (busy).  What is cancelled is   *)
(* the release of the drag button (ours), once that is up or dragged again *)
(* (dragged); a drag presses it only then.                                 *)
Proper(s, i, open, busy, ours, dragged, down) ==
  /\ Asked(s[i])
  /\ s[i].defer = "NEW" =>
       \A j \in 1..Len(s) : s[j].defer = "NEW" => j = i
  /\ Clicking(s[i]) =>
       ~open /\ (busy => \E j \in 1..(i - 1) : Cancelling(s[j]))
  /\ Cancelling(s[i]) =>
       /\ ours
       /\ \A j \in 1..(i - 1) : ~Clicking(s[j])
       /\ dragged \/ (i > 1 /\ Lifting(s[i - 1])) \/ (i = 1 /\ ~down)
  /\ Pressing(s[i]) => dragged
  /\ Releasing(s[i]) => ours

Orderly(s, open, busy, ours, dragged, down) ==
  \A i \in 1..Len(s) : Proper(s, i, open, busy, ours, dragged, down)

(* An action asks for one thing.                                           *)
LEMMA KindsApart ==
  ASSUME NEW a
  PROVE  /\ Plain(a) => /\ ~Pressing(a) /\ ~Lifting(a) /\ ~Cancelling(a)
                        /\ ~Releasing(a) /\ ~Clicking(a) /\ a.defer = "NONE"
         /\ Pressing(a) => a.defer = "NONE" /\ ~Cancelling(a)
                           /\ ~Releasing(a) /\ ~Clicking(a)
         /\ Lifting(a) => a.defer = "NONE" /\ ~Cancelling(a)
                          /\ ~Releasing(a) /\ ~Clicking(a) /\ ~Pressing(a)
         /\ Cancelling(a) => a.defer = "CANCEL" /\ ~Pressing(a)
                             /\ ~Releasing(a) /\ ~Clicking(a)
         /\ Releasing(a) => a.defer = "NEW" /\ ~Pressing(a) /\ ~Clicking(a)
         /\ Clicking(a) => a.defer = "NEW" /\ ~Pressing(a)
<1>1. {DragButton} # {}
  OBVIOUS
<1>2. Clicking(a) => a.down # {} /\ a.defer = "NEW"
  BY DEF Clicking
<1> QED
  BY <1>1, <1>2 DEF Plain, Pressing, Lifting, Cancelling, Releasing

LEMMA PlainOrderly ==
  ASSUME NEW s, AllPlain(s), NEW open, NEW busy, NEW ours, NEW dragged, NEW down
  PROVE  Orderly(s, open, busy, ours, dragged, down)
BY KindsApart DEF AllPlain, Orderly, Proper, Asked

(* What a call queues behind what is there.                                *)
LEMMA OrderlyLonger ==
  ASSUME NEW s \in Seq(ActionType), NEW new \in Seq(ActionType),
         NEW open, NEW open2, NEW busy, NEW ours, NEW dragged, NEW dragged2,
         NEW down,
         Orderly(s, open, busy, ours, dragged, down),
         Orderly(new, open2, busy, ours, dragged2, TRUE),
         AllPlain(s) \/ ((dragged => dragged2) /\ (open2 => open)),
         \A i \in 1..Len(new) :
           /\ new[i].defer = "NEW" => AllPlain(s)
           /\ Cancelling(new[i]) => \A j \in 1..Len(s) : ~Clicking(s[j])
  PROVE  Orderly(s \o new, open2, busy, ours, dragged2, down)
<1> DEFINE z == s \o new
           n == Len(s)
<1>1. /\ Len(z) = n + Len(new) /\ n \in Nat /\ Len(new) \in Nat
      /\ \A i \in 1..n : z[i] = s[i]
      /\ \A i \in 1..Len(new) : z[n + i] = new[i]
  OBVIOUS
<1> HIDE DEF z, n
<1>2. AllPlain(s) => Orderly(s, open2, busy, ours, dragged2, down)
  BY PlainOrderly
<1>3. Orderly(s, open2, busy, ours, dragged2, down)
  BY <1>2 DEF Orderly, Proper
<1>4. AllPlain(s) => \A j \in 1..n : /\ s[j].defer # "NEW"
                                     /\ ~Clicking(s[j])
  BY KindsApart DEF AllPlain, n
<1>5. ASSUME NEW i \in 1..n
      PROVE  Proper(z, i, open2, busy, ours, dragged2, down)
  <2>1. \A j \in 1..(i - 1) : j \in 1..n /\ z[j] = s[j]
    BY <1>1
  <2>2. i > 1 => i - 1 \in 1..(i - 1)
    BY <1>1
  <2>3. ASSUME NEW j \in 1..Len(z), z[j].defer = "NEW", z[i].defer = "NEW"
        PROVE  j = i
    <3>1. CASE j \in 1..n
      BY <1>1, <1>3, <2>3, <3>1 DEF Orderly, Proper, n
    <3>2. CASE j \notin 1..n
      <4>1. j - n \in 1..Len(new) /\ j = n + (j - n)
        BY <1>1, <3>2
      <4>2. AllPlain(s)
        BY <1>1, <2>3, <4>1
      <4> QED BY <1>1, <1>4, <2>3, <4>2
    <3> QED BY <3>1, <3>2
  <2>4. z[i] = s[i] /\ i \in 1..Len(s)
    BY <1>1 DEF n
  <2> QED BY <1>3, <2>1, <2>2, <2>3, <2>4 DEF Orderly, Proper
<1>6. ASSUME NEW k \in 1..Len(new)
      PROVE  Proper(z, n + k, open2, busy, ours, dragged2, down)
  <2>1. z[n + k] = new[k]
    BY <1>1
  <2>2. \A j \in 1..(k - 1) : n + j \in 1..((n + k) - 1) /\ z[n + j] = new[j]
    <3>1. \A j \in 1..(k - 1) :
             j \in 1..Len(new) /\ n + j \in 1..((n + k) - 1)
      BY <1>1
    <3> QED BY <1>1, <3>1
  <2>3. ASSUME NEW j \in 1..Len(z), j > n
        PROVE  j - n \in 1..Len(new) /\ z[j] = new[j - n]
    <3>1. j - n \in 1..Len(new) /\ j = n + (j - n)
      BY <1>1, <2>3
    <3> QED BY <1>1, <3>1
  <2>4. ASSUME NEW j \in 1..Len(z), z[j].defer = "NEW", z[n + k].defer = "NEW"
        PROVE  j = n + k
    <3>1. AllPlain(s)
      BY <2>1, <2>4
    <3>2. j \in 1..n => FALSE
      BY <1>1, <1>4, <2>4, <3>1
    <3>2a. j > n
      BY <1>1, <3>2
    <3>3. j - n \in 1..Len(new) /\ new[j - n].defer = "NEW"
      BY <2>3, <2>4, <3>2a
    <3>4. j - n = k
      BY <2>1, <2>4, <3>3 DEF Orderly, Proper
    <3> QED BY <1>1, <3>4
  <2>5. ASSUME Cancelling(z[n + k]), NEW j \in 1..((n + k) - 1)
        PROVE  ~Clicking(z[j])
    <3>1. CASE j \in 1..n
      BY <1>1, <2>1, <2>5, <3>1 DEF n
    <3>2. CASE j \notin 1..n
      <4>1. j - n \in 1..(k - 1) /\ j = n + (j - n)
        BY <1>1, <3>2
      <4>2. ~Clicking(new[j - n])
        BY <2>1, <2>5, <4>1 DEF Orderly, Proper
      <4> QED BY <2>2, <4>1, <4>2
    <3> QED BY <3>1, <3>2
  <2>6. ASSUME Cancelling(z[n + k])
        PROVE  dragged2 \/ (n + k > 1 /\ Lifting(z[(n + k) - 1]))
    <3>1. dragged2 \/ (k > 1 /\ Lifting(new[k - 1]))
      BY <2>1, <2>6 DEF Orderly, Proper
    <3>2. k > 1 => /\ k - 1 \in 1..(k - 1) /\ n + k > 1
                   /\ n + (k - 1) = (n + k) - 1
      BY <1>1
    <3> QED BY <2>2, <3>1, <3>2
  <2>7. ASSUME Clicking(z[n + k])
        PROVE  /\ ~open2
               /\ busy => \E j \in 1..((n + k) - 1) : Cancelling(z[j])
    <3>1. ~open2 /\ (busy => \E j \in 1..(k - 1) : Cancelling(new[j]))
      BY <2>1, <2>7 DEF Orderly, Proper
    <3>2. ASSUME busy PROVE \E j \in 1..((n + k) - 1) : Cancelling(z[j])
      <4>1. PICK j \in 1..(k - 1) : Cancelling(new[j])
        BY <3>1, <3>2
      <4> QED BY <2>2, <4>1
    <3> QED BY <3>1, <3>2
  <2>8. /\ Asked(z[n + k])
        /\ Pressing(z[n + k]) => dragged2
        /\ Releasing(z[n + k]) => ours
        /\ Cancelling(z[n + k]) => ours
    BY <2>1 DEF Orderly, Proper
  <2>9. z[n + k].defer = "NEW" =>
          \A j \in 1..Len(z) : z[j].defer = "NEW" => j = n + k
    BY <2>4
  <2>10. Cancelling(z[n + k]) => \A j \in 1..((n + k) - 1) : ~Clicking(z[j])
    BY <2>5
  <2>11. Clicking(z[n + k]) =>
           ~open2 /\ (busy => \E j \in 1..((n + k) - 1) : Cancelling(z[j]))
    BY <2>7
  <2> QED BY <2>6, <2>8, <2>9, <2>10, <2>11 DEF Proper
<1>7. ASSUME NEW i \in 1..Len(z)
      PROVE  i \in 1..n \/ \E k \in 1..Len(new) : i = n + k
  <2>1. CASE i <= n
    BY <1>1, <2>1
  <2>2. CASE i > n
    <3>1. i - n \in 1..Len(new) /\ i = n + (i - n)
      BY <1>1, <2>2
    <3> QED BY <3>1
  <2> QED BY <1>1, <2>1, <2>2
<1>8. ASSUME NEW i \in 1..Len(z)
      PROVE  Proper(z, i, open2, busy, ours, dragged2, down)
  <2>1. CASE i \in 1..n
    BY <1>5, <2>1
  <2>2. CASE i \notin 1..n
    <3>1. PICK k \in 1..Len(new) : i = n + k
      BY <1>7, <2>2
    <3>2. Proper(z, n + k, open2, busy, ours, dragged2, down)
      BY <1>6
    <3> QED BY <3>1, <3>2
  <2> QED BY <2>1, <2>2
<1>9. Orderly(z, open2, busy, ours, dragged2, down)
  BY <1>8 DEF Orderly
<1> QED BY <1>9 DEF z

(* What remains once the first action is read: a click leaves no           *)
(* cancellation, a cancellation nothing scheduled, and the drag button is  *)
(* up after it was lifted.                                                 *)
LEMMA OrderlyTail ==
  ASSUME NEW s \in Seq(ActionType), s # <<>>,
         NEW open, NEW busy, NEW busy2, NEW ours, NEW ours2, NEW dragged,
         NEW down, NEW down2,
         Orderly(s, open, busy, ours, dragged, down),
         busy2 => (busy \/ Head(s).defer = "NEW") /\ ~Cancelling(Head(s)),
         ours => ours2 \/ Clicking(Head(s)),
         Lifting(Head(s)) => ~down2
  PROVE  Orderly(Tail(s), open, busy2, ours2, dragged, down2)
<1> DEFINE t == Tail(s)
<1>1. /\ Len(s) \in Nat /\ Len(t) \in Nat /\ Len(s) = Len(t) + 1
      /\ s[1] = Head(s)
      /\ \A i \in 1..Len(t) : t[i] = s[i + 1]
  OBVIOUS
<1> HIDE DEF t
<1>2. ASSUME NEW i \in 1..Len(t)
      PROVE  Proper(t, i, open, busy2, ours2, dragged, down2)
  <2>1. t[i] = s[i + 1] /\ i + 1 \in 1..Len(s) /\ 1 \in 1..Len(s)
    BY <1>1
  <2>2. Proper(s, i + 1, open, busy, ours, dragged, down)
    BY <2>1 DEF Orderly
  <2>3. (i + 1) - 1 = i /\ i + 1 # 1 /\ i + 1 > 1
    BY <1>1
  <2>4. \A j \in 1..(i - 1) :
          j \in 1..Len(t) /\ j + 1 \in 1..i /\ t[j] = s[j + 1]
    BY <1>1
  <2>5. ASSUME t[i].defer = "NEW", NEW j \in 1..Len(t), t[j].defer = "NEW"
        PROVE  j = i
    <3>1. j + 1 \in 1..Len(s) /\ s[j + 1].defer = "NEW"
      BY <1>1, <2>5
    <3>2. j + 1 = i + 1
      BY <2>1, <2>2, <2>5, <3>1 DEF Proper
    <3> QED BY <1>1, <3>2
  <2>6. t[i].defer = "NEW" => Head(s).defer # "NEW"
    BY <1>1, <2>1, <2>2, <2>3 DEF Proper
  <2>7. ASSUME Clicking(t[i]), busy2
        PROVE  \E j \in 1..(i - 1) : Cancelling(t[j])
    <3>1. busy /\ ~Cancelling(s[1])
      BY <1>1, <2>6, <2>7 DEF Clicking
    <3>2. PICK j \in 1..i : Cancelling(s[j])
      BY <2>1, <2>2, <2>3, <2>7, <3>1 DEF Proper
    <3>3. j # 1
      BY <3>1, <3>2
    <3>4. j - 1 \in 1..(i - 1) /\ (j - 1) + 1 = j
      BY <1>1, <3>3
    <3>5. Cancelling(t[j - 1])
      BY <2>4, <3>2, <3>4
    <3> QED BY <3>4, <3>5
  <2>8. ASSUME Cancelling(t[i])
        PROVE  /\ ours2
               /\ \A j \in 1..(i - 1) : ~Clicking(t[j])
               /\ dragged \/ (i > 1 /\ Lifting(t[i - 1])) \/ (i = 1 /\ ~down2)
    <3>1. /\ ours
          /\ \A j \in 1..i : ~Clicking(s[j])
          /\ dragged \/ Lifting(s[i])
      BY <2>1, <2>2, <2>3, <2>8 DEF Proper
    <3>2. ours2
      <4>1. 1 \in 1..i
        BY <1>1
      <4> QED BY <1>1, <3>1, <4>1
    <3>3. \A j \in 1..(i - 1) : ~Clicking(t[j])
      BY <2>4, <3>1
    <3>4. CASE i = 1
      BY <1>1, <3>1, <3>2, <3>3, <3>4
    <3>5. CASE i # 1
      <4>1. i > 1 /\ i - 1 \in 1..(i - 1) /\ (i - 1) + 1 = i
        BY <1>1, <3>5
      <4>2. t[i - 1] = s[i]
        BY <2>4, <4>1
      <4> QED BY <3>1, <3>2, <3>3, <4>1, <4>2
    <3> QED BY <3>4, <3>5
  <2>9. ASSUME Releasing(t[i]) PROVE ours2
    <3>1. ours
      BY <2>1, <2>2, <2>9 DEF Proper
    <3>2. ~Clicking(Head(s))
      BY <2>6, <2>9 DEF Releasing, Clicking
    <3> QED BY <3>1, <3>2
  <2>10. /\ Asked(t[i])
         /\ Clicking(t[i]) => ~open
         /\ Pressing(t[i]) => dragged
    BY <2>1, <2>2 DEF Proper
  <2>11. t[i].defer = "NEW" =>
           \A j \in 1..Len(t) : t[j].defer = "NEW" => j = i
    BY <2>5
  <2>12. Clicking(t[i]) => (busy2 => \E j \in 1..(i - 1) : Cancelling(t[j]))
    BY <2>7
  <2> QED BY <2>8, <2>9, <2>10, <2>11, <2>12 DEF Proper
<1> QED BY <1>2 DEF Orderly, t

-----------------------------------------------------------------------------
(* The invariant behind NoStuckButton.                                     *)

(* A release that is pending is that of the drag's button.                 *)
OfDrag == isDefering => deferButton = {DragButton}

ReleaseAsked(s) == \E i \in 1..Len(s) : Releasing(s[i])

Ordered ==
  Orderly(Script, gm.hold = "open", isDefering, OfDrag, held,
          DragButton \in pressed)

(* A button that is down is pressed on the pad, or its release is          *)
(* scheduled, or it is the drag's, which runs or has asked for the release.*)
AllOwed ==
  \A b \in pressed :
    \/ b \in lastButton
    \/ isDefering /\ b \in deferButton
    \/ b = DragButton /\ (held \/ ReleaseAsked(Script))

(* Before the first move of a packet one call at most has asked for        *)
(* buttons, and none can do so until a finger moves.                       *)
AskedOnce ==
  phase = "gestures" /\ cursor = 0 /\ ~AllPlain(Script) =>
    gm.state # "UPDATING" /\ (gm.state = "WAITING" => fingers > old)

StuckInv ==
  /\ Ordered
  /\ gm.hold = "open" => OfDrag
  /\ AllOwed
  /\ ~on => pressed = {}
  /\ AskedOnce

(* Facts of the post stage and of the queue.                               *)
LEMMA StageFacts ==
  ASSUME PP!Inv
  PROVE  /\ queue \in Seq(ActionType)
         /\ phase = "idle" <=> queue = <<>>
         /\ ~on => phase = "idle"
         /\ isDefering \in BOOLEAN
<1>1. PP!ActionType = ActionType
  BY DEF PP!ActionType, ActionType, PP!DeferOps, DeferOps
<1> QED
  BY <1>1 DEF PP!Inv, PP!TypeOK, PP!FlagsOK, PP!DataOK, PP!QueueInv

(* The actions that are queued are typed like those of the post stage.     *)
LEMMA ActionsType ==
  ASSUME NEW q \in Seq(Entries)
  PROVE  /\ Actions(q) \in Seq(ActionType)
         /\ Len(Actions(q)) = Len(q)
         /\ \A i \in 1..Len(q) : Actions(q)[i] = q[i].action
<1>1. \A i \in 1..Len(q) : q[i].action \in ActionType
  <2>1. \A i \in 1..Len(q) : q[i] \in Entries
    OBVIOUS
  <2> QED BY <2>1 DEF Entries, Postable
<1>2. Len(q) \in Nat
  OBVIOUS
<1>3. Actions(q) \in [1..Len(q) -> ActionType]
  BY <1>1 DEF Actions
<1>4. Actions(q) \in Seq(ActionType)
  BY <1>2, <1>3
<1> QED BY <1>2, <1>3, <1>4 DEF Actions

(* Once a call has handed over its actions only the queue is left.         *)
LEMMA QueueOnly ==
  ASSUME NEW s \in Seq(ActionType)
  PROVE  s \o Actions(<<>>) = s
<1>1. <<>> \in Seq(Entries) /\ Len(<<>>) = 0
  OBVIOUS
<1>2. Actions(<<>>) \in Seq(ActionType) /\ Len(Actions(<<>>)) = 0
  BY <1>1, ActionsType
<1>3. Actions(<<>>) = <<>>
  BY <1>2
<1> QED BY <1>3

(* The script is a sequence of actions.                                    *)
LEMMA ScriptType ==
  ASSUME DriverInv, PP!Inv
  PROVE  /\ gm.out \in Seq(Entries)
         /\ queue \in Seq(ActionType)
         /\ Script \in Seq(ActionType)
         /\ gm.out = <<>> => Script = queue
<1>1. gm.out \in Seq(Entries)
  BY DEF DriverInv, IInv, TypeOK, Managers
<1>2. Actions(gm.out) \in Seq(ActionType) /\ queue \in Seq(ActionType)
  BY <1>1, ActionsType, StageFacts
<1>3. gm.out = <<>> => Script = queue
  BY <1>2, QueueOnly DEF Script
<1> QED BY <1>1, <1>2, <1>3 DEF Script

(* Two sequences of actions in a row.                                      *)
LEMMA Joined ==
  ASSUME NEW s \in Seq(ActionType), NEW t \in Seq(ActionType)
  PROVE  /\ s \o t \in Seq(ActionType)
         /\ Len(s \o t) = Len(s) + Len(t)
         /\ \A i \in 1..Len(s) : (s \o t)[i] = s[i]
         /\ \A i \in 1..Len(t) : (s \o t)[Len(s) + i] = t[i]
OBVIOUS

(* itrack_post_own takes the first action over.                            *)
LEMMA HandOver ==
  ASSUME NEW s \in Seq(ActionType), NEW q \in Seq(Entries), q # <<>>
  PROVE  Append(s, Head(q).action) \o Actions(Tail(q)) = s \o Actions(q)
<1> DEFINE a == Head(q).action
           u == Append(s, a)
           v == Actions(Tail(q))
           w == Actions(q)
           x == u \o v
           y == s \o w
<1>1. /\ Head(q) = q[1] /\ q[1] \in Entries
      /\ Tail(q) \in Seq(Entries) /\ Len(q) = Len(Tail(q)) + 1
      /\ Len(q) \in Nat /\ Len(Tail(q)) \in Nat /\ Len(s) \in Nat
      /\ \A i \in 1..Len(Tail(q)) : Tail(q)[i] = q[i + 1]
  OBVIOUS
<1>2. a \in ActionType /\ a = q[1].action
  BY <1>1 DEF Entries, Postable
<1> HIDE DEF a
<1>3. /\ u \in Seq(ActionType) /\ Len(u) = Len(s) + 1
      /\ \A i \in 1..Len(s) : u[i] = s[i]
      /\ u[Len(s) + 1] = a
  BY <1>1, <1>2, SMTT(30)
<1>4. /\ w \in Seq(ActionType) /\ Len(w) = Len(q)
      /\ v \in Seq(ActionType) /\ Len(v) = Len(Tail(q))
      /\ \A i \in 1..Len(q) : w[i] = q[i].action
      /\ \A i \in 1..Len(Tail(q)) : v[i] = Tail(q)[i].action
  BY <1>1, ActionsType
<1> HIDE DEF u, v, w
<1>5. /\ x \in Seq(ActionType) /\ Len(x) = Len(u) + Len(v)
      /\ \A i \in 1..Len(u) : x[i] = u[i]
      /\ \A i \in 1..Len(v) : x[Len(u) + i] = v[i]
  BY <1>3, <1>4, Joined
<1>6. /\ y \in Seq(ActionType) /\ Len(y) = Len(s) + Len(w)
      /\ \A i \in 1..Len(s) : y[i] = s[i]
      /\ \A i \in 1..Len(w) : y[Len(s) + i] = w[i]
  BY <1>4, Joined
<1> HIDE DEF x, y
<1>7. Len(x) = Len(s) + Len(q) /\ Len(y) = Len(x)
  BY <1>1, <1>3, <1>4, <1>5, <1>6
<1>8. ASSUME NEW i \in 1..Len(x) PROVE x[i] = y[i]
  <2>1. CASE i <= Len(s)
    <3>1. i \in 1..Len(s) /\ i \in 1..Len(u)
      BY <1>1, <1>3, <1>7, <2>1
    <3> QED BY <1>3, <1>5, <1>6, <3>1
  <2>2. CASE i = Len(s) + 1
    <3>1. x[i] = a
      BY <1>1, <1>3, <1>5, <2>2
    <3>2. y[i] = w[1] /\ w[1] = q[1].action
      BY <1>1, <1>4, <1>6, <2>2
    <3> QED BY <1>2, <3>1, <3>2
  <2>3. CASE i > Len(s) + 1
    <3>1. PICK k \in 1..Len(v) : i = Len(u) + k
      <4>1. i - Len(u) \in 1..Len(v) /\ i = Len(u) + (i - Len(u))
        BY <1>1, <1>3, <1>4, <1>7, <2>3
      <4> QED BY <4>1
    <3>2. x[i] = v[k] /\ v[k] = Tail(q)[k].action
      BY <1>4, <1>5, <3>1
    <3>3. k + 1 \in 1..Len(w) /\ i = Len(s) + (k + 1)
      BY <1>1, <1>3, <1>4, <3>1
    <3>4. y[i] = w[k + 1] /\ w[k + 1] = q[k + 1].action
      BY <1>4, <1>6, <3>3
    <3>5. Tail(q)[k] = q[k + 1]
      BY <1>1, <1>4
    <3> QED BY <3>2, <3>4, <3>5
  <2>4. i \in Int /\ Len(s) \in Int
    BY <1>1, <1>7
  <2> QED BY <2>1, <2>2, <2>3, <2>4
<1>9. x = y
  BY <1>5, <1>6, <1>7, <1>8
<1> QED BY <1>9 DEF x, y, u, v, w, a

(* What a step has to show.                                                *)
LEMMA StuckAfter ==
  ASSUME Orderly(Script', gm'.hold = "open", isDefering', OfDrag', held',
                 DragButton \in pressed'),
         gm'.hold = "open" => OfDrag',
         \A b \in pressed' :
           \/ b \in lastButton'
           \/ isDefering' /\ b \in deferButton'
           \/ b = DragButton /\ (held' \/ ReleaseAsked(Script')),
         ~on' => pressed' = {},
         phase' = "gestures" /\ cursor' = 0 /\ ~AllPlain(Script') =>
           gm'.state # "UPDATING" /\ (gm'.state = "WAITING" => fingers' > old')
  PROVE  StuckInv'
<1>1. Ordered'
  BY DEF Ordered, Orderly, Proper
<1>2. AllOwed'
  BY DEF AllOwed, ReleaseAsked
<1>3. AskedOnce'
  BY DEF AskedOnce, AllPlain
<1> QED BY <1>1, <1>2, <1>3 DEF StuckInv

(* Nothing asks for nothing.                                               *)
LEMMA NothingAsked ==
  /\ AllPlain(<<>>)
  /\ ~ReleaseAsked(<<>>)
BY DEF AllPlain, ReleaseAsked

(* Between packets nothing is asked for.                                   *)
LEMMA IdleOwed ==
  ASSUME StuckInv, DriverInv, PP!Inv, phase = "idle"
  PROVE  \A b \in pressed :
           \/ b \in lastButton
           \/ isDefering /\ b \in deferButton
           \/ b = DragButton /\ held
<1>1. gm.out = <<>> /\ queue = <<>>
  BY StageFacts DEF DriverInv, CallsInv
<1>2. Script = <<>>
  BY <1>1, ScriptType
<1> QED BY <1>2, NothingAsked DEF StuckInv, AllOwed

(* A step that ends between packets.                                       *)
LEMMA IdleAfter ==
  ASSUME DriverInv', PP!Inv', phase' = "idle",
         gm'.hold = "open" => OfDrag',
         \A b \in pressed' :
           \/ b \in lastButton'
           \/ isDefering' /\ b \in deferButton'
           \/ b = DragButton /\ held',
         ~on' => pressed' = {}
  PROVE  StuckInv'
<1>1. gm'.out = <<>> /\ queue' = <<>>
  BY DEF DriverInv, CallsInv, PP!Inv, PP!QueueInv
<1>2. Script' = <<>>
  <2>1. <<>> \in Seq(ActionType)
    OBVIOUS
  <2> QED BY <1>1, <2>1, QueueOnly DEF Script
<1>3. Orderly(Script', gm'.hold = "open", isDefering', OfDrag', held',
              DragButton \in pressed')
  BY <1>2, NothingAsked, PlainOrderly
<1> QED BY <1>2, <1>3, NothingAsked, StuckAfter

(* The first state.                                                        *)
LEMMA StuckInit ==
  DriverInit => StuckInv
<1> SUFFICES ASSUME DriverInit PROVE StuckInv
  OBVIOUS
<1>1. /\ gm.out = <<>> /\ gm.hold = "garbage" /\ queue = <<>>
      /\ ~isDefering /\ pressed = {}
  BY DEF DriverInit, Init, Fresh, P!Init
<1>2. Script = <<>>
  <2>1. <<>> \in Seq(ActionType)
    OBVIOUS
  <2> QED BY <1>1, <2>1, QueueOnly DEF Script
<1>3. Ordered
  BY <1>2, NothingAsked, PlainOrderly DEF Ordered
<1> QED BY <1>1, <1>2, <1>3, NothingAsked DEF StuckInv, AllOwed, AskedOnce

(* The callback of the post stage lets the drag alone.                     *)
LEMMA HeardKeeps ==
  ASSUME IInv, Heard \/ TickHeard
  PROVE  gm'.hold = gm.hold /\ held' = held
<1>0. Heard \/ UNCHANGED manager
  BY DEF TickHeard, NotFound
<1>1. CASE UNCHANGED manager
  BY <1>1 DEF manager
<1>2. CASE ~UNCHANGED manager
  <2>1. PICK isOn \in BOOLEAN : SetPostScrollingState(isOn)
    BY <1>0, <1>2 DEF Heard
  <2>2. Call([Calling EXCEPT !.alt = IF isOn THEN "scroll" ELSE Nobody])
    BY <2>1 DEF SetPostScrollingState
  <2>3. /\ Calling \in Managers /\ Calling.out = <<>>
        /\ Calling.hold = gm.hold /\ held \in BOOLEAN
    BY CallingPhase DEF Sane, IInv, TypeOK
  <2>4. gm'.out = <<>> /\ gm'.hold = gm.hold
    BY <2>2, <2>3 DEF Call, Managers
  <2>5. ~ \E e \in ToSet(gm'.out) : TRUE
    BY <2>4, ListFacts
  <2>6. held' = held
    BY <2>2, <2>3, <2>5 DEF Call
  <2> QED BY <2>4, <2>6
<1> QED BY <1>1, <1>2

(* The steps between packets.                                              *)
LEMMA StuckBetween ==
  ASSUME StuckInv, DriverInv, DriverInv', PP!Inv, PP!Inv',
         Open \/ Close \/ DeferFires \/ SlideTick \/ StrayTick \/ HoldOver
  PROVE  StuckInv'
<1>0. IInv /\ HeardInv
  BY DEF DriverInv
<1>1. /\ gm.hold = "open" => OfDrag
      /\ ~on => pressed = {} /\ phase = "idle"
  BY <1>0 DEF StuckInv, HeardInv
<1>2. CASE Open
  <2>1. /\ phase' = phase /\ ~on /\ pressed' = pressed
        /\ on' /\ isDefering' = FALSE
    BY <1>2 DEF Open, P!Open
  <2> QED BY <1>1, <2>1, IdleAfter DEF OfDrag
<1>3. CASE Close
  <2>1. phase' = "idle" /\ pressed' = {} /\ gm' = gm
    BY <1>3 DEF Close, P!Close, P!input, manager
  <2>2. ~isDefering' \/ (isDefering' = isDefering /\ deferButton' = deferButton)
    BY <1>3 DEF Close, P!Close
  <2> QED BY <1>1, <2>1, <2>2, IdleAfter DEF OfDrag
<1>4. CASE DeferFires
  <2>1. /\ phase = "idle" /\ phase' = "idle" /\ ~isDefering' /\ gm' = gm
        /\ pressed' = pressed \ deferButton /\ lastButton' = lastButton
        /\ held' = held /\ on' = on
    BY <1>4 DEF DeferFires, P!DeferFires, P!input, P!session, manager
  <2>2. ASSUME NEW b \in pressed'
        PROVE  b \in lastButton' \/ (b = DragButton /\ held')
    <3>1. b \in pressed /\ b \notin deferButton
      BY <2>1
    <3>2. \/ b \in lastButton
          \/ isDefering /\ b \in deferButton
          \/ b = DragButton /\ held
      BY <2>1, <3>1, IdleOwed
    <3>3. lastButton' = lastButton /\ (held => held')
      BY <2>1
    <3> QED BY <3>1, <3>2, <3>3
  <2> QED BY <1>1, <2>1, <2>2, IdleAfter DEF OfDrag
<1>5. CASE SlideTick \/ StrayTick
  <2>1. /\ phase = "idle" /\ phase' = "idle" /\ pressed' = pressed
        /\ isDefering' = isDefering /\ deferButton' = deferButton
        /\ lastButton' = lastButton /\ on' = on /\ TickHeard
    BY <1>5 DEF SlideTick, StrayTick, P!SlideTick, P!StrayTick, P!Tick,
                P!input, P!session, P!defers
  <2>2. gm'.hold = gm.hold /\ held' = held
    BY <1>0, <2>1, HeardKeeps
  <2>3. OfDrag' = OfDrag
    BY <2>1 DEF OfDrag
  <2> QED BY <1>1, <2>1, <2>2, <2>3, IdleOwed, IdleAfter
<1>6. CASE HoldOver
  <2>1. /\ phase = "idle" /\ UNCHANGED stage
        /\ Call([Calling EXCEPT !.hold = "over"])
    BY <1>6 DEF HoldOver, Between, HoldPasses
  <2>2. Calling \in Managers /\ Calling.out = <<>> /\ held \in BOOLEAN
    BY <1>0, CallingPhase DEF Sane, IInv, TypeOK
  <2>3. gm'.out = <<>> /\ gm'.hold = "over"
    BY <2>1, <2>2 DEF Call, Managers
  <2>4. ~ \E e \in ToSet(gm'.out) : TRUE
    BY <2>3, ListFacts
  <2>5. held' = held
    BY <2>1, <2>2, <2>4 DEF Call
  <2>6. \A b \in pressed' :
           \/ b \in lastButton'
           \/ isDefering' /\ b \in deferButton'
           \/ b = DragButton /\ held'
    BY <2>1, <2>5, IdleOwed DEF stage
  <2> QED BY <1>1, <2>1, <2>3, <2>6, IdleAfter DEF stage
<1> QED BY <1>2, <1>3, <1>4, <1>5, <1>6

(* A packet begins with nothing but its physical buttons.                  *)
LEMMA StuckPacket ==
  ASSUME StuckInv, DriverInv, PP!Inv, PP!Inv', DriverInv', Packet
  PROVE  StuckInv'
<1>0. IInv
  BY DEF DriverInv
<1>1. PICK buttons \in Pads :
        /\ queue' = Append(queue, PhysicalButton(buttons))
        /\ PhysicalUpdate(buttons)
  BY DEF Packet, P!Packet, P!PhysicalButton, PhysicalButton, P!Zeroed, Zeroed
<1>2. /\ phase = "idle" /\ on' /\ pressed' = pressed
      /\ isDefering' = isDefering /\ deferButton' = deferButton
      /\ lastButton' = lastButton
  BY DEF Packet, P!Packet, P!session, P!defers
<1>3. gm'.out = <<>> /\ gm'.hold = gm.hold /\ held' = held
  <2>1. Call([Calling EXCEPT !.physical = buttons])
    BY <1>1 DEF PhysicalUpdate
  <2>2. /\ Calling \in Managers /\ Calling.out = <<>>
        /\ Calling.hold = gm.hold /\ held \in BOOLEAN
    BY <1>0, CallingPhase DEF Sane, IInv, TypeOK
  <2>3. gm'.out = <<>> /\ gm'.hold = gm.hold
    BY <2>1, <2>2 DEF Call, Managers
  <2>4. ~ \E e \in ToSet(gm'.out) : TRUE
    BY <2>3, ListFacts
  <2> QED BY <2>1, <2>2, <2>3, <2>4 DEF Call
<1> DEFINE a == PhysicalButton(buttons)
<1>4. Plain(a)
  BY DEF Plain, PhysicalButton, Zeroed
<1>5. queue = <<>>
  BY <1>2, StageFacts
<1> HIDE DEF a
<1>6. queue' = <<a>>
  BY <1>1, <1>5 DEF a
<1>7. queue' \in Seq(ActionType)
  <2>1. PP!ActionType = ActionType
    BY DEF PP!ActionType, ActionType, PP!DeferOps, DeferOps
  <2> QED BY <2>1 DEF PP!Inv, PP!TypeOK, PP!DataOK
<1>8. Script' = <<a>>
  <2>1. queue' \o Actions(<<>>) = queue'
    BY <1>7, QueueOnly
  <2> QED BY <1>3, <1>6, <2>1 DEF Script
<1>9. AllPlain(Script')
  BY <1>4, <1>8 DEF AllPlain
<1>10. Orderly(Script', gm'.hold = "open", isDefering', OfDrag', held',
               DragButton \in pressed')
  BY <1>9, PlainOrderly
<1>11. OfDrag' = OfDrag
  BY <1>2 DEF OfDrag
<1> QED
  BY <1>2, <1>3, <1>9, <1>10, <1>11, IdleOwed, StuckAfter DEF StuckInv

(* Taking an action over changes nothing that is asked for.                *)
LEMMA StuckOwn ==
  ASSUME StuckInv, DriverInv, PP!Inv, Own
  PROVE  StuckInv'
<1>1. gm.out # <<>> /\ gm.out \in Seq(Entries) /\ queue \in Seq(ActionType)
  BY ScriptType, StageFacts DEF Own
<1>2. /\ queue' = Append(queue, Head(gm.out).action)
      /\ gm' = [gm EXCEPT !.out = Tail(gm.out)]
      /\ UNCHANGED <<fingers, held, calls, owed>>
      /\ UNCHANGED <<on, phase, lastButton, isDefering, deferButton, pressed>>
  BY DEF Own, P!Own, P!session, P!defers
<1>3. /\ gm'.out = Tail(gm.out) /\ gm'.hold = gm.hold /\ gm'.state = gm.state
  BY <1>2 DEF DriverInv, IInv, TypeOK, Managers
<1>4. Script' = Script
  BY <1>1, <1>2, <1>3, HandOver DEF Script
<1>5. OfDrag' = OfDrag
  BY <1>2 DEF OfDrag
<1> QED
  BY <1>2, <1>3, <1>4, <1>5, StuckAfter
  DEF StuckInv, Ordered, AllOwed, AskedOnce, calls

(* Reading an action: what it presses is owed to the release it schedules  *)
(* or to the drag, and a pending release it takes the place of or cancels  *)
(* is one of the drag's button, which is up, dragged or released again.    *)
LEMMA StuckRead ==
  ASSUME StuckInv, DriverInv, DriverInv', PP!Inv, PP!Inv', Read
  PROVE  StuckInv'
<1> DEFINE a == Head(queue)
<1>0. IInv /\ HeardInv /\ HeardInv' /\ CallsInv'
  BY DEF DriverInv
<1>1. /\ gm.out = <<>> /\ Script = queue /\ queue \in Seq(ActionType)
      /\ queue # <<>> /\ isDefering \in BOOLEAN
  BY ScriptType, StageFacts DEF Read, P!Read
<1>2. /\ a = queue[1] /\ 1 \in 1..Len(queue)
      /\ Tail(queue) \in Seq(ActionType) /\ Len(Tail(queue)) = Len(queue) - 1
      /\ \A i \in 1..Len(Tail(queue)) : Tail(queue)[i] = queue[i + 1]
      /\ Len(queue) \in Nat
  BY <1>1
<1>3. /\ gm'.hold = gm.hold /\ held' = held
  BY <1>0, HeardKeeps DEF Read
<1>4. gm'.out = <<>>
  BY <1>0, <1>1, HeardTells DEF Read, Up, HeardInv
<1>5. /\ queue' = Tail(queue) /\ lastButton' = a.physical
      /\ phase' # "gestures" /\ on' /\ on
  BY <1>0 DEF Read, P!Read, P!session, HeardInv
<1>6. Script' = Tail(queue)
  <2>1. Tail(queue) \o Actions(<<>>) = Tail(queue)
    BY <1>2, QueueOnly
  <2> QED BY <1>4, <1>5, <2>1, SMTT(30) DEF Script
<1>7. /\ a.defer = "NONE" => /\ isDefering' = isDefering
                             /\ deferButton' = deferButton
      /\ a.defer = "NEW" => isDefering' /\ deferButton' = a.deferButton
      /\ a.defer = "CANCEL" => ~isDefering'
      /\ pressed' \subseteq P!AfterButtons(a)
  <2>1. \/ P!DeferNone(a) \/ P!DeferNew(a) \/ P!DeferCancel(a)
        \/ P!DeferTrigger(a) \/ P!DeferDelay(a)
    BY DEF Read, P!Read
  <2> HIDE DEF a
  <2>2. CASE P!DeferNone(a)
    BY <2>2 DEF P!DeferNone, P!defers
  <2>3. CASE P!DeferNew(a)
    BY <2>3 DEF P!DeferNew
  <2>4. CASE P!DeferCancel(a)
    BY <1>1, <2>4 DEF P!DeferCancel
  <2>5. CASE P!DeferTrigger(a)
    BY <2>5 DEF P!DeferTrigger
  <2>6. CASE P!DeferDelay(a)
    BY <2>6 DEF P!DeferDelay
  <2> QED BY <2>1, <2>2, <2>3, <2>4, <2>5, <2>6
<1> HIDE DEF a
<1>8. ASSUME NEW x \in pressed'
      PROVE  /\ \/ x \in a.physical \/ x \in a.down
                \/ x \in pressed /\ x \notin lastButton
             /\ x \notin a.up
  BY <1>7 DEF P!AfterButtons
<1>9. /\ Asked(a)
      /\ a.defer = "NEW" =>
           \A j \in 1..Len(queue) : queue[j].defer = "NEW" => j = 1
      /\ Clicking(a) => gm.hold # "open" /\ ~isDefering
      /\ Cancelling(a) => OfDrag /\ (held \/ DragButton \notin pressed)
      /\ Pressing(a) => held
      /\ Releasing(a) => OfDrag
  <2>1. Proper(queue, 1, gm.hold = "open", isDefering, OfDrag, held,
               DragButton \in pressed)
    BY <1>1, <1>2 DEF StuckInv, Ordered, Orderly
  <2>2. 1..(1 - 1) = {} /\ ~(1 > 1)
    OBVIOUS
  <2> QED BY <1>2, <2>1, <2>2 DEF Proper
<1>10. \/ Plain(a) \/ Pressing(a) \/ Lifting(a)
       \/ Cancelling(a) \/ Releasing(a) \/ Clicking(a)
  BY <1>9 DEF Asked
<1>11. /\ isDefering' => (isDefering \/ a.defer = "NEW") /\ ~Cancelling(a)
       /\ OfDrag => OfDrag' \/ Clicking(a)
       /\ Lifting(a) => DragButton \notin pressed'
  <2>1. isDefering' => (isDefering \/ a.defer = "NEW") /\ ~Cancelling(a)
    BY <1>7, <1>10, KindsApart
  <2>2. OfDrag => OfDrag' \/ Clicking(a)
    <3>1. Releasing(a) => OfDrag'
      BY <1>7 DEF Releasing, OfDrag
    <3>2. Cancelling(a) => OfDrag'
      BY <1>7 DEF Cancelling, OfDrag
    <3>3. a.defer = "NONE" /\ OfDrag => OfDrag'
      BY <1>7 DEF OfDrag
    <3> QED BY <1>10, <3>1, <3>2, <3>3, KindsApart
  <2>3. Lifting(a) => DragButton \notin pressed'
    BY <1>8 DEF Lifting
  <2> QED BY <2>1, <2>2, <2>3
<1>12. Orderly(Script', gm'.hold = "open", isDefering', OfDrag', held',
               DragButton \in pressed')
  <2>1. Orderly(queue, gm.hold = "open", isDefering, OfDrag, held,
                DragButton \in pressed)
    BY <1>1 DEF StuckInv, Ordered
  <2>2. Orderly(Tail(queue), gm.hold = "open", isDefering', OfDrag', held,
                DragButton \in pressed')
    BY <1>1, <1>11, <2>1, OrderlyTail DEF a
  <2> QED BY <1>3, <1>6, <2>2
<1>13. gm'.hold = "open" => OfDrag'
  BY <1>3, <1>9, <1>11 DEF StuckInv
<1>14. ASSUME NEW x \in pressed'
       PROVE  \/ x \in lastButton'
              \/ isDefering' /\ x \in deferButton'
              \/ x = DragButton /\ (held' \/ ReleaseAsked(Script'))
  <2>1. CASE x \in a.physical
    BY <1>5, <2>1
  <2>2. CASE x \in a.down
    <3>1. Pressing(a) \/ Clicking(a)
      BY <1>10, <2>2 DEF Plain, Lifting, Cancelling, Releasing
    <3>2. CASE Pressing(a)
      BY <1>3, <1>9, <2>2, <3>2 DEF Pressing
    <3>3. CASE Clicking(a)
      BY <1>7, <2>2, <3>3 DEF Clicking
    <3> QED BY <3>1, <3>2, <3>3
  <2>3. CASE x \in pressed /\ x \notin lastButton
    <3>1. \/ isDefering /\ x \in deferButton
          \/ x = DragButton /\ (held \/ ReleaseAsked(queue))
      BY <1>1, <2>3 DEF StuckInv, AllOwed
    <3>2. CASE held /\ x = DragButton
      BY <1>3, <3>2
    <3>3. CASE isDefering /\ x \in deferButton
      <4>1. CASE a.defer = "NONE"
        BY <1>7, <3>3, <4>1
      <4>2. CASE Releasing(a)
        BY <1>7, <1>9, <3>3, <4>2 DEF Releasing, OfDrag
      <4>3. CASE Cancelling(a)
        <5>1. x = DragButton
          BY <1>9, <3>3, <4>3 DEF OfDrag
        <5>2. held
          BY <1>9, <2>3, <4>3, <5>1
        <5> QED BY <1>3, <5>1, <5>2
      <4>4. CASE Clicking(a)
        BY <1>9, <3>3, <4>4
      <4> QED BY <1>10, <4>1, <4>2, <4>3, <4>4, KindsApart
    <3>4. CASE ReleaseAsked(queue) /\ x = DragButton
      <4>1. PICK i \in 1..Len(queue) : Releasing(queue[i])
        BY <3>4 DEF ReleaseAsked
      <4>2. CASE i = 1
        BY <1>2, <1>7, <3>4, <4>1, <4>2 DEF Releasing
      <4>3. CASE i # 1
        <5>1. /\ i - 1 \in 1..Len(Tail(queue)) /\ (i - 1) + 1 = i
          BY <1>2, <4>3
        <5>2. Releasing(Tail(queue)[i - 1])
          BY <1>2, <4>1, <5>1
        <5>3. ReleaseAsked(Script')
          BY <1>6, <5>1, <5>2 DEF ReleaseAsked
        <5> QED BY <3>4, <5>3
      <4> QED BY <4>2, <4>3
    <3> QED BY <3>1, <3>2, <3>3, <3>4
  <2> QED BY <1>8, <2>1, <2>2, <2>3
<1> QED BY <1>5, <1>12, <1>13, <1>14, StuckAfter

-----------------------------------------------------------------------------
(* What the calls of a packet ask for.                                     *)

(* What quells a former drag is in order, if the release is the drag's.    *)
LEMMA QuelledOrderly ==
  ASSUME NEW s, NEW quells, Quelled(s, quells),
         NEW open, NEW busy, NEW ours, quells => ours, NEW dragged, NEW down
  PROVE  /\ Orderly(s, open, busy, ours, dragged, down)
         /\ \A i \in 1..Len(s) : /\ s[i].defer # "NEW"
                                 /\ Cancelling(s[i]) => quells
<1>1. ASSUME NEW i \in 1..Len(s)
      PROVE  /\ Proper(s, i, open, busy, ours, dragged, down)
             /\ s[i].defer # "NEW"
             /\ Cancelling(s[i]) => quells
             /\ ~Clicking(s[i])
  <2>1. \/ Plain(s[i])
        \/ quells /\ Lifting(s[i])
        \/ quells /\ Cancelling(s[i]) /\ i > 1 /\ Lifting(s[i - 1])
    BY DEF Quelled
  <2>2. \A j \in 1..(i - 1) : ~Clicking(s[j])
    <3>1. \A j \in 1..(i - 1) : j \in 1..Len(s)
      OBVIOUS
    <3>2. \A j \in 1..Len(s) : Plain(s[j]) \/ Lifting(s[j]) \/ Cancelling(s[j])
      BY DEF Quelled
    <3> QED BY <3>1, <3>2, KindsApart
  <2>3. CASE Plain(s[i])
    BY <2>3, KindsApart DEF Proper, Asked
  <2>4. CASE quells /\ Lifting(s[i])
    BY <2>4, KindsApart DEF Proper, Asked
  <2>5. CASE quells /\ Cancelling(s[i]) /\ i > 1 /\ Lifting(s[i - 1])
    BY <2>2, <2>5, KindsApart DEF Proper, Asked
  <2> QED BY <2>1, <2>3, <2>4, <2>5
<1> QED BY <1>1 DEF Orderly

(* A click behind it.                                                      *)
LEMMA ClickOrderly ==
  ASSUME NEW q \in Seq(Entries), NEW e \in Entries, Clicking(e.action),
         Quelled(Actions(q), TRUE),
         NEW open, ~open, NEW busy,
         busy => \E i \in 1..Len(q) : Cancelling(q[i].action),
         NEW ours, ours, NEW dragged, NEW down
  PROVE  Orderly(Actions(Append(q, e)), open, busy, ours, dragged, down)
<1> DEFINE s == Actions(q)
           z == Actions(Append(q, e))
           n == Len(q)
<1>1. /\ Append(q, e) \in Seq(Entries) /\ n \in Nat
      /\ Len(Append(q, e)) = n + 1
      /\ \A i \in 1..n : Append(q, e)[i] = q[i]
      /\ Append(q, e)[n + 1] = e
  OBVIOUS
<1>2. /\ Len(s) = n /\ Len(z) = n + 1
      /\ \A i \in 1..n : s[i] = q[i].action
      /\ \A i \in 1..(n + 1) : z[i] = Append(q, e)[i].action
  BY <1>1, ActionsType
<1>3. /\ \A i \in 1..n : z[i] = s[i]
      /\ z[n + 1] = e.action
  <2>1. n + 1 \in 1..(n + 1) /\ \A i \in 1..n : i \in 1..(n + 1)
    BY <1>1
  <2> QED BY <1>1, <1>2, <2>1
<1>4. Orderly(s, open, busy, ours, dragged, down)
      /\ \A i \in 1..n : s[i].defer # "NEW"
  BY <1>2, QuelledOrderly
<1> HIDE DEF s, z, n
<1>5. ASSUME NEW i \in 1..Len(z)
      PROVE  Proper(z, i, open, busy, ours, dragged, down)
  <2>1. CASE i \in 1..n
    <3>1. z[i] = s[i] /\ i \in 1..Len(s) /\ s[i].defer # "NEW"
      BY <1>2, <1>3, <1>4, <2>1
    <3>2. Proper(s, i, open, busy, ours, dragged, down)
      BY <1>4, <3>1 DEF Orderly
    <3>3. \A j \in 1..(i - 1) : z[j] = s[j]
      BY <1>1, <1>3, <2>1
    <3>4. i > 1 => i - 1 \in 1..(i - 1)
      BY <1>1, <2>1
    <3> QED BY <3>1, <3>2, <3>3, <3>4 DEF Proper, Clicking
  <2>2. CASE i \notin 1..n
    <3>1. i = n + 1 /\ z[i] = e.action
      BY <1>1, <1>2, <1>3, <2>2
    <3>2. Clicking(z[i])
      BY <3>1
    <3>3. \A j \in 1..Len(z) : z[j].defer = "NEW" => j = i
      <4>1. \A j \in 1..n : z[j].defer # "NEW"
        BY <1>3, <1>4
      <4>2. \A j \in 1..Len(z) : j \in 1..n \/ j = n + 1
        BY <1>1, <1>2
      <4> QED BY <3>1, <4>1, <4>2
    <3>4. busy => \E j \in 1..(i - 1) : Cancelling(z[j])
      <4> SUFFICES ASSUME busy PROVE \E j \in 1..(i - 1) : Cancelling(z[j])
        OBVIOUS
      <4>1. PICK j \in 1..n : Cancelling(q[j].action)
        BY DEF n
      <4>2. j \in 1..(i - 1) /\ Cancelling(z[j])
        BY <1>1, <1>2, <1>3, <3>1, <4>1
      <4> QED BY <4>2
    <3> QED BY <3>2, <3>3, <3>4, KindsApart DEF Proper, Asked
  <2> QED BY <2>1, <2>2
<1>6. Orderly(z, open, busy, ours, dragged, down)
  BY <1>5 DEF Orderly
<1> QED BY <1>6 DEF z

(* A call whose actions follow those of the queue in order.                *)
LEMMA CallAsks ==
  ASSUME StuckInv, DriverInv, DriverInv', PP!Inv, gm.out = <<>>,
         UNCHANGED stage,
         Orderly(Actions(gm'.out), gm'.hold = "open", isDefering, OfDrag,
                 held', TRUE),
         AllPlain(Script) \/ ((held => held')
                                /\ (gm'.hold = "open" => gm.hold = "open")),
         \A i \in 1..Len(Actions(gm'.out)) :
           /\ Actions(gm'.out)[i].defer = "NEW" => AllPlain(Script)
           /\ Cancelling(Actions(gm'.out)[i]) =>
                \A j \in 1..Len(Script) : ~Clicking(Script[j]),
         gm'.hold = "open" => OfDrag,
         held => held' \/ ReleaseAsked(Actions(gm'.out)),
         cursor' = 0 /\ ~AllPlain(Script') =>
           gm'.state # "UPDATING" /\ (gm'.state = "WAITING" => fingers' > old')
  PROVE  StuckInv'
<1> DEFINE new == Actions(gm'.out)
<1>1. Script = queue /\ Script \in Seq(ActionType)
  BY ScriptType
<1>2. new \in Seq(ActionType)
  <2>1. gm'.out \in Seq(Entries)
    BY DEF DriverInv, IInv, TypeOK, Managers
  <2> QED BY <2>1, ActionsType
<1> HIDE DEF new
<1>3. Script' = Script \o new
  BY <1>1 DEF Script, stage, new
<1>4. /\ isDefering' = isDefering /\ deferButton' = deferButton
      /\ pressed' = pressed /\ lastButton' = lastButton /\ on' = on
  BY DEF stage
<1>5. OfDrag' = OfDrag
  BY <1>4 DEF OfDrag
<1>6. Orderly(Script \o new, gm'.hold = "open", isDefering, OfDrag, held',
              DragButton \in pressed)
  BY <1>1, <1>2, OrderlyLonger DEF StuckInv, Ordered, new
<1>7. Orderly(Script', gm'.hold = "open", isDefering', OfDrag', held',
              DragButton \in pressed')
  BY <1>3, <1>4, <1>5, <1>6
<1>8. ReleaseAsked(Script) \/ ReleaseAsked(new) => ReleaseAsked(Script')
  <2>1. /\ \A i \in 1..Len(Script) :
             i \in 1..Len(Script') /\ Script'[i] = Script[i]
        /\ \A i \in 1..Len(new) : /\ Len(Script) + i \in 1..Len(Script')
                                  /\ Script'[Len(Script) + i] = new[i]
    BY <1>1, <1>2, <1>3
  <2> QED BY <2>1 DEF ReleaseAsked
<1>9. ASSUME NEW b \in pressed'
      PROVE  \/ b \in lastButton'
             \/ isDefering' /\ b \in deferButton'
             \/ b = DragButton /\ (held' \/ ReleaseAsked(Script'))
  <2>1. \/ b \in lastButton
        \/ isDefering /\ b \in deferButton
        \/ b = DragButton /\ (held \/ ReleaseAsked(Script))
    BY <1>4 DEF StuckInv, AllOwed
  <2> QED BY <1>4, <1>8, <2>1 DEF new
<1> QED BY <1>4, <1>5, <1>7, <1>9, StuckAfter DEF StuckInv

(* A call that queues nothing.                                             *)
LEMMA CallSilent ==
  ASSUME StuckInv, DriverInv, DriverInv', PP!Inv, gm.out = <<>>,
         UNCHANGED stage, Call(gm'), gm'.out = <<>>, gm'.hold = gm.hold,
         cursor' = 0 /\ ~AllPlain(Script') =>
           gm'.state # "UPDATING" /\ (gm'.state = "WAITING" => fingers' > old')
  PROVE  StuckInv' /\ held' = held
<1>1. ~ \E e \in ToSet(gm'.out) : TRUE
  BY ListFacts
<1>2. held' = held
  BY <1>1 DEF Call, DriverInv, IInv, TypeOK
<1>3. <<>> \in Seq(Entries) /\ Len(<<>>) = 0
  OBVIOUS
<1>4. Len(Actions(gm'.out)) = 0
  BY <1>3, ActionsType
<1>5. AllPlain(Actions(gm'.out))
  BY <1>4 DEF AllPlain
<1>6. Orderly(Actions(gm'.out), gm'.hold = "open", isDefering, OfDrag, held',
              TRUE)
  BY <1>5, PlainOrderly
<1>7. \A i \in 1..Len(Actions(gm'.out)) :
        /\ Actions(gm'.out)[i].defer = "NEW" => AllPlain(Script)
        /\ Cancelling(Actions(gm'.out)[i]) =>
             \A j \in 1..Len(Script) : ~Clicking(Script[j])
  BY <1>4
<1>8. gm'.hold = "open" => OfDrag
  BY DEF StuckInv
<1> QED BY <1>2, <1>6, <1>7, <1>8, CallAsks

(* No tap's release is pending when a finger lands or leaves or three move.*)
LEMMA PendingOfDrag ==
  ASSUME StuckInv, DriverInv, PP!Inv, gm.out = <<>>, PromptTimers, Spaced
  PROVE  /\ OfDrag
         /\ AllPlain(Script) /\ isDefering => gm.hold = "open"
<1>1. Script = queue
  BY ScriptType
<1>2. CASE ~isDefering
  BY <1>2 DEF OfDrag
<1>3. CASE gm.hold = "open"
  BY <1>3 DEF StuckInv
<1>4. CASE \E i \in 1..Len(queue) : queue[i].defer = "CANCEL"
  <2>1. PICK i \in 1..Len(queue) : queue[i].defer = "CANCEL"
    BY <1>4
  <2>2. Proper(Script, i, gm.hold = "open", isDefering, OfDrag, held,
               DragButton \in pressed)
    BY <1>1, <2>1 DEF StuckInv, Ordered, Orderly
  <2>3. Cancelling(Script[i]) /\ ~Plain(Script[i])
    <3>1. Asked(Script[i])
      BY <2>2 DEF Proper
    <3>2. Script[i].defer # "NONE" /\ Script[i].defer # "NEW"
      BY <1>1, <2>1
    <3> QED BY <3>1, <3>2, KindsApart DEF Asked, Releasing, Clicking
  <2>4. OfDrag
    BY <2>2, <2>3 DEF Proper
  <2>5. ~AllPlain(Script)
    BY <1>1, <2>1, <2>3 DEF AllPlain
  <2> QED BY <2>4, <2>5
<1> QED BY <1>2, <1>3, <1>4 DEF Spaced, TapPending

(* A finger that lands or leaves.                                          *)
LEMMA EndsAsks ==
  ASSUME StuckInv, DriverInv, DriverInv', PP!Inv, PromptTimers, Spaced,
         gm.out = <<>>, UNCHANGED stage, Call(gm'), Ends(Calling, gm'),
         AllPlain(Script) \/ (gm'.out = <<>> /\ gm'.hold = gm.hold),
         cursor' = 0 /\ ~AllPlain(Script') =>
           gm'.state # "UPDATING" /\ (gm'.state = "WAITING" => fingers' > old')
  PROVE  StuckInv'
<1> DEFINE new == Actions(gm'.out)
<1>0. IInv /\ IInv' /\ held \in BOOLEAN
  BY DEF DriverInv, IInv, TypeOK
<1>1. Calling.hold = gm.hold
  BY <1>0, CallingPhase
<1>2. CASE gm'.out = <<>> /\ gm'.hold = gm.hold
  BY <1>2, CallSilent
<1>3. CASE ~(gm'.out = <<>> /\ gm'.hold = gm.hold)
  <2>1. /\ AllPlain(Script) /\ OfDrag
        /\ isDefering => gm.hold = "open"
    BY <1>3, PendingOfDrag
  <2>2. gm'.out \in Seq(Entries)
    BY <1>0 DEF IInv, TypeOK, Managers
  <2>3. /\ Len(new) = Len(gm'.out)
        /\ \A i \in 1..Len(gm'.out) : new[i] = gm'.out[i].action
    BY <2>2, ActionsType
  <2>4. held => held' \/ \E i \in 1..Len(gm'.out) :
                           /\ new[i].defer = "NEW"
                           /\ gm'.out[i].by = "drag"
    <3> SUFFICES ASSUME held, ~held'
                 PROVE  \E i \in 1..Len(gm'.out) : /\ new[i].defer = "NEW"
                                                   /\ gm'.out[i].by = "drag"
      OBVIOUS
    <3>1. PICK e \in ToSet(gm'.out) : Releases(e)
      BY DEF Call
    <3>2. PICK i \in 1..Len(gm'.out) : e = gm'.out[i]
      BY <2>2 DEF ToSet
    <3> QED BY <2>3, <3>1, <3>2 DEF Releases
  <2> HIDE DEF new
  <2>5. \A i \in 1..Len(new) :
          Cancelling(new[i]) => \A j \in 1..Len(Script) : ~Clicking(Script[j])
    BY <2>1, KindsApart DEF AllPlain
  <2>6. /\ Orderly(new, gm'.hold = "open", isDefering, OfDrag, held', TRUE)
        /\ held => held' \/ ReleaseAsked(new)
    <3>1. CASE gm'.out = <<Entry("drag", ButtonUpDefer(DragButton))>>
      <4>1. /\ Len(gm'.out) = 1
            /\ gm'.out[1] = Entry("drag", ButtonUpDefer(DragButton))
        BY <3>1
      <4>2. Entry("drag", ButtonUpDefer(DragButton)).action
              = ButtonUpDefer(DragButton)
        BY DEF Entry
      <4>3. Len(new) = 1 /\ 1 \in 1..Len(new) /\ Releasing(new[1])
        BY <2>3, <4>1, <4>2, ActionKinds
      <4>4. ReleaseAsked(new)
        BY <4>3 DEF ReleaseAsked
      <4>5. \A i \in 1..Len(new) : i = 1
        BY <4>3
      <4>6. Orderly(new, gm'.hold = "open", isDefering, OfDrag, held', TRUE)
        BY <2>1, <4>3, <4>5, KindsApart DEF Orderly, Proper, Asked
      <4> QED BY <4>4, <4>6
    <3>2. CASE Quelled(Actions(gm'.out), TRUE)
      <4>1. /\ Orderly(new, gm'.hold = "open", isDefering, OfDrag, held', TRUE)
            /\ \A i \in 1..Len(new) : new[i].defer # "NEW"
        BY <2>1, <3>2, QuelledOrderly DEF new
      <4> QED BY <2>3, <2>4, <4>1
    <3>3. CASE Clicks(Calling, gm')
      <4>0. PICK t \in Taps : ClicksOf(Calling, gm', t)
        BY <3>3 DEF Clicks
      <4>1. PICK q \in Seq(Entries), e \in Entries :
              /\ gm'.out = Append(q, e)
              /\ e.by = t
              /\ Clicking(e.action)
              /\ Quelled(Actions(q), TRUE)
              /\ Calling.hold = "open" =>
                   \E i \in 1..Len(q) : Cancelling(q[i].action)
        BY <4>0 DEF ClicksOf
      <4>2. gm'.hold # "open"
        BY <4>0 DEF ClicksOf
      <4>3. Orderly(Actions(Append(q, e)), gm'.hold = "open", isDefering,
                    OfDrag, held', TRUE)
        BY <1>1, <2>1, <4>1, <4>2, ClickOrderly
      <4>4. ASSUME NEW i \in 1..Len(gm'.out), gm'.out[i].by = "drag"
            PROVE  new[i].defer # "NEW"
        <5>1. /\ Len(gm'.out) = Len(q) + 1 /\ gm'.out[Len(q) + 1] = e
              /\ \A j \in 1..Len(q) : gm'.out[j] = q[j]
              /\ Len(q) \in Nat
          BY <4>1
        <5>2. i # Len(q) + 1
          BY <4>1, <4>4, <5>1 DEF Taps
        <5>3. i \in 1..Len(q) /\ new[i] = q[i].action
          BY <2>3, <5>1, <5>2
        <5>4. /\ Len(Actions(q)) = Len(q)
              /\ Actions(q)[i] = q[i].action
          BY <5>3, ActionsType
        <5>5. Actions(q)[i].defer # "NEW"
          BY <4>1, <5>3, <5>4, QuelledOrderly
        <5> QED BY <5>3, <5>4, <5>5
      <4> QED BY <2>4, <4>1, <4>3, <4>4 DEF new
    <3> QED BY <1>1, <1>3, <3>1, <3>2, <3>3 DEF Ends
  <2> QED BY <2>1, <2>5, <2>6, CallAsks DEF new
<1> QED BY <1>2, <1>3

(* on_touch_start: whatever ran is ended, and waits for a movement.        *)
LEMMA StuckStart ==
  ASSUME StuckInv, DriverInv, DriverInv', PP!Inv, PromptTimers, StartCall
  PROVE  StuckInv'
<1>1. /\ phase = "gestures" /\ gm.out = <<>> /\ Spaced /\ UNCHANGED stage
      /\ cursor = 0 /\ fingers' = fingers + 1 /\ old' = old /\ Land
  BY DEF StartCall, Dispatching, Dispatch!Started
<1>2. IInv /\ fingers \in Nat /\ old \in 0..fingers
  BY BoundsAssumption DEF DriverInv, IInv, TypeOK, CallsInv
<1>3. /\ Ends(Calling, gm')
      /\ gm.state # "UPDATING" => gm'.out = <<>> /\ gm'.hold = gm.hold
  BY <1>1, <1>2, LandSafe
<1>4. Call(gm')
  BY <1>1 DEF Land, Call
<1>5. AllPlain(Script) \/ (gm'.out = <<>> /\ gm'.hold = gm.hold)
  BY <1>1, <1>3 DEF StuckInv, AskedOnce
<1>6. gm'.state # "UPDATING" /\ fingers' > old'
  BY <1>1, <1>2, <1>3 DEF Ends
<1> QED BY <1>1, <1>3, <1>4, <1>5, <1>6, EndsAsks

(* on_touch_release: a second one in the packet finds nothing to end.      *)
LEMMA StuckRelease ==
  ASSUME StuckInv, DriverInv, DriverInv', PP!Inv, PromptTimers, ReleaseCall
  PROVE  StuckInv'
<1>1. /\ phase = "gestures" /\ gm.out = <<>> /\ Spaced /\ UNCHANGED stage
      /\ cursor = 0 /\ old > 0 /\ fingers' = fingers - 1 /\ old' = old - 1
      /\ Lift
  BY DEF ReleaseCall, Dispatching, Dispatch!Released
<1>2. IInv /\ fingers \in Nat /\ old \in 0..fingers
  BY BoundsAssumption DEF DriverInv, IInv, TypeOK, CallsInv
<1>3. /\ Ends(Calling, gm')
      /\ gm.state # "UPDATING" /\ (gm.state = "WAITING" => fingers # 1) =>
           gm'.out = <<>> /\ gm'.hold = gm.hold
      /\ gm'.state = "WAITING" => gm.state = "WAITING" /\ fingers # 1
  BY <1>1, <1>2, LiftSafe
<1>4. Call(gm')
  BY <1>1 DEF Lift, Call
<1>5. ~AllPlain(Script) => /\ gm.state # "UPDATING"
                           /\ gm.state = "WAITING" => fingers > old
  BY <1>1 DEF StuckInv, AskedOnce
<1>6. AllPlain(Script) \/ (gm'.out = <<>> /\ gm'.hold = gm.hold)
  BY <1>1, <1>2, <1>3, <1>5
<1>7. ASSUME ~AllPlain(Script'), gm'.state = "WAITING"
      PROVE  fingers' > old'
  <2>1. gm'.out = <<>>
    BY <1>3, <1>7
  <2>2. Script' = Script
    BY <1>1, <2>1 DEF Script, stage
  <2>3. fingers > old
    BY <1>3, <1>5, <1>7, <2>2
  <2> QED BY <1>1, <1>2, <2>3
<1>8. gm'.state # "UPDATING"
  BY <1>3 DEF Ends
<1> QED BY <1>1, <1>3, <1>4, <1>6, <1>7, <1>8, EndsAsks

(* on_touch_move: only the first move of a packet makes a gesture post.    *)
LEMMA StuckMove ==
  ASSUME StuckInv, DriverInv, DriverInv', PP!Inv, PromptTimers, MoveCall
  PROVE  StuckInv'
<1>1. /\ phase = "gestures" /\ gm.out = <<>> /\ UNCHANGED stage
      /\ fingers = RequiredTouches["drag"] => Spaced
  BY DEF MoveCall, Dispatching
<1>2. PICK idx \in cursor..(fingers - old), sample \in Moves :
        Dispatch!Moved(idx) /\ Move(idx, sample)
  BY DEF MoveCall
<1>3. /\ IInv /\ IInv' /\ CallsInv
      /\ cursor \in Nat /\ fingers \in Nat /\ old \in 0..fingers
  BY BoundsAssumption DEF DriverInv, IInv, TypeOK, CallsInv
<1>4. old > 0 /\ cursor' = idx + 1 /\ fingers' = fingers
  BY <1>2 DEF Dispatch!Moved
<1>5. idx \in 0..(fingers - 1) /\ idx \in Nat /\ cursor <= idx
  BY <1>3, <1>4
<1>6. sample \in Samples
  BY MovesAssumption
<1>7. Talks(Calling, gm', idx) /\ (held => held')
  BY <1>2, <1>3, <1>5, <1>6, MoveSafe
<1>8. Call(gm')
  BY <1>2 DEF Move, Call
<1>9. cursor' # 0
  BY <1>4, <1>5
<1>10. CASE gm'.out = <<>> /\ gm'.hold = gm.hold
  BY <1>1, <1>8, <1>9, <1>10, CallSilent
<1>11. CASE ~(gm'.out = <<>> /\ gm'.hold = gm.hold)
  <2>1. Calling.hold = gm.hold /\ Calling.state = gm.state
    BY <1>3, CallingPhase
  <2>2. idx = 0 /\ gm'.state = "UPDATING"
    BY <1>7, <1>11, <2>1 DEF Talks
  <2>3. PICK b : /\ Speaks(b, gm')
                 /\ b.hold = gm.hold
                 /\ b.accepted = "drag" => gm.state = "UPDATING"
    BY <1>7, <1>11, <2>1 DEF Talks
  <2>4. gm'.accepted # Nobody
    <3> SUFFICES ASSUME gm'.accepted = Nobody PROVE FALSE
      OBVIOUS
    <3>1. gm'.hold = gm.hold
      BY <2>3 DEF Speaks
    <3>2. Sane(gm') /\ Running(gm')
      BY <1>3, <2>2 DEF IInv, Sane, Phase, Running
    <3>3. ~Owned(gm')
      BY OneOrOther
    <3>4. gm'.out = <<>>
      BY <3>2, <3>3, NothingYet DEF Running
    <3> QED BY <1>11, <3>1, <3>4
  <2>5. gm'.hold = "open" => gm.hold = "open" /\ OfDrag
    BY <2>3, <2>4 DEF Speaks, StuckInv
  <2> DEFINE new == Actions(gm'.out)
  <2>6. /\ Len(new) = Len(gm'.out)
        /\ \A i \in 1..Len(gm'.out) : new[i] = gm'.out[i].action
    <3>1. gm'.out \in Seq(Entries)
      BY <1>3 DEF IInv, TypeOK, Managers
    <3> QED BY <3>1, ActionsType
  <2> HIDE DEF new
  <2>7. /\ Orderly(new, gm'.hold = "open", isDefering, OfDrag, held', TRUE)
        /\ \A i \in 1..Len(new) :
             /\ new[i].defer # "NEW"
             /\ Cancelling(new[i]) =>
                  \A j \in 1..Len(Script) : ~Clicking(Script[j])
    <3>1. CASE gm'.accepted = "drag"
      <4>1. held'
        BY <1>3, <2>2, <3>1 DEF IInv, DragHeld
      <4>2. OfDrag
        <5>1. fingers = RequiredTouches["drag"]
          BY <1>3, <1>4, <2>2, <3>1 DEF IInv, Ready
        <5> QED BY <1>1, <5>1, PendingOfDrag
      <4>3. b.accepted = "drag" => AllPlain(Script)
        <5>1. cursor = 0
          BY <1>3, <1>5, <2>2
        <5> QED BY <1>1, <2>3, <5>1 DEF StuckInv, AskedOnce
      <4>4. \A i \in 1..Len(new) :
              \/ Plain(new[i]) \/ Pressing(new[i])
              \/ AllPlain(Script) /\ Cancelling(new[i])
        BY <2>3, <2>4, <2>6, <3>1, <4>3 DEF Speaks
      <4>5. \A i \in 1..Len(new) :
              /\ Asked(new[i]) /\ new[i].defer # "NEW" /\ ~Clicking(new[i])
              /\ ~Releasing(new[i])
        BY <4>4, KindsApart DEF Asked
      <4>6. Orderly(new, gm'.hold = "open", isDefering, OfDrag, held', TRUE)
        <5>1. ASSUME NEW i \in 1..Len(new)
              PROVE  Proper(new, i, gm'.hold = "open", isDefering, OfDrag,
                            held', TRUE)
          <6>1. \A j \in 1..(i - 1) : j \in 1..Len(new)
            OBVIOUS
          <6> QED BY <4>1, <4>2, <4>5, <6>1 DEF Proper
        <5> QED BY <5>1 DEF Orderly
      <4>7. AllPlain(Script) => \A j \in 1..Len(Script) : ~Clicking(Script[j])
        BY KindsApart DEF AllPlain
      <4> QED BY <4>4, <4>5, <4>6, <4>7, KindsApart
    <3>2. CASE gm'.accepted # "drag"
      <4>1. Quelled(new, gm.hold = "open")
        BY <2>3, <2>4, <3>2 DEF Speaks, new
      <4>2. gm.hold = "open" => OfDrag
        BY DEF StuckInv
      <4>3. /\ Orderly(new, gm'.hold = "open", isDefering, OfDrag, held', TRUE)
            /\ \A i \in 1..Len(new) : /\ new[i].defer # "NEW"
                                      /\ Cancelling(new[i]) => gm.hold = "open"
        BY <4>1, <4>2, QuelledOrderly
      <4>4. gm.hold = "open" => \A j \in 1..Len(Script) : ~Clicking(Script[j])
        BY DEF StuckInv, Ordered, Orderly, Proper
      <4> QED BY <4>3, <4>4
    <3> QED BY <3>1, <3>2
  <2> QED BY <1>1, <1>7, <1>9, <2>5, <2>7, CallAsks DEF new
<1> QED BY <1>10, <1>11

(* Every step keeps it, if the release of a click is made before the       *)
(* fingers do more: the code leaves that to the scheduling of its timers.  *)
LEMMA StuckStep ==
  ASSUME PromptTimers, StuckInv, DriverInv, DriverInv', PP!Inv, PP!Inv',
         [DriverNext]_driverVars
  PROVE  StuckInv'
<1>1. CASE UNCHANGED driverVars
  <2>1. UNCHANGED <<gm, fingers, held, on, phase, queue, lastButton,
                    isDefering, deferButton, pressed, cursor, old>>
    BY <1>1 DEF driverVars, manager, stage, calls
  <2>2. Script' = Script /\ OfDrag' = OfDrag
    BY <2>1 DEF Script, OfDrag
  <2> QED BY <2>1, <2>2, StuckAfter DEF StuckInv, Ordered, AllOwed, AskedOnce
<1> QED
  BY <1>1, StuckBetween, StuckPacket, StuckStart, StuckRelease, StuckMove,
     StuckOwn, StuckRead DEF DriverNext

(* It holds in every reachable state.                                      *)
LEMMA StuckInvariance ==
  ASSUME PromptTimers PROVE DriverSpec => []StuckInv
<1>1. /\ StuckInv /\ DriverInv /\ DriverInv' /\ PP!Inv /\ PP!Inv'
      /\ [DriverNext]_driverVars
      => StuckInv'
  BY StuckStep
<1> QED
  BY <1>1, StuckInit, DriverInvariance, StageInvariance, PTL DEF DriverSpec

(* Where timers are prompt, no button stays down that nobody will release: *)
(* that the pad reports, of a scheduled release and of a drag that runs, X *)
(* holds no other button between packets, whatever the gestures press,     *)
(* lift, cancel and schedule (post-stage.c, drag.c, tap.c).                *)
THEOREM NothingSticks ==
  ASSUME PromptTimers PROVE DriverSpec => []NoStuckButton
<1>1. StuckInv /\ DriverInv /\ PP!Inv => NoStuckButton
  <2> SUFFICES ASSUME StuckInv, DriverInv, PP!Inv, phase = "idle",
                      NEW b \in pressed
               PROVE  \/ b \in pad
                      \/ isDefering /\ b \in deferButton
                      \/ b = DragButton /\ held
    BY DEF NoStuckButton, Between
  <2>1. lastButton \subseteq pad
    BY DEF PP!Inv, PP!PhysicalInv
  <2> QED BY <2>1, IdleOwed
<1> QED BY <1>1, StuckInvariance, DriverInvariance, StageInvariance, PTL

-----------------------------------------------------------------------------
(* What is dragged is not let go of.                                       *)

(* What a packet can ask for without releasing the drag's button.          *)
Spares(a) == Plain(a) \/ Pressing(a) \/ Cancelling(a)

(* The button is pressed again behind every action that may release it.    *)
PressedAgain(s) ==
  \A i \in 1..Len(s) :
    Spares(s[i]) \/ \E j \in (i + 1)..Len(s) : Pressing(s[j])

(* The pad's own release of the button would end the drag.                 *)
NoPadDrags == \A buttons \in Pads : DragButton \notin buttons

DragInv ==
  /\ DragButton \notin pad
  /\ DragButton \notin lastButton
  /\ held => PressedAgain(Script)

(* What remains once the first action is read.                             *)
LEMMA PressedTail ==
  ASSUME NEW s \in Seq(ActionType), s # <<>>, PressedAgain(s)
  PROVE  PressedAgain(Tail(s))
<1> DEFINE t == Tail(s)
<1>1. /\ Len(s) \in Nat /\ Len(t) \in Nat /\ Len(s) = Len(t) + 1
      /\ \A i \in 1..Len(t) : t[i] = s[i + 1]
  OBVIOUS
<1> HIDE DEF t
<1>2. ASSUME NEW i \in 1..Len(t), ~Spares(t[i])
      PROVE  \E j \in (i + 1)..Len(t) : Pressing(t[j])
  <2>1. i + 1 \in 1..Len(s) /\ ~Spares(s[i + 1])
    BY <1>1, <1>2
  <2>2. PICK j \in ((i + 1) + 1)..Len(s) : Pressing(s[j])
    BY <2>1 DEF PressedAgain
  <2>3. j - 1 \in (i + 1)..Len(t) /\ j - 1 \in 1..Len(t) /\ (j - 1) + 1 = j
    BY <1>1
  <2>4. Pressing(t[j - 1])
    BY <1>1, <2>2, <2>3
  <2> QED BY <2>3, <2>4
<1> QED BY <1>2 DEF PressedAgain, t

(* What a call queues behind what is there.                                *)
LEMMA PressedLonger ==
  ASSUME NEW s \in Seq(ActionType), NEW new \in Seq(ActionType),
         \A i \in 1..Len(new) : Spares(new[i]),
         PressedAgain(s) \/ \E j \in 1..Len(new) : Pressing(new[j])
  PROVE  PressedAgain(s \o new)
<1> DEFINE z == s \o new
           n == Len(s)
<1>1. /\ Len(z) = n + Len(new) /\ n \in Nat /\ Len(new) \in Nat
      /\ \A i \in 1..n : z[i] = s[i]
      /\ \A i \in 1..Len(new) : z[n + i] = new[i]
  OBVIOUS
<1> HIDE DEF z, n
<1>2. ASSUME NEW i \in 1..Len(z), ~Spares(z[i])
      PROVE  \E j \in (i + 1)..Len(z) : Pressing(z[j])
  <2>1. i \in 1..n
    <3> SUFFICES ASSUME i \notin 1..n PROVE FALSE
      OBVIOUS
    <3>1. i - n \in 1..Len(new) /\ i = n + (i - n)
      BY <1>1
    <3> QED BY <1>1, <1>2, <3>1
  <2>2. ~Spares(s[i])
    BY <1>1, <1>2, <2>1
  <2>3. CASE PressedAgain(s)
    <3>1. PICK j \in (i + 1)..n : Pressing(s[j])
      BY <2>1, <2>2, <2>3 DEF PressedAgain, n
    <3>2. j \in (i + 1)..Len(z) /\ j \in 1..n
      BY <1>1, <2>1
    <3> QED BY <1>1, <3>1, <3>2
  <2>4. CASE \E j \in 1..Len(new) : Pressing(new[j])
    <3>1. PICK j \in 1..Len(new) : Pressing(new[j])
      BY <2>4
    <3>2. n + j \in (i + 1)..Len(z) /\ Pressing(z[n + j])
      BY <1>1, <2>1, <3>1
    <3> QED BY <3>2
  <2> QED BY <2>3, <2>4
<1> QED BY <1>2 DEF PressedAgain, z

(* A drag that moves keeps its button pressed, or presses it.              *)
LEMMA MovesSpare ==
  ASSUME DriverInv, DriverInv', MoveCall, held',
         ~(gm'.out = <<>> /\ gm'.hold = gm.hold)
  PROVE  /\ \A i \in 1..Len(gm'.out) : Spares(gm'.out[i].action)
         /\ held \/ \E i \in 1..Len(gm'.out) : Pressing(gm'.out[i].action)
<1>1. PICK idx \in cursor..(fingers - old), sample \in Moves :
        Dispatch!Moved(idx) /\ Move(idx, sample)
  BY DEF MoveCall
<1>2. /\ IInv /\ IInv' /\ cursor \in Nat /\ fingers \in Nat
      /\ old \in 0..fingers /\ old > 0
  BY <1>1, BoundsAssumption
     DEF DriverInv, IInv, TypeOK, CallsInv, Dispatch!Moved
<1>3. idx \in 0..(fingers - 1) /\ sample \in Samples
  BY <1>2, MovesAssumption
<1>4. Talks(Calling, gm', idx)
  BY <1>1, <1>2, <1>3, MoveSafe
<1>5. /\ Calling.hold = gm.hold /\ Calling.state = gm.state
      /\ Calling.accepted = gm.accepted
  BY <1>2, CallingPhase
<1>6. PICK b : /\ Speaks(b, gm')
               /\ b.accepted = "drag" =>
                    gm.state = "UPDATING" /\ gm.accepted = "drag"
  BY <1>4, <1>5 DEF Talks
<1>7. gm'.accepted = "drag"
  BY <1>2 DEF IInv, DragWillRelease
<1>8. b.accepted = "drag" => held
  BY <1>2, <1>6 DEF IInv, DragHeld
<1> QED BY <1>6, <1>7, <1>8 DEF Speaks, Spares, Nobody

LEMMA DragInit ==
  DriverInit => DragInv
BY DEF DriverInit, DragInv, Init, P!Init

LEMMA DragStep ==
  ASSUME NoPadDrags, DragInv, DriverInv, DriverInv', PP!Inv, PP!Inv',
         [DriverNext]_driverVars
  PROVE  DragInv'
<1>0. IInv /\ HeardInv /\ IInv' /\ HeardInv'
  BY DEF DriverInv
<1>1. ASSUME UNCHANGED stage, gm.out = <<>>, Call(gm'), gm'.out = <<>>
      PROVE  DragInv'
  <2>1. ~ \E e \in ToSet(gm'.out) : TRUE
    BY <1>1, ListFacts
  <2>2. held' = held
    BY <1>0, <1>1, <2>1 DEF Call, IInv, TypeOK
  <2>3. Script' = Script
    BY <1>1 DEF Script, stage
  <2> QED BY <1>1, <2>2, <2>3 DEF DragInv, stage, PressedAgain
<1>2. ASSUME UNCHANGED stage, ~held' PROVE DragInv'
  BY <1>2 DEF DragInv, stage
<1>3. CASE UNCHANGED driverVars
  <2>1. UNCHANGED <<gm, held, queue, lastButton, pad>>
    BY <1>3 DEF driverVars, manager, stage
  <2>2. Script' = Script
    BY <2>1 DEF Script
  <2> QED BY <2>1, <2>2 DEF DragInv, PressedAgain
<1>4. ASSUME phase' = "idle", DragButton \notin lastButton', pad' = pad
      PROVE  DragInv'
  <2>1. gm'.out = <<>> /\ queue' = <<>>
    BY <1>4 DEF DriverInv, CallsInv, PP!Inv, PP!QueueInv
  <2>2. Script' = <<>>
    <3>1. <<>> \in Seq(ActionType)
      OBVIOUS
    <3> QED BY <2>1, <3>1, QueueOnly DEF Script
  <2>3. PressedAgain(Script')
    BY <2>2, ListFacts DEF PressedAgain
  <2> QED BY <1>4, <2>3 DEF DragInv, PressedAgain
<1>5. CASE Open \/ Close \/ DeferFires \/ SlideTick \/ StrayTick \/ HoldOver
  <2>1. phase' = "idle"
    BY <1>0, <1>5
       DEF Open, Close, DeferFires, SlideTick, StrayTick, HoldOver, P!Open,
           P!Close, P!DeferFires, P!SlideTick, P!StrayTick, P!Tick, P!input,
           Between, stage, HeardInv
  <2>2. pad' = pad /\ (lastButton' = lastButton \/ lastButton' = {})
    BY <1>5
       DEF Open, Close, DeferFires, SlideTick, StrayTick, HoldOver, P!Open,
           P!Close, P!DeferFires, P!SlideTick, P!StrayTick, P!Tick, P!input,
           stage
  <2> QED BY <1>4, <2>1, <2>2 DEF DragInv
<1>6. CASE Packet
  <2>1. PICK buttons \in Pads :
          /\ pad' = buttons
          /\ queue' = Append(queue, PhysicalButton(buttons))
          /\ PhysicalUpdate(buttons)
    BY <1>6 DEF Packet, P!Packet, P!PhysicalButton, PhysicalButton, P!Zeroed,
                Zeroed
  <2>2. phase = "idle" /\ lastButton' = lastButton
    BY <1>6 DEF Packet, P!Packet
  <2>3. gm'.out = <<>>
    <3>1. gm' = [Calling EXCEPT !.physical = buttons]
      BY <2>1 DEF PhysicalUpdate, Call
    <3>2. Calling \in Managers /\ Calling.out = <<>>
      BY <1>0, CallingPhase DEF Sane
    <3> QED BY <3>1, <3>2 DEF Managers
  <2>4. queue = <<>>
    BY <2>2, StageFacts
  <2> DEFINE a == PhysicalButton(buttons)
  <2>5. Plain(a)
    BY DEF Plain, PhysicalButton, Zeroed
  <2> HIDE DEF a
  <2>6. queue' = <<a>>
    BY <2>1, <2>4 DEF a
  <2>7. queue' \in Seq(ActionType)
    <3>1. PP!ActionType = ActionType
      BY DEF PP!ActionType, ActionType, PP!DeferOps, DeferOps
    <3> QED BY <3>1 DEF PP!Inv, PP!TypeOK, PP!DataOK
  <2>8. Script' = <<a>>
    <3>1. queue' \o Actions(<<>>) = queue'
      BY <2>7, QueueOnly
    <3> QED BY <2>3, <2>6, <3>1 DEF Script
  <2>9. PressedAgain(Script')
    BY <2>5, <2>8 DEF PressedAgain, Spares
  <2> QED BY <2>1, <2>2, <2>9 DEF DragInv, NoPadDrags, PressedAgain
<1>7. CASE StartCall
  <2>1. /\ UNCHANGED stage /\ gm.out = <<>> /\ Land
    BY <1>7 DEF StartCall, Dispatching
  <2>2. gm'.state # "UPDATING"
    BY <1>0, <2>1, LandSafe DEF Ends
  <2>3. ~held'
    BY <1>0, <2>2 DEF IInv, DragWillRelease
  <2> QED BY <1>2, <2>1, <2>3
<1>8. CASE ReleaseCall
  <2>1. /\ UNCHANGED stage /\ gm.out = <<>> /\ Lift
    BY <1>8 DEF ReleaseCall, Dispatching
  <2>2. gm'.state # "UPDATING"
    BY <1>0, <2>1, LiftSafe DEF Ends
  <2>3. ~held'
    BY <1>0, <2>2 DEF IInv, DragWillRelease
  <2> QED BY <1>2, <2>1, <2>3
<1>9. CASE MoveCall
  <2>1. UNCHANGED stage /\ gm.out = <<>>
    BY <1>9 DEF MoveCall, Dispatching
  <2>2. Call(gm')
    BY <1>9 DEF MoveCall, Move, Call
  <2>3. CASE gm'.out = <<>>
    BY <1>1, <2>1, <2>2, <2>3
  <2>4. CASE gm'.out # <<>> /\ held'
    <3> DEFINE new == Actions(gm'.out)
    <3>1. /\ \A i \in 1..Len(gm'.out) : Spares(gm'.out[i].action)
          /\ held \/ \E i \in 1..Len(gm'.out) : Pressing(gm'.out[i].action)
      BY <1>9, <2>4, MovesSpare
    <3>2. /\ new \in Seq(ActionType)
          /\ Len(new) = Len(gm'.out)
          /\ \A i \in 1..Len(gm'.out) : new[i] = gm'.out[i].action
      <4>1. gm'.out \in Seq(Entries)
        BY <1>0 DEF IInv, TypeOK, Managers
      <4> QED BY <4>1, ActionsType
    <3> HIDE DEF new
    <3>3. Script = queue /\ Script \in Seq(ActionType)
      BY <2>1, ScriptType
    <3>4. Script' = Script \o new
      BY <2>1, <3>3 DEF Script, stage, new
    <3>5. PressedAgain(Script) \/ \E j \in 1..Len(new) : Pressing(new[j])
      BY <3>1, <3>2 DEF DragInv
    <3>6. PressedAgain(Script \o new)
      BY <3>1, <3>2, <3>3, <3>5, PressedLonger
    <3>7. PressedAgain(Script')
      BY <3>4, <3>6
    <3> QED BY <2>1, <3>7 DEF DragInv, stage, PressedAgain
  <2> QED BY <1>2, <2>1, <2>3, <2>4
<1>10. CASE Own
  <2>1. gm.out # <<>> /\ gm.out \in Seq(Entries) /\ queue \in Seq(ActionType)
    BY <1>10, ScriptType DEF Own
  <2>2. /\ queue' = Append(queue, Head(gm.out).action)
        /\ gm' = [gm EXCEPT !.out = Tail(gm.out)]
        /\ UNCHANGED <<held, pad, lastButton>>
    BY <1>10 DEF Own, P!Own
  <2>3. gm'.out = Tail(gm.out)
    BY <1>0, <2>2 DEF IInv, TypeOK, Managers
  <2>4. Script' = Script
    BY <2>1, <2>2, <2>3, HandOver DEF Script
  <2> QED BY <2>2, <2>4 DEF DragInv, PressedAgain
<1>11. CASE Read
  <2>1. /\ gm.out = <<>> /\ Script = queue /\ queue \in Seq(ActionType)
        /\ queue # <<>>
    BY <1>11, ScriptType, StageFacts DEF Read, P!Read
  <2>2. held' = held /\ gm'.out = <<>>
    BY <1>0, <1>11, <2>1, HeardKeeps, HeardTells DEF Read, Up, HeardInv
  <2>3. /\ queue' = Tail(queue) /\ lastButton' = Head(queue).physical
        /\ pad' = pad
    BY <1>11 DEF Read, P!Read
  <2>4. Tail(queue) \in Seq(ActionType) /\ Head(queue) = queue[1]
        /\ 1 \in 1..Len(queue)
    BY <2>1
  <2>5. Script' = Tail(queue)
    <3>1. Tail(queue) \o Actions(<<>>) = Tail(queue)
      BY <2>4, QueueOnly
    <3> QED BY <2>2, <2>3, <3>1 DEF Script
  <2>6. held => PressedAgain(Script')
    BY <2>1, <2>5, PressedTail DEF DragInv
  <2>7. Head(queue).physical \subseteq pad
    BY <2>4 DEF PP!Inv, PP!QueueInv
  <2> QED BY <2>2, <2>3, <2>6, <2>7 DEF DragInv, PressedAgain
<1> QED
  BY <1>3, <1>5, <1>6, <1>7, <1>8, <1>9, <1>10, <1>11 DEF DriverNext

(* A drag that is taken up again keeps what it drags: as long as it runs   *)
(* and its press was read, only the timer of the drag before it lets the   *)
(* button go, on pads that do not press that button themselves             *)
(* (drag.c, post-stage.c:196).                                             *)
THEOREM DragKeepsButton ==
  ASSUME NoPadDrags PROVE DriverSpec => DragGoesOn
<1>1. DriverInv /\ PP!Inv /\ DragInv /\ [DriverNext]_driverVars =>
        [ /\ held /\ held'
          /\ \A i \in 1..Len(queue) : DragButton \notin queue[i].down
          /\ DragButton \in pressed \ pressed'
          => DeferFires \/ Close ]_driverVars
  <2> SUFFICES ASSUME DriverInv, PP!Inv, DragInv, DriverNext, held,
                      \A i \in 1..Len(queue) : DragButton \notin queue[i].down,
                      DragButton \in pressed, DragButton \notin pressed',
                      ~DeferFires, ~Close
               PROVE  FALSE
    OBVIOUS
  <2>1. Read
    BY DEF DriverNext, Open, Packet, StartCall, ReleaseCall, MoveCall, Own,
           SlideTick, StrayTick, HoldOver, P!Open, P!Packet, P!Own,
           P!SlideTick, P!StrayTick, P!Tick, stage
  <2> DEFINE a == Head(queue)
  <2>2. /\ Script = queue /\ queue \in Seq(ActionType) /\ queue # <<>>
        /\ a = queue[1] /\ 1 \in 1..Len(queue)
    BY <2>1, ScriptType, StageFacts DEF Read, P!Read
  <2>3. Spares(a)
    <3>1. ASSUME NEW j \in 2..Len(queue) PROVE ~Pressing(queue[j])
      <4>1. j \in 1..Len(queue)
        OBVIOUS
      <4> QED BY <4>1 DEF Pressing
    <3>2. (1 + 1) = 2
      OBVIOUS
    <3> QED BY <2>2, <3>1, <3>2 DEF DragInv, PressedAgain
  <2> HIDE DEF a
  <2>4. a.up = {} /\ a.defer # "NEW" /\ a.defer # "TRIGGER" /\ a.defer # "DELAY"
    BY <2>3 DEF Spares, Plain, Pressing, Cancelling
  <2>5. pressed' = P!AfterButtons(a)
    <3>1. P!DeferNone(a) \/ P!DeferCancel(a)
      BY <2>1, <2>4
      DEF Read, P!Read, P!DeferNew, P!DeferTrigger, P!DeferDelay, a
    <3> QED BY <3>1 DEF P!DeferNone, P!DeferCancel
  <2> QED BY <2>4, <2>5 DEF P!AfterButtons, DragInv
<1>2. DriverInv /\ DriverInv' /\ PP!Inv /\ PP!Inv' /\ DragInv
      /\ [DriverNext]_driverVars => DragInv'
  BY DragStep
<1> QED
  BY <1>1, <1>2, DragInit, DriverInvariance, StageInvariance, PTL
  DEF DriverSpec, DragGoesOn

-----------------------------------------------------------------------------
(* A tap clicks before its packet is drained, on a pad without buttons.    *)

(* The script presses b before any other button, and lifts it before that  *)
(* if it is down.                                                          *)
Due(s, b, down) ==
  \E i \in 1..Len(s) :
    /\ b \in s[i].down
    /\ \A j \in 1..(i - 1) : s[j].down = {}
    /\ down => \E j \in 1..(i - 1) : b \in s[j].up

TapInv ==
  /\ Unpressed(gm)
  /\ pad = {}
  /\ lastButton = {}
  /\ \A b \in owed : Due(Script, b, b \in pressed)

(* What a call queues behind a press that is due does not delay it.        *)
LEMMA DueLonger ==
  ASSUME NEW s \in Seq(ActionType), NEW new \in Seq(ActionType),
         NEW b, NEW down, Due(s, b, down)
  PROVE  Due(s \o new, b, down)
<1> DEFINE z == s \o new
<1>1. /\ Len(s) \in Nat /\ Len(new) \in Nat
      /\ Len(z) = Len(s) + Len(new)
      /\ \A i \in 1..Len(s) : z[i] = s[i]
  BY Joined
<1> HIDE DEF z
<1>2. PICK i \in 1..Len(s) :
        /\ b \in s[i].down
        /\ \A j \in 1..(i - 1) : s[j].down = {}
        /\ down => \E j \in 1..(i - 1) : b \in s[j].up
  BY DEF Due
<1>3. i \in 1..Len(z) /\ z[i] = s[i] /\ \A j \in 1..(i - 1) : z[j] = s[j]
  BY <1>1
<1>4. /\ b \in z[i].down
      /\ \A j \in 1..(i - 1) : z[j].down = {}
      /\ down => \E j \in 1..(i - 1) : b \in z[j].up
  BY <1>2, <1>3
<1> QED BY <1>3, <1>4 DEF Due, z

(* The action that is read is the press, or lifts the button, or is none of*)
(* its business.                                                           *)
LEMMA DueTail ==
  ASSUME NEW s \in Seq(ActionType), s # <<>>,
         NEW b, NEW down, Due(s, b, down),
         NEW after, after => down /\ b \notin Head(s).up
  PROVE  \/ b \in Head(s).down /\ ~down
         \/ Head(s).down = {} /\ Due(Tail(s), b, after)
<1> DEFINE t == Tail(s)
<1>1. /\ Head(s) = s[1] /\ Len(t) \in Nat /\ Len(s) = Len(t) + 1
      /\ \A i \in 1..Len(t) : t[i] = s[i + 1]
  OBVIOUS
<1>2. PICK i \in 1..Len(s) :
        /\ b \in s[i].down
        /\ \A j \in 1..(i - 1) : s[j].down = {}
        /\ down => \E j \in 1..(i - 1) : b \in s[j].up
  BY DEF Due
<1> HIDE DEF t
<1>3. CASE i = 1
  <2>1. ~ \E j \in 1..(i - 1) : TRUE
    BY <1>3
  <2> QED BY <1>1, <1>2, <1>3, <2>1
<1>4. CASE i # 1
  <2>1. i \in Nat /\ i - 1 \in 1..Len(t) /\ (i - 1) + 1 = i
    BY <1>1, <1>4
  <2>2. 1 \in 1..(i - 1)
    BY <2>1
  <2>3. Head(s).down = {}
    BY <1>1, <1>2, <2>2
  <2>4. b \in t[i - 1].down
    BY <1>1, <1>2, <2>1
  <2>5. ASSUME NEW j \in 1..((i - 1) - 1) PROVE t[j].down = {}
    <3>1. j \in 1..Len(t) /\ j + 1 \in 1..(i - 1)
      BY <1>1, <2>1
    <3> QED BY <1>1, <1>2, <3>1
  <2>6. ASSUME after PROVE \E j \in 1..((i - 1) - 1) : b \in t[j].up
    <3>1. PICK j \in 1..(i - 1) : b \in s[j].up
      BY <1>2, <2>6
    <3>2. j # 1
      BY <1>1, <2>6, <3>1
    <3>3. /\ j - 1 \in 1..((i - 1) - 1) /\ j - 1 \in 1..Len(t)
          /\ (j - 1) + 1 = j
      BY <1>1, <2>1, <3>2
    <3>4. b \in t[j - 1].up
      BY <1>1, <3>1, <3>3
    <3> QED BY <3>3, <3>4
  <2>7. Due(t, b, after)
    BY <2>1, <2>4, <2>5, <2>6 DEF Due
  <2> QED BY <2>3, <2>7 DEF t
<1> QED BY <1>3, <1>4

(* A click behind a packet that pressed nothing is due; if its button is   *)
(* down, the drag that held it is quelled before.                          *)
LEMMA DueClick ==
  ASSUME NEW s \in Seq(ActionType), AllPlain(s),
         NEW q \in Seq(Entries), NEW e \in Entries,
         Quelled(Actions(q), TRUE),
         NEW b, e.action.down = {b},
         NEW down,
         down => /\ b = DragButton
                 /\ \E i \in 1..Len(q) : Cancelling(q[i].action)
  PROVE  Due(s \o Actions(Append(q, e)), b, down)
<1> DEFINE u == Actions(q)
           v == Actions(Append(q, e))
           z == s \o v
           k == Len(s) + (Len(q) + 1)
<1>1. /\ Append(q, e) \in Seq(Entries) /\ Len(q) \in Nat /\ Len(s) \in Nat
      /\ Len(Append(q, e)) = Len(q) + 1
      /\ \A i \in 1..Len(q) : Append(q, e)[i] = q[i]
      /\ Append(q, e)[Len(q) + 1] = e
  OBVIOUS
<1>2. /\ Len(u) = Len(q) /\ Len(v) = Len(q) + 1
      /\ v \in Seq(ActionType)
      /\ \A i \in 1..Len(q) : u[i] = q[i].action
      /\ \A i \in 1..(Len(q) + 1) : v[i] = Append(q, e)[i].action
  BY <1>1, ActionsType
<1>3. v[Len(q) + 1].down = {b} /\ \A i \in 1..Len(q) : v[i] = u[i]
  BY <1>1, <1>2
<1> HIDE DEF u, v
<1>4. /\ Len(z) = Len(s) + Len(v)
      /\ \A i \in 1..Len(s) : z[i] = s[i]
      /\ \A i \in 1..Len(v) : z[Len(s) + i] = v[i]
  BY <1>2, Joined
<1> HIDE DEF z
<1>5. /\ k \in 1..Len(z)
      /\ b \in z[k].down
  BY <1>1, <1>2, <1>3, <1>4
<1>6. ASSUME NEW j \in 1..(k - 1) PROVE z[j].down = {}
  <2>1. CASE j \in 1..Len(s)
    BY <1>4, <2>1 DEF AllPlain, Plain
  <2>2. CASE j \notin 1..Len(s)
    <3>1. j - Len(s) \in 1..Len(q) /\ j = Len(s) + (j - Len(s))
      BY <1>1, <2>2
    <3>2. j - Len(s) \in 1..Len(v)
      BY <1>1, <1>2, <3>1
    <3>3. z[j] = u[j - Len(s)]
      BY <1>3, <1>4, <3>1, <3>2
    <3>4. u[j - Len(s)].down = {}
      BY <1>2, <3>1 DEF Quelled, Plain, Lifting, Cancelling, u
    <3> QED BY <3>3, <3>4
  <2> QED BY <2>1, <2>2
<1>7. ASSUME down PROVE \E j \in 1..(k - 1) : b \in z[j].up
  <2>1. PICK i \in 1..Len(q) : Cancelling(u[i])
    BY <1>2, <1>7
  <2>2. i > 1 /\ Lifting(u[i - 1])
    BY <1>2, <2>1, KindsApart DEF Quelled, u
  <2>3. i - 1 \in 1..Len(q) /\ i - 1 \in 1..Len(v)
    BY <1>1, <1>2, <2>2
  <2>4. Len(s) + (i - 1) \in 1..(k - 1)
    BY <1>1, <2>3
  <2>5. z[Len(s) + (i - 1)] = u[i - 1]
    BY <1>3, <1>4, <2>3
  <2>6. b \in z[Len(s) + (i - 1)].up
    BY <1>7, <2>2, <2>5 DEF Lifting
  <2> QED BY <2>4, <2>6
<1> HIDE DEF k
<1>8. Due(z, b, down)
  BY <1>5, <1>6, <1>7 DEF Due
<1> QED BY <1>8 DEF z, v

(* Nothing is due between packets.                                         *)
LEMMA IdleTaps ==
  ASSUME TapInv, DriverInv, PP!Inv, phase = "idle"
  PROVE  owed = {}
<1>1. gm.out = <<>> /\ queue = <<>>
  BY StageFacts DEF DriverInv, CallsInv
<1>2. Len(Script) = 0
  BY <1>1, ScriptType
<1> QED BY <1>2 DEF TapInv, Due

(* The tap that a release ends clicks: its button is up, or it is that of a*)
(* drag whose release is pending, which the click lifts first.             *)
LEMMA ReleaseDue ==
  ASSUME TapInv, StuckInv, DriverInv, DriverInv', PP!Inv,
         PromptTimers, ReleaseCall, NEW b \in Tapped
  PROVE  Due(Script', b, b \in pressed)
<1>1. /\ phase = "gestures" /\ gm.out = <<>> /\ Spaced /\ UNCHANGED stage
      /\ cursor = 0 /\ old > 0 /\ Lift
  BY DEF ReleaseCall, Dispatching, Dispatch!Released
<1>2. IInv /\ fingers \in Nat /\ old \in 0..fingers
  BY BoundsAssumption DEF DriverInv, IInv, TypeOK, CallsInv
<1>3. PICK t \in Taps : /\ b = TapButton[t]
                        /\ gm.state = "WAITING"
                        /\ gm.maxTouches = RequiredTouches[t]
                        /\ fingers = 1
  BY DEF Tapped
<1>4. gm.essential = {}
  BY DEF TapInv, Unpressed
<1>5. ClicksOf(Calling, gm', t)
  BY <1>1, <1>2, <1>3, <1>4, LiftSafe
<1>6. PICK q \in Seq(Entries), e \in Entries :
        /\ gm'.out = Append(q, e)
        /\ e.action.down = {TapButton[t]}
        /\ Quelled(Actions(q), TRUE)
        /\ Calling.hold = "open" =>
             \E i \in 1..Len(q) : Cancelling(q[i].action)
  BY <1>5 DEF ClicksOf
<1>7. AllPlain(Script)
  BY <1>1, <1>2, <1>3 DEF StuckInv, AskedOnce
<1>8. ASSUME b \in pressed
      PROVE  /\ b = DragButton
             /\ \E i \in 1..Len(q) : Cancelling(q[i].action)
  <2>1. OfDrag /\ (isDefering => gm.hold = "open")
    BY <1>1, <1>7, PendingOfDrag
  <2>2. ~held
    BY <1>2, <1>3 DEF IInv, DragWillRelease
  <2>3. ~ReleaseAsked(Script)
    BY <1>7, KindsApart DEF AllPlain, ReleaseAsked
  <2>4. isDefering /\ b \in deferButton
    BY <1>8, <2>2, <2>3 DEF StuckInv, AllOwed, TapInv
  <2>5. b = DragButton
    BY <2>1, <2>4 DEF OfDrag
  <2>6. Calling.hold = "open"
    BY <1>2, <2>1, <2>4, CallingPhase
  <2> QED BY <1>6, <2>5, <2>6
<1>9. Script = queue /\ Script \in Seq(ActionType)
  BY <1>1, ScriptType
<1>10. Script' = Script \o Actions(Append(q, e))
  BY <1>1, <1>6, <1>9 DEF Script, stage
<1>11. Due(Script \o Actions(Append(q, e)), b, b \in pressed)
  BY <1>3, <1>6, <1>7, <1>8, <1>9, DueClick
<1> QED BY <1>10, <1>11

(* No gesture knows of a physical button.                                  *)
LEMMA NeverPressed ==
  ASSUME NoPadButtons, Unpressed(gm), DriverInv, [DriverNext]_driverVars
  PROVE  Unpressed(gm')
<1>0. IInv
  BY DEF DriverInv
<1>1. CASE UNCHANGED gm
  BY <1>1
<1>2. ASSUME Heard \/ TickHeard PROVE Unpressed(gm')
  BY <1>0, <1>2, HandlersUnpressed DEF Heard, TickHeard, NotFound, manager
<1>3. CASE Packet
  <2>1. PICK buttons \in Pads : PhysicalUpdate(buttons)
    BY <1>3 DEF Packet
  <2>2. buttons = {}
    BY DEF NoPadButtons
  <2> QED BY <1>0, <2>1, <2>2, HandlersUnpressed
<1>4. CASE Own
  <2>1. gm' = [gm EXCEPT !.out = Tail(gm.out)] /\ gm \in Managers
    BY <1>0, <1>4 DEF Own, IInv, TypeOK
  <2>2. /\ DOMAIN gm' = DOMAIN gm
        /\ gm'.post = gm.post /\ gm'.list = gm.list
        /\ gm'.accepted = gm.accepted /\ gm'.physical = gm.physical
        /\ gm'.essential = gm.essential
    BY <2>1 DEF Managers
  <2> QED BY <2>2, UnpressedLike
<1>5. CASE Open
  BY <1>5, FreshUnpressed DEF Open, Reopen
<1>6. CASE StartCall
  BY <1>0, <1>6, HandlersUnpressed DEF StartCall
<1>7. CASE ReleaseCall
  BY <1>0, <1>7, HandlersUnpressed DEF ReleaseCall
<1>8. CASE MoveCall
  <2>1. PICK idx \in cursor..(fingers - old), sample \in Moves :
          Move(idx, sample)
    BY <1>8 DEF MoveCall
  <2> QED BY <1>0, <2>1, HandlersUnpressed
<1>9. CASE HoldOver
  BY <1>0, <1>9, HandlersUnpressed DEF HoldOver
<1>10. CASE Read \/ SlideTick \/ StrayTick
  BY <1>2, <1>10 DEF Read, SlideTick, StrayTick
<1>11. CASE Close \/ DeferFires
  BY <1>1, <1>11 DEF Close, DeferFires, manager
<1>12. CASE UNCHANGED driverVars
  BY <1>1, <1>12 DEF driverVars, manager
<1> QED
  BY <1>3, <1>4, <1>5, <1>6, <1>7, <1>8, <1>9, <1>10, <1>11, <1>12
  DEF DriverNext

(* Nor does an action carry one.                                           *)
LEMMA PadStaysBare ==
  ASSUME NoPadButtons, pad = {}, lastButton = {}, PP!Inv,
         [DriverNext]_driverVars
  PROVE  pad' = {} /\ lastButton' = {}
<1>1. CASE Packet
  <2>1. pad' \in Pads /\ lastButton' = lastButton
    BY <1>1 DEF Packet, P!Packet
  <2> QED BY <2>1 DEF NoPadButtons
<1>2. CASE Read
  <2>1. queue # <<>> /\ lastButton' = Head(queue).physical /\ pad' = pad
    BY <1>2, StageFacts DEF Read, P!Read
  <2>2. queue \in Seq(ActionType)
    BY StageFacts
  <2>3. Head(queue).physical \subseteq pad
    BY <2>1, <2>2 DEF PP!Inv, PP!QueueInv
  <2> QED BY <2>1, <2>3
<1>3. CASE ~Packet /\ ~Read
  <2>1. pad' = pad /\ (lastButton' = lastButton \/ lastButton' = {})
    BY <1>3
       DEF DriverNext, driverVars, Open, Close, DeferFires, SlideTick,
           StrayTick, HoldOver, StartCall, ReleaseCall, MoveCall, Own,
           P!Open, P!Close, P!DeferFires, P!SlideTick, P!StrayTick, P!Tick,
           P!Own, P!input, P!session, stage
  <2> QED BY <2>1
<1> QED BY <1>1, <1>2, <1>3

(* What is read presses the button that is due, or brings it nearer.       *)
LEMMA TapRead ==
  ASSUME TapInv, DriverInv, DriverInv', PP!Inv, Read, NEW b \in owed'
  PROVE  Due(Script', b, b \in pressed')
<1> DEFINE a == Head(queue)
<1>1. /\ gm.out = <<>> /\ Script = queue /\ queue \in Seq(ActionType)
      /\ queue # <<>>
  BY ScriptType, StageFacts DEF Read, P!Read
<1>2. gm'.out = <<>>
  <2>1. IInv /\ HeardInv /\ Heard /\ ~aborted /\ alt' \in BOOLEAN
    BY DEF Read, Up, DriverInv, HeardInv
  <2> QED BY <1>1, <2>1, HeardTells
<1>3. queue' = Tail(queue) /\ Tail(queue) \in Seq(ActionType)
  BY <1>1 DEF Read, P!Read
<1>4. Script' = Tail(queue)
  <2>1. Tail(queue) \o Actions(<<>>) = Tail(queue)
    BY <1>3, QueueOnly
  <2> QED BY <1>2, <1>3, <2>1 DEF Script
<1>5. pressed' \subseteq P!AfterButtons(a)
  <2>1. \/ P!DeferNone(a) \/ P!DeferNew(a) \/ P!DeferCancel(a)
        \/ P!DeferTrigger(a) \/ P!DeferDelay(a)
    BY DEF Read, P!Read
  <2> HIDE DEF a
  <2> QED
    BY <2>1 DEF P!DeferNone, P!DeferNew, P!DeferCancel, P!DeferTrigger,
                P!DeferDelay
<1>6. a.physical = {}
  <2>1. a = queue[1] /\ 1 \in 1..Len(queue)
    BY <1>1
  <2> QED BY <2>1 DEF PP!Inv, PP!QueueInv, TapInv
<1>7. b \in owed /\ ~(b \in a.down /\ b \notin pressed)
  BY DEF Read
<1>8. Due(queue, b, b \in pressed)
  BY <1>1, <1>7 DEF TapInv
<1>9. a.down = {} => (b \in pressed' => b \in pressed /\ b \notin a.up)
  BY <1>5, <1>6 DEF P!AfterButtons
<1>10. a.down = {}
  <2>1. FALSE => (b \in pressed /\ b \notin a.up)
    OBVIOUS
  <2> QED BY <1>1, <1>7, <1>8, <2>1, DueTail
<1>11. Due(Tail(queue), b, b \in pressed')
  <2>1. b \in pressed' => b \in pressed /\ b \notin a.up
    BY <1>9, <1>10
  <2>2. b \notin a.down
    BY <1>10
  <2> QED BY <1>1, <1>8, <2>1, <2>2, DueTail
<1> QED BY <1>4, <1>11

LEMMA TapStep ==
  ASSUME PromptTimers, NoPadButtons, TapInv, StuckInv,
         DriverInv, DriverInv', PP!Inv, [DriverNext]_driverVars
  PROVE  TapInv'
<1>1. Unpressed(gm') /\ pad' = {} /\ lastButton' = {}
  BY NeverPressed, PadStaysBare DEF TapInv
<1>2. ASSUME NEW b \in owed' PROVE Due(Script', b, b \in pressed')
  <2>1. ASSUME UNCHANGED stage, gm.out = <<>>, b \in owed
        PROVE  Due(Script', b, b \in pressed')
    <3>1. Actions(gm'.out) \in Seq(ActionType)
      <4>1. gm'.out \in Seq(Entries)
        BY DEF DriverInv, IInv, TypeOK, Managers
      <4> QED BY <4>1, ActionsType
    <3>2. Script = queue /\ Script \in Seq(ActionType)
      BY <2>1, ScriptType
    <3>3. Script' = Script \o Actions(gm'.out) /\ pressed' = pressed
      BY <2>1, <3>2 DEF Script, stage
    <3>4. Due(Script, b, b \in pressed)
      BY <2>1 DEF TapInv
    <3>5. Due(Script \o Actions(gm'.out), b, b \in pressed)
      BY <3>1, <3>2, <3>4, DueLonger
    <3> QED BY <3>3, <3>5
  <2>2. ASSUME Script' = Script, pressed' = pressed, owed' = owed
        PROVE  Due(Script', b, b \in pressed')
    BY <2>2 DEF TapInv
  <2>3. CASE Open \/ Close \/ DeferFires \/ SlideTick \/ StrayTick \/ HoldOver
    <3>1. phase = "idle"
      BY <2>3
         DEF Open, Close, DeferFires, SlideTick, StrayTick, HoldOver, P!Open,
             P!Close, P!DeferFires, P!SlideTick, P!StrayTick, P!Tick,
             Between, DriverInv, HeardInv
    <3>2. owed' = owed
      BY <2>3 DEF Open, Close, DeferFires, SlideTick, StrayTick, HoldOver
    <3> QED BY <3>1, <3>2, IdleTaps
  <2>4. CASE Packet
    BY <2>4 DEF Packet
  <2>5. CASE StartCall \/ MoveCall
    BY <2>1, <2>5 DEF StartCall, MoveCall, Dispatching
  <2>6. CASE ReleaseCall
    <3>1. UNCHANGED stage /\ gm.out = <<>> /\ b \in owed \cup Tapped
      BY <2>6 DEF ReleaseCall, Dispatching
    <3>2. CASE b \in owed
      BY <2>1, <3>1, <3>2
    <3>3. CASE b \in Tapped
      <4>1. Due(Script', b, b \in pressed)
        BY <2>6, <3>3, ReleaseDue
      <4> QED BY <3>1, <4>1 DEF stage
    <3> QED BY <3>1, <3>2, <3>3
  <2>7. CASE Own
    <3>1. gm.out # <<>> /\ gm.out \in Seq(Entries) /\ queue \in Seq(ActionType)
      BY <2>7, ScriptType DEF Own
    <3>2. /\ queue' = Append(queue, Head(gm.out).action)
          /\ gm' = [gm EXCEPT !.out = Tail(gm.out)]
          /\ owed' = owed /\ pressed' = pressed
      BY <2>7 DEF Own, P!Own, P!session
    <3>3. gm'.out = Tail(gm.out)
      BY <3>2 DEF DriverInv, IInv, TypeOK, Managers
    <3>4. Script' = Script
      BY <3>1, <3>2, <3>3, HandOver DEF Script
    <3> QED BY <2>2, <3>2, <3>4
  <2>8. CASE Read
    BY <2>8, TapRead
  <2>9. CASE UNCHANGED driverVars
    <3>1. UNCHANGED <<gm, queue, pressed, owed>>
      BY <2>9 DEF driverVars, manager, stage
    <3>2. Script' = Script
      BY <3>1 DEF Script
    <3> QED BY <2>2, <3>1, <3>2
  <2> QED
    BY <2>3, <2>4, <2>5, <2>6, <2>7, <2>8, <2>9 DEF DriverNext
<1>3. \A b \in owed' : Due(Script', b, b \in pressed')
  BY <1>2
<1> QED BY <1>1, <1>3 DEF TapInv, Due

LEMMA TapInit ==
  DriverInit => TapInv
BY FreshUnpressed DEF DriverInit, Init, P!Init, TapInv

(* A tap is a click: where timers are prompt and the pad has no physical   *)
(* buttons, the button of each tap that a packet ends goes down anew       *)
(* before the packet is drained, even where a drag's pending release held  *)
(* it: the call cancels that, lifts the button and presses it, in this     *)
(* order (tap.c, drag.c, post-stage.c:196).                                *)
THEOREM TapsDoClick ==
  ASSUME PromptTimers, NoPadButtons PROVE DriverSpec => []TapsClick
<1>1. /\ TapInv /\ StuckInv /\ DriverInv /\ DriverInv' /\ PP!Inv
      /\ [DriverNext]_driverVars
      => TapInv'
  BY TapStep
<1>2. TapInv /\ DriverInv /\ PP!Inv => TapsClick
  BY IdleTaps DEF TapsClick, Between
<1> QED
  BY <1>1, <1>2, TapInit, StuckInvariance, DriverInvariance, StageInvariance,
     PTL DEF DriverSpec
=============================================================================
