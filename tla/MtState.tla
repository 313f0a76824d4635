------------------------------- MODULE MtState -------------------------------
(***************************************************************************)
(* hwstate.c and mtstate.c: the slots of the kernel's multi-touch protocol *)
(* and the touches extracted from them when a packet is complete.          *)
(*                                                                         *)
(* A slot is written event by event; hwstate_modify may return in the      *)
(* middle of a packet and continue later.  mtstate_extract is one step.    *)
(* Only one coordinate is kept.  The percentages that mtstate.c computes   *)
(* of a finger are its reading: the contact, compared with touch_down and  *)
(* touch_up, and whether it looks like a thumb or a palm.                  *)
(***************************************************************************)
EXTENDS Integers, FiniteSets

CONSTANTS
  NSlots,      \* the slots the pad has (at most DIM_FINGER)
  Ids,         \* tracking ids
  NullId,      \* MT_ID_NULL
  Positions,   \* translated coordinates
  Edge,        \* those touch_which_edge does not find in the middle
  Readings,    \* what a finger may measure
  TouchDown,   \* cfg.touch_down
  TouchUp,     \* cfg.touch_up
  MaskBits     \* the bits of touch_used and the length of the table

ReadingType == [contact : Int, thumb : BOOLEAN, palm : BOOLEAN]

ASSUME SlotsAssumption ==
  /\ NSlots \in Nat \ {0}
  /\ MaskBits \in Nat
  /\ 2 * NSlots <= MaskBits   \* so firstbit(~touch_used) finds a bit
ASSUME IdsAssumption       == NullId \notin Ids
ASSUME PositionsAssumption == Positions \subseteq Int /\ Positions # {}
ASSUME ReadingsAssumption  == Readings \subseteq ReadingType
ASSUME ConfigAssumption    == TouchDown \in Int /\ TouchUp \in Int

Slots == 0..(NSlots - 1)
Bits  == 0..(MaskBits - 1)

VARIABLES
  slot,     \* hs.slot
  finger,   \* hs.data; a slot is in hs.used when its id is not null
  touch,    \* ms.touch, over the indices in ms.touch_used
  evtime    \* hs.evtime, only to tell a packet from the next

vars == <<slot, finger, touch, evtime>>

FingerType ==
  [id : Ids \cup {NullId}, x : Int, reading : ReadingType]

TouchType ==
  [ id:       Ids,
    x:        Int,
    dx:       Int,
    total:    Int,               \* total_dx
    new:      BOOLEAN,           \* MT_NEW
    released: BOOLEAN,           \* MT_RELEASED
    thumb:    BOOLEAN,           \* MT_THUMB
    palm:     BOOLEAN,           \* MT_PALM
    edge:     BOOLEAN,           \* MT_EDGE
    from:     Int,               \* history: where the touch appeared
    trail:    SUBSET Int ]       \* history: where it has been

TypeOK ==
  /\ slot \in Slots
  /\ finger \in [Slots -> FingerType]
  /\ DOMAIN touch \subseteq Bits
  /\ \A i \in DOMAIN touch : touch[i] \in TouchType
  /\ evtime \in {0, 1}

(* hwstate_init zeroes the slots.                                          *)
NoFinger == [id |-> NullId, x |-> 0,
             reading |-> [contact |-> 0, thumb |-> FALSE, palm |-> FALSE]]

NoTouch == [i \in {} |-> NoFinger]

Init ==
  /\ slot = 0
  /\ finger = [s \in Slots |-> NoFinger]
  /\ touch = NoTouch
  /\ evtime = 0

-----------------------------------------------------------------------------
(* read_event: the events of a packet.                                     *)

(* ABS_MT_SLOT                                                             *)
SelectSlot(s) ==
  /\ slot' = s
  /\ UNCHANGED <<finger, touch, evtime>>

Write(f) ==
  /\ finger' = [finger EXCEPT ![slot] = f]
  /\ UNCHANGED <<slot, touch, evtime>>

(* ABS_MT_TRACKING_ID.  The kernel counts ids up and wraps late: a new one *)
(* is neither in a slot nor, still, of a touch.                            *)
Track(id) ==
  /\ id # NullId =>
       /\ \A s \in Slots : finger[s].id # id
       /\ \A i \in DOMAIN touch : touch[i].id # id
  /\ Write([finger[slot] EXCEPT !.id = id])

(* ABS_MT_POSITION_X                                                       *)
Place(x) == Write([finger[slot] EXCEPT !.x = x])

(* ABS_MT_TOUCH_MAJOR and the other measures.                              *)
Measure(reading) == Write([finger[slot] EXCEPT !.reading = reading])

-----------------------------------------------------------------------------
(* SYN_REPORT: touches_clean and touches_update.                           *)

(* Mutant: hs.used is not looked at.                                       *)
UsedAll == Slots

Used == {s \in Slots : finger[s].id # NullId}

IsTouch(f)   == f.reading.contact > TouchDown
IsRelease(f) == f.reading.contact < TouchUp
IsEdge(x)    == x \in Edge

(* Mutant: touches_clean is not called.                                    *)
KeptAll == DOMAIN touch

(* The touches that touches_clean leaves.                                  *)
Kept == {i \in DOMAIN touch : ~touch[i].released}

(* find_finger                                                             *)
FingersOf(t) == {s \in Used : finger[s].id = t.id}
FingerOf(t)  == finger[CHOOSE s \in FingersOf(t) : TRUE]

(* Mutants: find_touch is not called; it finds touches of the last packet. *)
LandingAgain == {s \in Used : IsTouch(finger[s])}
LandingUnclean ==
  {s \in LandingAgain : \A i \in DOMAIN touch : touch[i].id # finger[s].id}

(* The fingers for which touch_append is called.                           *)
Landing ==
  {s \in Used : /\ IsTouch(finger[s])
                /\ \A i \in Kept : touch[i].id # finger[s].id}

(* firstbit(~touch_used), the slots in ascending order.                    *)
LowestFree(place) ==
  \A s \in Landing :
    /\ place[s] \notin Kept
    /\ \A r \in Landing : place[r] = place[s] => r = s
    /\ \A n \in 0..(place[s] - 1) :
         n \in Kept \/ \E r \in Landing : r < s /\ place[r] = n

(* Mutant: MT_EDGE does not look at MT_NEW.                                *)
FlaggedWhereItIs(t, f) ==
  [t EXCEPT !.thumb = f.reading.thumb, !.palm = f.reading.palm,
            !.edge  = IsEdge(t.x)]

(* The end of the loop of touches_update: the flags of a touch that has a  *)
(* finger.                                                                 *)
Flagged(t, f) ==
  [t EXCEPT !.thumb = f.reading.thumb,
            !.palm  = f.reading.palm,
            !.edge  = IsEdge(t.x) /\ (t.new \/ @)]

(* touch_release                                                           *)
Released(t) == [t EXCEPT !.dx = 0, !.new = FALSE, !.released = TRUE]

(* Mutant: total_dx is the last movement.                                  *)
MovedUnsummed(t, f) ==
  [t EXCEPT !.dx = f.x - t.x, !.total = f.x - t.x, !.x = f.x, !.new = FALSE,
            !.trail = @ \cup {f.x}]

(* touch_update                                                            *)
Moved(t, f) ==
  [t EXCEPT !.dx    = f.x - t.x,
            !.total = @ + (f.x - t.x),
            !.x     = f.x,
            !.new   = FALSE,
            !.trail = @ \cup {f.x}]

(* touch_append                                                            *)
Appended(f) ==
  [ id |-> f.id, x |-> f.x, dx |-> 0, total |-> 0, new |-> TRUE,
    released |-> FALSE, thumb |-> FALSE, palm |-> FALSE, edge |-> FALSE,
    from |-> f.x, trail |-> {f.x} ]

(* Mutant: one threshold for touching and releasing.                       *)
UpdatedStrict(t) ==
  IF FingersOf(t) = {} THEN Released(t)
  ELSE LET f == FingerOf(t)
       IN  Flagged(IF IsTouch(f) THEN Moved(t, f) ELSE Released(t), f)

Updated(t) ==
  IF FingersOf(t) = {} THEN Released(t)
  ELSE LET f == FingerOf(t)
       IN  Flagged(IF IsRelease(f) THEN Released(t) ELSE Moved(t, f), f)

Extract ==
  /\ \E place \in [Landing -> Bits] :
       /\ LowestFree(place)
       /\ touch' =
            [i \in Kept \cup {place[s] : s \in Landing} |->
               IF i \in Kept THEN Updated(touch[i])
               ELSE LET s == CHOOSE r \in Landing : place[r] = i
                    IN  Flagged(Appended(finger[s]), finger[s])]
  /\ evtime' = 1 - evtime
  /\ UNCHANGED <<slot, finger>>

(* itrack_open: hwstate_init and mtstate_init.                             *)
Open ==
  /\ slot' = 0
  /\ finger' = [s \in Slots |-> NoFinger]
  /\ touch' = NoTouch
  /\ UNCHANGED evtime

-----------------------------------------------------------------------------
Next ==
  \/ \E s \in Slots : SelectSlot(s)
  \/ \E id \in Ids \cup {NullId} : Track(id)
  \/ \E x \in Positions : Place(x)
  \/ \E reading \in Readings : Measure(reading)
  \/ Extract
  \/ Open

Spec == Init /\ [][Next]_vars

-----------------------------------------------------------------------------
(* Properties.                                                             *)

(* Every contact has at most one touch, whatever the order in which slots  *)
(* are released, given to another finger and taken again: otherwise one    *)
(* finger would count as two and a tap as a two finger tap.                *)
OneTouchPerContact ==
  \A i, j \in DOMAIN touch : touch[i].id = touch[j].id => i = j

(* The displacement a gesture compares with its thresholds is the one from *)
(* where the touch appeared, over any number of packets and whatever index *)
(* it was given or reuses.                                                 *)
TotalIsDisplacement ==
  \A i \in DOMAIN touch : touch[i].total = touch[i].x - touch[i].from

(* "Track and invalidate thumb, palm, and edge touches" (mtstate.c:305): a *)
(* touch is an edge touch as long as it never left the edge, and one that  *)
(* enters it later is none.                                                *)
EdgeFromTheStart ==
  \A i \in DOMAIN touch : touch[i].edge <=> touch[i].trail \subseteq Edge

(* After a packet the live touches are the fingers on the pad: each is     *)
(* where its finger is, none is left without a finger or with one that is  *)
(* lifted, and no finger that is down is missed.                           *)
Live == {i \in DOMAIN touch : ~touch[i].released}

Agrees ==
  /\ \A i \in Live : \E s \in Used :
       /\ finger[s].id = touch[i].id
       /\ finger[s].x = touch[i].x
       /\ ~touch[i].new => ~IsRelease(finger[s])
  /\ \A s \in Used :
       IsTouch(finger[s]) /\ ~IsRelease(finger[s]) =>
         \E i \in Live : touch[i].id = finger[s].id

PacketAgrees == [][Extract => Agrees']_vars

(* Between touch_up and touch_down nothing happens: a contact there is not *)
(* released by the packet and does not become a touch by it.               *)
Hysteresis ==
  [][Extract =>
       \A s \in Used :
         ~IsTouch(finger[s]) /\ ~IsRelease(finger[s]) =>
           ((\E i \in Live : touch[i].id = finger[s].id)
              <=> (\E i \in Live' : touch'[i].id = finger[s].id))]_vars

-----------------------------------------------------------------------------
(* The touches implement the life of a contact.                            *)

Stage(t) == IF t.released THEN "released" ELSE IF t.new THEN "new" ELSE "held"

LifeOf(id) ==
  IF \E i \in DOMAIN touch : touch[i].id = id
    THEN Stage(touch[CHOOSE i \in DOMAIN touch : touch[i].id = id])
    ELSE "out"

Contact == INSTANCE TouchLifecycle
             WITH packet <- evtime, life <- [id \in Ids |-> LifeOf(id)]

(* Every contact is new in its first packet, released in its last, and     *)
(* held between (the abstract specification TouchLifecycle).               *)
Lifecycle == Contact!Spec
===============================================================================
