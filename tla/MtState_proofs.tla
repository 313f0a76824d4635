---------------------------- MODULE MtState_proofs ----------------------------
(***************************************************************************)
(* Proofs about MtState, for every number of slots, set of ids, edge and   *)
(* pair of thresholds.                                                     *)
(*                                                                         *)
(* That a contact has one touch rests on the slots: no id is in two of     *)
(* them.  What a touch says of itself is an invariant of each touch alone, *)
(* Sound, whose lemmas follow the functions of mtstate.c.                  *)
(***************************************************************************)
EXTENDS MtState, FiniteSetTheorems, WellFoundedInduction, TLAPS

(* No contact is in two slots.                                             *)
OneSlotPerContact ==
  \A r, s \in Slots :
    finger[r].id # NullId /\ finger[r].id = finger[s].id => r = s

(* What a touch says of where it is and has been.                          *)
Sound(t) ==
  /\ t \in TouchType
  /\ t.x \in t.trail
  /\ t.total = t.x - t.from
  /\ t.edge <=> t.trail \subseteq Edge

TouchesSound == \A i \in DOMAIN touch : Sound(touch[i])

Inv ==
  /\ TypeOK
  /\ OneSlotPerContact
  /\ OneTouchPerContact
  /\ TouchesSound

-----------------------------------------------------------------------------
(* Facts about the functions of mtstate.c.                                 *)

(* Assigning one field keeps the type of a touch.                          *)
LEMMA FieldType ==
  ASSUME NEW t \in TouchType
  PROVE  /\ \A d \in Int : /\ [t EXCEPT !.x = d] \in TouchType
                           /\ [t EXCEPT !.dx = d] \in TouchType
                           /\ [t EXCEPT !.total = d] \in TouchType
         /\ \A b \in BOOLEAN : /\ [t EXCEPT !.new = b] \in TouchType
                               /\ [t EXCEPT !.released = b] \in TouchType
                               /\ [t EXCEPT !.thumb = b] \in TouchType
                               /\ [t EXCEPT !.palm = b] \in TouchType
                               /\ [t EXCEPT !.edge = b] \in TouchType
         /\ \A p \in SUBSET Int : [t EXCEPT !.trail = p] \in TouchType
BY DEF TouchType

LEMMA ReleasedType ==
  ASSUME NEW t \in TouchType
  PROVE  Released(t) \in TouchType
<1> DEFINE u == [t EXCEPT !.dx = 0]
           v == [u EXCEPT !.new = FALSE]
           w == [v EXCEPT !.released = TRUE]
<1>1. u \in TouchType
  <2>1. 0 \in Int
    OBVIOUS
  <2> QED BY <2>1, FieldType
<1>2. v \in TouchType
  BY <1>1, FieldType
<1>3. w \in TouchType
  BY <1>2, FieldType
<1>4. Released(t) = w
  BY DEF Released
<1> QED BY <1>3, <1>4

LEMMA MovedType ==
  ASSUME NEW t \in TouchType, NEW f \in FingerType
  PROVE  Moved(t, f) \in TouchType
<1> DEFINE u == [t EXCEPT !.dx = f.x - t.x]
           v == [u EXCEPT !.total = t.total + (f.x - t.x)]
           w == [v EXCEPT !.x = f.x]
           y == [w EXCEPT !.new = FALSE]
           z == [y EXCEPT !.trail = t.trail \cup {f.x}]
<1>1. /\ f.x \in Int
      /\ f.x - t.x \in Int
      /\ t.total + (f.x - t.x) \in Int
      /\ t.trail \cup {f.x} \in SUBSET Int
  BY DEF TouchType, FingerType
<1>2. u \in TouchType
  BY <1>1, FieldType
<1>3. v \in TouchType
  BY <1>1, <1>2, FieldType
<1>4. w \in TouchType
  BY <1>1, <1>3, FieldType
<1>5. y \in TouchType
  BY <1>4, FieldType
<1>6. z \in TouchType
  BY <1>1, <1>5, FieldType
<1>7. Moved(t, f) = z
  BY DEF Moved, TouchType
<1> QED BY <1>6, <1>7

LEMMA FlaggedType ==
  ASSUME NEW t \in TouchType, NEW f \in FingerType
  PROVE  Flagged(t, f) \in TouchType
<1> DEFINE e == t.x \in Edge /\ (t.new \/ t.edge)
           u == [t EXCEPT !.thumb = f.reading.thumb]
           v == [u EXCEPT !.palm = f.reading.palm]
           w == [v EXCEPT !.edge = e]
<1>1. f.reading.thumb \in BOOLEAN /\ f.reading.palm \in BOOLEAN
  BY DEF FingerType, ReadingType
<1>2. e \in BOOLEAN
  OBVIOUS
<1>3. u \in TouchType
  BY <1>1, FieldType
<1>4. v \in TouchType
  BY <1>1, <1>3, FieldType
<1>5. w \in TouchType
  <2> HIDE DEF e, v
  <2> QED BY <1>2, <1>4, FieldType
<1>6. Flagged(t, f) = w
  BY DEF Flagged, IsEdge, TouchType
<1> QED BY <1>5, <1>6

LEMMA AppendedType ==
  ASSUME NEW f \in FingerType, f.id # NullId
  PROVE  Appended(f) \in TouchType
<1>1. f.id \in Ids /\ f.x \in Int
  BY DEF FingerType
<1> QED BY <1>1 DEF Appended, TouchType

(* What each function assigns and leaves, of the fields the invariant and  *)
(* the packet's property look at.                                          *)
LEMMA ReleasedFields ==
  ASSUME NEW t \in TouchType
  PROVE  /\ Released(t).released = TRUE
         /\ Released(t).new = FALSE
         /\ Released(t).edge = t.edge
         /\ Released(t).id = t.id
         /\ Released(t).x = t.x
         /\ Released(t).total = t.total
         /\ Released(t).from = t.from
         /\ Released(t).trail = t.trail
BY DEF Released, TouchType

LEMMA MovedFields ==
  ASSUME NEW t \in TouchType, NEW f \in FingerType
  PROVE  /\ Moved(t, f).released = t.released
         /\ Moved(t, f).new = FALSE
         /\ Moved(t, f).edge = t.edge
         /\ Moved(t, f).id = t.id
         /\ Moved(t, f).x = f.x
         /\ Moved(t, f).total = t.total + (f.x - t.x)
         /\ Moved(t, f).from = t.from
         /\ Moved(t, f).trail = t.trail \cup {f.x}
BY DEF Moved, TouchType

LEMMA FlaggedFields ==
  ASSUME NEW t \in TouchType, NEW f \in FingerType
  PROVE  /\ Flagged(t, f).released = t.released
         /\ Flagged(t, f).new = t.new
         /\ Flagged(t, f).edge <=> t.x \in Edge /\ (t.new \/ t.edge)
         /\ Flagged(t, f).id = t.id
         /\ Flagged(t, f).x = t.x
         /\ Flagged(t, f).total = t.total
         /\ Flagged(t, f).from = t.from
         /\ Flagged(t, f).trail = t.trail
<1>1. /\ Flagged(t, f).released = t.released
      /\ Flagged(t, f).new = t.new
      /\ Flagged(t, f).id = t.id
      /\ Flagged(t, f).x = t.x
      /\ Flagged(t, f).total = t.total
      /\ Flagged(t, f).from = t.from
      /\ Flagged(t, f).trail = t.trail
  BY DEF Flagged, TouchType
<1>2. Flagged(t, f).edge <=> t.x \in Edge /\ (t.new \/ t.edge)
  BY DEF Flagged, IsEdge, TouchType
<1> QED BY <1>1, <1>2

LEMMA AppendedFields ==
  ASSUME NEW f
  PROVE  /\ Appended(f).released = FALSE
         /\ Appended(f).new = TRUE
         /\ Appended(f).id = f.id
         /\ Appended(f).x = f.x
         /\ Appended(f).total = 0
         /\ Appended(f).from = f.x
         /\ Appended(f).trail = {f.x}
BY DEF Appended

-----------------------------------------------------------------------------
(* The functions keep a touch sound.                                       *)

LEMMA ReleasedSound ==
  ASSUME NEW t, Sound(t)
  PROVE  Sound(Released(t))
<1>1. t \in TouchType
  BY DEF Sound
<1> QED BY <1>1, ReleasedType, ReleasedFields DEF Sound

(* A flagged touch is sound when it was so but for its edge, which is set  *)
(* when the touch appeared or has been at the edge ever since.             *)
LEMMA FlaggedSound ==
  ASSUME NEW t \in TouchType, NEW f \in FingerType,
         t.x \in t.trail,
         t.total = t.x - t.from,
         t.x \in Edge /\ (t.new \/ t.edge) <=> t.trail \subseteq Edge
  PROVE  Sound(Flagged(t, f))
<1>1. Flagged(t, f).edge <=> Flagged(t, f).trail \subseteq Edge
  BY FlaggedFields
<1>2. /\ Flagged(t, f).x \in Flagged(t, f).trail
      /\ Flagged(t, f).total = Flagged(t, f).x - Flagged(t, f).from
  BY FlaggedFields
<1> QED BY <1>1, <1>2, FlaggedType DEF Sound

LEMMA UpdatedSound ==
  ASSUME TypeOK, NEW t, Sound(t)
  PROVE  /\ Sound(Updated(t))
         /\ Updated(t).id = t.id
<1>1. t \in TouchType
  BY DEF Sound
<1>2. CASE FingersOf(t) = {}
  <2>1. Updated(t) = Released(t)
    BY <1>2 DEF Updated
  <2> QED BY <1>1, <2>1, ReleasedSound, ReleasedFields
<1>3. CASE FingersOf(t) # {}
  <2> DEFINE f == FingerOf(t)
  <2>1. f \in FingerType
    <3>1. (CHOOSE s \in FingersOf(t) : TRUE) \in Slots
      BY <1>3 DEF FingersOf, Used
    <3> QED BY <3>1 DEF TypeOK, FingerOf
  <2>2. Updated(t) = Flagged(IF IsRelease(f) THEN Released(t)
                                             ELSE Moved(t, f), f)
    BY <1>3 DEF Updated
  <2> HIDE DEF f
  <2>3. CASE IsRelease(f)
    <3> DEFINE r == Released(t)
    <3>1. Updated(t) = Flagged(r, f)
      BY <2>2, <2>3
    <3>2. /\ r \in TouchType
          /\ r.x \in r.trail
          /\ r.total = r.x - r.from
          /\ r.id = t.id
      BY <1>1, ReleasedType, ReleasedFields DEF Sound
    <3>3. r.x \in Edge /\ (r.new \/ r.edge) <=> r.trail \subseteq Edge
      BY <1>1, ReleasedFields DEF Sound
    <3> HIDE DEF r
    <3>4. Updated(t).id = t.id
      BY <2>1, <3>1, <3>2, FlaggedFields
    <3> QED BY <2>1, <3>1, <3>2, <3>3, <3>4, FlaggedSound
  <2>4. CASE ~IsRelease(f)
    <3> DEFINE m == Moved(t, f)
    <3>1. Updated(t) = Flagged(m, f)
      BY <2>2, <2>4
    <3>2. m \in TouchType
      BY <1>1, <2>1, MovedType
    <3>3. /\ m.new = FALSE
          /\ m.edge = t.edge
          /\ m.id = t.id
          /\ m.x = f.x
          /\ m.total = t.total + (f.x - t.x)
          /\ m.from = t.from
          /\ m.trail = t.trail \cup {f.x}
      BY <1>1, <2>1, MovedFields
    <3> HIDE DEF m
    <3>4. m.total = m.x - m.from
      <4>1. t.x \in Int /\ t.from \in Int /\ f.x \in Int
        BY <1>1, <2>1 DEF TouchType, FingerType
      <4>2. t.total = t.x - t.from
        BY DEF Sound
      <4> QED BY <3>3, <4>1, <4>2
    <3>5. m.x \in Edge /\ (m.new \/ m.edge) <=> m.trail \subseteq Edge
      <4>1. t.edge <=> t.trail \subseteq Edge
        BY DEF Sound
      <4> QED BY <3>3, <4>1
    <3>6. Updated(t).id = t.id
      BY <2>1, <3>1, <3>2, <3>3, FlaggedFields
    <3>7. m.x \in m.trail
      BY <3>3
    <3> QED BY <2>1, <3>1, <3>2, <3>4, <3>5, <3>6, <3>7, FlaggedSound
  <2> QED BY <2>3, <2>4
<1> QED BY <1>2, <1>3

LEMMA AppendedSound ==
  ASSUME NEW f \in FingerType, f.id # NullId
  PROVE  /\ Sound(Flagged(Appended(f), f))
         /\ Flagged(Appended(f), f).id = f.id
         /\ Flagged(Appended(f), f).x = f.x
         /\ Flagged(Appended(f), f).released = FALSE
         /\ Flagged(Appended(f), f).new = TRUE
<1> DEFINE t == Appended(f)
<1>1. t \in TouchType
  BY AppendedType
<1>2. t.x \in t.trail
  BY AppendedFields
<1>3. t.total = t.x - t.from
  <2>1. f.x \in Int
    BY DEF FingerType
  <2>2. t.total = 0 /\ t.x = f.x /\ t.from = f.x
    BY AppendedFields
  <2> HIDE DEF t
  <2> QED BY <2>1, <2>2
<1>4. t.x \in Edge /\ (t.new \/ t.edge) <=> t.trail \subseteq Edge
  BY AppendedFields
<1>5. /\ t.id = f.id
      /\ t.x = f.x
      /\ t.released = FALSE
      /\ t.new = TRUE
  BY AppendedFields
<1> HIDE DEF t
<1>6. Sound(Flagged(t, f))
  BY <1>1, <1>2, <1>3, <1>4, FlaggedSound
<1>7. /\ Flagged(t, f).id = f.id
      /\ Flagged(t, f).x = f.x
      /\ Flagged(t, f).released = FALSE
      /\ Flagged(t, f).new = TRUE
  BY <1>1, <1>5, FlaggedFields
<1> QED BY <1>6, <1>7 DEF t

-----------------------------------------------------------------------------
(* mtstate_extract.                                                        *)

(* The fingers that land are fingers of contacts that have no touch.       *)
LEMMA LandingFingers ==
  ASSUME TypeOK
  PROVE  /\ \A s \in Landing : /\ s \in Slots
                               /\ finger[s] \in FingerType
                               /\ finger[s].id # NullId
                               /\ \A i \in Kept : touch[i].id # finger[s].id
         /\ \A i \in Kept : /\ i \in DOMAIN touch
                            /\ i \in Bits
                            /\ touch[i].released = FALSE
BY DEF Landing, Used, Kept, TypeOK, TouchType

(* The table after a packet: the touches that were kept, updated, and one  *)
(* for each finger that landed, at an index of its own.                    *)
LEMMA ExtractTable ==
  ASSUME Extract
  PROVE  \E place \in [Landing -> Bits] :
           /\ DOMAIN touch' = Kept \cup {place[s] : s \in Landing}
           /\ \A i \in Kept : touch'[i] = Updated(touch[i])
           /\ \A s \in Landing :
                /\ place[s] \notin Kept
                /\ touch'[place[s]] = Flagged(Appended(finger[s]), finger[s])
           /\ \A r, s \in Landing : place[r] = place[s] => r = s
<1>1. PICK place \in [Landing -> Bits] :
        /\ LowestFree(place)
        /\ touch' =
             [i \in Kept \cup {place[s] : s \in Landing} |->
                IF i \in Kept THEN Updated(touch[i])
                ELSE LET s == CHOOSE r \in Landing : place[r] = i
                     IN  Flagged(Appended(finger[s]), finger[s])]
  BY DEF Extract
<1>2. DOMAIN touch' = Kept \cup {place[s] : s \in Landing}
  BY <1>1
<1>3. \A s \in Landing : place[s] \notin Kept
  BY <1>1 DEF LowestFree
<1>4. \A r, s \in Landing : place[r] = place[s] => r = s
  BY <1>1 DEF LowestFree
<1>5. \A i \in Kept : touch'[i] = Updated(touch[i])
  BY <1>1
<1>6. ASSUME NEW s \in Landing
      PROVE  touch'[place[s]] = Flagged(Appended(finger[s]), finger[s])
  <2>1. (CHOOSE r \in Landing : place[r] = place[s]) = s
    BY <1>4
  <2> QED BY <1>1, <1>3, <2>1
<1> QED BY <1>2, <1>3, <1>4, <1>5, <1>6

(* A packet leaves every touch sound, and its contact with one touch.      *)
LEMMA ExtractSound ==
  ASSUME TypeOK, OneSlotPerContact, OneTouchPerContact, TouchesSound, Extract
  PROVE  /\ DOMAIN touch' \subseteq Bits
         /\ TouchesSound'
         /\ OneTouchPerContact'
<1>1. PICK place \in [Landing -> Bits] :
           /\ DOMAIN touch' = Kept \cup {place[s] : s \in Landing}
           /\ \A i \in Kept : touch'[i] = Updated(touch[i])
           /\ \A s \in Landing :
                /\ place[s] \notin Kept
                /\ touch'[place[s]] = Flagged(Appended(finger[s]), finger[s])
           /\ \A r, s \in Landing : place[r] = place[s] => r = s
  BY ExtractTable
<1>2. DOMAIN touch' \subseteq Bits
  <2>1. \A s \in Landing : place[s] \in Bits
    BY <1>1
  <2>2. Kept \subseteq Bits
    BY LandingFingers
  <2> QED BY <1>1, <2>1, <2>2
<1>3. ASSUME NEW i \in Kept
      PROVE  Sound(touch'[i]) /\ touch'[i].id = touch[i].id
  <2>1. Sound(touch[i])
    BY LandingFingers DEF TouchesSound
  <2> QED BY <1>1, <2>1, UpdatedSound
<1>4. ASSUME NEW s \in Landing
      PROVE  Sound(touch'[place[s]]) /\ touch'[place[s]].id = finger[s].id
  <2>1. finger[s] \in FingerType /\ finger[s].id # NullId
    BY LandingFingers
  <2>2. touch'[place[s]] = Flagged(Appended(finger[s]), finger[s])
    BY <1>1
  <2> QED BY <2>1, <2>2, AppendedSound
<1>5. TouchesSound'
  BY <1>1, <1>3, <1>4 DEF TouchesSound, Sound
<1>6. ASSUME NEW i \in DOMAIN touch', NEW j \in DOMAIN touch',
             touch'[i].id = touch'[j].id
      PROVE  i = j
  <2>1. CASE i \in Kept /\ j \in Kept
    BY <1>3, <1>6, <2>1, LandingFingers DEF OneTouchPerContact
  <2>2. ASSUME NEW k \in Kept, NEW s \in Landing
        PROVE  touch'[k].id # touch'[place[s]].id
    BY <1>3, <1>4, LandingFingers
  <2>3. ASSUME NEW r \in Landing, NEW s \in Landing,
               touch'[place[r]].id = touch'[place[s]].id
        PROVE  r = s
    BY <1>4, <2>3, LandingFingers DEF OneSlotPerContact
  <2> QED BY <1>1, <1>6, <2>1, <2>2, <2>3
<1>7. OneTouchPerContact'
  BY <1>6 DEF OneTouchPerContact
<1> QED BY <1>2, <1>5, <1>7

-----------------------------------------------------------------------------
(* The invariant.                                                          *)

LEMMA NoFingerType == NoFinger \in FingerType
BY DEF NoFinger, FingerType, ReadingType

(* The initial state satisfies the invariant.                              *)
THEOREM InitInv == Init => Inv
<1> SUFFICES ASSUME Init PROVE Inv
  OBVIOUS
<1>1. DOMAIN touch = {}
  BY DEF Init, NoTouch
<1>2. TypeOK
  BY <1>1, NoFingerType, SlotsAssumption
     DEF Init, TypeOK, Slots, SlotsAssumption
<1>3. OneSlotPerContact
  BY DEF Init, OneSlotPerContact, NoFinger
<1> QED
  BY <1>1, <1>2, <1>3 DEF Inv, OneTouchPerContact, TouchesSound

(* The events of a packet write the slot they name and no touch.           *)
LEMMA EventType ==
  ASSUME TypeOK, NEW f \in FingerType, Write(f)
  PROVE  TypeOK' /\ finger' = [finger EXCEPT ![slot] = f] /\ touch' = touch
BY DEF TypeOK, Write

LEMMA EventInv ==
  ASSUME Inv, NEW f \in FingerType, Write(f),
         f.id = finger[slot].id
           \/ f.id = NullId
           \/ \A s \in Slots : finger[s].id # f.id
  PROVE  Inv'
<1>1. TypeOK' /\ finger' = [finger EXCEPT ![slot] = f] /\ touch' = touch
  BY EventType DEF Inv
<1>2. OneSlotPerContact'
  <2>1. finger \in [Slots -> FingerType] /\ slot \in Slots
    BY DEF Inv, TypeOK
  <2>2. finger'[slot] = f /\ \A s \in Slots \ {slot} : finger'[s] = finger[s]
    BY <1>1, <2>1
  <2> QED BY <2>1, <2>2 DEF Inv, OneSlotPerContact
<1>3. OneTouchPerContact' /\ TouchesSound'
  BY <1>1 DEF Inv, OneTouchPerContact, TouchesSound, Sound
<1> QED BY <1>1, <1>2, <1>3 DEF Inv

LEMMA NextInv ==
  ASSUME Inv, Next
  PROVE  Inv'
<1>1. finger[slot] \in FingerType
  BY DEF Inv, TypeOK
<1>2. ASSUME NEW s \in Slots, SelectSlot(s)
      PROVE  Inv'
  <2>1. TypeOK'
    BY <1>2 DEF Inv, TypeOK, SelectSlot
  <2> QED
    BY <1>2, <2>1 DEF Inv, SelectSlot, OneSlotPerContact,
                      OneTouchPerContact, TouchesSound, Sound
<1>3. ASSUME NEW id \in Ids \cup {NullId}, Track(id)
      PROVE  Inv'
  <2> DEFINE f == [finger[slot] EXCEPT !.id = id]
  <2>1. f \in FingerType /\ f.id = id
    BY <1>1 DEF FingerType
  <2>2. Write(f) /\ (id = NullId \/ \A s \in Slots : finger[s].id # id)
    BY <1>3 DEF Track
  <2> HIDE DEF f
  <2> QED BY <2>1, <2>2, EventInv
<1>4. ASSUME NEW x \in Positions, Place(x)
      PROVE  Inv'
  <2> DEFINE f == [finger[slot] EXCEPT !.x = x]
  <2>1. f \in FingerType /\ f.id = finger[slot].id
    BY <1>1, PositionsAssumption DEF FingerType, PositionsAssumption
  <2>2. Write(f)
    BY <1>4 DEF Place
  <2> HIDE DEF f
  <2> QED BY <2>1, <2>2, EventInv
<1>5. ASSUME NEW reading \in Readings, Measure(reading)
      PROVE  Inv'
  <2> DEFINE f == [finger[slot] EXCEPT !.reading = reading]
  <2>1. f \in FingerType /\ f.id = finger[slot].id
    BY <1>1, ReadingsAssumption DEF FingerType, ReadingsAssumption
  <2>2. Write(f)
    BY <1>5 DEF Measure
  <2> HIDE DEF f
  <2> QED BY <2>1, <2>2, EventInv
<1>6. CASE Extract
  <2>1. DOMAIN touch' \subseteq Bits /\ TouchesSound' /\ OneTouchPerContact'
    BY <1>6, ExtractSound DEF Inv
  <2>2. slot' = slot /\ finger' = finger /\ evtime' = 1 - evtime
    BY <1>6 DEF Extract
  <2>3. TypeOK'
    BY <2>1, <2>2 DEF Inv, TypeOK, TouchesSound, Sound
  <2>4. OneSlotPerContact'
    BY <2>2 DEF Inv, OneSlotPerContact
  <2> QED BY <2>1, <2>3, <2>4 DEF Inv
<1>7. CASE Open
  <2>1. DOMAIN touch' = {} /\ finger' = [s \in Slots |-> NoFinger]
    BY <1>7 DEF Open, NoTouch
  <2>2. TypeOK'
    BY <1>7, <2>1, NoFingerType, SlotsAssumption
       DEF Inv, Open, TypeOK, Slots, SlotsAssumption
  <2>3. OneSlotPerContact'
    BY <2>1 DEF OneSlotPerContact, NoFinger
  <2> QED BY <2>1, <2>2, <2>3 DEF Inv, OneTouchPerContact, TouchesSound
<1> QED
  BY <1>2, <1>3, <1>4, <1>5, <1>6, <1>7 DEF Next

(* The invariant holds in every reachable state.                           *)
THEOREM Invariance == Spec => []Inv
<1>1. Inv /\ UNCHANGED vars => Inv'
  BY DEF Inv, TypeOK, OneSlotPerContact, OneTouchPerContact, TouchesSound,
         Sound, vars
<1>2. Inv /\ [Next]_vars => Inv'
  BY <1>1, NextInv
<1> QED BY <1>2, InitInv, PTL DEF Spec

(* Slots, touches and the indices touches are given keep their types.      *)
THEOREM TypeCorrect == Spec => []TypeOK
BY Invariance, PTL DEF Inv

(* No contact ever has two touches, however slots are reused and whichever *)
(* indices firstbit finds.                                                 *)
THEOREM ContactHasOneTouch == Spec => []OneTouchPerContact
BY Invariance, PTL DEF Inv

(* total_dx is the displacement since the touch appeared, for every path.  *)
THEOREM DisplacementAddsUp == Spec => []TotalIsDisplacement
<1>1. Inv => TotalIsDisplacement
  BY DEF Inv, TouchesSound, Sound, TotalIsDisplacement
<1> QED BY <1>1, Invariance, PTL

(* MT_EDGE is set exactly for the touches that never left the edge.        *)
THEOREM EdgeIsWhereItBegan == Spec => []EdgeFromTheStart
<1>1. Inv => EdgeFromTheStart
  BY DEF Inv, TouchesSound, Sound, EdgeFromTheStart
<1> QED BY <1>1, Invariance, PTL

-----------------------------------------------------------------------------
(* What a packet does to the contacts.                                     *)

(* A touch whose contact is in no slot is released.                        *)
LEMMA UpdatedLost ==
  ASSUME NEW t \in TouchType, \A s \in Used : finger[s].id # t.id
  PROVE  Updated(t).released = TRUE /\ Updated(t).new = FALSE
<1>1. Updated(t) = Released(t)
  BY DEF Updated, FingersOf
<1> QED BY <1>1, ReleasedFields

(* One whose contact is in a slot goes where that finger is, or is         *)
(* released when the finger is lifted.                                     *)
LEMMA UpdatedFound ==
  ASSUME TypeOK, OneSlotPerContact, NEW t \in TouchType,
         NEW s \in Used, finger[s].id = t.id
  PROVE  /\ Updated(t).new = FALSE
         /\ IsRelease(finger[s]) => Updated(t).released = TRUE
         /\ ~IsRelease(finger[s]) => /\ Updated(t).released = t.released
                                     /\ Updated(t).x = finger[s].x
<1> DEFINE f == finger[s]
<1>1. FingersOf(t) = {s}
  BY DEF FingersOf, Used, OneSlotPerContact
<1>2. FingerOf(t) = f
  BY <1>1 DEF FingerOf
<1>3. f \in FingerType
  BY DEF Used, TypeOK
<1>4. Updated(t) =
        Flagged(IF IsRelease(f) THEN Released(t) ELSE Moved(t, f), f)
  BY <1>1, <1>2 DEF Updated
<1> HIDE DEF f
<1>5. CASE IsRelease(f)
  <2> DEFINE r == Released(t)
  <2>1. Updated(t) = Flagged(r, f)
    BY <1>4, <1>5
  <2>2. r \in TouchType /\ r.new = FALSE /\ r.released = TRUE
    BY ReleasedType, ReleasedFields
  <2> HIDE DEF r
  <2>3. Updated(t).new = FALSE /\ Updated(t).released = TRUE
    BY <1>3, <2>1, <2>2, FlaggedFields
  <2> QED BY <1>5, <2>3 DEF f
<1>6. CASE ~IsRelease(f)
  <2> DEFINE m == Moved(t, f)
  <2>1. Updated(t) = Flagged(m, f)
    BY <1>4, <1>6
  <2>2. /\ m \in TouchType
        /\ m.new = FALSE
        /\ m.released = t.released
        /\ m.x = f.x
    BY <1>3, MovedType, MovedFields
  <2> HIDE DEF m
  <2>3. /\ Updated(t).new = FALSE
        /\ Updated(t).released = t.released
        /\ Updated(t).x = f.x
    BY <1>3, <2>1, <2>2, FlaggedFields
  <2> QED BY <1>6, <2>3 DEF f
<1> QED BY <1>5, <1>6

(* What the table after a packet holds, when landing fingers are given the *)
(* indices place.                                                          *)
Table(place) ==
  /\ DOMAIN touch' = Kept \cup {place[s] : s \in Landing}
  /\ \A i \in Kept :
       /\ touch'[i].id = touch[i].id
       /\ touch'[i].new = FALSE
       /\ (\A s \in Used : finger[s].id # touch[i].id)
            => touch'[i].released = TRUE
       /\ \A s \in Used : finger[s].id = touch[i].id =>
            /\ IsRelease(finger[s]) => touch'[i].released = TRUE
            /\ ~IsRelease(finger[s]) =>
                 /\ touch'[i].released = FALSE
                 /\ touch'[i].x = finger[s].x
  /\ \A s \in Landing :
       /\ touch'[place[s]].id = finger[s].id
       /\ touch'[place[s]].x = finger[s].x
       /\ touch'[place[s]].new = TRUE
       /\ touch'[place[s]].released = FALSE

(* The table after a packet, contact by contact.                           *)
LEMMA ExtractContacts ==
  ASSUME Inv, Extract
  PROVE  \E place \in [Landing -> Bits] : Table(place)
<1> USE DEF Inv
<1>1. PICK place \in [Landing -> Bits] :
           /\ DOMAIN touch' = Kept \cup {place[s] : s \in Landing}
           /\ \A i \in Kept : touch'[i] = Updated(touch[i])
           /\ \A s \in Landing :
                touch'[place[s]] = Flagged(Appended(finger[s]), finger[s])
  BY ExtractTable
<1>2. ASSUME NEW i \in Kept
      PROVE  /\ touch'[i].id = touch[i].id
             /\ touch'[i].new = FALSE
             /\ (\A s \in Used : finger[s].id # touch[i].id)
                  => touch'[i].released = TRUE
             /\ \A s \in Used : finger[s].id = touch[i].id =>
                  /\ IsRelease(finger[s]) => touch'[i].released = TRUE
                  /\ ~IsRelease(finger[s]) =>
                       /\ touch'[i].released = FALSE
                       /\ touch'[i].x = finger[s].x
  <2>1. Sound(touch[i]) /\ touch[i].released = FALSE
    BY LandingFingers DEF TouchesSound
  <2>2. touch[i] \in TouchType
    BY <2>1 DEF Sound
  <2>3. touch'[i] = Updated(touch[i])
    BY <1>1
  <2>4. touch'[i].id = touch[i].id
    BY <2>1, <2>3, UpdatedSound
  <2>5. ASSUME \A s \in Used : finger[s].id # touch[i].id
        PROVE  touch'[i].released = TRUE /\ touch'[i].new = FALSE
    BY <2>2, <2>3, <2>5, UpdatedLost
  <2>6. ASSUME NEW s \in Used, finger[s].id = touch[i].id
        PROVE  /\ touch'[i].new = FALSE
               /\ IsRelease(finger[s]) => touch'[i].released = TRUE
               /\ ~IsRelease(finger[s]) =>
                    /\ touch'[i].released = FALSE
                    /\ touch'[i].x = finger[s].x
    BY <2>1, <2>2, <2>3, <2>6, UpdatedFound
  <2> QED BY <2>4, <2>5, <2>6
<1>3. ASSUME NEW s \in Landing
      PROVE  /\ touch'[place[s]].id = finger[s].id
             /\ touch'[place[s]].x = finger[s].x
             /\ touch'[place[s]].new = TRUE
             /\ touch'[place[s]].released = FALSE
  <2>1. finger[s] \in FingerType /\ finger[s].id # NullId
    BY LandingFingers
  <2>2. touch'[place[s]] = Flagged(Appended(finger[s]), finger[s])
    BY <1>1
  <2> QED BY <2>1, <2>2, AppendedSound
<1> QED BY <1>1, <1>2, <1>3 DEF Table

(* The touches a packet leaves live are those of the fingers it finds.     *)
LEMMA ExtractAgrees ==
  ASSUME Inv, Extract
  PROVE  Agrees'
<1>1. PICK place \in [Landing -> Bits] : Table(place)
  BY ExtractContacts
<1>2. finger' = finger /\ Used' = Used
  BY DEF Extract, Used
<1>3. ASSUME NEW i \in Live'
      PROVE  \E s \in Used : /\ finger[s].id = touch'[i].id
                             /\ finger[s].x = touch'[i].x
                             /\ ~touch'[i].new => ~IsRelease(finger[s])
  <2>1. i \in DOMAIN touch' /\ ~touch'[i].released
    BY DEF Live
  <2>2. CASE i \in Kept
    <3>1. PICK s \in Used : finger[s].id = touch[i].id
      BY <1>1, <2>1, <2>2 DEF Table
    <3>2. ~IsRelease(finger[s])
      BY <1>1, <2>1, <2>2, <3>1 DEF Table
    <3>3. touch'[i].id = finger[s].id /\ touch'[i].x = finger[s].x
      BY <1>1, <2>2, <3>1, <3>2 DEF Table
    <3> QED BY <3>2, <3>3
  <2>3. ASSUME NEW s \in Landing, i = place[s]
        PROVE  /\ finger[s].id = touch'[i].id
               /\ finger[s].x = touch'[i].x
               /\ touch'[i].new
               /\ s \in Used
    BY <1>1, <2>3 DEF Table, Landing
  <2>4. i \in Kept \/ \E s \in Landing : i = place[s]
    BY <1>1, <2>1 DEF Table
  <2> QED BY <2>2, <2>3, <2>4
<1>4. ASSUME NEW s \in Used, IsTouch(finger[s]), ~IsRelease(finger[s])
      PROVE  \E i \in Live' : touch'[i].id = finger[s].id
  <2>1. CASE s \in Landing
    <3>1. place[s] \in DOMAIN touch'
      BY <1>1, <2>1 DEF Table
    <3>2. touch'[place[s]].released = FALSE
            /\ touch'[place[s]].id = finger[s].id
      BY <1>1, <2>1 DEF Table
    <3> QED BY <3>1, <3>2 DEF Live
  <2>2. CASE s \notin Landing
    <3>1. PICK i \in Kept : touch[i].id = finger[s].id
      BY <1>4, <2>2 DEF Landing
    <3>2. i \in DOMAIN touch' /\ touch'[i].id = finger[s].id
      BY <1>1, <3>1 DEF Table
    <3>3. touch'[i].released = FALSE
      BY <1>1, <1>4, <3>1 DEF Table
    <3> QED BY <3>2, <3>3 DEF Live
  <2> QED BY <2>1, <2>2
<1> QED BY <1>2, <1>3, <1>4 DEF Agrees, IsRelease, IsTouch

(* A contact between the thresholds stays what it was.                     *)
LEMMA ExtractHysteresis ==
  ASSUME Inv, Extract, NEW s \in Used,
         ~IsTouch(finger[s]), ~IsRelease(finger[s])
  PROVE  (\E i \in Live : touch[i].id = finger[s].id)
           <=> (\E i \in Live' : touch'[i].id = finger[s].id)
<1>1. PICK place \in [Landing -> Bits] : Table(place)
  BY ExtractContacts
<1>2. Live = Kept
  BY DEF Live, Kept
<1>3. ASSUME NEW i \in Live, touch[i].id = finger[s].id
      PROVE  i \in Live' /\ touch'[i].id = finger[s].id
  <2>1. i \in DOMAIN touch' /\ touch'[i].id = finger[s].id
    BY <1>1, <1>2, <1>3 DEF Table
  <2>2. touch'[i].released = FALSE
    BY <1>1, <1>2, <1>3 DEF Table
  <2> QED BY <2>1, <2>2 DEF Live
<1>4. ASSUME NEW i \in Live', touch'[i].id = finger[s].id
      PROVE  i \in Live /\ touch[i].id = finger[s].id
  <2>1. i \in DOMAIN touch'
    BY DEF Live
  <2>2. ASSUME NEW r \in Landing, i = place[r]
        PROVE  FALSE
    <3>1. finger[r].id = finger[s].id
      BY <1>1, <1>4, <2>2 DEF Table
    <3>2. r = s
      BY <3>1 DEF Inv, OneSlotPerContact, Used, Landing
    <3> QED BY <3>2 DEF Landing
  <2>3. i \in Kept
    BY <1>1, <2>1, <2>2 DEF Table
  <2> QED BY <1>1, <1>2, <1>4, <2>3 DEF Table
<1> QED BY <1>3, <1>4

(* After every packet the live touches are the fingers on the pad, where   *)
(* they are, and every finger that is down has its touch.                  *)
THEOREM TouchesAreFingers == Spec => PacketAgrees
<1>1. Inv /\ [Next]_vars => [Extract => Agrees']_vars
  BY ExtractAgrees
<1> QED BY <1>1, Invariance, PTL DEF Spec, PacketAgrees

(* A contact between touch_up and touch_down neither lands nor is released *)
(* by a packet, for every pair of thresholds.                              *)
THEOREM BetweenThresholds == Spec => Hysteresis
<1> DEFINE Steady ==
      \A s \in Used :
         ~IsTouch(finger[s]) /\ ~IsRelease(finger[s]) =>
           ((\E i \in Live : touch[i].id = finger[s].id)
              <=> (\E i \in Live' : touch'[i].id = finger[s].id))
<1>1. Inv /\ [Next]_vars => [Extract => Steady]_vars
  BY ExtractHysteresis
<1>2. Spec => [][Extract => Steady]_vars
  <2> HIDE DEF Steady
  <2> QED BY <1>1, Invariance, PTL DEF Spec
<1> QED BY <1>2 DEF Hysteresis

-----------------------------------------------------------------------------
(* The life of a contact.                                                  *)

LEMMA LifeOfTouch ==
  ASSUME OneTouchPerContact, NEW id, NEW i \in DOMAIN touch,
         touch[i].id = id
  PROVE  LifeOf(id) = Stage(touch[i])
<1>1. (CHOOSE j \in DOMAIN touch : touch[j].id = id) = i
  BY DEF OneTouchPerContact
<1> QED BY <1>1 DEF LifeOf

LEMMA LifeOfNone ==
  ASSUME NEW id, \A i \in DOMAIN touch : touch[i].id # id
  PROVE  LifeOf(id) = "out"
BY DEF LifeOf

(* The same of the touches after a packet.                                 *)
LEMMA LifeOfTouchNext ==
  ASSUME OneTouchPerContact', NEW CONSTANT id, NEW i \in DOMAIN touch',
         touch'[i].id = id
  PROVE  LifeOf(id)' = Stage(touch'[i])
<1>1. (CHOOSE j \in DOMAIN touch' : touch'[j].id = id) = i
  BY DEF OneTouchPerContact
<1> QED BY <1>1 DEF LifeOf, Stage

LEMMA LifeOfNoneNext ==
  ASSUME NEW CONSTANT id, \A i \in DOMAIN touch' : touch'[i].id # id
  PROVE  LifeOf(id)' = "out"
BY DEF LifeOf

(* A packet takes every contact one stage on.                              *)
LEMMA ExtractLife ==
  ASSUME Inv, Inv', Extract, NEW CONSTANT id \in Ids
  PROVE  LifeOf(id)' \in Contact!After[LifeOf(id)]
<1>1. PICK place \in [Landing -> Bits] : Table(place)
  BY ExtractContacts
<1>2. CASE \E i \in Kept : touch[i].id = id
  <2>1. PICK i \in Kept : touch[i].id = id
    BY <1>2
  <2>2. i \in DOMAIN touch /\ touch[i].released = FALSE
    BY LandingFingers DEF Inv
  <2>3. LifeOf(id) \in {"new", "held"}
    BY <2>1, <2>2, LifeOfTouch DEF Inv, Stage
  <2>4. /\ i \in DOMAIN touch'
        /\ touch'[i].id = id
        /\ touch'[i].new = FALSE
    BY <1>1, <2>1 DEF Table
  <2>5. LifeOf(id)' \in {"released", "held"}
    BY <2>4, LifeOfTouchNext DEF Inv, Stage
  <2> QED BY <2>3, <2>5 DEF Contact!After
<1>3. CASE \A i \in Kept : touch[i].id # id
  <2>1. LifeOf(id) \in {"out", "released"}
    <3>1. CASE \E i \in DOMAIN touch : touch[i].id = id
      <4>1. PICK i \in DOMAIN touch : touch[i].id = id
        BY <3>1
      <4>2. touch[i].released
        BY <1>3, <4>1 DEF Kept
      <4> QED BY <4>1, <4>2, LifeOfTouch DEF Inv, Stage
    <3> QED BY <3>1, LifeOfNone
  <2>2. LifeOf(id)' \in {"out", "new"}
    <3>1. CASE \E i \in DOMAIN touch' : touch'[i].id = id
      <4>1. PICK i \in DOMAIN touch' : touch'[i].id = id
        BY <3>1
      <4>2. i \notin Kept
        BY <1>1, <1>3, <4>1 DEF Table
      <4>3. touch'[i].new = TRUE /\ touch'[i].released = FALSE
        BY <1>1, <4>1, <4>2 DEF Table
      <4> QED BY <4>1, <4>3, LifeOfTouchNext DEF Inv, Stage
    <3> QED BY <3>1, LifeOfNoneNext
  <2> QED BY <2>1, <2>2 DEF Contact!After
<1> QED BY <1>2, <1>3

(* Every step of the slots and touches is a step of TouchLifecycle, or     *)
(* none.                                                                   *)
LEMMA LifeStep ==
  ASSUME Inv, Inv', Next
  PROVE  \/ Contact!Next
         \/ UNCHANGED <<evtime, [id \in Ids |-> LifeOf(id)]>>
<1>1. CASE Extract
  <2>1. evtime' = 1 - evtime
    BY <1>1 DEF Extract
  <2>2. \A id \in Ids : LifeOf(id)' \in Contact!After[LifeOf(id)]
    BY <1>1, ExtractLife
  <2>3. \A id \in Ids : LifeOf(id)' \in Contact!Stages
    BY DEF LifeOf, Stage, Contact!Stages
  <2>4. Contact!Packet
    BY <2>1, <2>2, <2>3 DEF Contact!Packet
  <2> QED BY <2>4 DEF Contact!Next
<1>2. CASE Open
  <2>1. DOMAIN touch' = {} /\ evtime' = evtime
    BY <1>2 DEF Open, NoTouch
  <2>2. \A id \in Ids : LifeOf(id)' = "out"
    BY <2>1, LifeOfNoneNext
  <2>3. Contact!Reset
    BY <2>1, <2>2 DEF Contact!Reset, Contact!AllOut
  <2> QED BY <2>3 DEF Contact!Next
<1>3. CASE touch' = touch /\ evtime' = evtime
  BY <1>3 DEF LifeOf, Stage
<1> QED
  BY <1>1, <1>2, <1>3
     DEF Next, SelectSlot, Track, Place, Measure, Write

(* The touches implement TouchLifecycle: in the packets of its life a      *)
(* contact is new in exactly the first and released in exactly the last.   *)
THEOREM TouchesLive == Spec => Lifecycle
<1>1. Init => Contact!Init
  BY DEF Init, NoTouch, LifeOf, Contact!Init, Contact!AllOut
<1>2. Inv /\ Inv' /\ [Next]_vars
        => [Contact!Next]_<<evtime, [id \in Ids |-> LifeOf(id)]>>
  <2>1. ASSUME UNCHANGED vars
        PROVE  UNCHANGED <<evtime, [id \in Ids |-> LifeOf(id)]>>
    BY <2>1 DEF vars, LifeOf, Stage
  <2> QED BY <2>1, LifeStep
<1> QED
  BY <1>1, <1>2, Invariance, PTL DEF Spec, Lifecycle, Contact!Spec
-----------------------------------------------------------------------------
(* The table has room for every packet.                                    *)

(* firstbit finds an index for each finger that lands, and but one: the    *)
(* branch that ignores a touch is not taken.                               *)
PacketFits ==
  \E place \in [Landing -> Bits] :
    /\ LowestFree(place)
    /\ \A other \in [Landing -> Bits] : LowestFree(other) => other = place

(* The touches that the last packet left live had a slot each.             *)
FewKept == IsFiniteSet(Kept) /\ Cardinality(Kept) <= NSlots

(* A set of naturals has a least member.                                   *)
LEMMA Least ==
  ASSUME NEW S \in SUBSET Nat, S # {}
  PROVE  \E n \in S : \A m \in S : n <= m
<1> DEFINE R == {ss \in Nat \X Nat : ss[1] < ss[2]}
<1>1. IsWellFoundedOn(R, Nat)
  BY NatLessThanWellFounded, Zenon DEF OpToRel
<1> HIDE DEF R
<1>2. PICK n \in S : \A m \in S : ~ (<<m, n>> \in R)
  BY <1>1, WFMin
<1>3. \A m \in S : ~ (m < n)
  BY <1>2 DEF R
<1> QED BY <1>3

(* While the mask is not full it has a lowest free bit.                    *)
LEMMA FreeBit ==
  ASSUME NEW T, IsFiniteSet(T), Cardinality(T) < MaskBits
  PROVE  \E b \in Bits : b \notin T /\ \A n \in 0..(b - 1) : n \in T
<1>1. MaskBits \in Nat
  BY SlotsAssumption
<1>2. Bits \ T # {}
  <2> SUFFICES ASSUME Bits \subseteq T PROVE FALSE
    OBVIOUS
  <2>1. Cardinality(Bits) = MaskBits
    BY <1>1, FS_Interval DEF Bits
  <2>2. Cardinality(Bits) <= Cardinality(T)
    BY FS_Subset
  <2>3. Cardinality(T) \in Nat
    BY FS_CardinalityType
  <2> QED BY <1>1, <2>1, <2>2, <2>3
<1>3. Bits \subseteq Nat
  BY <1>1 DEF Bits
<1>4. PICK b \in Bits \ T : \A m \in Bits \ T : b <= m
  BY <1>2, <1>3, Least
<1>5. ASSUME NEW n \in 0..(b - 1) PROVE n \in T
  <2>1. n \in Bits /\ ~(b <= n)
    BY <1>1, <1>3 DEF Bits
  <2> QED BY <1>4, <2>1
<1> QED BY <1>4, <1>5

(* The loop has gone over the slots below n.                               *)
Before(n) == {s \in Landing : s < n}

(* The loop assigns the indices of the fingers L.                          *)
PlacedIn(L, place) ==
  \A s \in L :
    /\ place[s] \notin Kept
    /\ \A r \in L : place[r] = place[s] => r = s
    /\ \A n \in 0..(place[s] - 1) :
         n \in Kept \/ \E r \in L : r < s /\ place[r] = n

(* One more slot.                                                          *)
LEMMA PlaceOneMore ==
  ASSUME TypeOK, FewKept, NEW n \in 0..(NSlots - 1),
         NEW place \in [Before(n) -> Bits], PlacedIn(Before(n), place)
  PROVE  \E more \in [Before(n + 1) -> Bits] : PlacedIn(Before(n + 1), more)
<1>1. NSlots \in Nat /\ MaskBits \in Nat /\ 2 * NSlots <= MaskBits
  BY SlotsAssumption
<1>2. \A s \in Landing : s \in Nat
  BY <1>1, LandingFingers DEF Slots
<1>3. CASE n \notin Landing
  <2>1. Before(n + 1) = Before(n)
    BY <1>1, <1>2, <1>3 DEF Before
  <2> QED BY <2>1
<1>4. CASE n \in Landing
  <2> DEFINE L == Before(n)
             used == {place[s] : s \in L}
  <2>1. Before(n + 1) = L \cup {n} /\ n \notin L /\ \A s \in L : s < n
    <3>1. n \in Nat /\ \A s \in Landing : s < n + 1 <=> s < n \/ s = n
      BY <1>1, <1>2
    <3>2. ~(n < n)
      BY <3>1
    <3> QED BY <1>4, <3>1, <3>2 DEF Before
  <2>2. IsFiniteSet(L) /\ Cardinality(L) < NSlots
    <3>1. L \in SUBSET (0..(n - 1))
      BY <1>1, <1>2 DEF Before
    <3>2. IsFiniteSet(0..(n - 1)) /\ Cardinality(0..(n - 1)) = n
      <4>1. 0 \in Int /\ n - 1 \in Int
        BY <1>1
      <4>2. /\ IsFiniteSet(0..(n - 1))
            /\ Cardinality(0..(n - 1))
                 = IF 0 > n - 1 THEN 0 ELSE (n - 1) - 0 + 1
        BY <4>1, FS_Interval
      <4> QED BY <1>1, <4>2
    <3>3. IsFiniteSet(L) /\ Cardinality(L) <= n
      BY <3>1, <3>2, FS_Subset
    <3>4. Cardinality(L) \in Nat
      BY <3>3, FS_CardinalityType
    <3> QED BY <1>1, <3>3, <3>4
  <2> HIDE DEF L
  <2>3. IsFiniteSet(used) /\ Cardinality(used) <= Cardinality(L)
    <3>1. place \in Surjection(L, used)
      BY DEF Surjection, L
    <3> QED BY <2>2, <3>1, FS_Surjection
  <2> HIDE DEF used
  <2>4. IsFiniteSet(Kept \cup used) /\ Cardinality(Kept \cup used) < MaskBits
    <3>1. /\ IsFiniteSet(Kept \cup used)
          /\ Cardinality(Kept \cup used)
               = Cardinality(Kept) + Cardinality(used)
                   - Cardinality(Kept \cap used)
      BY <2>3, FS_Union DEF FewKept
    <3>2. IsFiniteSet(Kept \cap used)
      BY FS_Subset DEF FewKept
    <3>3. /\ Cardinality(Kept) \in Nat /\ Cardinality(used) \in Nat
          /\ Cardinality(Kept \cap used) \in Nat
          /\ Cardinality(L) \in Nat
      BY <2>2, <2>3, <3>2, FS_CardinalityType DEF FewKept
    <3> QED BY <1>1, <2>2, <2>3, <3>1, <3>3 DEF FewKept
  <2>5. PICK b \in Bits : /\ b \notin Kept \cup used
                          /\ \A k \in 0..(b - 1) : k \in Kept \cup used
    BY <2>4, FreeBit
  <2> DEFINE more == [s \in L \cup {n} |-> IF s = n THEN b ELSE place[s]]
  <2>6. /\ more \in [L \cup {n} -> Bits]
        /\ more[n] = b
        /\ \A s \in L : more[s] = place[s]
    BY <2>1 DEF L
  <2> HIDE DEF more
  <2>7. \A s \in L : place[s] # b /\ place[s] \in used
    BY <2>5 DEF used
  <2>8. ASSUME NEW s \in L \cup {n}
        PROVE  /\ more[s] \notin Kept
               /\ \A r \in L \cup {n} : more[r] = more[s] => r = s
               /\ \A k \in 0..(more[s] - 1) :
                    \/ k \in Kept
                    \/ \E r \in L \cup {n} : r < s /\ more[r] = k
    <3>1. CASE s = n
      <4>1. \A r \in L \cup {n} : more[r] = more[s] => r = s
        BY <2>6, <2>7, <3>1
      <4>2. ASSUME NEW k \in 0..(more[s] - 1), k \notin Kept
            PROVE  \E r \in L \cup {n} : r < s /\ more[r] = k
        <5>1. k \in used
          BY <2>5, <2>6, <3>1, <4>2
        <5>2. PICK r \in L : place[r] = k
          BY <5>1 DEF used
        <5> QED BY <2>1, <2>6, <3>1, <5>2
      <4> QED BY <2>5, <2>6, <3>1, <4>1, <4>2
    <3>2. CASE s \in L
      <4>1. /\ place[s] \notin Kept
            /\ \A r \in L : place[r] = place[s] => r = s
            /\ \A k \in 0..(place[s] - 1) :
                 k \in Kept \/ \E r \in L : r < s /\ place[r] = k
        BY <3>2 DEF PlacedIn, L
      <4>2. more[s] = place[s]
        BY <2>6, <3>2
      <4>3. \A r \in L \cup {n} : more[r] = more[s] => r = s
        BY <2>6, <2>7, <3>2, <4>1
      <4>4. ASSUME NEW k \in 0..(more[s] - 1), k \notin Kept
            PROVE  \E r \in L \cup {n} : r < s /\ more[r] = k
        <5>1. PICK r \in L : r < s /\ place[r] = k
          BY <4>1, <4>2, <4>4
        <5> QED BY <2>6, <5>1
      <4> QED BY <4>1, <4>2, <4>3, <4>4
    <3> QED BY <3>1, <3>2
  <2>9. PlacedIn(L \cup {n}, more)
    BY <2>8 DEF PlacedIn
  <2> QED BY <2>1, <2>6, <2>9
<1> QED BY <1>3, <1>4

(* So all of them, for no slot is the least one that finds no bit.         *)
LEMMA AllPlaced ==
  ASSUME TypeOK, FewKept
  PROVE  \E place \in [Landing -> Bits] : LowestFree(place)
<1> DEFINE P(n) == \E place \in [Before(n) -> Bits] : PlacedIn(Before(n), place)
           S == {n \in 0..NSlots : ~P(n)}
<1>1. NSlots \in Nat
  BY SlotsAssumption
<1>2. \A s \in Landing : s \in 0..(NSlots - 1)
  BY LandingFingers DEF Slots
<1>3. S = {}
  <2> SUFFICES ASSUME S # {} PROVE FALSE
    OBVIOUS
  <2>1. S \in SUBSET Nat
    BY <1>1
  <2>2. PICK n \in S : \A m \in S : n <= m
    BY <2>1, Least
  <2>3. n # 0
    <3>1. Before(0) = {}
      BY <1>1, <1>2 DEF Before
    <3>2. [s \in {} |-> 0] \in [{} -> Bits] /\ PlacedIn({}, [s \in {} |-> 0])
      BY DEF PlacedIn
    <3>3. P(0)
      BY <3>1, <3>2
    <3> QED BY <2>2, <3>3
  <2>4. n - 1 \in 0..(NSlots - 1) /\ (n - 1) + 1 = n
    BY <1>1, <2>3
  <2>5. P(n - 1)
    <3>1. n - 1 \in 0..NSlots /\ ~(n <= n - 1)
      BY <1>1, <2>4
    <3> QED BY <2>2, <3>1
  <2>6. PICK place \in [Before(n - 1) -> Bits] :
          PlacedIn(Before(n - 1), place)
    BY <2>5
  <2>7. \E more \in [Before((n - 1) + 1) -> Bits] :
          PlacedIn(Before((n - 1) + 1), more)
    BY <2>4, <2>6, PlaceOneMore
  <2> QED BY <2>2, <2>4, <2>7
<1>4. Before(NSlots) = Landing
  BY <1>1, <1>2 DEF Before
<1>5. P(NSlots)
  BY <1>1, <1>3
<1> QED BY <1>4, <1>5 DEF PlacedIn, LowestFree

(* And in one way: the first slot where two ways differ has one lowest bit.*)
LEMMA OnlyPlacing ==
  ASSUME TypeOK, NEW p \in [Landing -> Bits], NEW q \in [Landing -> Bits],
         LowestFree(p), LowestFree(q)
  PROVE  p = q
<1> DEFINE S == {s \in Landing : p[s] # q[s]}
<1> SUFFICES ASSUME S # {} PROVE FALSE
  OBVIOUS
<1>1. S \in SUBSET Nat
  BY LandingFingers, SlotsAssumption DEF Slots
<1>2. PICK s \in S : \A r \in S : s <= r
  BY <1>1, Least
<1>3. \A r \in Landing : r < s => p[r] = q[r]
  <2>1. \A r \in Landing : r \in Int
    BY LandingFingers, SlotsAssumption DEF Slots
  <2> QED BY <1>1, <1>2, <2>1
<1>4. /\ p[s] \in Nat /\ q[s] \in Nat /\ p[s] # q[s]
      /\ p[s] \notin Kept /\ q[s] \notin Kept
  BY SlotsAssumption DEF Bits, LowestFree
<1>5. CASE p[s] < q[s]
  <2>1. PICK r \in Landing : r < s /\ q[r] = p[s]
    <3>1. p[s] \in 0..(q[s] - 1)
      BY <1>4, <1>5
    <3> QED BY <1>4, <3>1 DEF LowestFree
  <2>2. p[r] = p[s] /\ r \in Nat
    BY <1>3, <2>1, LandingFingers, SlotsAssumption DEF Slots
  <2>3. r = s
    BY <2>1, <2>2 DEF LowestFree
  <2> QED BY <1>1, <2>1, <2>2, <2>3
<1>6. CASE q[s] < p[s]
  <2>1. PICK r \in Landing : r < s /\ p[r] = q[s]
    <3>1. q[s] \in 0..(p[s] - 1)
      BY <1>4, <1>6
    <3> QED BY <1>4, <3>1 DEF LowestFree
  <2>2. q[r] = q[s] /\ r \in Nat
    BY <1>3, <2>1, LandingFingers, SlotsAssumption DEF Slots
  <2>3. r = s
    BY <2>1, <2>2 DEF LowestFree
  <2> QED BY <1>1, <2>1, <2>2, <2>3
<1> QED BY <1>4, <1>5, <1>6

(* A packet leaves at most one live touch for each slot.                   *)
LEMMA ExtractFew ==
  ASSUME Inv, Inv', Extract
  PROVE  FewKept'
<1>1. Agrees' /\ finger' = finger /\ Used' = Used
  BY ExtractAgrees DEF Extract, Used
<1> DEFINE seat == [i \in Kept' |->
                      CHOOSE s \in Used : finger[s].id = touch'[i].id]
<1>2. ASSUME NEW i \in Kept'
      PROVE  /\ i \in DOMAIN touch'
             /\ seat[i] \in Slots
             /\ finger[seat[i]].id = touch'[i].id
  <2>1. i \in Live'
    BY DEF Kept, Live
  <2>2. \E s \in Used : finger[s].id = touch'[i].id
    BY <1>1, <2>1 DEF Agrees
  <2>3. seat[i] \in Used /\ finger[seat[i]].id = touch'[i].id
    BY <2>2
  <2> QED BY <2>1, <2>3 DEF Live, Used
<1> DEFINE T == Kept'
<1>3. seat \in [T -> Slots] /\ \A i \in T : seat[i] \in Slots
  BY <1>2
<1>4. \A i, j \in T : seat[i] = seat[j] => i = j
  BY <1>2 DEF Inv, OneTouchPerContact
<1> HIDE DEF seat
<1>5. seat \in Injection(T, Slots)
  BY <1>3, <1>4 DEF Injection, IsInjective
<1>6. IsFiniteSet(Slots) /\ Cardinality(Slots) = NSlots
  <2>1. NSlots \in Nat \ {0}
    BY SlotsAssumption
  <2>2. 0 \in Int /\ NSlots - 1 \in Int
    BY <2>1
  <2>3. /\ IsFiniteSet(0..(NSlots - 1))
        /\ Cardinality(0..(NSlots - 1))
             = IF 0 > NSlots - 1 THEN 0 ELSE (NSlots - 1) - 0 + 1
    BY <2>2, FS_Interval
  <2> QED BY <2>1, <2>3 DEF Slots
<1> HIDE DEF T
<1>7. IsFiniteSet(T) /\ Cardinality(T) <= NSlots
  BY <1>5, <1>6, FS_Injection
<1> QED BY <1>7 DEF FewKept, T

LEMMA FewStep ==
  ASSUME Inv, Inv', FewKept, [Next]_vars
  PROVE  FewKept'
<1>1. ASSUME touch' = touch PROVE FewKept'
  <2>1. Kept' = Kept
    BY <1>1 DEF Kept
  <2> QED BY <2>1 DEF FewKept
<1>2. CASE Open
  <2>1. Kept' = {}
    BY <1>2 DEF Open, NoTouch, Kept
  <2> QED BY <2>1, FS_EmptySet, SlotsAssumption DEF FewKept
<1>3. CASE Extract
  BY <1>3, ExtractFew
<1>4. CASE ~Open /\ ~Extract
  <2>1. touch' = touch
    BY <1>4 DEF Next, vars, SelectSlot, Track, Place, Measure, Write
  <2> QED BY <1>1, <2>1
<1> QED BY <1>2, <1>3, <1>4

(* In every reachable state the packet that is under way can be extracted: *)
(* each finger that lands finds the index firstbit gives it, and no other  *)
(* one, however often slots were given to other fingers.  A table of twice *)
(* as many entries as the pad has slots is enough (mtstate.c:195).         *)
THEOREM PacketsFit == Spec => []PacketFits
<1>1. Init => FewKept
  <2> SUFFICES ASSUME Init PROVE FewKept
    OBVIOUS
  <2>1. Kept = {}
    BY DEF Init, NoTouch, Kept
  <2> QED BY <2>1, FS_EmptySet, SlotsAssumption DEF FewKept
<1>2. Inv /\ Inv' /\ FewKept /\ [Next]_vars => FewKept'
  BY FewStep
<1>3. Inv /\ FewKept => PacketFits
  BY AllPlaced, OnlyPlacing DEF Inv, PacketFits
<1> QED BY <1>1, <1>2, <1>3, Invariance, PTL DEF Spec
===============================================================================
