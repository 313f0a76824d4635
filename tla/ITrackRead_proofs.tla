--------------------------- MODULE ITrackRead_proofs ---------------------------
(***************************************************************************)
(* Proofs about ITrackRead, for every number of slots, set of ids, pair of *)
(* thresholds and set of readings without thumbs and palms.                *)
(*                                                                         *)
(* What makes the loops' promises inductive is what simulated_used stands  *)
(* for between two calls: the touches of the packet but those still to be  *)
(* started and those already released.  Its ids are the contacts that are  *)
(* down, one each, and so its counts are counts of fingers.                *)
(***************************************************************************)
EXTENDS ITrackRead, MtState_proofs, FiniteSetTheorems

(* With thumbs and palms the properties do not hold (see README.md).       *)
FingersOnly == \A reading \in Readings : ~reading.thumb /\ ~reading.palm

IsFinger(reading) == ~reading.thumb /\ ~reading.palm

FingersInv ==
  /\ \A s \in Slots : IsFinger(finger[s].reading)
  /\ \A i \in DOMAIN touch :
       ~Ignored(touch[i]) /\ ~(touch[i].new /\ touch[i].released)

(* What simulated_used is in the first loop.                               *)
StartedOnly ==
  {i \in DOMAIN touch : /\ touch[i].new => i \notin pending
                        /\ touch[i].released => i \in pending}

LoopInv ==
  /\ loop \in {"changes", "moves"}
  /\ call \in CallType
  /\ loop = "changes" => /\ pending \subseteq Changing(touch)
                         /\ used = StartedOnly
                         /\ call.kind # "move"
  /\ loop = "moves" => /\ pending \subseteq Moving(touch, used)
                       /\ used = Live
                       /\ call.kind = "move" =>
                            \A j \in pending : call.idx < Rank(j)
  /\ down = {touch[i].id : i \in used}

ReadInv == Inv /\ FingersInv /\ LoopInv

-----------------------------------------------------------------------------
(* Counting.                                                               *)

LEMMA TouchesFinite ==
  ASSUME TypeOK, NEW S, S \subseteq DOMAIN touch
  PROVE  IsFiniteSet(S) /\ Cardinality(S) \in Nat /\ S \subseteq Int
<1>1. MaskBits - 1 \in Int /\ Bits = 0..(MaskBits - 1)
  BY SlotsAssumption DEF SlotsAssumption, Bits
<1>2. S \subseteq Bits /\ IsFiniteSet(Bits)
  BY <1>1, FS_Interval DEF TypeOK
<1>3. IsFiniteSet(S)
  BY <1>2, FS_Subset
<1> QED BY <1>1, <1>2, <1>3, FS_CardinalityType

(* Every touch is a contact of its own.                                    *)
LEMMA ContactsOf ==
  ASSUME TypeOK, OneTouchPerContact, NEW S, S \subseteq DOMAIN touch
  PROVE  Cardinality({touch[i].id : i \in S}) = Cardinality(S)
<1> DEFINE T == {touch[i].id : i \in S}
           f == [i \in S |-> touch[i].id]
<1>1. f \in [S -> T]
  OBVIOUS
<1>2. \A i, j \in S : f[i] = f[j] => i = j
  BY DEF OneTouchPerContact
<1>3. \A id \in T : \E i \in S : f[i] = id
  OBVIOUS
<1> HIDE DEF f, T
<1>4. f \in Bijection(S, T)
  BY <1>1, <1>2, <1>3 DEF Bijection, Injection, Surjection, IsInjective
<1>5. IsFiniteSet(S)
  BY TouchesFinite
<1>6. Cardinality(T) = Cardinality(S)
  BY <1>4, <1>5, FS_Bijection DEF ExistsBijection
<1> QED BY <1>6 DEF T

(* The touch the second loop comes to: its rank leaves room for those that *)
(* follow, and theirs are higher.                                          *)
LEMMA RankOfLowest ==
  ASSUME TypeOK, used \subseteq DOMAIN touch, pending \subseteq used,
         NEW i, Lowest(i)
  PROVE  /\ Rank(i) \in Nat
         /\ Rank(i) + Cardinality(pending) <= Cardinality(used)
         /\ \A j \in pending \ {i} : Rank(i) < Rank(j)
<1> DEFINE B(k) == {j \in used : j < k}
<1>1. /\ IsFiniteSet(used) /\ used \subseteq Int
      /\ IsFiniteSet(pending) /\ Cardinality(pending) \in Nat
      /\ \A k : IsFiniteSet(B(k)) /\ Cardinality(B(k)) \in Nat
  <2>1. pending \subseteq DOMAIN touch /\ \A k : B(k) \subseteq DOMAIN touch
    OBVIOUS
  <2> QED BY <2>1, TouchesFinite
<1>2. i \in pending /\ \A j \in pending : i <= j
  BY DEF Lowest
<1>3. \A k : Rank(k) = Cardinality(B(k))
  BY DEF Rank
<1>4. Rank(i) + Cardinality(pending) <= Cardinality(used)
  <2>1. B(i) \cap pending = {}
    BY <1>1, <1>2
  <2>2. Cardinality(B(i) \cup pending) = Rank(i) + Cardinality(pending)
    <3>1. Cardinality(B(i) \cup pending)
            = Cardinality(B(i)) + Cardinality(pending)
                - Cardinality(B(i) \cap pending)
      BY <1>1, FS_Union
    <3>2. Cardinality(B(i) \cap pending) = 0
      BY <2>1, FS_EmptySet
    <3> QED BY <1>1, <1>3, <3>1, <3>2
  <2>3. B(i) \cup pending \subseteq used
    OBVIOUS
  <2>4. Cardinality(B(i) \cup pending) <= Cardinality(used)
    BY <1>1, <2>3, FS_Subset
  <2> QED BY <2>2, <2>4
<1>5. ASSUME NEW j \in pending \ {i}
      PROVE  Rank(i) < Rank(j)
  <2>1. i < j /\ i \in Int
    BY <1>1, <1>2
  <2>2. B(i) \cup {i} \subseteq B(j) /\ i \notin B(i)
    <3>1. i \in used /\ j \in Int
      BY <1>1, <1>2
    <3>2. \A k \in used : k < i => k < j
      BY <2>1, <3>1, <1>1
    <3> QED BY <2>1, <3>1, <3>2
  <2>3. Cardinality(B(i) \cup {i}) = Cardinality(B(i)) + 1
    <3>1. IsFiniteSet(B(i)) /\ i \notin B(i)
      BY <1>1, <2>2
    <3> HIDE DEF B
    <3> QED BY <3>1, FS_AddElement
  <2>4. Cardinality(B(i) \cup {i}) <= Cardinality(B(j))
    BY <1>1, <2>2, FS_Subset
  <2>5. Cardinality(B(i)) \in Nat /\ Cardinality(B(j)) \in Nat
    BY <1>1
  <2> HIDE DEF B
  <2> QED BY <1>3, <2>3, <2>4, <2>5
<1> QED BY <1>1, <1>3, <1>4, <1>5

-----------------------------------------------------------------------------
(* A packet.                                                               *)

LEMMA FlaggedFinger ==
  ASSUME NEW t \in TouchType, NEW f, IsFinger(f.reading)
  PROVE  ~Ignored(Flagged(t, f))
BY DEF Flagged, TouchType, IsFinger, Ignored

LEMMA UpdatedFinger ==
  ASSUME TypeOK, NEW t \in TouchType, ~Ignored(t),
         \A s \in Slots : IsFinger(finger[s].reading)
  PROVE  ~Ignored(Updated(t)) /\ Updated(t).new = FALSE
<1>1. CASE FingersOf(t) = {}
  <2>1. Updated(t) = Released(t)
    BY <1>1 DEF Updated
  <2>2. Released(t).thumb = t.thumb /\ Released(t).palm = t.palm
    BY DEF Released, TouchType
  <2> QED BY <2>1, <2>2, ReleasedFields DEF Ignored
<1>2. CASE FingersOf(t) # {}
  <2> DEFINE f == FingerOf(t)
             u == IF IsRelease(f) THEN Released(t) ELSE Moved(t, f)
  <2>1. f \in FingerType /\ IsFinger(f.reading)
    <3>1. (CHOOSE s \in FingersOf(t) : TRUE) \in Slots
      BY <1>2 DEF FingersOf, Used
    <3> QED BY <3>1 DEF TypeOK, FingerOf
  <2>2. Updated(t) = Flagged(u, f)
    BY <1>2 DEF Updated
  <2>3. u \in TouchType /\ u.new = FALSE
    <3>1. Released(t) \in TouchType /\ Released(t).new = FALSE
      BY ReleasedType, ReleasedFields
    <3>2. Moved(t, f) \in TouchType /\ Moved(t, f).new = FALSE
      BY <2>1, MovedType, MovedFields
    <3> QED BY <3>1, <3>2
  <2> HIDE DEF f, u
  <2> QED BY <2>1, <2>2, <2>3, FlaggedFinger, FlaggedFields
<1> QED BY <1>1, <1>2

(* The touches that are not new after a packet are those it found live.    *)
LEMMA ExtractFingers ==
  ASSUME Inv, FingersInv, Extract
  PROVE  /\ FingersInv'
         /\ {touch'[i].id : i \in Simulated(touch')}
              = {touch[i].id : i \in Live}
<1>1. PICK place \in [Landing -> Bits] :
           /\ DOMAIN touch' = Kept \cup {place[s] : s \in Landing}
           /\ \A i \in Kept : touch'[i] = Updated(touch[i])
           /\ \A s \in Landing :
                /\ place[s] \notin Kept
                /\ touch'[place[s]] = Flagged(Appended(finger[s]), finger[s])
           /\ \A r, s \in Landing : place[r] = place[s] => r = s
  BY ExtractTable
<1>2. TypeOK /\ finger' = finger /\ Kept = Live
  BY DEF Inv, Extract, Kept, Live
<1>3. ASSUME NEW i \in Kept
      PROVE  /\ ~Ignored(touch'[i])
             /\ touch'[i].new = FALSE
             /\ touch'[i].id = touch[i].id
  <2>1. touch[i] \in TouchType /\ Sound(touch[i]) /\ ~Ignored(touch[i])
    BY <1>2 DEF Inv, TouchesSound, Sound, FingersInv, Kept
  <2> QED
    BY <1>1, <1>2, <2>1, UpdatedFinger, UpdatedSound DEF FingersInv
<1>4. ASSUME NEW s \in Landing
      PROVE  /\ ~Ignored(touch'[place[s]])
             /\ touch'[place[s]].new = TRUE
             /\ touch'[place[s]].released = FALSE
  <2> DEFINE f == finger[s]
  <2>1. f \in FingerType /\ f.id # NullId /\ IsFinger(f.reading)
    BY <1>2, LandingFingers DEF FingersInv
  <2>2. Appended(f) \in TouchType
    BY <2>1, AppendedType
  <2>3. touch'[place[s]] = Flagged(Appended(f), f)
    BY <1>1
  <2> HIDE DEF f
  <2>4. ~Ignored(touch'[place[s]])
    BY <2>1, <2>2, <2>3, FlaggedFinger
  <2>5. touch'[place[s]].new = TRUE /\ touch'[place[s]].released = FALSE
    BY <2>1, <2>3, AppendedSound
  <2> QED BY <2>4, <2>5
<1>5. FingersInv'
  <2>1. ASSUME NEW i \in DOMAIN touch'
        PROVE  /\ ~Ignored(touch'[i])
               /\ ~(touch'[i].new /\ touch'[i].released)
    BY <1>1, <1>3, <1>4
  <2> QED BY <1>2, <2>1 DEF FingersInv
<1>6. Simulated(touch') = Kept
  <2>1. \A i \in DOMAIN touch' :
          i \in Kept <=> Ignored(touch'[i]) \/ ~touch'[i].new
    BY <1>1, <1>3, <1>4
  <2>2. Kept \subseteq DOMAIN touch'
    BY <1>1
  <2> QED BY <2>1, <2>2 DEF Simulated
<1> QED BY <1>2, <1>3, <1>5, <1>6

-----------------------------------------------------------------------------
(* The invariant.                                                          *)

LEMMA ReadInitInv == ReadInit => ReadInv
<1> SUFFICES ASSUME ReadInit PROVE ReadInv
  OBVIOUS
<1>1. Inv
  BY InitInv DEF ReadInit
<1>2. DOMAIN touch = {} /\ finger = [s \in Slots |-> NoFinger]
  BY DEF ReadInit, Init, NoTouch
<1>3. FingersInv
  BY <1>2 DEF FingersInv, NoFinger, IsFinger
<1>4. LoopInv
  BY <1>2 DEF ReadInit, LoopInv, CallType, NoCall, Live, Moving
<1> QED BY <1>1, <1>3, <1>4 DEF ReadInv

LEMMA MtSteps ==
  ASSUME ReadNext
  PROVE  [Next]_vars
<1>1. ASSUME NEW i \in pending, Start(i) \/ Release(i) \/ Move(i)
      PROVE  UNCHANGED vars
  BY <1>1 DEF Start, Release, Move, Called
<1> QED BY <1>1 DEF ReadNext, Event, Read, SecondLoop, Reopen, Next

LEMMA FingersStep ==
  ASSUME FingersOnly, ReadInv, [ReadNext]_readVars
  PROVE  FingersInv'
<1> USE DEF ReadInv
<1>1. CASE Extract
  BY <1>1, ExtractFingers
<1>2. CASE Open
  <2>1. DOMAIN touch' = {} /\ finger' = [s \in Slots |-> NoFinger]
    BY <1>2 DEF Open, NoTouch
  <2> QED BY <2>1 DEF FingersInv, NoFinger, IsFinger
<1>3. CASE UNCHANGED vars
  BY <1>3 DEF vars, FingersInv
<1>4. ASSUME NEW f \in FingerType, IsFinger(f.reading), Write(f)
      PROVE  FingersInv'
  BY <1>4 DEF FingersInv, Write, Inv, TypeOK
<1>5. CASE Event
  <2>0. finger[slot] \in FingerType /\ IsFinger(finger[slot].reading)
    BY DEF Inv, TypeOK, FingersInv
  <2>1. ASSUME NEW s \in Slots, SelectSlot(s)
        PROVE  FingersInv'
    BY <2>1 DEF SelectSlot, FingersInv
  <2>2. ASSUME NEW id \in Ids \cup {NullId}, Track(id)
        PROVE  FingersInv'
    BY <1>4, <2>0, <2>2 DEF Track, FingerType
  <2>3. ASSUME NEW x \in Positions, Place(x)
        PROVE  FingersInv'
    BY <1>4, <2>0, <2>3, PositionsAssumption
       DEF Place, FingerType, PositionsAssumption
  <2>4. ASSUME NEW reading \in Readings, Measure(reading)
        PROVE  FingersInv'
    BY <1>4, <2>0, <2>4, ReadingsAssumption
       DEF Measure, FingerType, ReadingsAssumption, FingersOnly, IsFinger
  <2> QED BY <1>5, <2>1, <2>2, <2>3, <2>4 DEF Event
<1>6. CASE UNCHANGED readVars
  BY <1>3, <1>6 DEF readVars
<1>7. ASSUME NEW i \in pending, Start(i) \/ Release(i) \/ Move(i)
      PROVE  UNCHANGED vars
  BY <1>7 DEF Start, Release, Move, Called
<1> QED
  BY <1>1, <1>2, <1>3, <1>5, <1>6, <1>7
     DEF ReadNext, Read, SecondLoop, Reopen

(* What a step does to the loops, call by call.                            *)
LEMMA UsedTouches ==
  ASSUME ReadInv
  PROVE  /\ TypeOK
         /\ OneTouchPerContact
         /\ used \subseteq DOMAIN touch
         /\ pending \subseteq DOMAIN touch
         /\ \A i \in DOMAIN touch : ~Ignored(touch[i])
         /\ \A i \in DOMAIN touch : ~(touch[i].new /\ touch[i].released)
         /\ \A i \in DOMAIN touch : touch[i].id \in Ids
<1>1. TypeOK /\ OneTouchPerContact
  BY DEF ReadInv, Inv
<1>2. used \subseteq DOMAIN touch /\ pending \subseteq DOMAIN touch
  BY DEF ReadInv, LoopInv, StartedOnly, Live, Changing, Moving
<1>3. \A i \in DOMAIN touch : touch[i].id \in Ids
  BY <1>1 DEF TypeOK, TouchType
<1> QED BY <1>1, <1>2, <1>3 DEF ReadInv, FingersInv

LEMMA CountType ==
  ASSUME ReadInv, NEW i \in pending
  PROVE  /\ Cardinality(used) \in Nat
         /\ Cardinality(used \cup {i}) \in Nat
         /\ Rank(i) \in Nat
<1> DEFINE below == {j \in used : j < i}
<1>1. TypeOK /\ used \subseteq DOMAIN touch /\ i \in DOMAIN touch
  BY UsedTouches
<1>2. used \cup {i} \subseteq DOMAIN touch /\ below \subseteq DOMAIN touch
  BY <1>1
<1>3. Rank(i) = Cardinality(below)
  BY DEF Rank
<1> HIDE DEF below
<1> QED BY <1>1, <1>2, <1>3, TouchesFinite

LEMMA StartStep ==
  ASSUME ReadInv, NEW i \in pending, Start(i)
  PROVE  LoopInv' /\ touch[i].id \notin down
<1> USE DEF ReadInv, LoopInv
<1>1. /\ loop = "changes" /\ loop' = loop /\ touch' = touch
      /\ touch[i].new /\ i \in DOMAIN touch /\ ~touch[i].released
      /\ pending' = pending \ {i}
      /\ used' = used \cup {i}
      /\ down' = down \cup {touch[i].id}
      /\ call' = [kind |-> "start", count |-> Cardinality(used'), idx |-> 0]
  BY UsedTouches DEF Start, Called, vars
<1>2. used' = StartedOnly'
  BY <1>1 DEF StartedOnly
<1>3. pending' \subseteq Changing(touch')
  BY <1>1
<1>4. down' = {touch'[j].id : j \in used'}
  BY <1>1
<1>5. call' \in CallType /\ call'.kind # "move"
  BY <1>1, CountType DEF CallType
<1>6. touch[i].id \notin down
  <2>1. i \notin used
    BY <1>1 DEF StartedOnly
  <2> QED BY <1>1, <2>1, UsedTouches DEF OneTouchPerContact
<1> QED BY <1>1, <1>2, <1>3, <1>4, <1>5, <1>6

LEMMA ReleaseStep ==
  ASSUME ReadInv, NEW i \in pending, Release(i)
  PROVE  LoopInv' /\ i \in used /\ ~touch[i].new
<1> USE DEF ReadInv, LoopInv
<1>1. /\ loop = "changes" /\ loop' = loop /\ touch' = touch
      /\ ~touch[i].new /\ i \in DOMAIN touch
      /\ pending' = pending \ {i}
      /\ used' = used \ {i}
      /\ down' = down \ {touch[i].id}
      /\ call' = [kind |-> "release", count |-> Cardinality(used), idx |-> 0]
  BY UsedTouches DEF Release, Called, vars
<1>2. touch[i].released
  BY <1>1 DEF Changing
<1>3. used' = StartedOnly'
  BY <1>1, <1>2 DEF StartedOnly
<1>4. pending' \subseteq Changing(touch')
  BY <1>1
<1>5. down' = {touch'[j].id : j \in used'}
  BY <1>1, UsedTouches DEF OneTouchPerContact
<1>6. call' \in CallType /\ call'.kind # "move"
  BY <1>1, CountType DEF CallType
<1>7. i \in used
  BY <1>1 DEF StartedOnly
<1> QED BY <1>1, <1>3, <1>4, <1>5, <1>6, <1>7

LEMMA MoveStep ==
  ASSUME ReadInv, NEW i \in pending, Move(i)
  PROVE  /\ LoopInv'
         /\ pending \subseteq used
         /\ i \in used
         /\ Rank(i) \in Nat
         /\ Rank(i) + Cardinality(pending) <= Cardinality(used)
<1> USE DEF ReadInv, LoopInv
<1>1. /\ loop = "moves" /\ loop' = loop /\ touch' = touch
      /\ pending' = pending \ {i} /\ used' = used /\ down' = down
      /\ call' = [kind |-> "move", count |-> Cardinality(used),
                  idx |-> Rank(i)]
      /\ Lowest(i)
  BY DEF Move, Called, vars
<1>2. pending \subseteq used
  BY <1>1 DEF Moving
<1>3. /\ Rank(i) \in Nat
      /\ Rank(i) + Cardinality(pending) <= Cardinality(used)
      /\ \A j \in pending \ {i} : Rank(i) < Rank(j)
  BY <1>1, <1>2, UsedTouches, RankOfLowest
<1>4. pending' \subseteq Moving(touch', used') /\ used' = Live'
  BY <1>1 DEF Live
<1>5. call' \in CallType
  BY <1>1, <1>3, CountType DEF CallType
<1>6. \A j \in pending' : call'.idx < Rank(j)'
  BY <1>1, <1>3 DEF Rank
<1>7. down' = {touch'[j].id : j \in used'}
  BY <1>1
<1> QED BY <1>1, <1>2, <1>3, <1>4, <1>5, <1>6, <1>7

LEMMA ReadStep ==
  ASSUME ReadInv, Read, FingersInv', DOMAIN touch' \subseteq Bits
  PROVE  LoopInv' /\ used' = {i \in used' : ~touch'[i].new}
<1> USE DEF ReadInv, LoopInv
<1>1. /\ loop' = "changes" /\ call' = NoCall /\ down' = down
      /\ pending' = Changing(touch') /\ used' = Simulated(touch')
      /\ used = Live
  BY DEF Read, Returned
<1>2. \A i \in DOMAIN touch' :
        ~Ignored(touch'[i]) /\ ~(touch'[i].new /\ touch'[i].released)
  BY DEF FingersInv
<1>3. \A i \in DOMAIN touch' :
        i \in pending' <=> touch'[i].new \/ touch'[i].released
  BY <1>1, <1>2 DEF Changing
<1>4. \A i \in DOMAIN touch' : i \in used' <=> ~touch'[i].new
  BY <1>1, <1>2 DEF Simulated
<1>5. used' \subseteq DOMAIN touch' /\ pending' \subseteq DOMAIN touch'
  BY <1>1 DEF Simulated, Changing
<1>6. used' = StartedOnly'
  BY <1>2, <1>3, <1>4, <1>5 DEF StartedOnly
<1>7. down' = {touch'[i].id : i \in used'}
  BY <1>1, ExtractFingers DEF Read
<1> QED
  BY <1>1, <1>4, <1>5, <1>6, <1>7 DEF NoCall, CallType

LEMMA SecondLoopStep ==
  ASSUME ReadInv, SecondLoop
  PROVE  LoopInv' /\ pending' = {i \in used : ~touch[i].new}
<1> USE DEF ReadInv, LoopInv
<1>1. /\ loop = "changes" /\ pending = {} /\ used = StartedOnly
      /\ loop' = "moves" /\ call' = NoCall /\ touch' = touch
      /\ pending' = Moving(touch, used) /\ used' = used /\ down' = down
  BY DEF SecondLoop, vars
<1>2. used' = Live'
  BY <1>1 DEF StartedOnly, Live
<1>3. pending' = {i \in used : ~touch[i].new}
  BY <1>1, <1>2, UsedTouches DEF Moving, Live
<1> QED BY <1>1, <1>2, <1>3 DEF NoCall, CallType

LEMMA LoopStep ==
  ASSUME ReadInv, [ReadNext]_readVars, FingersInv', Inv'
  PROVE  LoopInv'
<1>1. CASE Event \/ UNCHANGED readVars
  <2>1. UNCHANGED <<touch, dispatch>>
    BY <1>1 DEF Event, SelectSlot, Track, Place, Measure, Write, readVars, vars
  <2> QED
    BY <2>1 DEF dispatch, ReadInv, LoopInv, Changing, StartedOnly, Moving,
                Live, Rank
<1>2. CASE Read
  BY <1>2, ReadStep DEF Inv, TypeOK
<1>3. CASE Reopen
  BY <1>3 DEF Reopen, Returned, Open, NoTouch, LoopInv, NoCall, CallType,
              Live, Moving
<1> QED
  BY <1>1, <1>2, <1>3, StartStep, ReleaseStep, MoveStep, SecondLoopStep
     DEF ReadNext

(* The invariant holds in every reachable state.                           *)
THEOREM ReadInvariance ==
  ASSUME FingersOnly
  PROVE  ReadSpec => []ReadInv
<1>1. ReadInv /\ [ReadNext]_readVars => Inv'
  <2> SUFFICES ASSUME ReadInv, [ReadNext]_readVars PROVE Inv'
    OBVIOUS
  <2>1. [Next]_vars
    BY MtSteps DEF readVars
  <2>2. CASE UNCHANGED vars
    BY <2>2 DEF ReadInv, Inv, TypeOK, OneSlotPerContact, OneTouchPerContact,
                TouchesSound, Sound, vars
  <2> QED BY <2>1, <2>2, NextInv DEF ReadInv
<1>2. ReadInv /\ [ReadNext]_readVars => ReadInv'
  BY <1>1, FingersStep, LoopStep DEF ReadInv
<1> QED BY <1>2, ReadInitInv, PTL DEF ReadSpec

(* The loops keep their types: indices of touches, ids and counts.         *)
THEOREM ReadTypes ==
  ASSUME FingersOnly
  PROVE  ReadSpec => []ReadTypeOK
<1>1. ReadInv => ReadTypeOK
  <2> SUFFICES ASSUME ReadInv PROVE ReadTypeOK
    OBVIOUS
  <2> QED BY UsedTouches DEF ReadInv, LoopInv, ReadTypeOK
<1> QED BY <1>1, ReadInvariance, PTL

(* When itrack_read returns, the touch handler knows the live touches: each*)
(* was started once, and is released in the packet that releases it.       *)
THEOREM KnowsTheLive ==
  ASSUME FingersOnly
  PROVE  ReadSpec => []DownIsLive
<1>1. ReadInv => DownIsLive
  BY DEF ReadInv, LoopInv, Returned, DownIsLive
<1> QED BY <1>1, ReadInvariance, PTL

-----------------------------------------------------------------------------
(* The calls.                                                              *)

(* The fingers down before and after a call.                               *)
LEMMA FingersCounted ==
  ASSUME ReadInv
  PROVE  /\ Cardinality(down) = Cardinality(used)
         /\ Cardinality(used) \in Nat
         /\ Cardinality(pending) \in Nat
         /\ Cardinality(Waiting) \in Nat
         /\ IsFiniteSet(used) /\ IsFiniteSet(pending) /\ IsFiniteSet(Waiting)
<1>1. used \subseteq DOMAIN touch /\ pending \subseteq DOMAIN touch
  BY UsedTouches
<1>2. Waiting \subseteq DOMAIN touch
  BY <1>1 DEF Waiting
<1>3. down = {touch[i].id : i \in used}
  BY DEF ReadInv, LoopInv
<1> QED BY <1>1, <1>2, <1>3, UsedTouches, ContactsOf, TouchesFinite

LEMMA FingersCountedNext ==
  ReadInv' => Cardinality(down)' = Cardinality(used)'
<1> DEFINE Counted == Cardinality(down) = Cardinality(used)
<1>1. ReadInv => Counted
  BY FingersCounted
<1>2. ReadInv' => Counted'
  BY <1>1, PTL
<1> QED BY <1>2

LEMMA StartCounts ==
  ASSUME ReadInv, NEW i \in pending, Start(i)
  PROVE  /\ Cardinality(used') = Cardinality(used) + 1
         /\ Cardinality(down') = Cardinality(used')
<1>1. /\ touch' = touch /\ used' = used \cup {i}
      /\ down' = {touch[j].id : j \in used'}
  BY StartStep DEF Start, Called, vars, LoopInv
<1>2. used' \subseteq DOMAIN touch
  BY <1>1, UsedTouches
<1>3. Cardinality(down') = Cardinality(used')
  BY <1>1, <1>2, UsedTouches, ContactsOf
<1>4. i \notin used
  BY StartStep DEF ReadInv, LoopInv
<1> QED BY <1>1, <1>3, <1>4, FingersCounted, FS_AddElement

LEMMA ReleaseCounts ==
  ASSUME ReadInv, NEW i \in pending, Release(i)
  PROVE  /\ Cardinality(used') = Cardinality(used) - 1
         /\ Cardinality(down') = Cardinality(used')
<1>1. /\ touch' = touch /\ used' = used \ {i}
      /\ down' = {touch[j].id : j \in used'}
  BY ReleaseStep DEF Release, Called, vars, LoopInv
<1>2. used' \subseteq DOMAIN touch
  BY <1>1, UsedTouches
<1>3. Cardinality(down') = Cardinality(used')
  BY <1>1, <1>2, UsedTouches, ContactsOf
<1> QED
  BY <1>1, <1>3, ReleaseStep, FingersCounted, FS_RemoveElement

(* Every call comes with the number of fingers then down; only a finger    *)
(* that is down moves or leaves, only one that is not lands.               *)
THEOREM CallsAreInOrder ==
  ASSUME FingersOnly
  PROVE  ReadSpec => CallsInOrder
<1>1. ReadInv =>
        [\A i \in pending :
           LET id == touch[i].id
           IN  /\ Start(i) =>
                    id \notin down /\ call'.count = Cardinality(down')
               /\ Release(i) => id \in down /\ call'.count = Cardinality(down)
               /\ Move(i)    => id \in down /\ call'.count = Cardinality(down)
        ]_readVars
  <2> SUFFICES ASSUME ReadInv, NEW i \in pending
      PROVE  LET id == touch[i].id
             IN  /\ Start(i) =>
                      id \notin down /\ call'.count = Cardinality(down')
                 /\ Release(i) =>
                      id \in down /\ call'.count = Cardinality(down)
                 /\ Move(i) => id \in down /\ call'.count = Cardinality(down)
    OBVIOUS
  <2>1. ASSUME Start(i)
        PROVE  touch[i].id \notin down /\ call'.count = Cardinality(down')
    <3>1. call'.count = Cardinality(used')
      BY <2>1 DEF Start, Called
    <3> QED BY <2>1, <3>1, StartStep, StartCounts
  <2>2. ASSUME Release(i)
        PROVE  touch[i].id \in down /\ call'.count = Cardinality(down)
    <3>1. call'.count = Cardinality(used)
      BY <2>2 DEF Release, Called
    <3> QED
      BY <2>2, <3>1, ReleaseStep, FingersCounted DEF ReadInv, LoopInv
  <2>3. ASSUME Move(i)
        PROVE  touch[i].id \in down /\ call'.count = Cardinality(down)
    <3>1. call'.count = Cardinality(used)
      BY <2>3 DEF Move, Called
    <3> QED
      BY <2>3, <3>1, MoveStep, FingersCounted DEF ReadInv, LoopInv
  <2> QED BY <2>1, <2>2, <2>3
<1> QED BY <1>1, ReadInvariance, PTL DEF CallsInOrder

-----------------------------------------------------------------------------
(* The refinement of TouchCalls.                                           *)

Cursor == IF call.kind = "move" THEN call.idx + 1 ELSE 0

LEMMA CallsBegin == ReadInit => Calls!NoCalls
<1> SUFFICES ASSUME ReadInit PROVE Calls!NoCalls
  OBVIOUS
<1>1. down = {} /\ Waiting = {} /\ call.kind = "none"
  BY DEF ReadInit, Waiting, NoCall
<1> QED BY <1>1, FS_EmptySet DEF Calls!NoCalls

LEMMA CallsStep ==
  ASSUME ReadInv, ReadInv', [ReadNext]_readVars
  PROVE  [Calls!CallNext]_Calls!CallVars
<1> DEFINE fingers == Cardinality(down)
           old     == Cardinality(Waiting)
<1>0. /\ fingers = Cardinality(used) /\ fingers \in Nat /\ old \in Nat
      /\ Cursor = IF call.kind = "move" THEN call.idx + 1 ELSE 0
      /\ Cursor' = IF call'.kind = "move" THEN call'.idx + 1 ELSE 0
  BY FingersCounted DEF Cursor
<1>1. CASE Event \/ UNCHANGED readVars
  <2>1. UNCHANGED <<touch, dispatch>>
    BY <1>1 DEF Event, SelectSlot, Track, Place, Measure, Write, readVars, vars
  <2>2. UNCHANGED <<fingers, old, Cursor>>
    BY <2>1 DEF dispatch, Waiting, Cursor
  <2> QED BY <1>0, <2>2 DEF Calls!CallVars
<1>2. CASE Reopen
  <2>1. down' = {} /\ Waiting' = {} /\ call' = NoCall
    BY <1>2 DEF Reopen, Returned, Waiting
  <2>2. fingers' = 0 /\ old' = 0 /\ Cursor' = 0
    BY <2>1, FS_EmptySet DEF Cursor, NoCall
  <2> QED BY <1>0, <2>2 DEF Calls!CallNext, Calls!Reset
<1>3. CASE Read
  <2>1. Waiting = {} /\ Waiting' = used' /\ down' = down /\ call' = NoCall
    BY <1>3, ReadStep DEF Read, Returned, Waiting, ReadInv, Inv, TypeOK
  <2>2. old = 0 /\ fingers' = fingers /\ Cursor' = 0
    BY <2>1, FS_EmptySet DEF Cursor, NoCall
  <2>3. old' = fingers
    <3>1. ReadInv' => Cardinality(down)' = Cardinality(used)'
      BY FingersCountedNext
    <3> QED BY <2>1, <2>2, <3>1
  <2> QED BY <1>0, <2>2, <2>3 DEF Calls!CallNext, Calls!Begin
<1>4. ASSUME NEW i \in pending, Start(i)
      PROVE  Calls!CallNext
  <2>1. Waiting' = Waiting /\ Cursor = 0 /\ Cursor' = 0
    <3>1. /\ loop = "changes" /\ loop' = loop /\ touch' = touch
          /\ used' = used \cup {i} /\ touch[i].new /\ call'.kind = "start"
          /\ call.kind # "move"
      BY <1>4 DEF Start, Called, vars, ReadInv, LoopInv
    <3> QED BY <3>1 DEF Waiting, Cursor
  <2>2. fingers' = fingers + 1
    BY <1>0, <1>4, StartCounts
  <2> QED BY <1>0, <2>1, <2>2 DEF Calls!CallNext, Calls!Started
<1>5. ASSUME NEW i \in pending, Release(i)
      PROVE  Calls!CallNext
  <2>1. /\ Waiting' = Waiting \ {i} /\ i \in Waiting
        /\ Cursor = 0 /\ Cursor' = 0
    <3>1. /\ loop = "changes" /\ loop' = loop /\ touch' = touch
          /\ used' = used \ {i} /\ ~touch[i].new /\ i \in used
          /\ call'.kind = "release" /\ call.kind # "move"
      BY <1>5, ReleaseStep DEF Release, Called, vars, ReadInv, LoopInv
    <3> QED BY <3>1 DEF Waiting, Cursor
  <2>2. old' = old - 1 /\ old > 0
    <3>1. old # 0
      BY <2>1, FingersCounted, FS_EmptySet
    <3>2. Cardinality(Waiting \ {i}) = Cardinality(Waiting) - 1
      BY <2>1, FingersCounted, FS_RemoveElement
    <3> QED BY <1>0, <2>1, <3>1, <3>2
  <2>3. fingers' = fingers - 1
    BY <1>0, <1>5, ReleaseCounts
  <2> QED BY <1>0, <2>1, <2>2, <2>3 DEF Calls!CallNext, Calls!Released
<1>6. ASSUME NEW i \in pending, Move(i)
      PROVE  Calls!CallNext
  <2>1. /\ Waiting = pending /\ Waiting' = pending \ {i}
        /\ fingers' = fingers
        /\ Cursor' = Rank(i) + 1
    BY <1>6 DEF Move, Called, vars, Waiting, Cursor
  <2>2. old' = old - 1 /\ old > 0
    <3>1. old # 0
      BY <2>1, FingersCounted, FS_EmptySet
    <3>2. Cardinality(Waiting \ {i}) = Cardinality(Waiting) - 1
      BY <2>1, FingersCounted, FS_RemoveElement
    <3> QED BY <1>0, <2>1, <3>1, <3>2
  <2>3. Rank(i) \in Nat /\ Rank(i) + old <= fingers
    BY <1>0, <1>6, <2>1, MoveStep
  <2>4. Cursor <= Rank(i) /\ Cursor \in Nat
    <3>1. call.kind = "move" => call.idx < Rank(i)
      BY <1>6 DEF Move, ReadInv, LoopInv
    <3>2. call.idx \in Nat
      BY DEF ReadInv, LoopInv, CallType
    <3> QED BY <2>3, <3>1, <3>2 DEF Cursor
  <2>5. Rank(i) \in Cursor..(fingers - old)
    BY <1>0, <2>3, <2>4
  <2> QED BY <1>0, <2>1, <2>2, <2>5 DEF Calls!CallNext, Calls!Moved
<1>7. CASE SecondLoop
  <2>1. Waiting' = Waiting /\ down' = down
    BY <1>7, SecondLoopStep DEF Waiting, SecondLoop
  <2>2. Cursor = 0 /\ Cursor' = 0
    BY <1>7 DEF SecondLoop, ReadInv, LoopInv, Cursor, NoCall
  <2>3. UNCHANGED <<fingers, old, Cursor>>
    BY <2>1, <2>2
  <2> QED BY <1>0, <2>3 DEF Calls!CallVars
<1> QED
  BY <1>1, <1>2, <1>3, <1>4, <1>5, <1>6, <1>7 DEF ReadNext

(* The loops implement TouchCalls: no finger of the packet before is moved *)
(* twice or left out, none moves before all have landed and left, and at   *)
(* most one has the index 0.                                               *)
THEOREM PromiseKept ==
  ASSUME FingersOnly
  PROVE  ReadSpec => KeepsPromise
<1>1. ReadInv /\ ReadInv' /\ [ReadNext]_readVars
        => [Calls!CallNext]_Calls!CallVars
  BY CallsStep
<1> QED
  BY <1>1, CallsBegin, ReadInvariance, PTL
     DEF ReadSpec, KeepsPromise, Calls!CallSpec

===============================================================================
