------------------------------ MODULE ITrackRead ------------------------------
(***************************************************************************)
(* itrack_read of itrack-main.c: a packet is extracted into touches, and   *)
(* two loops call the touch handler for each of them.                      *)
(*                                                                         *)
(* Every round of a loop that makes a call is a step, the last call made   *)
(* its result, and `down' is what the touch handler can know from them.    *)
(* ITrack makes calls of the shape stated here (TouchCalls).               *)
(***************************************************************************)
EXTENDS MtState

VARIABLES
  loop,     \* the loop itrack_read is or was in last
  pending,  \* the touches for which that loop has yet to make a call
  used,     \* simulated_used
  call,     \* the last call of on_touch_*, NoCall at the start of a loop
  down      \* history: the contacts started and not yet released

dispatch == <<loop, pending, used, call, down>>
readVars == <<vars, dispatch>>

CallType ==
  [kind : {"none", "start", "release", "move"}, count : Nat, idx : Nat]

NoCall == [kind |-> "none", count |-> 0, idx |-> 0]

ReadTypeOK ==
  /\ TypeOK
  /\ loop \in {"changes", "moves"}
  /\ pending \subseteq DOMAIN touch
  /\ used \subseteq DOMAIN touch
  /\ call \in CallType
  /\ down \subseteq Ids

ReadInit ==
  /\ Init
  /\ loop = "moves"
  /\ pending = {}
  /\ used = {}
  /\ call = NoCall
  /\ down = {}

-----------------------------------------------------------------------------
(* Mutant: touches at the edge are ignored, too.                           *)
IgnoredAtEdge(t) == t.thumb \/ t.palm \/ t.edge

(* is_touch_needs_to_ignore; the configuration is not consulted.           *)
Ignored(t) == t.thumb \/ t.palm

(* Mutant: touches that are still to be started are counted.               *)
SimulatedAll(ts) == DOMAIN ts

(* simulated_used before the first loop: new touches join it one by one.   *)
Simulated(ts) == {i \in DOMAIN ts : Ignored(ts[i]) \/ ~ts[i].new}

(* The touches for which the first loop makes a call.                      *)
Changing(ts) ==
  {i \in DOMAIN ts : ~Ignored(ts[i]) /\ (ts[i].new \/ ts[i].released)}

(* Those for which the second one does: "make sure move callback was called*)
(* after all touch new/cancel event done".                                 *)
Moving(ts, simulated) ==
  {i \in simulated : ~Ignored(ts[i]) /\ ~ts[i].new /\ ~ts[i].released}

(* foreach_bit                                                             *)
Lowest(i) == i \in pending /\ \A j \in pending : i <= j

(* Mutant: touch_idx keeps its initial value.                              *)
RankMissed(i) == 0

Rank(i) == Cardinality({j \in used : j < i})

Returned == loop = "moves" /\ pending = {}

-----------------------------------------------------------------------------
Read ==
  /\ Returned
  /\ Extract
  /\ loop' = "changes"
  /\ pending' = Changing(touch')
  /\ used' = Simulated(touch')
  /\ call' = NoCall
  /\ UNCHANGED down

Called(kind, i, count, idx) ==
  /\ call' = [kind |-> kind, count |-> count, idx |-> idx]
  /\ pending' = pending \ {i}
  /\ UNCHANGED <<vars, loop>>

Start(i) ==
  /\ loop = "changes"
  /\ Lowest(i)
  /\ touch[i].new
  /\ used' = used \cup {i}
  /\ Called("start", i, Cardinality(used'), 0)
  /\ down' = down \cup {touch[i].id}

Release(i) ==
  /\ loop = "changes"
  /\ Lowest(i)
  /\ ~touch[i].new
  /\ Called("release", i, Cardinality(used), 0)
  /\ used' = used \ {i}
  /\ down' = down \ {touch[i].id}

SecondLoop ==
  /\ loop = "changes"
  /\ pending = {}
  /\ loop' = "moves"
  /\ pending' = Moving(touch, used)
  /\ call' = NoCall
  /\ UNCHANGED <<vars, used, down>>

Move(i) ==
  /\ loop = "moves"
  /\ Lowest(i)
  /\ Called("move", i, Cardinality(used), Rank(i))
  /\ UNCHANGED <<used, down>>

(* itrack_open initialises the touch handler, too.                         *)
Reopen ==
  /\ Returned
  /\ Open
  /\ UNCHANGED loop
  /\ pending' = {}
  /\ used' = {}
  /\ call' = NoCall
  /\ down' = {}

Event ==
  /\ Returned
  /\ \/ \E s \in Slots : SelectSlot(s)
     \/ \E id \in Ids \cup {NullId} : Track(id)
     \/ \E x \in Positions : Place(x)
     \/ \E reading \in Readings : Measure(reading)
  /\ UNCHANGED dispatch

ReadNext ==
  \/ Event
  \/ Read
  \/ \E i \in pending : Start(i) \/ Release(i) \/ Move(i)
  \/ SecondLoop
  \/ Reopen

ReadSpec == ReadInit /\ [][ReadNext]_readVars

-----------------------------------------------------------------------------
(* Properties.  Without thumbs and palms (see README.md):                  *)

(* Every call comes with the number of fingers then down, the one that     *)
(* lands or leaves included; only a finger that is down moves or leaves,   *)
(* only one that is not lands.                                             *)
CallsInOrder ==
  [][\A i \in pending :
       LET id == touch[i].id
       IN  /\ Start(i)   => id \notin down /\ call'.count = Cardinality(down')
           /\ Release(i) => id \in down /\ call'.count = Cardinality(down)
           /\ Move(i)    => id \in down /\ call'.count = Cardinality(down)
    ]_readVars

(* The touch handler knows the live touches: every touch was started once, *)
(* and is released in the packet that releases it.                         *)
DownIsLive == Returned => down = {touch[i].id : i \in Live}

(* The fingers that were down before this packet and still await a call.   *)
Waiting ==
  IF loop = "changes" THEN {i \in used : ~touch[i].new} ELSE pending

Calls == INSTANCE TouchCalls
           WITH fingers <- Cardinality(down),
                old     <- Cardinality(Waiting),
                cursor  <- IF call.kind = "move" THEN call.idx + 1 ELSE 0

(* The loops implement what TouchCalls promises: no finger of the packet   *)
(* before is moved twice or left out, none moves before all have landed and*)
(* left, and at most one has the index 0, the one that makes gestures      *)
(* update.                                                                 *)
KeepsPromise == Calls!CallSpec
===============================================================================
