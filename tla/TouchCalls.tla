------------------------------ MODULE TouchCalls ------------------------------
(***************************************************************************)
(* What itrack_read promises the touch handler about the calls of a packet:*)
(* first every finger that lands or leaves is started or released, then the*)
(* others of the packet before are moved, each of them once and by         *)
(* increasing index.                                                       *)
(***************************************************************************)
EXTENDS Integers

VARIABLES
  fingers,  \* started and not yet released
  old,      \* the fingers of the packet before it has yet to release or move
  cursor    \* the least index that the next move may have

CallVars == <<fingers, old, cursor>>

Reset == fingers' = 0 /\ old' = 0 /\ cursor' = 0

NoCalls == fingers = 0 /\ old = 0 /\ cursor = 0

Begin ==
  /\ old = 0
  /\ old' = fingers
  /\ cursor' = 0
  /\ UNCHANGED fingers

Started ==
  /\ cursor = 0
  /\ fingers' = fingers + 1
  /\ UNCHANGED <<old, cursor>>

Released ==
  /\ cursor = 0
  /\ old > 0
  /\ fingers' = fingers - 1
  /\ old' = old - 1
  /\ UNCHANGED cursor

(* A finger that has just landed is not moved; its index may be any.       *)
Moved(idx) ==
  /\ old > 0
  /\ idx \in cursor..(fingers - old)
  /\ cursor' = idx + 1
  /\ old' = old - 1
  /\ UNCHANGED fingers

CallNext ==
  \/ Reset
  \/ Begin
  \/ Started
  \/ Released
  \/ \E idx \in cursor..(fingers - old) : Moved(idx)

CallSpec == NoCalls /\ [][CallNext]_CallVars
===============================================================================
