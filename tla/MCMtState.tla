------------------------------ MODULE MCMtState ------------------------------
(***************************************************************************)
(* A small instance of MtState: two slots on a pad with a left edge, and   *)
(* readings below touch_up and above touch_down.                           *)
(***************************************************************************)
EXTENDS MtState, TLC

Reading(contact) == [contact |-> contact, thumb |-> FALSE, palm |-> FALSE]

LiftReadings == {Reading(5), Reading(30)}

Symmetric == Permutations(Ids)
===============================================================================
