----------------------------- MODULE MCITrackRead -----------------------------
(***************************************************************************)
(* A small instance of ITrackRead: two slots, readings below touch_up,     *)
(* between the thresholds and above touch_down.                            *)
(***************************************************************************)
EXTENDS ITrackRead

Reading(contact) == [contact |-> contact, thumb |-> FALSE, palm |-> FALSE]

FingerReadings == {Reading(5), Reading(15), Reading(30)}
===============================================================================
