---------------------------- MODULE TouchLifecycle ----------------------------
(***************************************************************************)
(* What mtstate.c promises the dispatch loop of itrack_read about a        *)
(* contact of the pad: in the packets of its life it is new in exactly the *)
(* first, released in exactly the last, and held in those between.         *)
(***************************************************************************)
EXTENDS Integers

CONSTANT Ids      \* tracking ids

VARIABLES
  packet,         \* changes with every packet
  life            \* what the packet shows of each contact

Stages == {"out", "new", "held", "released"}

After == [out      |-> {"out", "new"},
          new      |-> {"held", "released"},
          held     |-> {"held", "released"},
          released |-> {"out", "new"}]

AllOut == [id \in Ids |-> "out"]

Init == packet \in {0, 1} /\ life = AllOut

Packet ==
  /\ packet' = 1 - packet
  /\ life' \in [Ids -> Stages]
  /\ \A id \in Ids : life'[id] \in After[life[id]]

(* The device is opened anew.                                              *)
Reset == packet' = packet /\ life' = AllOut

Next == Packet \/ Reset

Spec == Init /\ [][Next]_<<packet, life>>
===============================================================================
