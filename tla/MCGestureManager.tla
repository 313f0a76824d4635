--------------------------- MODULE MCGestureManager ---------------------------
(***************************************************************************)
(* Small instances of GestureManager: three or four fingers, the left      *)
(* physical button, a scroll that is or is not fast enough to slide.       *)
(***************************************************************************)
EXTENDS GestureManager

LeftButton == {{}, {0}}
NoButton   == {{}}
OneSpeed   == {[x |-> 0, y |-> 1200]}
===============================================================================
