----------------------------- MODULE GestureMatch -----------------------------
(***************************************************************************)
(* Ending, matching and accepting gestures.  A tap asks for a match when   *)
(* it ends, and so these functions call themselves through its on_end.     *)
(* Ask is that call, guesture_set_match(tap, GUESTURE_MATCH_OK), one level *)
(* further down; GestureManager says what it is at each level.             *)
(***************************************************************************)
EXTENDS Gestures

CONSTANT Ask(_, _)

(* The on_end callbacks; a tap does not look at is_cancel.                 *)
OnEnd(m, g) ==
  CASE g \in Taps   -> Post(Ask(m, g), g, ButtonDownAndUp(TapButton[g]))
    [] g = "scroll" -> Post(m, g, ScrollEnd)
    [] g = "drag"   -> [Post(m, g, ButtonUpDefer(DragButton))
                          EXCEPT !.hold = "open"]
    [] g = "move"   -> m

(* Mutant: match_state is left alone.                                      *)
EndRunsOn(m, g) ==
  IF Active(m, g) THEN [OnEnd(m, g) EXCEPT !.post[g] = "null"] ELSE m

(* s_guesture_end                                                          *)
End(m, g) ==
  IF Active(m, g)
    THEN [OnEnd(m, g) EXCEPT !.match[g] = "NONE", !.post[g] = "null"]
    ELSE m

(* The gestures of the current list but g, in two rounds (ForEachCurrent). *)
EndNth(m, i, g) ==
  IF i <= Len(m.list) /\ m.list[i] # g THEN End(m, m.list[i]) ELSE m

EndOthers(m, g) == EndNth(EndNth(m, 1, g), 2, g)

(* Mutant: the callbacks run before the other gestures are ended.          *)
AcceptAnnounced(m, g) ==
  [PostStaged(EndOthers(AcceptCallbacks(m, g), g), g)
     EXCEPT !.accepted = g, !.post[g] = "accept", !.list = <<>>]

(* s_accept_guesture                                                       *)
Accept(m, g) ==
  [PostStaged(AcceptCallbacks(EndOthers(m, g), g), g)
     EXCEPT !.accepted = g, !.post[g] = "accept", !.list = <<>>]

(* guesture_manager_set_guesture_state_change                              *)
StateChange(m) ==
  IF m.accepted # Nobody THEN m
  ELSE IF Essentials(m) # {} THEN Accept(m, m.list[Max(Essentials(m))])
  ELSE IF Winners(m) # {} THEN Accept(m, Winner(m))
  ELSE m

(* guesture_set_match                                                      *)
SetMatch(m, g, how) ==
  IF m.match[g] # "MATHING" THEN m
  ELSE StateChange(
         [m EXCEPT !.match[g]  = IF how = "NO" THEN "FAILED" ELSE "OK",
                   !.essential = IF how = "ESSENTIAL" THEN @ \cup {g}
                                                      ELSE @ \ {g}])
===============================================================================
