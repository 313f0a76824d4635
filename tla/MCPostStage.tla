----------------------------- MODULE MCPostStage -----------------------------
(***************************************************************************)
(* Small instances of PostStage.  The numbers of the inertia are those of  *)
(* post-stage.h: a velocity of 1200 slides for 40 ms, three ticks of 16 ms,*)
(* the last one cut short; 600 is below the trigger.                       *)
(***************************************************************************)
EXTENDS PostStage

MCPads   == {{}, {0}}
NoPads   == {{}}

(* What taps, scroll and move stage; a tap of one finger clicks button 0,  *)
(* a tap of two button 2.                                                  *)
TapActions ==
  {ButtonDownAndUp(0), ButtonDownAndUp(2), Movement(TRUE), ScrollEnd,
   Scroll(0, 1200), Scroll(600, 0)}

(* Every operation of the deferral, and scrolls of both axes and signs.    *)
TimerActions ==
  {Movement(TRUE), ScrollEnd, Scroll(0, -1200), Scroll(1500, 600),
   ButtonUp(0), ButtonUpDefer(0), ButtonUpCancel, ButtonDownAndUp(2),
   ButtonUpDelay, ButtonUpTrigger}

(* Clicks only.                                                            *)
ClickActions == {ButtonDownAndUp(0), ButtonDownAndUp(2)}

(* One scroll, strong enough to slide.                                     *)
SlideActions == {Scroll(0, 1200), ScrollEnd}
=============================================================================
