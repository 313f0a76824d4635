------------------------------- MODULE MCDevice -------------------------------
(***************************************************************************)
(* A small instance of Device: two devices, pads of every touch type, and  *)
(* options and values at and beyond the limits.  An int has ten bits.      *)
(***************************************************************************)
EXTENDS Device, TLC

Axis(low, high) == [has |-> TRUE, minimum |-> low, maximum |-> high]

Sized  == [Unread EXCEPT !["x"] = Axis(-3, 2), !["y"] = Axis(0, 3)]
Major  == [Sized EXCEPT !["touch_major"] = Axis(0, 7)]

ScalePad    == [Major EXCEPT !["touch_minor"] = Axis(0, 7),
                             !["width_major"] = Axis(0, 14)]
PressurePad == [Sized EXCEPT !["pressure"] = Axis(0, 9)]
FinePad     == [Major EXCEPT !["pressure"] = Axis(0, 4)]
BothPad     == [Major EXCEPT !["pressure"] = Axis(0, 9)]
SizePad     == [Sized EXCEPT !["touch_major"] = Axis(4, 12)]

Pads == {ScalePad, PressurePad, FinePad, BothPad, SizePad}

SomeOptions ==
  { [Defaults EXCEPT !.FingerHigh = 140, !.FingerLow = -5, !.AxisXInvert = 1],
    [Defaults EXCEPT !.FingerHigh = -1, !.FingerLow = 30, !.ThumbRatio = 140,
                     !.TrackpadDisable = 9] }

SomeTaps == {<<50, 200, -20>>}

Request(p, v) == [property |-> p, fits |-> TRUE, values |-> v]

SomeRequests ==
  { Request("trackpad_disable", <<3>>), Request("trackpad_disable", <<4>>),
    Request("thumb_detect", <<1, 0>>), Request("thumb_detect", <<0, 2>>),
    Request("thumb_size", <<10, 80>>), Request("thumb_size", <<1023, 101>>),
    Request("palm_detect", <<0, 1>>), Request("palm_detect", <<1>>),
    Request("palm_size", <<1023>>), Request("axis_invert", <<0, 1>>),
    Request("edge_sizes", <<1, 2, 3, 4>>), Request("tap", <<0>>),
    [property |-> "palm_size", fits |-> FALSE, values |-> <<7>>] }

Symmetric == Permutations(Devices) \cup Permutations(Lists)
===============================================================================
