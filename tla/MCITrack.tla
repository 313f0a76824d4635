------------------------------- MODULE MCITrack -------------------------------
EXTENDS ITrack

NoButton == {{}}
LeftButton == {{}, {0}}
VerticalScroll   == [x |-> 0, y |-> 1200]
HorizontalScroll == [x |-> 1500, y |-> 0]
FastScrolls      == {VerticalScroll, HorizontalScroll}

Sample(e, f, t, st, v) ==
  [elapsed |-> e, far |-> f, tapFails |-> t, step |-> st, speed |-> v]

SomeMoves ==
  { Sample(TRUE, FALSE, FALSE, "none", HorizontalScroll),
    Sample(FALSE, TRUE, TRUE, "big", VerticalScroll) }
===============================================================================
