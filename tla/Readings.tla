------------------------------- MODULE Readings -------------------------------
(***************************************************************************)
(* The arithmetic of mtstate.c and capabilities.c: how a finger is read    *)
(* under a configuration.  MtState takes its results as the contact, the   *)
(* thumb, the palm and the place of a finger.                              *)
(***************************************************************************)
EXTENDS MConfig

(* A measured finger: struct FingerState.                                  *)
FingerType == [major : Int, minor : Int, width : Int, pressure : Int]

Quotient(a, b) ==
  IF a >= 0 THEN a \div b ELSE -((-a) \div b)

(* Mutant: the product is made first, in ints.                             *)
PercentageWrapped(a, b) ==
  {IF b = 0 THEN 0 ELSE Quotient(AsInt((100 * a) % (WordMax + 1)), b)}

(* (double)a / (double)b * 100 as an int, for b >= 0: the values the       *)
(* builds of the driver may compute.  The quotient is rounded before it is *)
(* multiplied, so that a whole percentage may come out one too small (29   *)
(* of 100 is 28).  Infinity and NaN have no int: the conversion gives the  *)
(* smallest int on some machines, a saturated one or 0 on others.          *)
Percentage(a, b) ==
  IF b = 0
    THEN {IntMin, IF a = 0 THEN 0 ELSE IF a > 0 THEN IntMax ELSE IntMin}
    ELSE LET q == Quotient(100 * a, b)
         IN  IF (100 * a) % b # 0 \/ a % b = 0 THEN {q}
             ELSE {q, IF a > 0 THEN q - 1 ELSE q + 1}

TouchRange(cfg, value) ==
  Percentage(value - cfg.touch_min, cfg.touch_max - cfg.touch_min)

PressureRange(cfg, value) ==
  Percentage(value - cfg.pressure_min, cfg.pressure_max - cfg.pressure_min)

FingerTouchRatio(cfg, f) ==
  CASE cfg.touch_type = "scale" -> Percentage(f.major, f.width)
    [] cfg.touch_type \in {"size", "size_pressure"} -> TouchRange(cfg, f.major)
    [] cfg.touch_type \in {"pressure_size", "pressure"} ->
         PressureRange(cfg, f.pressure)
    [] OTHER -> {101}

(* Mutant: a contact at touch_down is a touch.                             *)
IsTouchAt(cfg, ratio) == ratio >= cfg.touch_down

IsTouch(cfg, ratio)   == ratio > cfg.touch_down
IsRelease(cfg, ratio) == ratio < cfg.touch_up

PalmRatio(cfg, f) ==
  CASE cfg.touch_type = "scale" -> Percentage(f.major, f.width)
    [] cfg.touch_type \in {"size", "size_pressure", "pressure_size"} ->
         TouchRange(cfg, f.major)
    [] cfg.touch_type = "pressure" -> PressureRange(cfg, f.pressure)
    [] OTHER -> {}

(* is_palm; the set of its possible results.                               *)
IsPalm(cfg, f) ==
  IF cfg.touch_type = "none" THEN {FALSE}
  ELSE {ratio > cfg.palm_size : ratio \in PalmRatio(cfg, f)}

Smaller(a, b) == IF a < b THEN a ELSE b
Larger(a, b)  == IF a > b THEN a ELSE b

IsThumb(cfg, f) ==
  IF ~cfg.touch_minor THEN {FALSE}
  ELSE LET pct  == Percentage(Smaller(f.minor, f.major),
                              Larger(f.minor, f.major))
           size == TouchRange(cfg, f.major)
       IN  {p < cfg.thumb_ratio /\ s > cfg.thumb_size : p \in pct, s \in size}

-----------------------------------------------------------------------------
(* Coordinates: the origin is the middle of the pad.                       *)

(* Mutant: the division rounds towards zero.                               *)
MidTruncated(axis) == Quotient(axis.maximum + axis.minimum, 2)

(* The shift of get_cap_xmid rounds down.                                  *)
Mid(axis) == (axis.maximum + axis.minimum) \div 2

Translate(axis, value) == value - Mid(axis)

(* touch_append, touch_update: where a finger is.                          *)
Place(axis, inverted, value) ==
  IF inverted = 1 THEN -Translate(axis, value) ELSE Translate(axis, value)

(* touch_which_edge, from the middle of the rows to a corner.              *)
WhichEdge(cfg, px, py) ==
  LET w == cfg.pad_width
      h == cfg.pad_height
      x == px + Quotient(w, 2)
      y == py + Quotient(h, 2)
      row == IF (y - h) * 100 > -(cfg.edge_size * h) THEN 8
             ELSE IF y * 100 < cfg.edge_size * h THEN 2 ELSE 5
      left  == IF x * 100 < cfg.edge_size * w THEN 1 ELSE 0
      right == IF (x - w) * 100 > -(cfg.edge_size * w) THEN 1 ELSE 0
  IN  row - left + right
===============================================================================
