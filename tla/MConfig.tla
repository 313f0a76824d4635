-------------------------------- MODULE MConfig --------------------------------
(***************************************************************************)
(* mconfig.c, mprops.c and the part of capabilities.c they use: the        *)
(* configuration of a device, set by its options, by what the kernel says  *)
(* of it and by clients that change X properties.                          *)
(***************************************************************************)
EXTENDS Integers, Sequences

CONSTANT IntMax   \* the largest int
ASSUME IntMaxAssumption == IntMax \in Nat /\ IntMax >= 100

IntMin  == -IntMax - 1
WordMax == 2 * IntMax + 1
Words   == 0..WordMax       \* uint32_t

(* A uint32_t assigned to an int.                                          *)
AsInt(word) == IF word > IntMax THEN word - (WordMax + 1) ELSE word

Flags   == {0, 1}
Percent == 0..100

TouchTypes ==
  {"none", "scale", "size", "pressure_size", "size_pressure", "pressure"}

ConfigType ==
  [ touch_type : TouchTypes, touch_minor : BOOLEAN,          \* set by caps
    touch_min : Int, touch_max : Int, pressure_min : Int, pressure_max : Int,
    pad_width : Int, pad_height : Int,
    touch_down : Percent, touch_up : Percent,                \* set by config
    ignore_thumb : Flags, disable_on_thumb : Flags,
    ignore_palm : Flags, disable_on_palm : Flags,
    thumb_size : Int, thumb_ratio : Int, palm_size : Int,
    axis_x_invert : Flags, axis_y_invert : Flags, trackpad_disable : 0..3,
    edge_size : {0} ]          \* all four: nothing assigns them after calloc

-----------------------------------------------------------------------------
(* mconfig_init_with_configure                                             *)

(* Mutant: values that are too large are kept.                             *)
AtLeast(x, low, high) == IF x < low THEN low ELSE x

Clamp(x, low, high) == IF x < low THEN low ELSE IF x > high THEN high ELSE x

(* What the options say, or the default of each.                           *)
Defaults ==
  [ FingerHigh |-> 5, FingerLow |-> 5, IgnoreThumb |-> 0, IgnorePalm |-> 0,
    DisableOnThumb |-> 0, DisableOnPalm |-> 0, ThumbRatio |-> 70,
    ThumbSize |-> 25, PalmSize |-> 40, TrackpadDisable |-> 0,
    AxisXInvert |-> 0, AxisYInvert |-> 0 ]

OptionsType ==
  [ FingerHigh : Int, FingerLow : Int, IgnoreThumb : Flags,
    IgnorePalm : Flags, DisableOnThumb : Flags, DisableOnPalm : Flags,
    ThumbRatio : Int, ThumbSize : Int, PalmSize : Int,
    TrackpadDisable : Int, AxisXInvert : Flags, AxisYInvert : Flags ]

InitWithConfigure(opts) ==
  [ touch_type |-> "none", touch_minor |-> FALSE, touch_min |-> 0,
    touch_max |-> 0, pressure_min |-> 0, pressure_max |-> 0,
    pad_width |-> 0, pad_height |-> 0,                       \* calloc
    touch_down       |-> Clamp(opts.FingerHigh, 0, 100),
    touch_up         |-> Clamp(opts.FingerLow, 0, 100),
    ignore_thumb     |-> opts.IgnoreThumb,
    disable_on_thumb |-> opts.DisableOnThumb,
    ignore_palm      |-> opts.IgnorePalm,
    disable_on_palm  |-> opts.DisableOnPalm,
    thumb_size       |-> Clamp(opts.ThumbSize, 0, 100),
    thumb_ratio      |-> Clamp(opts.ThumbRatio, 0, 100),
    palm_size        |-> Clamp(opts.PalmSize, 0, 100),
    axis_x_invert    |-> opts.AxisXInvert,
    axis_y_invert    |-> opts.AxisYInvert,
    trackpad_disable |-> Clamp(opts.TrackpadDisable, 0, 3),
    edge_size        |-> 0 ]

-----------------------------------------------------------------------------
(* read_capabilities and mconfig_update_caps.                              *)

Axes == {"x", "y", "touch_major", "touch_minor", "width_major", "pressure"}

AxisType == [has : BOOLEAN, minimum : Int, maximum : Int]
CapsType == [Axes -> AxisType]

(* The memset of read_capabilities, which leaves what it could not read.   *)
Unread == [a \in Axes |-> [has |-> FALSE, minimum |-> 0, maximum |-> 0]]

(* get_cap_xsize, get_cap_ysize                                            *)
Span(axis) == axis.maximum - axis.minimum

TouchType(caps) ==
  LET major    == caps["touch_major"].has
      width    == caps["width_major"].has
      pressure == caps["pressure"].has
  IN  CASE major /\ width -> "scale"
        [] major /\ ~width /\ pressure ->
             IF Span(caps["pressure"]) >= Span(caps["touch_major"])
               THEN "pressure_size" ELSE "size_pressure"
        [] major /\ ~width /\ ~pressure -> "size"
        [] ~major /\ pressure -> "pressure"
        [] ~major /\ ~pressure -> "none"

UpdateCaps(cfg, caps) ==
  LET ofTouch    == caps["touch_major"].has
      ofPressure == TouchType(caps) \in
                      {"pressure_size", "size_pressure", "pressure"}
  IN [cfg EXCEPT
        !.touch_type   = TouchType(caps),
        !.touch_minor  = caps["touch_minor"].has,
        !.pad_width    = Span(caps["x"]),
        !.pad_height   = Span(caps["y"]),
        !.touch_min    = IF ofTouch THEN caps["touch_major"].minimum ELSE @,
        !.touch_max    = IF ofTouch THEN caps["touch_major"].maximum ELSE @,
        !.pressure_min = IF ofPressure THEN caps["pressure"].minimum ELSE @,
        !.pressure_max = IF ofPressure THEN caps["pressure"].maximum ELSE @]

-----------------------------------------------------------------------------
(* mprops_init and mprops_set_property.                                    *)

Properties ==
  { "trackpad_disable", "thumb_detect", "thumb_size", "palm_detect",
    "palm_size", "axis_invert", "edge_sizes" }

(* The values a property has to start with.                                *)
Shown(cfg) ==
  [ trackpad_disable |-> <<cfg.trackpad_disable>>,
    thumb_detect     |-> <<cfg.ignore_thumb, cfg.disable_on_thumb>>,
    thumb_size       |-> <<cfg.thumb_size, cfg.thumb_ratio>>,
    palm_detect      |-> <<cfg.ignore_palm, cfg.disable_on_palm>>,
    palm_size        |-> <<cfg.palm_size>>,
    axis_invert      |-> <<cfg.axis_x_invert, cfg.axis_y_invert>>,
    edge_sizes       |-> [i \in 1..4 |-> cfg.edge_size] ]

Length ==
  [ trackpad_disable |-> 1, thumb_detect |-> 2, thumb_size |-> 2,
    palm_detect |-> 2, palm_size |-> 1, axis_invert |-> 2, edge_sizes |-> 4 ]

(* What the handler asks of the values v of a property, besides type and   *)
(* length.  The words are unsigned, so that a size is never refused.       *)
InRange(p, v) ==
  CASE p = "trackpad_disable" -> v[1] \in 0..3
    [] p \in {"thumb_detect", "palm_detect", "axis_invert"} ->
         v[1] \in Flags /\ v[2] \in Flags
    [] p = "thumb_size" -> v[2] \in Percent
    [] p = "palm_size"  -> TRUE

(* Mutant: the values are not looked at.                                   *)
AcceptedUnranged(r) ==
  r.property \in Properties \ {"edge_sizes"} =>
    r.fits /\ Len(r.values) = Length[r.property]

(* A request to change property p: its values, and whether they have the   *)
(* format and type of the property.  No branch handles edge_sizes or the   *)
(* properties of others (tap, of xconfig.c).                               *)
Accepted(r) ==
  r.property \in Properties \ {"edge_sizes"} =>
    /\ r.fits
    /\ Len(r.values) = Length[r.property]
    /\ InRange(r.property, r.values)

Applied(cfg, p, v) ==
  CASE p = "trackpad_disable" -> [cfg EXCEPT !.trackpad_disable = v[1]]
    [] p = "thumb_detect" ->
         [cfg EXCEPT !.ignore_thumb = v[1], !.disable_on_thumb = v[2]]
    [] p = "thumb_size" ->
         [cfg EXCEPT !.thumb_size = AsInt(v[1]), !.thumb_ratio = AsInt(v[1])]
    [] p = "palm_detect" ->
         [cfg EXCEPT !.ignore_palm = v[1], !.disable_on_palm = v[2]]
    [] p = "palm_size" -> [cfg EXCEPT !.palm_size = AsInt(v[1])]
    [] p = "axis_invert" ->
         [cfg EXCEPT !.axis_x_invert = v[1], !.axis_y_invert = v[2]]
    [] OTHER -> cfg
===============================================================================
