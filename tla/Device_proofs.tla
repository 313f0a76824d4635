---------------------------- MODULE Device_proofs ----------------------------
(***************************************************************************)
(* Proofs about Device, for every set of devices, options, pads, requests  *)
(* and descriptors.                                                        *)
(*                                                                         *)
(* What the server, a client and the kernel are told of a device is        *)
(* related to what the device has by the invariants of this module: the    *)
(* configuration knows the pad (PadKnown) and, before any client can       *)
(* change it, holds percentages (FromOptions).                             *)
(***************************************************************************)
EXTENDS Device, SequenceTheorems, TLAPS

-----------------------------------------------------------------------------
(* Types.                                                                  *)

(* Assigning one field keeps the type of a configuration.                  *)
LEMMA FieldType ==
  ASSUME NEW c \in ConfigType
  PROVE  /\ \A t \in TouchTypes : [c EXCEPT !.touch_type = t] \in ConfigType
         /\ \A b \in BOOLEAN : [c EXCEPT !.touch_minor = b] \in ConfigType
         /\ \A n \in Int : /\ [c EXCEPT !.touch_min = n] \in ConfigType
                           /\ [c EXCEPT !.touch_max = n] \in ConfigType
                           /\ [c EXCEPT !.pressure_min = n] \in ConfigType
                           /\ [c EXCEPT !.pressure_max = n] \in ConfigType
                           /\ [c EXCEPT !.pad_width = n] \in ConfigType
                           /\ [c EXCEPT !.pad_height = n] \in ConfigType
                           /\ [c EXCEPT !.thumb_size = n] \in ConfigType
                           /\ [c EXCEPT !.thumb_ratio = n] \in ConfigType
                           /\ [c EXCEPT !.palm_size = n] \in ConfigType
         /\ \A f \in Flags : /\ [c EXCEPT !.ignore_thumb = f] \in ConfigType
                             /\ [c EXCEPT !.disable_on_thumb = f] \in ConfigType
                             /\ [c EXCEPT !.ignore_palm = f] \in ConfigType
                             /\ [c EXCEPT !.disable_on_palm = f] \in ConfigType
                             /\ [c EXCEPT !.axis_x_invert = f] \in ConfigType
                             /\ [c EXCEPT !.axis_y_invert = f] \in ConfigType
         /\ \A n \in 0..3 : [c EXCEPT !.trackpad_disable = n] \in ConfigType
BY DEF ConfigType

(* preinit leaves a configuration in its limits.                           *)
LEMMA OptionsToConfig ==
  ASSUME NEW opts \in OptionsType
  PROVE  /\ InitWithConfigure(opts) \in ConfigType
         /\ InitWithConfigure(opts).thumb_size \in Percent
         /\ InitWithConfigure(opts).palm_size \in Percent
<1>1. \A x \in Int : Clamp(x, 0, 100) \in Percent /\ Clamp(x, 0, 3) \in 0..3
  BY DEF Clamp, Percent
<1>2. Percent \subseteq Int /\ "none" \in TouchTypes
  BY DEF Percent, TouchTypes
<1>3. /\ opts.FingerHigh \in Int /\ opts.FingerLow \in Int
      /\ opts.ThumbSize \in Int /\ opts.ThumbRatio \in Int
      /\ opts.PalmSize \in Int /\ opts.TrackpadDisable \in Int
      /\ opts.IgnoreThumb \in Flags /\ opts.DisableOnThumb \in Flags
      /\ opts.IgnorePalm \in Flags /\ opts.DisableOnPalm \in Flags
      /\ opts.AxisXInvert \in Flags /\ opts.AxisYInvert \in Flags
  BY DEF OptionsType
<1>4. /\ Clamp(opts.FingerHigh, 0, 100) \in Percent
      /\ Clamp(opts.FingerLow, 0, 100) \in Percent
      /\ Clamp(opts.ThumbSize, 0, 100) \in Percent
      /\ Clamp(opts.ThumbRatio, 0, 100) \in Percent
      /\ Clamp(opts.PalmSize, 0, 100) \in Percent
      /\ Clamp(opts.TrackpadDisable, 0, 3) \in 0..3
  BY <1>1, <1>3
<1>5. InitWithConfigure(opts) \in ConfigType
  <2>1. /\ Clamp(opts.ThumbSize, 0, 100) \in Int
        /\ Clamp(opts.ThumbRatio, 0, 100) \in Int
        /\ Clamp(opts.PalmSize, 0, 100) \in Int
    BY <1>2, <1>4
  <2>2. 0 \in Int /\ 0 \in {0} /\ FALSE \in BOOLEAN
    OBVIOUS
  <2> QED
    BY <1>2, <1>3, <1>4, <2>1, <2>2, Zenon DEF InitWithConfigure, ConfigType
<1>6. /\ InitWithConfigure(opts).thumb_size = Clamp(opts.ThumbSize, 0, 100)
      /\ InitWithConfigure(opts).palm_size = Clamp(opts.PalmSize, 0, 100)
  BY Zenon DEF InitWithConfigure
<1> QED BY <1>4, <1>5, <1>6, Zenon

LEMMA TouchTypeType ==
  ASSUME NEW c \in CapsType
  PROVE  TouchType(c) \in TouchTypes
<1>1. /\ c["touch_major"].has \in BOOLEAN
      /\ c["width_major"].has \in BOOLEAN
      /\ c["pressure"].has \in BOOLEAN
  BY DEF CapsType, AxisType, Axes
<1> QED BY <1>1 DEF TouchType, TouchTypes

LEMMA CapsFields ==
  ASSUME NEW c \in CapsType, NEW a \in Axes
  PROVE  /\ c[a].has \in BOOLEAN /\ c[a].minimum \in Int /\ c[a].maximum \in Int
         /\ Span(c[a]) \in Int
BY DEF CapsType, AxisType, Span

(* mconfig_update_caps keeps the type and sets the size of the pad.        *)
LEMMA CapsToConfig ==
  ASSUME NEW c \in ConfigType, NEW k \in CapsType
  PROVE  /\ UpdateCaps(c, k) \in ConfigType
         /\ UpdateCaps(c, k).pad_width = Span(k["x"])
         /\ UpdateCaps(c, k).pad_height = Span(k["y"])
         /\ UpdateCaps(c, k).thumb_size = c.thumb_size
         /\ UpdateCaps(c, k).palm_size = c.palm_size
<1>1. TouchType(k) \in TouchTypes
  BY TouchTypeType
<1>2. /\ k["touch_minor"].has \in BOOLEAN
      /\ k["touch_major"].minimum \in Int /\ k["touch_major"].maximum \in Int
      /\ k["pressure"].minimum \in Int /\ k["pressure"].maximum \in Int
      /\ Span(k["x"]) \in Int /\ Span(k["y"]) \in Int
  BY CapsFields DEF Axes
<1>3. /\ c.touch_min \in Int /\ c.touch_max \in Int
      /\ c.pressure_min \in Int /\ c.pressure_max \in Int
  BY DEF ConfigType
<1> QED BY <1>1, <1>2, <1>3 DEF UpdateCaps, ConfigType

(* A small word is the int it looks like.                                  *)
LEMMA WordsAreInts ==
  /\ Words \subseteq Int
  /\ \A w \in Words : AsInt(w) \in Int
  /\ \A w \in 0..100 : AsInt(w) = w
BY IntMaxAssumption DEF Words, WordMax, AsInt

LEMMA RequestFields ==
  ASSUME NEW r \in Requests
  PROVE  /\ r.property \in Properties \cup {"tap"}
         /\ r.values \in Seq(Words)
         /\ r.values \in Seq(Int)
<1>1. r.property \in Properties \cup {"tap"} /\ r.values \in Seq(Words)
  BY RequestsAssumption
<1>2. Words \subseteq Int
  BY WordsAreInts
<1> QED BY <1>1, <1>2, SeqMonotonic

(* What a handler that accepts a request is left with.                     *)
LEMMA AcceptedValues ==
  ASSUME NEW r \in Requests, Accepted(r)
  PROVE  /\ r.property = "trackpad_disable" =>
              Len(r.values) = 1 /\ r.values[1] \in 0..3
         /\ r.property \in {"thumb_detect", "palm_detect", "axis_invert"} =>
              /\ Len(r.values) = 2
              /\ r.values[1] \in Flags /\ r.values[2] \in Flags
         /\ r.property = "thumb_size" =>
              Len(r.values) = 2 /\ r.values[1] \in Words
         /\ r.property = "palm_size" =>
              Len(r.values) = 1 /\ r.values[1] \in Words
<1>1. r.values \in Seq(Words)
  BY RequestFields
<1>2. CASE r.property = "trackpad_disable"
  BY <1>1, <1>2 DEF Accepted, InRange, Length, Properties
<1>3. CASE r.property = "thumb_detect"
  BY <1>1, <1>3 DEF Accepted, InRange, Length, Properties
<1>4. CASE r.property = "palm_detect"
  BY <1>1, <1>4 DEF Accepted, InRange, Length, Properties
<1>5. CASE r.property = "axis_invert"
  BY <1>1, <1>5 DEF Accepted, InRange, Length, Properties
<1>6. CASE r.property = "thumb_size"
  BY <1>1, <1>6 DEF Accepted, InRange, Length, Properties
<1>7. CASE r.property = "palm_size"
  BY <1>1, <1>7 DEF Accepted, InRange, Length, Properties
<1> QED BY <1>2, <1>3, <1>4, <1>5, <1>6, <1>7

(* What the caps say of the pad is the same in two configurations.         *)
SamePad(x, c) ==
  /\ x.touch_type = c.touch_type
  /\ x.pad_width = c.pad_width /\ x.pad_height = c.pad_height
  /\ x.touch_min = c.touch_min /\ x.touch_max = c.touch_max
  /\ x.pressure_min = c.pressure_min /\ x.pressure_max = c.pressure_max

(* mprops_set_property keeps the type and what the caps set.               *)
LEMMA AppliedType ==
  ASSUME NEW c \in ConfigType, NEW r \in Requests, Accepted(r)
  PROVE  /\ Applied(c, r.property, r.values) \in ConfigType
         /\ SamePad(Applied(c, r.property, r.values), c)
<1> DEFINE v == r.values
           Good(x) == x \in ConfigType /\ SamePad(x, c)
<1> SUFFICES Good(Applied(c, r.property, v))
  OBVIOUS
<1> HIDE DEF v
<1>1. CASE r.property = "trackpad_disable"
  <2>1. Applied(c, r.property, v) = [c EXCEPT !.trackpad_disable = v[1]]
    BY <1>1 DEF Applied
  <2>2. v[1] \in 0..3
    BY <1>1, AcceptedValues, WordsAreInts DEF v
  <2>3. Good([c EXCEPT !.trackpad_disable = v[1]])
    BY <2>2, FieldType DEF ConfigType, SamePad
  <2> QED BY <2>1, <2>3
<1>2. CASE r.property = "thumb_detect"
  <2> DEFINE b == [c EXCEPT !.ignore_thumb = v[1]]
  <2>1. Applied(c, r.property, v) = [b EXCEPT !.disable_on_thumb = v[2]]
    BY <1>2 DEF Applied
  <2>2. v[1] \in Flags /\ v[2] \in Flags
    BY <1>2, AcceptedValues DEF v
  <2>3. Good(b)
    BY <2>2, FieldType DEF ConfigType, SamePad
  <2> HIDE DEF b
  <2>4. b \in ConfigType
    BY <2>3
  <2>5. [b EXCEPT !.disable_on_thumb = v[2]] \in ConfigType
    BY <2>2, <2>4, FieldType
  <2>6. SamePad([b EXCEPT !.disable_on_thumb = v[2]], b)
    BY <2>4 DEF ConfigType, SamePad
  <2> QED BY <2>1, <2>3, <2>5, <2>6 DEF SamePad
<1>3. CASE r.property = "palm_detect"
  <2> DEFINE b == [c EXCEPT !.ignore_palm = v[1]]
  <2>1. Applied(c, r.property, v) = [b EXCEPT !.disable_on_palm = v[2]]
    BY <1>3 DEF Applied
  <2>2. v[1] \in Flags /\ v[2] \in Flags
    BY <1>3, AcceptedValues DEF v
  <2>3. Good(b)
    BY <2>2, FieldType DEF ConfigType, SamePad
  <2> HIDE DEF b
  <2>4. b \in ConfigType
    BY <2>3
  <2>5. [b EXCEPT !.disable_on_palm = v[2]] \in ConfigType
    BY <2>2, <2>4, FieldType
  <2>6. SamePad([b EXCEPT !.disable_on_palm = v[2]], b)
    BY <2>4 DEF ConfigType, SamePad
  <2> QED BY <2>1, <2>3, <2>5, <2>6 DEF SamePad
<1>4. CASE r.property = "axis_invert"
  <2> DEFINE b == [c EXCEPT !.axis_x_invert = v[1]]
  <2>1. Applied(c, r.property, v) = [b EXCEPT !.axis_y_invert = v[2]]
    BY <1>4 DEF Applied
  <2>2. v[1] \in Flags /\ v[2] \in Flags
    BY <1>4, AcceptedValues DEF v
  <2>3. Good(b)
    BY <2>2, FieldType DEF ConfigType, SamePad
  <2> HIDE DEF b
  <2>4. b \in ConfigType
    BY <2>3
  <2>5. [b EXCEPT !.axis_y_invert = v[2]] \in ConfigType
    BY <2>2, <2>4, FieldType
  <2>6. SamePad([b EXCEPT !.axis_y_invert = v[2]], b)
    BY <2>4 DEF ConfigType, SamePad
  <2> QED BY <2>1, <2>3, <2>5, <2>6 DEF SamePad
<1>5. CASE r.property = "thumb_size"
  <2> DEFINE b == [c EXCEPT !.thumb_size = AsInt(v[1])]
  <2>1. Applied(c, r.property, v) = [b EXCEPT !.thumb_ratio = AsInt(v[1])]
    BY <1>5 DEF Applied
  <2>2. AsInt(v[1]) \in Int
    BY <1>5, AcceptedValues, WordsAreInts DEF v
  <2>3. Good(b)
    BY <2>2, FieldType DEF ConfigType, SamePad
  <2> HIDE DEF b
  <2>4. b \in ConfigType
    BY <2>3
  <2>5. [b EXCEPT !.thumb_ratio = AsInt(v[1])] \in ConfigType
    BY <2>2, <2>4, FieldType
  <2>6. SamePad([b EXCEPT !.thumb_ratio = AsInt(v[1])], b)
    BY <2>4 DEF ConfigType, SamePad
  <2> QED BY <2>1, <2>3, <2>5, <2>6 DEF SamePad
<1>6. CASE r.property = "palm_size"
  <2>1. Applied(c, r.property, v) = [c EXCEPT !.palm_size = AsInt(v[1])]
    BY <1>6 DEF Applied
  <2>2. AsInt(v[1]) \in Int
    BY <1>6, AcceptedValues, WordsAreInts DEF v
  <2>3. Good([c EXCEPT !.palm_size = AsInt(v[1])])
    BY <2>2, FieldType DEF ConfigType, SamePad
  <2> QED BY <2>1, <2>3
<1>7. CASE r.property \in {"edge_sizes", "tap"}
  BY <1>7 DEF Applied, SamePad
<1> QED
  BY <1>1, <1>2, <1>3, <1>4, <1>5, <1>6, <1>7, RequestFields DEF Properties

(* The values that DEVICE_INIT gives to the properties.                    *)
LEMMA ShownValues ==
  ASSUME NEW c \in ConfigType, NEW tap \in Seq(Int)
  PROVE  [p \in Properties \cup {"tap"} |->
            IF p = "tap" THEN tap ELSE Shown(c)[p]] \in ShownType
<1>1. \A p \in Properties : Shown(c)[p] \in Seq(Int)
  <2>1. /\ c.trackpad_disable \in Int /\ c.ignore_thumb \in Int
        /\ c.disable_on_thumb \in Int /\ c.thumb_size \in Int
        /\ c.thumb_ratio \in Int /\ c.ignore_palm \in Int
        /\ c.disable_on_palm \in Int /\ c.palm_size \in Int
        /\ c.axis_x_invert \in Int /\ c.axis_y_invert \in Int
        /\ c.edge_size \in Int
    BY DEF ConfigType, Flags
  <2>2. \A m, n \in Int : <<m>> \in Seq(Int) /\ <<m, n>> \in Seq(Int)
    OBVIOUS
  <2>3. \A n \in Int : [i \in 1..4 |-> n] \in Seq(Int)
    OBVIOUS
  <2>4. /\ Shown(c)["trackpad_disable"] = <<c.trackpad_disable>>
        /\ Shown(c)["thumb_detect"] = <<c.ignore_thumb, c.disable_on_thumb>>
        /\ Shown(c)["thumb_size"] = <<c.thumb_size, c.thumb_ratio>>
        /\ Shown(c)["palm_detect"] = <<c.ignore_palm, c.disable_on_palm>>
        /\ Shown(c)["palm_size"] = <<c.palm_size>>
        /\ Shown(c)["axis_invert"] = <<c.axis_x_invert, c.axis_y_invert>>
        /\ Shown(c)["edge_sizes"] = [i \in 1..4 |-> c.edge_size]
    BY Zenon DEF Shown
  <2> QED BY <2>1, <2>2, <2>3, <2>4, Zenon DEF Properties
<1>2. "tap" \notin Properties
  BY DEF Properties
<1> QED BY <1>1, <1>2 DEF ShownType

(* The types after each step.                                              *)
LEMMA TypeStep == TypeOK /\ [Next]_vars => TypeOK'
<1> SUFFICES ASSUME TypeOK, [Next]_vars PROVE TypeOK'
  OBVIOUS
<1> USE DEF TypeOK, Lives, Live
<1>d. InitWithConfigure(Defaults) \in ConfigType
  <2>1. Defaults \in OptionsType
    BY DEF Defaults, OptionsType, Flags
  <2> QED BY <2>1, OptionsToConfig
<1>u. Unread \in CapsType
  BY DEF Unread, CapsType, AxisType
<1>1. ASSUME NEW d \in Devices, Preinit(d) PROVE TypeOK'
  <2>1. PICK opts \in Options :
          cfg' = [cfg EXCEPT ![d] = InitWithConfigure(opts)]
    BY <1>1 DEF Preinit
  <2>2. InitWithConfigure(opts) \in ConfigType
    BY OptionsAssumption, OptionsToConfig
  <2>3. cfg' \in [Devices -> ConfigType]
    BY <2>1, <2>2
  <2>4. starts' \in 0..MaxStarts
    BY <1>1, BoundsAssumption DEF Preinit
  <2> QED BY <1>1, <1>u, <2>3, <2>4 DEF Preinit, xconfig
<1>2. ASSUME NEW d \in Devices, InitFails(d) PROVE TypeOK'
  BY <1>2 DEF InitFails, xconfig
<1>3. ASSUME NEW d \in Devices, DeviceInit(d) PROVE TypeOK'
  <2>1. PICK read \in Kernels \cup {Unread}, tap \in TapOptions :
          /\ caps' = [caps EXCEPT ![d] = read]
          /\ cfg' = [cfg EXCEPT ![d] = UpdateCaps(cfg[d], read)]
          /\ shown' = [shown EXCEPT ![d] =
                         [p \in Properties \cup {"tap"} |->
                            IF p = "tap" THEN tap ELSE Shown(cfg'[d])[p]]]
    BY <1>3 DEF DeviceInit
  <2>2. read \in CapsType
    BY <1>u, KernelsAssumption
  <2>3. UpdateCaps(cfg[d], read) \in ConfigType
    BY <2>2, CapsToConfig
  <2>4. cfg'[d] \in ConfigType
    BY <2>1, <2>3
  <2> DEFINE values == [p \in Properties \cup {"tap"} |->
                          IF p = "tap" THEN tap ELSE Shown(cfg'[d])[p]]
  <2>5. values \in ShownType
    BY <2>4, ShownValues, OptionsAssumption
  <2> HIDE DEF values
  <2>6. shown' = [shown EXCEPT ![d] = values]
    BY <2>1 DEF values
  <2>7. PICK list \in Lists : head' = list /\ heap' = heap \cup {list}
    BY <1>3 DEF DeviceInit, ConfigInit
  <2> QED BY <1>3, <2>1, <2>2, <2>3, <2>5, <2>6, <2>7 DEF DeviceInit
<1>4. ASSUME NEW d \in Devices, DeviceOn(d) PROVE TypeOK'
  BY <1>4 DEF DeviceOn, Opens, xconfig
<1>5. ASSUME NEW d \in Devices, MtdevFails(d) PROVE TypeOK'
  BY <1>5 DEF MtdevFails, Opens, device, xconfig
<1>11. ASSUME NEW d \in Devices, SerialFails(d) PROVE TypeOK'
  BY <1>11 DEF SerialFails, device, xconfig
<1>6. ASSUME NEW d \in Devices, DeviceOff(d) PROVE TypeOK'
  BY <1>6 DEF DeviceOff, xconfig
<1>7. ASSUME NEW d \in Devices, DeviceClose(d) PROVE TypeOK'
  BY <1>7 DEF DeviceClose, ConfigDeinit, files
<1>8. ASSUME NEW d \in Devices, Uninit(d) PROVE TypeOK'
  BY <1>8, <1>d, <1>u DEF Uninit, xconfig
<1>9. ASSUME NEW d \in Devices, NEW r \in Requests, ChangeProperty(d, r)
      PROVE  TypeOK'
  <2>1. Applied(cfg[d], r.property, r.values) \in ConfigType
    BY <1>9, AppliedType DEF ChangeProperty
  <2>2. cfg' \in [Devices -> ConfigType]
    BY <1>9, <2>1 DEF ChangeProperty
  <2>3. shown[d] \in ShownType
    BY <1>9 DEF ChangeProperty
  <2>4. [shown[d] EXCEPT ![r.property] = r.values] \in ShownType
    BY <2>3, RequestFields DEF ShownType
  <2> DEFINE values == [shown[d] EXCEPT ![r.property] = r.values]
  <2>5. shown' = [shown EXCEPT ![d] = values]
    BY <1>9 DEF ChangeProperty
  <2>6. values \in ShownType
    BY <2>4
  <2> HIDE DEF values
  <2>7. changes' \in 0..MaxChanges
    BY <1>9, BoundsAssumption DEF ChangeProperty
  <2> QED BY <1>9, <2>2, <2>5, <2>6, <2>7 DEF ChangeProperty, files, xconfig
<1>10. CASE UNCHANGED vars
  BY <1>10 DEF vars, device, files, xconfig
<1> QED
  BY <1>1, <1>2, <1>3, <1>4, <1>5, <1>6, <1>7, <1>8, <1>9, <1>10, <1>11
     DEF Next

(* Every device keeps its types, whatever options, kernels and clients     *)
(* say: flags, percentages and trackpad_disable stay in their ranges, the  *)
(* sizes are integers (a client may take them out of 0..100).              *)
THEOREM TypeCorrect == Spec => []TypeOK
<1>1. Init => TypeOK
  <2>1. Defaults \in OptionsType
    BY DEF Defaults, OptionsType, Flags
  <2>2. InitWithConfigure(Defaults) \in ConfigType
    BY <2>1, OptionsToConfig
  <2>3. Unread \in CapsType
    BY DEF Unread, CapsType, AxisType
  <2> QED BY <2>2, <2>3, BoundsAssumption DEF Init, TypeOK, Lives, Live
<1> QED BY <1>1, TypeStep, PTL DEF Spec

-----------------------------------------------------------------------------
(* Descriptors and lists.                                                  *)

LEMMA FilesStep ==
  TypeOK /\ DescriptorsOwned /\ [Next]_vars => DescriptorsOwned'
<1> SUFFICES ASSUME TypeOK, DescriptorsOwned, [Next]_vars
             PROVE  DescriptorsOwned'
  OBVIOUS
<1> DEFINE on == {e \in Devices : life[e] = "on"}
<1>t. /\ life \in [Devices -> Lives] /\ fd \in [Devices -> Descriptors \cup {0, NoFile}]
  BY DEF TypeOK
<1>o. /\ \A d \in on : fd[d] \in opened \ lost
      /\ \A d, e \in on : fd[e] = fd[d] => e = d
      /\ opened = lost \cup {fd[d] : d \in on}
  BY DEF DescriptorsOwned
(* Nothing that is on, and no descriptor, changes.                         *)
<1>s. ASSUME NEW d \in Devices, life[d] # "on", UNCHANGED <<opened, lost>>,
             \E l \in Lives \ {"on"} : life' = [life EXCEPT ![d] = l],
             fd' = fd \/ \E n \in {0, NoFile} : fd' = [fd EXCEPT ![d] = n]
      PROVE  DescriptorsOwned'
  <2>1. \A e \in Devices : (life'[e] = "on") <=> (life[e] = "on")
    BY <1>s, <1>t
  <2>2. \A e \in Devices : life[e] = "on" => fd'[e] = fd[e]
    BY <1>s, <1>t
  <2> QED BY <1>s, <1>o, <2>1, <2>2 DEF DescriptorsOwned
<1>1. ASSUME NEW d \in Devices, Preinit(d) PROVE DescriptorsOwned'
  BY <1>1, <1>s DEF Preinit, Lives
<1>2. ASSUME NEW d \in Devices, InitFails(d) PROVE DescriptorsOwned'
  BY <1>2, <1>s DEF InitFails, Lives
<1>3. ASSUME NEW d \in Devices, DeviceInit(d) PROVE DescriptorsOwned'
  BY <1>3, <1>s DEF DeviceInit, Lives
<1>4. ASSUME NEW d \in Devices, DeviceOn(d) PROVE DescriptorsOwned'
  <2>1. PICK f \in Descriptors : Opens(d, f)
    BY <1>4 DEF DeviceOn
  <2>2. /\ f \notin opened /\ opened' = opened \cup {f} /\ lost' = lost
        /\ fd'[d] = f /\ \A e \in Devices \ {d} : fd'[e] = fd[e]
    BY <1>4, <1>t, <2>1 DEF DeviceOn, Opens
  <2>3. /\ life[d] = "off" /\ life'[d] = "on"
        /\ \A e \in Devices \ {d} : life'[e] = life[e]
    BY <1>4, <1>t DEF DeviceOn
  <2> QED BY <1>o, <2>2, <2>3 DEF DescriptorsOwned
<1>5. ASSUME NEW d \in Devices, MtdevFails(d) PROVE DescriptorsOwned'
  <2>1. PICK f \in Descriptors : Opens(d, f) /\ lost' = lost \cup {f}
    BY <1>5 DEF MtdevFails
  <2>2. /\ f \notin opened /\ opened' = opened \cup {f}
        /\ \A e \in Devices \ {d} : fd'[e] = fd[e]
    BY <1>t, <2>1 DEF Opens
  <2>3. life[d] = "off" /\ life' = life
    BY <1>5 DEF MtdevFails, device
  <2> QED BY <1>o, <2>1, <2>2, <2>3 DEF DescriptorsOwned
<1>11. ASSUME NEW d \in Devices, SerialFails(d) PROVE DescriptorsOwned'
  <2>1. life[d] = "off" /\ life' = [life EXCEPT ![d] = "off"]
    BY <1>11, <1>t DEF SerialFails, device
  <2> QED BY <1>11, <1>s, <2>1 DEF SerialFails, Lives
<1>6. ASSUME NEW d \in Devices, DeviceOff(d) PROVE DescriptorsOwned'
  <2>1. /\ life[d] = "on" /\ life'[d] = "off"
        /\ \A e \in Devices \ {d} : life'[e] = life[e]
        /\ opened' = opened \ {fd[d]} /\ lost' = lost /\ fd' = fd
    BY <1>6, <1>t DEF DeviceOff
  <2> QED BY <1>o, <2>1 DEF DescriptorsOwned
<1>7. ASSUME NEW d \in Devices, DeviceClose(d) PROVE DescriptorsOwned'
  BY <1>7, <1>s DEF DeviceClose, Lives, files
<1>8. ASSUME NEW d \in Devices, Uninit(d) PROVE DescriptorsOwned'
  BY <1>8, <1>s DEF Uninit, Lives
<1>9. ASSUME NEW d \in Devices, NEW r \in Requests, ChangeProperty(d, r)
      PROVE  DescriptorsOwned'
  BY <1>9 DEF ChangeProperty, files, DescriptorsOwned
<1>10. CASE UNCHANGED vars
  BY <1>10 DEF vars, device, files, DescriptorsOwned
<1> QED
  BY <1>1, <1>2, <1>3, <1>4, <1>5, <1>6, <1>7, <1>8, <1>9, <1>10, <1>11
     DEF Next

(* Every device that is on reads a descriptor of its own, for any number   *)
(* of devices and descriptors, also after openings that failed.            *)
THEOREM DescriptorsAreOwned == Spec => []DescriptorsOwned
<1>1. Init => DescriptorsOwned
  BY DEF Init, DescriptorsOwned
<1>2. TypeOK /\ DescriptorsOwned /\ [Next]_vars => DescriptorsOwned'
  BY FilesStep
<1> QED BY <1>1, <1>2, TypeCorrect, PTL DEF Spec

(* xconfig_deinit never frees a list twice, in any order in which any      *)
(* number of devices are initialized and closed.                           *)
THEOREM FreesOwned == Spec => []FreesAreOwned
<1>1. Init => FreesAreOwned
  BY DEF Init, FreesAreOwned
<1>2. FreesAreOwned /\ [Next]_vars => FreesAreOwned'
  BY DEF FreesAreOwned, Next, Preinit, InitFails, DeviceInit, ConfigInit,
         DeviceOn, SerialFails, MtdevFails, DeviceOff, DeviceClose,
         ConfigDeinit, Uninit, ChangeProperty, xconfig, vars
<1> QED BY <1>1, <1>2, PTL DEF Spec

-----------------------------------------------------------------------------
(* What a configuration knows.                                             *)

(* The ranges of touches and pressures are no ranges below zero.           *)
Ranged(c) == c.touch_min <= c.touch_max /\ c.pressure_min <= c.pressure_max

Ordered(k) == \A a \in Axes : k[a].minimum <= k[a].maximum

PressureTypes == {"pressure_size", "size_pressure", "pressure"}

(* c has the ranges of the pad that the kernel reported as k.              *)
ReadFrom(c, k) ==
  /\ k \in Kernels \cup {Unread}
  /\ c.touch_type = TouchType(k)
  /\ k["touch_major"].has =>
       /\ c.touch_min = k["touch_major"].minimum
       /\ c.touch_max = k["touch_major"].maximum
  /\ TouchType(k) \in PressureTypes =>
       /\ c.pressure_min = k["pressure"].minimum
       /\ c.pressure_max = k["pressure"].maximum

(* A device that is live knows the size of its pad and the ranges of its   *)
(* measures; one that is only made still has what its options say.         *)
KnowsPad ==
  \A d \in Devices :
    /\ Ranged(cfg[d])
    /\ Ordered(caps[d])
    /\ life[d] = "made" =>
         cfg[d].thumb_size \in Percent /\ cfg[d].palm_size \in Percent
    /\ life[d] \in Live =>
         /\ cfg[d].pad_width = Span(caps[d]["x"])
         /\ cfg[d].pad_height = Span(caps[d]["y"])
         /\ ReadFrom(cfg[d], caps[d])

LEMMA OptionsRanged ==
  ASSUME NEW opts
  PROVE  Ranged(InitWithConfigure(opts))
<1>1. /\ InitWithConfigure(opts).touch_min = 0
      /\ InitWithConfigure(opts).touch_max = 0
      /\ InitWithConfigure(opts).pressure_min = 0
      /\ InitWithConfigure(opts).pressure_max = 0
  BY Zenon DEF InitWithConfigure
<1> QED BY <1>1 DEF Ranged

LEMMA UnreadOrdered == Unread \in CapsType /\ Ordered(Unread)
BY DEF Unread, CapsType, AxisType, Ordered

LEMMA CapsRanged ==
  ASSUME NEW c \in ConfigType, NEW k \in CapsType, Ranged(c), Ordered(k)
  PROVE  Ranged(UpdateCaps(c, k))
<1>1. /\ k["touch_major"].minimum <= k["touch_major"].maximum
      /\ k["pressure"].minimum <= k["pressure"].maximum
  BY DEF Ordered, Axes
<1>2. UpdateCaps(c, k).touch_min =
        IF k["touch_major"].has THEN k["touch_major"].minimum ELSE c.touch_min
  BY DEF UpdateCaps, ConfigType
<1>3. UpdateCaps(c, k).touch_max =
        IF k["touch_major"].has THEN k["touch_major"].maximum ELSE c.touch_max
  BY DEF UpdateCaps, ConfigType
<1> DEFINE p == TouchType(k) \in {"pressure_size", "size_pressure", "pressure"}
<1>4. UpdateCaps(c, k).pressure_min =
        IF p THEN k["pressure"].minimum ELSE c.pressure_min
  BY DEF UpdateCaps, ConfigType
<1>5. UpdateCaps(c, k).pressure_max =
        IF p THEN k["pressure"].maximum ELSE c.pressure_max
  BY DEF UpdateCaps, ConfigType
<1> HIDE DEF p
<1> QED BY <1>1, <1>2, <1>3, <1>4, <1>5 DEF Ranged

LEMMA CapsRead ==
  ASSUME NEW c \in ConfigType, NEW k \in CapsType, k \in Kernels \cup {Unread}
  PROVE  ReadFrom(UpdateCaps(c, k), k)
<1>1. UpdateCaps(c, k).touch_type = TouchType(k)
  BY DEF UpdateCaps, ConfigType
<1>2. k["touch_major"].has =>
        /\ UpdateCaps(c, k).touch_min = k["touch_major"].minimum
        /\ UpdateCaps(c, k).touch_max = k["touch_major"].maximum
  BY DEF UpdateCaps, ConfigType
<1> DEFINE p == TouchType(k) \in PressureTypes
<1>3. UpdateCaps(c, k).pressure_min =
        IF p THEN k["pressure"].minimum ELSE c.pressure_min
  BY DEF UpdateCaps, ConfigType, PressureTypes
<1>4. UpdateCaps(c, k).pressure_max =
        IF p THEN k["pressure"].maximum ELSE c.pressure_max
  BY DEF UpdateCaps, ConfigType, PressureTypes
<1> QED BY <1>1, <1>2, <1>3, <1>4 DEF ReadFrom

LEMMA PadStep == TypeOK /\ KnowsPad /\ [Next]_vars => KnowsPad'
<1> SUFFICES ASSUME TypeOK, KnowsPad, [Next]_vars PROVE KnowsPad'
  OBVIOUS
<1> DEFINE Knows(l, c, k) ==
             /\ Ranged(c)
             /\ Ordered(k)
             /\ l = "made" =>
                  c.thumb_size \in Percent /\ c.palm_size \in Percent
             /\ l \in Live => /\ c.pad_width = Span(k["x"])
                              /\ c.pad_height = Span(k["y"])
                              /\ ReadFrom(c, k)
<1>t. /\ life \in [Devices -> Lives] /\ cfg \in [Devices -> ConfigType]
      /\ caps \in [Devices -> CapsType]
  BY DEF TypeOK
<1>k. \A e \in Devices : Knows(life[e], cfg[e], caps[e])
  BY DEF KnowsPad
<1>g. ASSUME \A e \in Devices : Knows(life'[e], cfg'[e], caps'[e])
      PROVE  KnowsPad'
  BY <1>g DEF KnowsPad
<1>d. Defaults \in OptionsType
  BY DEF Defaults, OptionsType, Flags
<1>l. /\ "absent" \notin Live /\ "made" \notin Live /\ "closed" \notin Live
      /\ "made" \notin {"absent", "off", "on", "closed"}
  BY DEF Live
<1>1. ASSUME NEW d \in Devices, Preinit(d) PROVE KnowsPad'
  <2>1. PICK opts \in Options :
          cfg' = [cfg EXCEPT ![d] = InitWithConfigure(opts)]
    BY <1>1 DEF Preinit
  <2> DEFINE c == InitWithConfigure(opts)
  <2>2. Ranged(c) /\ c.thumb_size \in Percent /\ c.palm_size \in Percent
    BY OptionsAssumption, OptionsToConfig, OptionsRanged
  <2> HIDE DEF c
  <2>3. /\ cfg'[d] = c /\ life'[d] = "made" /\ caps'[d] = Unread
        /\ \A e \in Devices \ {d} : /\ cfg'[e] = cfg[e] /\ life'[e] = life[e]
                                    /\ caps'[e] = caps[e]
    BY <1>1, <1>t, <2>1 DEF Preinit, c
  <2>4. Knows("made", c, Unread)
    BY <1>l, <2>2, UnreadOrdered
  <2> HIDE DEF Knows
  <2> QED BY <1>g, <1>k, <2>3, <2>4
<1>2. ASSUME NEW d \in Devices, InitFails(d) PROVE KnowsPad'
  <2>1. /\ life'[d] = "closed" /\ cfg' = cfg /\ caps' = caps
        /\ \A e \in Devices \ {d} : life'[e] = life[e]
    BY <1>2, <1>t DEF InitFails
  <2> QED BY <1>g, <1>k, <1>l, <2>1
<1>3. ASSUME NEW d \in Devices, DeviceInit(d) PROVE KnowsPad'
  <2>1. PICK read \in Kernels \cup {Unread} :
          /\ caps' = [caps EXCEPT ![d] = read]
          /\ cfg' = [cfg EXCEPT ![d] = UpdateCaps(cfg[d], read)]
    BY <1>3 DEF DeviceInit
  <2>2. read \in CapsType /\ Ordered(read)
    BY KernelsAssumption, UnreadOrdered DEF Ordered
  <2> DEFINE c == UpdateCaps(cfg[d], read)
  <2>3. /\ Ranged(c)
        /\ c.pad_width = Span(read["x"]) /\ c.pad_height = Span(read["y"])
        /\ ReadFrom(c, read)
    BY <1>k, <1>t, <2>2, CapsRanged, CapsToConfig, CapsRead
  <2> HIDE DEF c
  <2>4. /\ cfg'[d] = c /\ life'[d] = "off" /\ caps'[d] = read
        /\ \A e \in Devices \ {d} : /\ cfg'[e] = cfg[e] /\ life'[e] = life[e]
                                    /\ caps'[e] = caps[e]
    BY <1>3, <1>t, <2>1 DEF DeviceInit, c
  <2>5. Knows("off", c, read)
    BY <1>l, <2>2, <2>3
  <2> HIDE DEF Knows
  <2> QED BY <1>g, <1>k, <2>4, <2>5
<1>4. ASSUME NEW d \in Devices, life[d] \in Live, UNCHANGED <<cfg, caps>>,
             \E l \in Live : life' = [life EXCEPT ![d] = l]
      PROVE  KnowsPad'
  <2>1. /\ life'[d] \in Live /\ \A e \in Devices \ {d} : life'[e] = life[e]
    BY <1>4, <1>t
  <2>2. \A e \in Devices : Knows(life'[e], cfg[e], caps[e])
    BY <1>4, <1>k, <1>l, <2>1
  <2> QED BY <1>4, <1>g, <2>2
<1>5. ASSUME NEW d \in Devices, MtdevFails(d) PROVE KnowsPad'
  BY <1>5 DEF MtdevFails, device, KnowsPad
<1>11. ASSUME NEW d \in Devices, SerialFails(d) PROVE KnowsPad'
  BY <1>11 DEF SerialFails, device, KnowsPad
<1>6. ASSUME NEW d \in Devices, DeviceOn(d) \/ DeviceOff(d) PROVE KnowsPad'
  BY <1>4, <1>6 DEF DeviceOn, DeviceOff, Live
<1>7. ASSUME NEW d \in Devices, DeviceClose(d) PROVE KnowsPad'
  <2>1. /\ life'[d] = "closed" /\ cfg' = cfg /\ caps' = caps
        /\ \A e \in Devices \ {d} : life'[e] = life[e]
    BY <1>7, <1>t DEF DeviceClose
  <2> QED BY <1>g, <1>k, <1>l, <2>1
<1>8. ASSUME NEW d \in Devices, Uninit(d) PROVE KnowsPad'
  <2> DEFINE c == InitWithConfigure(Defaults)
  <2>1. Ranged(c)
    BY OptionsRanged
  <2> HIDE DEF c
  <2>2. /\ cfg'[d] = c /\ life'[d] = "absent" /\ caps'[d] = Unread
        /\ \A e \in Devices \ {d} : /\ cfg'[e] = cfg[e] /\ life'[e] = life[e]
                                    /\ caps'[e] = caps[e]
    BY <1>8, <1>t DEF Uninit, c
  <2>3. Knows("absent", c, Unread)
    BY <1>l, <2>1, UnreadOrdered
  <2> HIDE DEF Knows
  <2> QED BY <1>g, <1>k, <2>2, <2>3
<1>9. ASSUME NEW d \in Devices, NEW r \in Requests, ChangeProperty(d, r)
      PROVE  KnowsPad'
  <2> DEFINE c == Applied(cfg[d], r.property, r.values)
  <2>1. SamePad(c, cfg[d])
    BY <1>9, <1>t, AppliedType DEF ChangeProperty
  <2>2. life[d] \in Live
    BY <1>9 DEF ChangeProperty
  <2> HIDE DEF c
  <2>3. /\ cfg'[d] = c /\ life' = life /\ caps' = caps
        /\ \A e \in Devices \ {d} : cfg'[e] = cfg[e]
    BY <1>9, <1>t DEF ChangeProperty, c
  <2>4. Knows(life[d], c, caps[d])
    BY <1>k, <1>l, <2>1, <2>2 DEF SamePad, Ranged, ReadFrom
  <2> HIDE DEF Knows
  <2> QED BY <1>g, <1>k, <2>3, <2>4
<1>10. CASE UNCHANGED vars
  BY <1>10 DEF vars, device, KnowsPad
<1> QED
  BY <1>1, <1>2, <1>3, <1>5, <1>6, <1>7, <1>8, <1>9, <1>10, <1>11 DEF Next

LEMMA PadKnown == Spec => []KnowsPad
<1>1. Init => KnowsPad
  BY OptionsRanged, UnreadOrdered DEF Init, KnowsPad, Live
<1> QED BY <1>1, PadStep, TypeCorrect, PTL DEF Spec

-----------------------------------------------------------------------------
(* How fingers are read.                                                   *)

(* The shift and the division round alike, so that the middle is where the *)
(* axes of touch_which_edge meet.                                          *)
LEMMA MiddleOfAxis ==
  ASSUME NEW low \in Int, NEW high \in Int, low <= high, NEW v \in low..high
  PROVE  v - ((high + low) \div 2) + Quotient(high - low, 2) = v - low
BY DEF Quotient

(* A finger on a pad whose axes are not inverted is in no edge, for every  *)
(* range of the axes, also of odd span and below zero.                     *)
THEOREM InsideOfEveryPad == Spec => []InsideIsNoEdge
<1>1. TypeOK /\ KnowsPad => InsideIsNoEdge
  <2> SUFFICES ASSUME TypeOK, KnowsPad,
                      NEW d \in Configured,
                      cfg[d].axis_x_invert = 0, cfg[d].axis_y_invert = 0,
                      NEW x \in caps[d]["x"].minimum..caps[d]["x"].maximum,
                      NEW y \in caps[d]["y"].minimum..caps[d]["y"].maximum
               PROVE  WhichEdge(cfg[d], Place(caps[d]["x"], 0, x),
                                        Place(caps[d]["y"], 0, y)) = 5
    BY DEF InsideIsNoEdge
  <2> DEFINE ax == caps[d]["x"]
             ay == caps[d]["y"]
  <2>1. d \in Devices /\ life[d] \in Live
    BY DEF Configured, Live
  <2>2. caps[d] \in CapsType /\ cfg[d] \in ConfigType
    BY <2>1 DEF TypeOK
  <2>3. /\ ax.minimum \in Int /\ ax.maximum \in Int
        /\ ay.minimum \in Int /\ ay.maximum \in Int
    BY <2>2, CapsFields DEF Axes
  <2>4. /\ cfg[d].pad_width = ax.maximum - ax.minimum
        /\ cfg[d].pad_height = ay.maximum - ay.minimum
    BY <2>1 DEF KnowsPad, Span
  <2>5. cfg[d].edge_size = 0
    BY <2>2 DEF ConfigType
  <2> HIDE DEF ax, ay
  <2>6. /\ Place(ax, 0, x) = x - ((ax.maximum + ax.minimum) \div 2)
        /\ Place(ay, 0, y) = y - ((ay.maximum + ay.minimum) \div 2)
    BY DEF Place, Translate, Mid
  <2>7. x \in ax.minimum..ax.maximum /\ y \in ay.minimum..ay.maximum
    BY DEF ax, ay
  <2>8. /\ Place(ax, 0, x) + Quotient(cfg[d].pad_width, 2) = x - ax.minimum
        /\ Place(ay, 0, y) + Quotient(cfg[d].pad_height, 2) = y - ay.minimum
    BY <2>3, <2>4, <2>6, <2>7, MiddleOfAxis
  <2> DEFINE px == Place(ax, 0, x)
             py == Place(ay, 0, y)
             X  == px + Quotient(cfg[d].pad_width, 2)
             Y  == py + Quotient(cfg[d].pad_height, 2)
             w  == cfg[d].pad_width
             h  == cfg[d].pad_height
  <2>9. X \in Int /\ Y \in Int /\ w \in Int /\ h \in Int
        /\ 0 <= X /\ X <= w /\ 0 <= Y /\ Y <= h
    BY <2>3, <2>4, <2>7, <2>8
  <2>10. WhichEdge(cfg[d], px, py) = 5
    <3>1. WhichEdge(cfg[d], px, py) =
            (IF (Y - h) * 100 > -(0 * h) THEN 8
             ELSE IF Y * 100 < 0 * h THEN 2 ELSE 5)
            - (IF X * 100 < 0 * w THEN 1 ELSE 0)
            + (IF (X - w) * 100 > -(0 * w) THEN 1 ELSE 0)
      BY <2>5, Zenon DEF WhichEdge
    <3> HIDE DEF X, Y, w, h, px, py
    <3> QED BY <2>9, <3>1
  <2> QED BY <2>10 DEF ax, ay
<1> QED BY <1>1, TypeCorrect, PadKnown, PTL

(* A quotient of nothing is at most 0, whatever it is divided by.          *)
LEMMA NothingOfRange ==
  ASSUME NEW b \in Nat, NEW ratio \in Percentage(0, b)
  PROVE  ratio \in Int /\ ratio <= 0
<1>1. CASE b = 0
  BY <1>1, IntMaxAssumption DEF Percentage, IntMin
<1>2. CASE b > 0
  <2>1. 0 \div b = 0 /\ 0 % b = 0
    BY <1>2
  <2>2. Quotient(100 * 0, b) = 0
    BY <2>1 DEF Quotient
  <2> QED BY <1>2, <2>1, <2>2 DEF Percentage
<1> QED BY <1>1, <1>2

(* A finger at rest does not land, on every pad and for every threshold,   *)
(* also where the axis has no range to divide by.                          *)
THEOREM RestLandsNowhere == Spec => []RestNeverLands
<1>1. TypeOK /\ KnowsPad => RestNeverLands
  <2> DEFINE rest(c) ==
        [ major |-> IF c.touch_type = "scale" THEN 0 ELSE c.touch_min,
          minor |-> 0, width |-> 0, pressure |-> c.pressure_min ]
  <2> SUFFICES ASSUME TypeOK, KnowsPad, NEW d \in Configured,
                      cfg[d].touch_type # "none",
                      NEW ratio \in FingerTouchRatio(cfg[d], rest(cfg[d]))
               PROVE  ~IsTouch(cfg[d], ratio)
    BY DEF RestNeverLands
  <2> DEFINE c == cfg[d]
  <2>1. c \in ConfigType /\ Ranged(c)
    BY DEF Configured, TypeOK, KnowsPad
  <2> HIDE DEF c
  <2>2. /\ c.touch_min \in Int /\ c.touch_max - c.touch_min \in Nat
        /\ c.pressure_min \in Int /\ c.pressure_max - c.pressure_min \in Nat
        /\ c.touch_down \in 0..100 /\ c.touch_type \in TouchTypes
    BY <2>1 DEF ConfigType, Ranged, Percent
  <2>3. /\ c.touch_min - c.touch_min = 0 /\ c.pressure_min - c.pressure_min = 0
    BY <2>2
  <2>4. PICK b \in Nat : FingerTouchRatio(c, rest(c)) = Percentage(0, b)
    <3>1. CASE c.touch_type = "scale"
      <4>1. FingerTouchRatio(c, rest(c)) = Percentage(0, 0)
        BY <3>1 DEF FingerTouchRatio
      <4> QED BY <4>1
    <3>2. CASE c.touch_type \in {"size", "size_pressure"}
      <4>1. FingerTouchRatio(c, rest(c)) =
              Percentage(0, c.touch_max - c.touch_min)
        BY <2>3, <3>2 DEF FingerTouchRatio, TouchRange
      <4> QED BY <2>2, <4>1
    <3>3. CASE c.touch_type \in {"pressure_size", "pressure"}
      <4>1. FingerTouchRatio(c, rest(c)) =
              Percentage(0, c.pressure_max - c.pressure_min)
        BY <2>3, <3>3 DEF FingerTouchRatio, PressureRange
      <4> QED BY <2>2, <4>1
    <3> QED BY <2>2, <3>1, <3>2, <3>3 DEF TouchTypes, c
  <2>5. ratio \in Int /\ ratio <= 0
    BY <2>4, NothingOfRange DEF c
  <2> QED BY <2>2, <2>5 DEF IsTouch, c
<1> QED BY <1>1, TypeCorrect, PadKnown, PTL

(* Division, in the form the steps below need it.                          *)
LEMMA DivMod ==
  ASSUME NEW a \in Int, NEW b \in Nat \ {0}
  PROVE  /\ a \div b \in Int /\ a % b \in 0..(b - 1)
         /\ a = b * (a \div b) + (a % b)
OBVIOUS

LEMMA DivUnique ==
  ASSUME NEW b \in Nat \ {0}, NEW q \in Int, NEW r \in 0..(b - 1),
         NEW a \in Int, a = b * q + r
  PROVE  a \div b = q /\ a % b = r
<1> DEFINE p == a \div b
           s == a % b
<1>1. p \in Int /\ s \in 0..(b - 1) /\ a = b * p + s
  BY DivMod
<1> HIDE DEF p, s
<1>2. b * (q - p) = s - r
  BY <1>1
<1>3. ASSUME q - p >= 1 PROVE FALSE
  <2>1. b * (q - p) >= b
    BY <1>1, <1>3
  <2> QED BY <1>1, <1>2, <2>1
<1>4. ASSUME q - p <= -1 PROVE FALSE
  <2>1. b * (q - p) <= -b
    BY <1>1, <1>4
  <2> QED BY <1>1, <1>2, <2>1
<1>5. q = p
  BY <1>1, <1>3, <1>4
<1> QED BY <1>1, <1>2, <1>5 DEF p, s

(* Of two numbers the larger has no smaller quotient, and a larger one if  *)
(* it is a multiple.                                                       *)
LEMMA DivGrows ==
  ASSUME NEW a \in Int, NEW c \in Int, a < c, NEW b \in Nat \ {0}
  PROVE  /\ a \div b <= c \div b
         /\ c % b = 0 => a \div b < c \div b
<1> DEFINE p == a \div b
           q == c \div b
           r == a % b
           s == c % b
<1>1. /\ a = b * p + r /\ r \in 0..(b - 1) /\ p \in Int
      /\ c = b * q + s /\ s \in 0..(b - 1) /\ q \in Int
  BY DivMod
<1> HIDE DEF p, q, r, s
<1>2. ASSUME p - q >= 1 PROVE FALSE
  <2>1. b * (p - q) >= b
    BY <1>1, <1>2
  <2>2. b * p - b * q >= b
    BY <1>1, <2>1
  <2> QED BY <1>1, <2>2
<1>3. ASSUME p = q, s = 0 PROVE FALSE
  BY <1>1, <1>3
<1> QED BY <1>1, <1>2, <1>3 DEF p, q, s

(* The negation of a multiple is one.                                      *)
LEMMA NegatedMultiple ==
  ASSUME NEW a \in Int, NEW b \in Nat \ {0}
  PROVE  a % b = 0 <=> (-a) % b = 0
<1>1. ASSUME NEW c \in Int, c % b = 0
      PROVE  (-c) % b = 0
  <2> DEFINE q == c \div b
  <2>1. q \in Int /\ c = b * q
    BY <1>1, DivMod
  <2> HIDE DEF q
  <2> DEFINE n == -c
             k == -q
  <2>2. n = b * k + 0 /\ k \in Int /\ 0 \in 0..(b - 1) /\ n \in Int
    BY <2>1
  <2> HIDE DEF n, k
  <2>3. n % b = 0
    BY <2>2, DivUnique
  <2> QED BY <2>3 DEF n
<1>2. -a \in Int /\ -(-a) = a
  OBVIOUS
<1> QED BY <1>1, <1>2

(* What a percentage is: the whole quotient, towards zero, or one less of  *)
(* a multiple.                                                             *)
Off(k, x, b, r) ==
  /\ r \in {k, k - 1}
  /\ r = k - 1 => x % b = 0 /\ k >= 1

LEMMA PercentageOf ==
  ASSUME NEW a \in Int, NEW b \in Nat \ {0}, NEW r \in Percentage(a, b)
  PROVE  /\ r \in Int
         /\ a >= 0 => Off((100 * a) \div b, 100 * a, b, r)
         /\ a < 0 => Off((100 * (-a)) \div b, 100 * (-a), b, -r)
<1> DEFINE A == 100 * a
           C == 100 * (-a)
<1>1. A \in Int /\ C \in Int /\ C = -A
  OBVIOUS
<1>2. /\ A \div b \in Int /\ A % b \in 0..(b - 1)
      /\ A = b * (A \div b) + (A % b)
      /\ C \div b \in Int /\ C % b \in 0..(b - 1)
      /\ C = b * (C \div b) + (C % b)
  BY <1>1, DivMod
<1>3. A % b = 0 <=> C % b = 0
  <2> HIDE DEF A, C
  <2>1. A % b = 0 <=> (-A) % b = 0
    BY <1>1, NegatedMultiple
  <2> QED BY <1>1, <2>1, Zenon
<1>4. a % b # 0 => a # 0
  <2>1. 0 = b * 0 + 0 /\ 0 \in 0..(b - 1)
    OBVIOUS
  <2> QED BY <2>1, DivUnique
<1>5. CASE a >= 0
  <2>1. \/ r = A \div b
        \/ r = (A \div b) - 1 /\ A % b = 0 /\ a > 0
    BY <1>4, <1>5 DEF Percentage, Quotient
  <2>2. A % b = 0 /\ a > 0 => A \div b >= 1
    <3> DEFINE k == A \div b
    <3>1. A = b * k + (A % b) /\ k \in Int
      BY <1>2
    <3> HIDE DEF k
    <3>2. k <= 0 => b * k <= 0
      BY <3>1
    <3>3. a > 0 => A > 0
      OBVIOUS
    <3> HIDE DEF A
    <3> QED BY <1>1, <3>1, <3>2, <3>3 DEF k
  <2> QED BY <1>2, <1>5, <2>1, <2>2 DEF Off
<1>6. CASE a < 0
  <2>1. \/ r = -(C \div b)
        \/ r = -(C \div b) + 1 /\ C % b = 0
    BY <1>1, <1>3, <1>6 DEF Percentage, Quotient
  <2>2. C % b = 0 => C \div b >= 1
    <3> DEFINE k == C \div b
    <3>1. C = b * k + (C % b) /\ k \in Int
      BY <1>2
    <3> HIDE DEF k
    <3>2. k <= 0 => b * k <= 0
      BY <3>1
    <3>3. C > 0
      BY <1>6
    <3> HIDE DEF C
    <3> QED BY <1>1, <3>1, <3>2, <3>3 DEF k
  <2> QED BY <1>2, <1>6, <2>1, <2>2 DEF Off
<1> QED BY <1>5, <1>6

(* However both are rounded, the percentage of the larger is no smaller.   *)
LEMMA PercentageGrows ==
  ASSUME NEW a \in Int, NEW c \in Int, a < c, NEW b \in Nat \ {0},
         NEW r \in Percentage(a, b), NEW s \in Percentage(c, b)
  PROVE  r \in Int /\ s \in Int /\ r <= s
<1>1. r \in Int /\ s \in Int
  BY PercentageOf
<1>2. CASE a >= 0
  <2>1. /\ Off((100 * a) \div b, 100 * a, b, r)
        /\ Off((100 * c) \div b, 100 * c, b, s)
    BY <1>2, PercentageOf
  <2> DEFINE A == 100 * a
             C == 100 * c
  <2>2. A \in Int /\ C \in Int /\ A < C
    OBVIOUS
  <2>3. Off(A \div b, A, b, r) /\ Off(C \div b, C, b, s)
    BY <2>1
  <2> HIDE DEF A, C
  <2>4. /\ A \div b \in Int /\ C \div b \in Int
        /\ A \div b <= C \div b /\ (C % b = 0 => A \div b < C \div b)
    BY <2>2, DivGrows, DivMod
  <2> QED BY <1>1, <2>3, <2>4 DEF Off
<1>3. CASE a < 0 /\ c >= 0
  <2> DEFINE A == 100 * (-a)
             C == 100 * c
  <2>1. Off(A \div b, A, b, -r) /\ Off(C \div b, C, b, s)
    BY <1>3, PercentageOf
  <2>2. A \in Nat /\ C \in Nat
    BY <1>3
  <2> HIDE DEF A, C
  <2>3. A \div b \in Nat /\ C \div b \in Nat
    BY <2>2
  <2> QED BY <1>1, <2>1, <2>3 DEF Off
<1>4. CASE c < 0
  <2> DEFINE A == 100 * (-a)
             C == 100 * (-c)
  <2>1. Off(A \div b, A, b, -r) /\ Off(C \div b, C, b, -s)
    BY <1>4, PercentageOf
  <2>2. A \in Int /\ C \in Int /\ C < A
    OBVIOUS
  <2> HIDE DEF A, C
  <2>3. /\ A \div b \in Int /\ C \div b \in Int
        /\ C \div b <= A \div b /\ (A % b = 0 => C \div b < A \div b)
    BY <2>2, DivGrows, DivMod
  <2> QED BY <1>1, <2>1, <2>3 DEF Off
<1> QED BY <1>2, <1>3, <1>4

(* All of a range is 100 percent, exactly.                                 *)
LEMMA PercentageOfAll ==
  ASSUME NEW b \in Nat \ {0}
  PROVE  Percentage(b, b) = {100}
<1> DEFINE A == 100 * b
<1>1. A = b * 100 + 0 /\ A \in Int /\ 0 \in 0..(b - 1) /\ b = b * 1 + 0
  OBVIOUS
<1> HIDE DEF A
<1>2. A \div b = 100 /\ A % b = 0 /\ b % b = 0
  BY <1>1, DivUnique
<1> QED BY <1>2 DEF Percentage, Quotient, A

(* The ranges a kernel reports are not empty, and that of touches reaches  *)
(* above zero.                                                             *)
RangesNotEmpty ==
  \A k \in Kernels :
    /\ k["touch_major"].has =>
         /\ k["touch_major"].minimum < k["touch_major"].maximum
         /\ 0 < k["touch_major"].maximum
    /\ k["pressure"].has => k["pressure"].minimum < k["pressure"].maximum

(* What a device that is on divides by then.                               *)
LEMMA RangesKnown ==
  ASSUME RangesNotEmpty, TypeOK, KnowsPad, NEW d \in Configured
  PROVE  LET c == cfg[d]
         IN  /\ c \in ConfigType
             /\ c.touch_min \in Int /\ c.touch_max \in Int
             /\ c.pressure_min \in Int /\ c.pressure_max \in Int
             /\ c.touch_down \in 0..100 /\ c.touch_up \in 0..100
             /\ c.touch_type \in TouchTypes
             /\ c.touch_type \in {"scale", "size", "size_pressure"} =>
                  c.touch_min < c.touch_max /\ 0 < c.touch_max
             /\ c.touch_type \in {"pressure_size", "pressure"} =>
                  c.pressure_min < c.pressure_max
<1> DEFINE c == cfg[d]
           k == caps[d]
<1>1. d \in Devices /\ life[d] \in Live
  BY DEF Configured, Live
<1>2. c \in ConfigType /\ k \in CapsType /\ ReadFrom(c, k)
  BY <1>1 DEF TypeOK, KnowsPad
<1> HIDE DEF c, k
<1>3. /\ c.touch_min \in Int /\ c.touch_max \in Int
      /\ c.pressure_min \in Int /\ c.pressure_max \in Int
      /\ c.touch_down \in 0..100 /\ c.touch_up \in 0..100
      /\ c.touch_type \in TouchTypes
  BY <1>2 DEF ConfigType, Percent
<1>4. /\ TouchType(k) \in {"scale", "size", "size_pressure"} =>
           k["touch_major"].has
      /\ TouchType(k) \in {"pressure_size", "pressure"} => k["pressure"].has
  <2> DEFINE major    == k["touch_major"].has
             width    == k["width_major"].has
             pressure == k["pressure"].has
  <2>1. major \in BOOLEAN /\ width \in BOOLEAN /\ pressure \in BOOLEAN
    BY <1>2, CapsFields DEF Axes
  <2> QED BY <2>1 DEF TouchType
<1>5. k["touch_major"].has \/ k["pressure"].has => k \in Kernels
  <2>1. ~Unread["touch_major"].has /\ ~Unread["pressure"].has
    BY DEF Unread, Axes
  <2> QED BY <1>2, <2>1 DEF ReadFrom
<1>6. c.touch_type \in {"scale", "size", "size_pressure"} =>
        c.touch_min < c.touch_max /\ 0 < c.touch_max
  BY <1>2, <1>4, <1>5 DEF ReadFrom, RangesNotEmpty
<1>7. c.touch_type \in {"pressure_size", "pressure"} =>
        c.pressure_min < c.pressure_max
  BY <1>2, <1>4, <1>5 DEF ReadFrom, RangesNotEmpty, PressureTypes
<1> QED BY <1>2, <1>3, <1>6, <1>7 DEF c

(* A finger that presses as hard as its axis can say is a touch, for every *)
(* pad whose ranges are not empty and every FingerHigh below 100.          *)
THEOREM FullPressIsTouch ==
  ASSUME RangesNotEmpty
  PROVE  Spec => []FullPressLands
<1>1. TypeOK /\ KnowsPad => FullPressLands
  <2> DEFINE full(c) ==
        [ major |-> c.touch_max, minor |-> c.touch_max,
          width |-> c.touch_max, pressure |-> c.pressure_max ]
  <2> SUFFICES ASSUME TypeOK, KnowsPad, NEW d \in Configured,
                      cfg[d].touch_down < 100 \/ cfg[d].touch_type = "none",
                      NEW ratio \in FingerTouchRatio(cfg[d], full(cfg[d]))
               PROVE  IsTouch(cfg[d], ratio)
    BY DEF FullPressLands
  <2> DEFINE c == cfg[d]
  <2>1. /\ c.touch_min \in Int /\ c.touch_max \in Int
        /\ c.pressure_min \in Int /\ c.pressure_max \in Int
        /\ c.touch_down \in 0..100 /\ c.touch_type \in TouchTypes
        /\ c.touch_type \in {"scale", "size", "size_pressure"} =>
             c.touch_min < c.touch_max /\ 0 < c.touch_max
        /\ c.touch_type \in {"pressure_size", "pressure"} =>
             c.pressure_min < c.pressure_max
    BY RangesKnown
  <2>2. ratio \in FingerTouchRatio(c, full(c))
        /\ (c.touch_down < 100 \/ c.touch_type = "none")
    OBVIOUS
  <2> HIDE DEF c
  <2>3. CASE c.touch_type = "none"
    <3>1. ratio = 101
      BY <2>2, <2>3 DEF FingerTouchRatio
    <3> QED BY <2>1, <3>1 DEF IsTouch, c
  <2>4. CASE c.touch_type # "none"
    <3>1. PICK b \in Nat \ {0} :
            FingerTouchRatio(c, full(c)) = Percentage(b, b)
      <4>1. CASE c.touch_type = "scale"
        <5>1. FingerTouchRatio(c, full(c)) =
                Percentage(c.touch_max, c.touch_max)
          BY <4>1 DEF FingerTouchRatio
        <5> QED BY <2>1, <4>1, <5>1
      <4>2. CASE c.touch_type \in {"size", "size_pressure"}
        <5>1. FingerTouchRatio(c, full(c)) =
                Percentage(c.touch_max - c.touch_min,
                           c.touch_max - c.touch_min)
          BY <4>2 DEF FingerTouchRatio, TouchRange
        <5> QED BY <2>1, <4>2, <5>1
      <4>3. CASE c.touch_type \in {"pressure_size", "pressure"}
        <5>1. FingerTouchRatio(c, full(c)) =
                Percentage(c.pressure_max - c.pressure_min,
                           c.pressure_max - c.pressure_min)
          BY <4>3 DEF FingerTouchRatio, PressureRange
        <5> QED BY <2>1, <4>3, <5>1
      <4> QED BY <2>1, <2>4, <4>1, <4>2, <4>3 DEF TouchTypes
    <3>2. ratio = 100
      BY <2>2, <3>1, PercentageOfAll
    <3> QED BY <2>1, <2>2, <2>4, <3>2 DEF IsTouch, c
  <2> QED BY <2>3, <2>4
<1> QED BY <1>1, TypeCorrect, PadKnown, PTL

(* Who presses harder is not less of a touch, however the quotients of the *)
(* two are rounded, for every pad whose ranges are not empty.              *)
THEOREM HarderIsNoLess ==
  ASSUME RangesNotEmpty
  PROVE  Spec => []HarderStaysDown
<1>1. TypeOK /\ KnowsPad => HarderStaysDown
  <2> SUFFICES ASSUME TypeOK, KnowsPad, NEW d \in Configured,
                      NEW v \in Measures, NEW w \in Measures, v < w,
                      NEW r \in FingerTouchRatio(cfg[d], Finger(v, 10)),
                      NEW s \in FingerTouchRatio(cfg[d], Finger(w, 10))
               PROVE  /\ IsTouch(cfg[d], r) => IsTouch(cfg[d], s)
                      /\ IsRelease(cfg[d], s) => IsRelease(cfg[d], r)
    BY DEF HarderStaysDown
  <2> DEFINE c == cfg[d]
  <2>1. /\ c.touch_min \in Int /\ c.touch_max \in Int
        /\ c.pressure_min \in Int /\ c.pressure_max \in Int
        /\ c.touch_down \in 0..100 /\ c.touch_up \in 0..100
        /\ c.touch_type \in TouchTypes
        /\ c.touch_type \in {"scale", "size", "size_pressure"} =>
             c.touch_min < c.touch_max
        /\ c.touch_type \in {"pressure_size", "pressure"} =>
             c.pressure_min < c.pressure_max
    BY RangesKnown
  <2>2. /\ r \in FingerTouchRatio(c, Finger(v, 10))
        /\ s \in FingerTouchRatio(c, Finger(w, 10))
    OBVIOUS
  <2>3. v \in Nat /\ w \in Nat
    BY MeasuresAssumption
  <2> HIDE DEF c
  <2>4. r \in Int /\ s \in Int /\ r <= s
    <3>1. CASE c.touch_type = "none"
      BY <2>2, <3>1 DEF FingerTouchRatio
    <3>2. CASE c.touch_type = "scale"
      <4>1. r \in Percentage(v, 10) /\ s \in Percentage(w, 10)
        BY <2>2, <3>2 DEF FingerTouchRatio, Finger
      <4> QED BY <2>3, <4>1, PercentageGrows
    <3>3. CASE c.touch_type \in {"size", "size_pressure"}
      <4> DEFINE b == c.touch_max - c.touch_min
                 x == v - c.touch_min
                 y == w - c.touch_min
      <4>1. r \in Percentage(x, b) /\ s \in Percentage(y, b)
        BY <2>2, <3>3 DEF FingerTouchRatio, Finger, TouchRange
      <4>2. b \in Nat \ {0} /\ x \in Int /\ y \in Int /\ x < y
        BY <2>1, <2>3, <3>3
      <4> HIDE DEF b, x, y
      <4> QED BY <4>1, <4>2, PercentageGrows
    <3>4. CASE c.touch_type \in {"pressure_size", "pressure"}
      <4> DEFINE b == c.pressure_max - c.pressure_min
                 x == v - c.pressure_min
                 y == w - c.pressure_min
      <4>1. r \in Percentage(x, b) /\ s \in Percentage(y, b)
        BY <2>2, <3>4 DEF FingerTouchRatio, Finger, PressureRange
      <4>2. b \in Nat \ {0} /\ x \in Int /\ y \in Int /\ x < y
        BY <2>1, <2>3, <3>4
      <4> HIDE DEF b, x, y
      <4> QED BY <4>1, <4>2, PercentageGrows
    <3> QED BY <2>1, <3>1, <3>2, <3>3, <3>4 DEF TouchTypes
  <2>5. c.touch_down \in Int /\ c.touch_up \in Int
    BY <2>1
  <2> QED BY <2>4, <2>5 DEF IsTouch, IsRelease, c
<1> QED BY <1>1, TypeCorrect, PadKnown, PTL

-----------------------------------------------------------------------------
(* What clients see.                                                       *)

(* Agree, field by field.                                                  *)
SameFields(c, s) ==
  /\ c.trackpad_disable = AsInt(s["trackpad_disable"][1])
  /\ c.ignore_thumb     = AsInt(s["thumb_detect"][1])
  /\ c.disable_on_thumb = AsInt(s["thumb_detect"][2])
  /\ c.thumb_size       = AsInt(s["thumb_size"][1])
  /\ c.ignore_palm      = AsInt(s["palm_detect"][1])
  /\ c.disable_on_palm  = AsInt(s["palm_detect"][2])
  /\ c.palm_size        = AsInt(s["palm_size"][1])
  /\ c.axis_x_invert    = AsInt(s["axis_invert"][1])
  /\ c.axis_y_invert    = AsInt(s["axis_invert"][2])

LEMMA AgreeByField ==
  ASSUME NEW c, NEW s
  PROVE  Agree(c, s) <=> SameFields(c, s)
<1> DEFINE S(p) == Shown(c)[p] = [i \in 1..Length[p] |-> AsInt(s[p][i])]
<1>0. ASSUME NEW f
      PROVE  /\ \A a : <<a>> = [i \in 1..1 |-> AsInt(f[i])] <=> a = AsInt(f[1])
             /\ \A a, b : <<a, b>> = [i \in 1..2 |-> AsInt(f[i])] <=>
                            a = AsInt(f[1]) /\ b = AsInt(f[2])
  <2> DEFINE g(i) == AsInt(f[i])
  <2> HIDE DEF g
  <2>1. /\ \A a : <<a>> = [i \in 1..1 |-> g(i)] <=> a = g(1)
        /\ \A a, b : <<a, b>> = [i \in 1..2 |-> g(i)] <=> a = g(1) /\ b = g(2)
    OBVIOUS
  <2> QED BY <2>1 DEF g
<1>1. /\ Length["trackpad_disable"] = 1 /\ Length["thumb_detect"] = 2
      /\ Length["palm_detect"] = 2 /\ Length["palm_size"] = 1
      /\ Length["axis_invert"] = 2
  BY Zenon DEF Length
<1>2. /\ Shown(c)["trackpad_disable"] = <<c.trackpad_disable>>
      /\ Shown(c)["thumb_detect"] = <<c.ignore_thumb, c.disable_on_thumb>>
      /\ Shown(c)["palm_detect"] = <<c.ignore_palm, c.disable_on_palm>>
      /\ Shown(c)["palm_size"] = <<c.palm_size>>
      /\ Shown(c)["axis_invert"] = <<c.axis_x_invert, c.axis_y_invert>>
  BY Zenon DEF Shown
<1>3. /\ S("trackpad_disable") <=>
           c.trackpad_disable = AsInt(s["trackpad_disable"][1])
      /\ S("palm_size") <=> c.palm_size = AsInt(s["palm_size"][1])
  <2>1. /\ S("trackpad_disable") <=>
             <<c.trackpad_disable>> =
               [i \in 1..1 |-> AsInt(s["trackpad_disable"][i])]
        /\ S("palm_size") <=>
             <<c.palm_size>> = [i \in 1..1 |-> AsInt(s["palm_size"][i])]
    BY <1>1, <1>2
  <2> HIDE DEF S
  <2> QED BY <1>0, <2>1
<1>4. /\ S("thumb_detect") <=>
           /\ c.ignore_thumb = AsInt(s["thumb_detect"][1])
           /\ c.disable_on_thumb = AsInt(s["thumb_detect"][2])
      /\ S("palm_detect") <=>
           /\ c.ignore_palm = AsInt(s["palm_detect"][1])
           /\ c.disable_on_palm = AsInt(s["palm_detect"][2])
      /\ S("axis_invert") <=>
           /\ c.axis_x_invert = AsInt(s["axis_invert"][1])
           /\ c.axis_y_invert = AsInt(s["axis_invert"][2])
  <2>1. /\ S("thumb_detect") <=>
             <<c.ignore_thumb, c.disable_on_thumb>> =
               [i \in 1..2 |-> AsInt(s["thumb_detect"][i])]
        /\ S("palm_detect") <=>
             <<c.ignore_palm, c.disable_on_palm>> =
               [i \in 1..2 |-> AsInt(s["palm_detect"][i])]
        /\ S("axis_invert") <=>
             <<c.axis_x_invert, c.axis_y_invert>> =
               [i \in 1..2 |-> AsInt(s["axis_invert"][i])]
    BY <1>1, <1>2
  <2> HIDE DEF S
  <2> QED BY <1>0, <2>1
<1>5. Properties \ {"thumb_size", "edge_sizes"} =
        {"trackpad_disable", "thumb_detect", "palm_detect", "palm_size",
         "axis_invert"}
  BY DEF Properties
<1>6. Agree(c, s) <=>
        /\ \A p \in Properties \ {"thumb_size", "edge_sizes"} : S(p)
        /\ c.thumb_size = AsInt(s["thumb_size"][1])
  BY Zenon DEF Agree
<1> HIDE DEF S
<1> QED BY <1>3, <1>4, <1>5, <1>6 DEF SameFields

(* DEVICE_INIT shows what the device has.                                  *)
LEMMA FirstShown ==
  ASSUME NEW c \in ConfigType,
         c.thumb_size \in Percent, c.palm_size \in Percent,
         NEW s, \A p \in Properties : s[p] = Shown(c)[p]
  PROVE  Agree(c, s)
<1>1. /\ s["trackpad_disable"][1] = c.trackpad_disable
      /\ s["thumb_detect"][1] = c.ignore_thumb
      /\ s["thumb_detect"][2] = c.disable_on_thumb
      /\ s["thumb_size"][1] = c.thumb_size
      /\ s["palm_detect"][1] = c.ignore_palm
      /\ s["palm_detect"][2] = c.disable_on_palm
      /\ s["palm_size"][1] = c.palm_size
      /\ s["axis_invert"][1] = c.axis_x_invert
      /\ s["axis_invert"][2] = c.axis_y_invert
  BY DEF Shown, Properties
<1>2. /\ c.trackpad_disable \in 0..100 /\ c.ignore_thumb \in 0..100
      /\ c.disable_on_thumb \in 0..100 /\ c.thumb_size \in 0..100
      /\ c.ignore_palm \in 0..100 /\ c.disable_on_palm \in 0..100
      /\ c.palm_size \in 0..100 /\ c.axis_x_invert \in 0..100
      /\ c.axis_y_invert \in 0..100
  BY DEF ConfigType, Flags, Percent
<1>3. \A w \in 0..100 : AsInt(w) = w
  BY WordsAreInts
<1>4. SameFields(c, s)
  BY <1>1, <1>2, <1>3, Zenon DEF SameFields
<1> QED BY <1>4, AgreeByField

(* An accepted request changes both sides alike.                           *)
LEMMA AppliedShown ==
  ASSUME NEW c \in ConfigType, NEW r \in Requests, Accepted(r),
         NEW s \in ShownType, Agree(c, s)
  PROVE  Agree(Applied(c, r.property, r.values),
               [s EXCEPT ![r.property] = r.values])
<1> DEFINE v == r.values
           a == Applied(c, r.property, v)
           t == [s EXCEPT ![r.property] = v]
<1>0. SameFields(c, s) /\ DOMAIN s = Properties \cup {"tap"}
  BY AgreeByField DEF ShownType
<1>1. /\ t[r.property] = v
      /\ \A p \in Properties : p # r.property => t[p] = s[p]
  BY <1>0, RequestFields
<1>2. \A w \in 0..100 : AsInt(w) = w
  BY WordsAreInts
<1>3. \A w \in Flags : AsInt(w) = w
  BY <1>2 DEF Flags
<1>p. Properties = { "trackpad_disable", "thumb_detect", "thumb_size",
                     "palm_detect", "palm_size", "axis_invert", "edge_sizes" }
  BY DEF Properties
<1> HIDE DEF v, t
<1>4. CASE r.property = "trackpad_disable"
  <2>1. a = [c EXCEPT !.trackpad_disable = v[1]]
    BY <1>4 DEF Applied
  <2>2. v[1] = AsInt(v[1])
    BY <1>2, <1>4, AcceptedValues DEF v
  <2>3. SameFields(a, t)
    BY <1>0, <1>1, <1>4, <1>p, <2>1, <2>2 DEF SameFields, ConfigType
  <2> QED BY <2>3, AgreeByField DEF v, t
<1>5. CASE r.property = "thumb_detect"
  <2>1. a = [c EXCEPT !.ignore_thumb = v[1], !.disable_on_thumb = v[2]]
    BY <1>5 DEF Applied
  <2>2. v[1] = AsInt(v[1]) /\ v[2] = AsInt(v[2])
    BY <1>3, <1>5, AcceptedValues DEF v
  <2>3. SameFields(a, t)
    BY <1>0, <1>1, <1>5, <1>p, <2>1, <2>2 DEF SameFields, ConfigType
  <2> QED BY <2>3, AgreeByField DEF v, t
<1>6. CASE r.property = "palm_detect"
  <2>1. a = [c EXCEPT !.ignore_palm = v[1], !.disable_on_palm = v[2]]
    BY <1>6 DEF Applied
  <2>2. v[1] = AsInt(v[1]) /\ v[2] = AsInt(v[2])
    BY <1>3, <1>6, AcceptedValues DEF v
  <2>3. SameFields(a, t)
    BY <1>0, <1>1, <1>6, <1>p, <2>1, <2>2 DEF SameFields, ConfigType
  <2> QED BY <2>3, AgreeByField DEF v, t
<1>7. CASE r.property = "axis_invert"
  <2>1. a = [c EXCEPT !.axis_x_invert = v[1], !.axis_y_invert = v[2]]
    BY <1>7 DEF Applied
  <2>2. v[1] = AsInt(v[1]) /\ v[2] = AsInt(v[2])
    BY <1>3, <1>7, AcceptedValues DEF v
  <2>3. SameFields(a, t)
    BY <1>0, <1>1, <1>7, <1>p, <2>1, <2>2 DEF SameFields, ConfigType
  <2> QED BY <2>3, AgreeByField DEF v, t
<1>8. CASE r.property = "thumb_size"
  <2>1. a = [c EXCEPT !.thumb_size = AsInt(v[1]), !.thumb_ratio = AsInt(v[1])]
    BY <1>8 DEF Applied
  <2> DEFINE n == AsInt(v[1])
  <2>2. a = [c EXCEPT !.thumb_size = n, !.thumb_ratio = n]
    BY <2>1
  <2>3. AsInt(t["thumb_size"][1]) = n
    BY <1>1, <1>8
  <2> HIDE DEF n, a
  <2>4. SameFields(a, t)
    BY <1>0, <1>1, <1>8, <1>p, <2>2, <2>3 DEF SameFields, ConfigType
  <2> QED BY <2>4, AgreeByField DEF v, t, a
<1>9. CASE r.property = "palm_size"
  <2>1. a = [c EXCEPT !.palm_size = AsInt(v[1])]
    BY <1>9 DEF Applied
  <2>2. SameFields(a, t)
    BY <1>0, <1>1, <1>9, <1>p, <2>1 DEF SameFields, ConfigType
  <2> QED BY <2>2, AgreeByField DEF v, t
<1>10. CASE r.property \in {"edge_sizes", "tap"}
  <2>1. a = c
    BY <1>10 DEF Applied
  <2>2. /\ t["trackpad_disable"] = s["trackpad_disable"]
        /\ t["thumb_detect"] = s["thumb_detect"]
        /\ t["thumb_size"] = s["thumb_size"]
        /\ t["palm_detect"] = s["palm_detect"]
        /\ t["palm_size"] = s["palm_size"]
        /\ t["axis_invert"] = s["axis_invert"]
    BY <1>1, <1>10, <1>p
  <2>3. SameFields(a, t)
    BY <1>0, <2>1, <2>2, Zenon DEF SameFields
  <2> QED BY <2>3, AgreeByField DEF v, t
<1> QED
  BY <1>4, <1>5, <1>6, <1>7, <1>8, <1>9, <1>10, <1>p, RequestFields

LEMMA SeenStep ==
  TypeOK /\ KnowsPad /\ ClientsSeeConfig /\ [Next]_vars => ClientsSeeConfig'
<1> SUFFICES ASSUME TypeOK, KnowsPad, ClientsSeeConfig, [Next]_vars
             PROVE  ClientsSeeConfig'
  OBVIOUS
<1>t. /\ life \in [Devices -> Lives] /\ cfg \in [Devices -> ConfigType]
      /\ caps \in [Devices -> CapsType]
      /\ shown \in [Devices -> ShownType \cup {<<>>}]
      /\ \A d \in Devices : life[d] \in Live => shown[d] \in ShownType
  BY DEF TypeOK
<1>l. /\ "absent" \notin Live /\ "made" \notin Live /\ "closed" \notin Live
      /\ "on" \in Live /\ "off" \in Live
  BY DEF Live
(* A step of d that does not leave it live, or changes nothing of it.      *)
<1>s. ASSUME NEW d \in Devices, NEW l \in Lives,
             life' = [life EXCEPT ![d] = l],
             \A e \in Devices \ {d} : cfg'[e] = cfg[e] /\ shown'[e] = shown[e],
             l \notin Live \/ (life[d] \in Live /\ UNCHANGED <<cfg, shown>>)
      PROVE  ClientsSeeConfig'
  <2>1. life'[d] = l /\ \A e \in Devices \ {d} : life'[e] = life[e]
    BY <1>s, <1>t
  <2> QED BY <1>s, <2>1, Zenon DEF ClientsSeeConfig
<1>1. ASSUME NEW d \in Devices, Preinit(d) PROVE ClientsSeeConfig'
  <2>1. /\ life' = [life EXCEPT ![d] = "made"]
        /\ \A e \in Devices \ {d} : cfg'[e] = cfg[e] /\ shown'[e] = shown[e]
    BY <1>1, <1>t DEF Preinit
  <2> QED BY <1>l, <1>s, <2>1 DEF Lives
<1>2. ASSUME NEW d \in Devices, InitFails(d) PROVE ClientsSeeConfig'
  BY <1>2, <1>l, <1>s DEF InitFails, Lives
<1>3. ASSUME NEW d \in Devices, DeviceInit(d) PROVE ClientsSeeConfig'
  <2>1. PICK read \in Kernels \cup {Unread}, tap \in TapOptions :
          /\ cfg' = [cfg EXCEPT ![d] = UpdateCaps(cfg[d], read)]
          /\ shown' = [shown EXCEPT ![d] =
                         [p \in Properties \cup {"tap"} |->
                            IF p = "tap" THEN tap ELSE Shown(cfg'[d])[p]]]
    BY <1>3 DEF DeviceInit
  <2>2. read \in CapsType
    BY KernelsAssumption, UnreadOrdered
  <2> DEFINE c == UpdateCaps(cfg[d], read)
  <2>3. life[d] = "made"
    BY <1>3 DEF DeviceInit
  <2>4. cfg[d].thumb_size \in Percent /\ cfg[d].palm_size \in Percent
    BY <2>3 DEF KnowsPad
  <2>5. c \in ConfigType /\ c.thumb_size \in Percent /\ c.palm_size \in Percent
    BY <1>t, <2>2, <2>4, CapsToConfig
  <2>6. cfg'[d] = c
    BY <1>t, <2>1
  <2> HIDE DEF c
  <2> DEFINE s == [p \in Properties \cup {"tap"} |->
                     IF p = "tap" THEN tap ELSE Shown(cfg'[d])[p]]
  <2>7. \A p \in Properties : s[p] = Shown(c)[p]
    BY <2>6 DEF Properties
  <2>8. shown' = [shown EXCEPT ![d] = s]
    BY <2>1
  <2> HIDE DEF s
  <2>9. Agree(c, s)
    BY <2>5, <2>7, FirstShown
  <2>10. /\ cfg'[d] = c /\ shown'[d] = s
         /\ \A e \in Devices \ {d} : /\ cfg'[e] = cfg[e] /\ shown'[e] = shown[e]
                                     /\ life'[e] = life[e]
    BY <1>3, <1>t, <2>1, <2>6, <2>8 DEF DeviceInit
  <2> QED BY <2>9, <2>10, Zenon DEF ClientsSeeConfig
<1>4. ASSUME NEW d \in Devices, DeviceOn(d) PROVE ClientsSeeConfig'
  BY <1>4, <1>l, <1>s DEF DeviceOn, Lives
<1>5. ASSUME NEW d \in Devices, MtdevFails(d) PROVE ClientsSeeConfig'
  BY <1>5 DEF MtdevFails, device, ClientsSeeConfig
<1>11. ASSUME NEW d \in Devices, SerialFails(d) PROVE ClientsSeeConfig'
  BY <1>11 DEF SerialFails, device, ClientsSeeConfig
<1>6. ASSUME NEW d \in Devices, DeviceOff(d) PROVE ClientsSeeConfig'
  BY <1>6, <1>l, <1>s DEF DeviceOff, Lives
<1>7. ASSUME NEW d \in Devices, DeviceClose(d) PROVE ClientsSeeConfig'
  BY <1>7, <1>l, <1>s DEF DeviceClose, Lives
<1>8. ASSUME NEW d \in Devices, Uninit(d) PROVE ClientsSeeConfig'
  <2>1. /\ life' = [life EXCEPT ![d] = "absent"]
        /\ \A e \in Devices \ {d} : cfg'[e] = cfg[e] /\ shown'[e] = shown[e]
    BY <1>8, <1>t DEF Uninit
  <2> QED BY <1>l, <1>s, <2>1 DEF Lives
<1>9. ASSUME NEW d \in Devices, NEW r \in Requests, ChangeProperty(d, r)
      PROVE  ClientsSeeConfig'
  <2> DEFINE c == Applied(cfg[d], r.property, r.values)
             s == [shown[d] EXCEPT ![r.property] = r.values]
  <2>1. Agree(cfg[d], shown[d]) /\ shown[d] \in ShownType /\ Accepted(r)
    BY <1>9, <1>t DEF ChangeProperty, ClientsSeeConfig
  <2>2. Agree(c, s)
    BY <1>t, <2>1, AppliedShown
  <2>3. /\ cfg' = [cfg EXCEPT ![d] = c] /\ shown' = [shown EXCEPT ![d] = s]
        /\ life' = life
    BY <1>9 DEF ChangeProperty
  <2> HIDE DEF c, s
  <2>4. /\ cfg'[d] = c /\ shown'[d] = s
        /\ \A e \in Devices \ {d} : cfg'[e] = cfg[e] /\ shown'[e] = shown[e]
    BY <1>t, <2>3
  <2> QED BY <2>2, <2>3, <2>4, Zenon DEF ClientsSeeConfig
<1>10. CASE UNCHANGED vars
  BY <1>10 DEF vars, device, ClientsSeeConfig
<1> QED
  BY <1>1, <1>2, <1>3, <1>4, <1>5, <1>6, <1>7, <1>8, <1>9, <1>10, <1>11
     DEF Next

(* Clients read what the device works with, for any number of devices,     *)
(* any options and any requests.                                           *)
THEOREM ClientsSeeTheConfig == Spec => []ClientsSeeConfig
<1>1. Init => ClientsSeeConfig
  BY DEF Init, ClientsSeeConfig, Live
<1> QED BY <1>1, SeenStep, TypeCorrect, PadKnown, PTL DEF Spec

===============================================================================
