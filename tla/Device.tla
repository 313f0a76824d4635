-------------------------------- MODULE Device --------------------------------
(***************************************************************************)
(* itrack.c, xconfig.c and itrack-config.c: the life of the devices of the *)
(* driver, their configuration, descriptors and the one list of properties *)
(* that xconfig.c keeps for all of them.                                   *)
(*                                                                         *)
(* The X server calls preinit, DEVICE_INIT, any number of DEVICE_ON and    *)
(* DEVICE_OFF, DEVICE_CLOSE and uninit of a device, in this order; clients *)
(* may change properties from DEVICE_INIT to DEVICE_CLOSE.                 *)
(***************************************************************************)
EXTENDS Readings, FiniteSets

CONSTANTS
  Devices,
  Options,       \* what the options of a device may be
  TapOptions,    \* TapDistance, TapHold and TapRelease
  Kernels,       \* what read_capabilities may find
  Requests,      \* [property, fits, values] of clients
  Measures,      \* what an axis may measure
  Descriptors,   \* file descriptors, from 1; 0 is none
  Lists,         \* blocks malloc may return for the list of xconfig.c
  NoList,        \* NULL
  MaxStarts,     \* bound: preinits
  MaxChanges     \* bound: property changes

ASSUME OptionsAssumption ==
  Options \subseteq OptionsType /\ TapOptions \subseteq Seq(Int)
ASSUME KernelsAssumption ==
  /\ Kernels \subseteq CapsType
  /\ \A c \in Kernels, a \in Axes : c[a].minimum <= c[a].maximum
ASSUME RequestsAssumption ==
  Requests \subseteq
    [property : Properties \cup {"tap"}, fits : BOOLEAN, values : Seq(Words)]
ASSUME MeasuresAssumption == Measures \subseteq Nat
ASSUME DescriptorsAssumption == Descriptors \subseteq Nat \ {0}
ASSUME ListsAssumption == NoList \notin Lists
ASSUME BoundsAssumption == MaxStarts \in Nat /\ MaxChanges \in Nat

VARIABLES
  life,      \* how far the server is with each device
  cfg,       \* itrack.props.cfg
  caps,      \* itrack.props.caps
  shown,     \* the properties the server keeps of it
  fd,        \* local.fd
  opened,    \* the descriptors of the driver
  head,      \* default_config.props_head
  heap,      \* the lists that are allocated
  lost,      \* history: descriptors a failed DEVICE_ON left open
  starts, changes

device  == <<life, cfg, caps, shown>>
files   == <<fd, opened, lost>>
xconfig == <<head, heap>>
vars    == <<device, files, xconfig, starts, changes>>

Lives == {"absent", "made", "off", "on", "closed"}
Live  == {"off", "on"}

NoFile == -1    \* what xf86OpenSerial returns when it fails

ShownType == [Properties \cup {"tap"} -> Seq(Int)]

(* cfg holds flags, percentages and trackpad_disable within their ranges;  *)
(* of the three sizes it says only that they are integers: a client may set*)
(* thumb_size, thumb_ratio and palm_size to any.                           *)
TypeOK ==
  /\ life \in [Devices -> Lives]
  /\ cfg \in [Devices -> ConfigType]
  /\ caps \in [Devices -> CapsType]
  /\ shown \in [Devices -> ShownType \cup {<<>>}]
  /\ \A d \in Devices : life[d] \in Live => shown[d] \in ShownType
  /\ fd \in [Devices -> Descriptors \cup {0, NoFile}]
  /\ opened \subseteq Descriptors
  /\ lost \subseteq Descriptors
  /\ head \in Lists \cup {NoList}
  /\ heap \subseteq Lists
  /\ starts \in 0..MaxStarts
  /\ changes \in 0..MaxChanges

Init ==
  /\ life = [d \in Devices |-> "absent"]
  /\ cfg = [d \in Devices |-> InitWithConfigure(Defaults)]
  /\ caps = [d \in Devices |-> Unread]
  /\ shown = [d \in Devices |-> <<>>]
  /\ fd = [d \in Devices |-> 0]
  /\ opened = {}
  /\ lost = {}
  /\ head = NoList
  /\ heap = {}
  /\ starts = 0
  /\ changes = 0

-----------------------------------------------------------------------------
(* preinit: the structure is allocated and zeroed, the options are read.   *)
Preinit(d) ==
  /\ life[d] = "absent"
  /\ starts < MaxStarts
  /\ life' = [life EXCEPT ![d] = "made"]
  /\ \E opts \in Options : cfg' = [cfg EXCEPT ![d] = InitWithConfigure(opts)]
  /\ caps' = [caps EXCEPT ![d] = Unread]
  /\ shown' = [shown EXCEPT ![d] = <<>>]
  /\ fd' = [fd EXCEPT ![d] = 0]
  /\ starts' = starts + 1
  /\ UNCHANGED <<opened, lost, xconfig, changes>>

(* DEVICE_INIT cannot open the device: the server gives it up.             *)
InitFails(d) ==
  /\ life[d] = "made"
  /\ life' = [life EXCEPT ![d] = "closed"]
  /\ fd' = [fd EXCEPT ![d] = NoFile]
  /\ UNCHANGED <<cfg, caps, shown, opened, lost, xconfig, starts, changes>>

(* itrack_config_init: xconfig_init forgets the list of the device before, *)
(* xconfig_add_prop allocates one.                                         *)
ConfigInit ==
  \E list \in Lists \ heap :
    /\ head' = list
    /\ heap' = heap \cup {list}

(* DEVICE_INIT.  The device is opened, read and closed again; when reading *)
(* fails that is only logged.  The handler of property changes is          *)
(* registered after the properties have their values.                      *)
DeviceInit(d) ==
  /\ life[d] = "made"
  /\ life' = [life EXCEPT ![d] = "off"]
  /\ \E read \in Kernels \cup {Unread}, tap \in TapOptions :
       /\ caps' = [caps EXCEPT ![d] = read]
       /\ cfg' = [cfg EXCEPT ![d] = UpdateCaps(@, read)]
       /\ shown' = [shown EXCEPT ![d] =
                      [p \in Properties \cup {"tap"} |->
                         IF p = "tap" THEN tap ELSE Shown(cfg'[d])[p]]]
  /\ fd' = [fd EXCEPT ![d] = 0]
  /\ ConfigInit
  /\ UNCHANGED <<opened, lost, starts, changes>>

(* The kernel gives the lowest descriptor that is free.                    *)
Opens(d, f) ==
  /\ f \in Descriptors \ opened
  /\ \A g \in Descriptors \ opened : f <= g
  /\ fd' = [fd EXCEPT ![d] = f]
  /\ opened' = opened \cup {f}

(* DEVICE_ON                                                               *)
DeviceOn(d) ==
  /\ life[d] = "off"
  /\ life' = [life EXCEPT ![d] = "on"]
  /\ \E f \in Descriptors : Opens(d, f)
  /\ UNCHANGED <<cfg, caps, shown, lost, xconfig, starts, changes>>

(* The same, when xf86OpenSerial fails.                                    *)
SerialFails(d) ==
  /\ life[d] = "off"
  /\ fd' = [fd EXCEPT ![d] = NoFile]
  /\ UNCHANGED <<device, opened, lost, xconfig, starts, changes>>

(* The same, when mtdev_open fails: device_on returns and does not close.  *)
MtdevFails(d) ==
  /\ life[d] = "off"
  /\ \E f \in Descriptors : Opens(d, f) /\ lost' = lost \cup {f}
  /\ UNCHANGED <<device, xconfig, starts, changes>>

(* Mutant: the descriptor is closed by DEVICE_CLOSE only.                  *)
DeviceOffOpen(d) ==
  /\ life[d] = "on"
  /\ life' = [life EXCEPT ![d] = "off"]
  /\ UNCHANGED <<cfg, caps, shown, files, xconfig, starts, changes>>

(* DEVICE_OFF                                                              *)
DeviceOff(d) ==
  /\ life[d] = "on"
  /\ life' = [life EXCEPT ![d] = "off"]
  /\ opened' = opened \ {fd[d]}
  /\ UNCHANGED <<cfg, caps, shown, fd, lost, xconfig, starts, changes>>

(* Mutant: the list is freed, the pointer to it kept.                      *)
ConfigDeinitKept ==
  /\ heap' = heap \ {head}
  /\ UNCHANGED head

(* xconfig_deinit frees the list it knows, whichever device made it.       *)
ConfigDeinit ==
  /\ heap' = heap \ {head}
  /\ head' = NoList

(* DEVICE_CLOSE                                                            *)
DeviceClose(d) ==
  /\ life[d] = "off"
  /\ life' = [life EXCEPT ![d] = "closed"]
  /\ ConfigDeinit
  /\ UNCHANGED <<cfg, caps, shown, files, starts, changes>>

(* uninit frees the structure; the server forgets the device.              *)
Uninit(d) ==
  /\ life[d] = "closed"
  /\ life' = [life EXCEPT ![d] = "absent"]
  /\ cfg' = [cfg EXCEPT ![d] = InitWithConfigure(Defaults)]
  /\ caps' = [caps EXCEPT ![d] = Unread]
  /\ shown' = [shown EXCEPT ![d] = <<>>]
  /\ fd' = [fd EXCEPT ![d] = 0]
  /\ UNCHANGED <<opened, lost, xconfig, starts, changes>>

(* Mutant: the handler writes the configuration of any device.             *)
ChangePropertyOfAny(d, r) ==
  /\ life[d] \in Live
  /\ changes < MaxChanges
  /\ Accepted(r)
  /\ \E e \in Devices :
       cfg' = [cfg EXCEPT ![e] = Applied(@, r.property, r.values)]
  /\ shown' = [shown EXCEPT ![d][r.property] = r.values]
  /\ changes' = changes + 1
  /\ UNCHANGED <<life, caps, files, xconfig, starts>>

(* A client changes a property: the server asks mprops_set_property to     *)
(* check the values, then to apply them, and keeps them.  (The handler of  *)
(* xconfig.c is not registered.)                                           *)
ChangeProperty(d, r) ==
  /\ life[d] \in Live
  /\ changes < MaxChanges
  /\ Accepted(r)
  /\ cfg' = [cfg EXCEPT ![d] = Applied(@, r.property, r.values)]
  /\ shown' = [shown EXCEPT ![d][r.property] = r.values]
  /\ changes' = changes + 1
  /\ UNCHANGED <<life, caps, files, xconfig, starts>>

Next ==
  \E d \in Devices :
    \/ Preinit(d)
    \/ InitFails(d)
    \/ DeviceInit(d)
    \/ DeviceOn(d)
    \/ SerialFails(d)
    \/ MtdevFails(d)
    \/ DeviceOff(d)
    \/ DeviceClose(d)
    \/ Uninit(d)
    \/ \E r \in Requests : ChangeProperty(d, r)

Spec == Init /\ [][Next]_vars

-----------------------------------------------------------------------------
(* Properties.                                                             *)

(* What s shows of the configuration c.                                    *)
Agree(c, s) ==
  /\ \A p \in Properties \ {"thumb_size", "edge_sizes"} :
       Shown(c)[p] = [i \in 1..Length[p] |-> AsInt(s[p][i])]
  /\ c.thumb_size = AsInt(s["thumb_size"][1])

(* What clients read of a device is what it works with, after any changes  *)
(* on any devices.  Excepted are thumb_ratio, which mprops.c:191 sets to   *)
(* the size, and edge_sizes and tap, which no handler looks at.            *)
ClientsSeeConfig ==
  \A d \in Devices : life[d] \in Live => Agree(cfg[d], shown[d])

(* A device that is on reads a descriptor of its own, whatever was turned  *)
(* on, off or failed around it, and no descriptor stays open but these and *)
(* the ones a failing mtdev_open lost.                                     *)
DescriptorsOwned ==
  /\ \A d \in Devices : life[d] = "on" =>
       /\ fd[d] \in opened \ lost
       /\ \A e \in Devices : life[e] = "on" /\ fd[e] = fd[d] => e = d
  /\ opened = lost \cup {fd[d] : d \in {e \in Devices : life[e] = "on"}}

(* The list that xconfig_deinit will free is allocated, though it may be   *)
(* the list of another device, and that device may be closed first.        *)
FreesAreOwned == head \in heap \cup {NoList}

-----------------------------------------------------------------------------
(* How fingers are read, with the configuration of any device that is on.  *)
Configured == {d \in Devices : life[d] = "on"}

(* A finger that measures v on every axis, under a finger of width w.      *)
Finger(v, w) == [major |-> v, minor |-> v, width |-> w, pressure |-> v]

(* A finger that presses as hard as its axis can say is a touch, also on a *)
(* pad that cannot tell (101, mtstate.c:63), unless FingerHigh is 100.     *)
FullPressLands ==
  \A d \in Configured :
    LET c == cfg[d]
        full == [ major |-> c.touch_max, minor |-> c.touch_max,
                  width |-> c.touch_max, pressure |-> c.pressure_max ]
    IN  c.touch_down < 100 \/ c.touch_type = "none" =>
          \A ratio \in FingerTouchRatio(c, full) : IsTouch(c, ratio)

(* A finger that measures the least its axis can say is none, also if the  *)
(* quotient is one of 0 by 0.                                              *)
RestNeverLands ==
  \A d \in Configured :
    LET c == cfg[d]
        rest == [ major |-> IF c.touch_type = "scale" THEN 0 ELSE c.touch_min,
                  minor |-> 0, width |-> 0, pressure |-> c.pressure_min ]
    IN  c.touch_type # "none" =>
          \A ratio \in FingerTouchRatio(c, rest) : ~IsTouch(c, ratio)

(* Who presses harder is not less of a touch, however the quotients of the *)
(* two are rounded.                                                        *)
HarderStaysDown ==
  \A d \in Configured : \A v, w \in Measures :
    v < w =>
      \A r \in FingerTouchRatio(cfg[d], Finger(v, 10)),
         s \in FingerTouchRatio(cfg[d], Finger(w, 10)) :
        /\ IsTouch(cfg[d], r) => IsTouch(cfg[d], s)
        /\ IsRelease(cfg[d], s) => IsRelease(cfg[d], r)

(* The axes of a pad meet in its middle: a finger on the pad is never in   *)
(* the ignored edges, which have no width, if no axis is inverted.         *)
InsideIsNoEdge ==
  \A d \in Configured :
    cfg[d].axis_x_invert = 0 /\ cfg[d].axis_y_invert = 0 =>
      \A x \in caps[d]["x"].minimum..caps[d]["x"].maximum,
         y \in caps[d]["y"].minimum..caps[d]["y"].maximum :
        WhichEdge(cfg[d], Place(caps[d]["x"], 0, x),
                          Place(caps[d]["y"], 0, y)) = 5
===============================================================================
