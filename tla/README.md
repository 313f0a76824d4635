# itrack: verification project

itrack is an X11 input driver for multi-touch trackpads. This directory holds
TLA+ modules that model its logic, TLC configurations that check them on small
instances, and proofs for every value of the constants.

Module names follow the source: `PostStage` is `src/src/post-stage.c`, and so on.
`PROJECT.json` maps every definition to the lines it stands for.

## The system

    kernel -> mtdev -> hwstate -> mtstate -> itrack_read -> touch handler /
    gesture manager -> gestures -> (actions) -> post stage -> X server
                            ^                      |  ^
                            +--- inertia on/off ---+  +- X timers

`read_input` runs when the device has events. It reads packets until none is
left; for each it extracts touches, calls the touch handler for each touch, and
drains the queue of actions the gestures posted. Everything happens in one
thread under the server's input lock: the only other things that run are the
two X timers (deferred button release, inertia) and the device being turned on
and off, all between calls of `read_input`.

| component | state | operations | what makes it correct |
|---|---|---|---|
| `hwstate.c` | slots: id, position, measures; current slot | events of a packet, SYN_REPORT | one slot per contact, packets may arrive in pieces |
| `mtstate.c` | table of touches with flags | `mtstate_extract` | touches are the fingers on the pad; new once, released once; hysteresis; displacement; edge |
| `itrack-main.c` | none of its own | `itrack_open/close/read` | counts, indices and order of the calls |
| `touch-handler.c`, `guesture_manager.c` | recognition state, running list, accepted gesture, staged actions, alternative gesture | touch start/update/end, set_match, accept | one gesture wins; the others are ended and silent; back to rest with the last finger |
| `tap.c`, `move.c`, `scroll.c`, `drag.c` | match state, is_essential, settle, hold_time | on_start, on_update, on_end | what is pressed gets released; a tap clicks |
| `post-stage.c` | queue, deferral, inertia, two timers, last button mask | own, read, two timer callbacks, init, deinit | no stuck button, no ghost press, inertia ends and travels its distance |
| `itrack.c` | descriptor of each device | preinit, DEVICE_INIT/ON/OFF/CLOSE, uninit, `read_input` | a device reads a descriptor of its own; the order of reading and draining |
| `mconfig.c`, `mprops.c` | configuration, X properties | options, caps, set_property | flags and percentages stay in range; a property shows what the device works with |
| `xconfig.c`, `itrack-config.c` | one list for all devices | init, deinit | nothing is freed twice |
| `capabilities.c`, ratios of `mtstate.c` | ranges of the axes | read, translate, compare | rounding never turns a finger into none or moves it off the pad |
| `button-axle.c`, `debug.c`, `pinch.c`, `test/` | | register, log | see "Not modelled" |

The hard behaviours are: the gesture manager being re-entered by the gestures it
ends; timers that race packets; actions of several sources in one queue; and
state that outlives what it belongs to (a recognition, an opening of the device,
a touch). `PROJECT.json` lists them one by one as hazards, each at its line.

## The modules

| module | models | instance |
|---|---|---|
| `ITrackAction` | `struct itrack_action_s` and the functions that build one | |
| `PostStage` | the post stage | `MCPostStage` |
| `PostStage_proofs` | theorems about it | |
| `Gestures` | what the gestures are: priorities, touches, staging, the lists of the manager, the actions they can post | |
| `GestureMatch` | `set_match`, acceptance and ending, for one level of nesting | |
| `GestureManager` | touch handler, gesture manager and the six gestures | `MCGestureManager` |
| `Gestures_proofs`, `GestureMatch_proofs`, `GestureManager_proofs` | theorems about it | |
| `MtState` | slots and touches | `MCMtState` |
| `MtState_proofs` | theorems about it | |
| `TouchLifecycle` | abstract: the life of a contact, which `MtState` implements | |
| `ITrackRead` | the dispatch loops, step by step, on top of `MtState` | `MCITrackRead` |
| `TouchCalls` | abstract: the order of the calls of a packet, which `ITrackRead` implements | |
| `ITrackRead_proofs` | theorems about it | |
| `ITrack` | the whole driver: `GestureManager` and `PostStage` composed in the order of `TouchCalls` and `read_input` | `MCITrack` |
| `ITrack_proofs` | theorems about it | |
| `MConfig` | configuration, capabilities and properties, as values | |
| `Readings` | how a finger is read under a configuration: ratios, thumbs, palms, place, edge | |
| `Device` | the life of the devices with their configuration, descriptors and list | `MCDevice` |
| `Device_proofs` | theorems about it | |

Some modules hold definitions marked `Mutant`. They are not part of the model:
each is a variant of the definition below it with a plausible mistake, and
`PROJECT.json` says which property that mistake breaks.

**PostStage.** One action per thing that happens: `Packet` (the packet's first
action, with the physical mask), `Own` (a gesture's action), `Read` (one round of
`itrack_post_read`, composed of a scroll part and a deferral part, in the order
of the code), `DeferFires` and `SlideTick` (the timer callbacks), `StrayTick` (an
inertia timer that was armed before a reopening and that the handler no longer
knows), `Open` and `Close`. `phase` is where `read_input` is; timers fire in
`idle` only. `pressed` is what X holds down and `slid` what it was told to
scroll. The inertia keeps its numbers; distances are scaled by `2000 * T` so that
they are integers (`Travel`). X timers have no deadline in the model: an armed
timer may fire at any moment between packets, which covers every timeout.

**GestureManager.** The state `gm` is the manager's structure; a handler is one
step, as in the code, computed by operators named after the functions. The
functions call each other back (`set_match` -> state change -> accept -> end ->
`on_end` -> `set_match`). `GestureMatch` states them with the nested `set_match`
as a constant operator, `Ask`, and `GestureManager` instantiates it three times:
`Manager` asks `First`, `First` asks `Second`, and whom `Second` asks is not heard.
The nesting ends because a list has one tap, only taps ask for a match
when they end, and one that asked is no longer matching. Times and distances are
the outcomes of the comparisons the code makes (`Samples`); `elapsed`, `far` and
so on are chosen freely at every update, which includes all combinations the
clock can produce.

**MtState.** Event by event the slots are written; `Extract` is the packet's end.
Indices are assigned as `firstbit` does: `LowestFree` says that each landing
finger, in the order of slots, gets the lowest free bit. What a finger measures
is a reading: the contact compared with `touch_down`/`touch_up`, and whether it
is a thumb or palm. The kernel's contract is an assumption of the model: a new
tracking id is not in use. `MT_INVALID` is never set by the code and left out.

**ITrackRead.** `itrack_read` as a loop in steps: `Read` extracts the packet, `Start`
and `Release` are the calls of the first loop, `SecondLoop` begins the second and
`Move` is a call of it. `pending` is what the loop has yet to visit, `used` the mask
`simulated_used` from which the counts and indices of the calls are made, `call` the
last call. `TouchCalls` says in which order calls come and which indices they name,
and `KeepsPromise` that the dispatch refines it.

**ITrack.** Extends `GestureManager` and instantiates `PostStage` (`P`) and `TouchCalls`
(`Dispatch`): every action is one of theirs, or one of each. The handler's calls
(`StartCall`, `ReleaseCall`, `MoveCall`) come in the order of `TouchCalls`, which the
dispatch has been shown to keep. A handler of the manager leaves what it posts in
`gm.out`; each `Own` hands one action of it to the post stage, and nothing else happens
before it is empty. `Offers` of the post stage is `Postable`, what the gestures can
really post. When the post stage's inertia begins or ends, in `Read` or a tick, `Heard`
calls the touch handler as the registered callback does. After `Close` the gestures are
freed while the inertia timer may still be armed: the callback of its last tick
(`TickHeard`) then either finds its gesture by luck or does not (`NotFound`), which
fails an assertion and ends the server: `aborted`, after which no action is enabled
(`Up`). `restarted` keeps apart the debounce times that began in this packet and cannot
be over in it. `owed` is a history variable for `TapsClick`.

**MConfig, Readings, Device.** `MConfig` and `Readings` are operators on values; the
word size is the constant `IntMax`. A conversion of `uint32_t` to `int` is `AsInt`. A
quotient of doubles cut to an int is the set of values it may have (`Percentage`):
exact, one nearer to 0 where the rounding of the quotient shows, anything an
architecture makes of infinity or NaN. `MtState` takes the results (a contact between
two thresholds, thumb, palm, place) as its readings. `Device` has one action per call
of the X server and one, `ChangeProperty`, for a client's change, which the server lets
`mprops_set_property` check and then apply. Opening a device may fail, at
DEVICE_INIT (`InitFails`) or DEVICE_ON (`SerialFails`), and so may `mtdev_open`
(`MtdevFails`). `head` and `heap` are the list of
`xconfig.c`: one list stands for the properties and items a device adds.

## The runs

| run | what it shows | bounds |
|---|---|---|
| `clicks` | no stuck button, no inertia under a scrolling finger; releases arrive, inertia ends | 3 actions in the queue, 2 openings |
| `timers` | bookkeeping of both timers, distance of the inertia, X holds no physical button the pad released | 3 actions, every operation, overlapping clicks, 3 openings, reopening while sliding |
| `gestures` | arbitration | 4 fingers, 3 staged actions before a move |
| `touch_places` | displacement, edge | 2 slots, 3 contacts, 2 positions |
| `read` | touches are fingers; hysteresis; life of a contact; the calls of the dispatch keep the promise of `TouchCalls` | 2 slots, 3 contacts, 3 readings |
| `itrack` | taps click; no button stays down; a drag that is taken up again goes on; the alternative gesture is the inertia; everything comes to rest | 3 fingers, 6 actions in the queue (never that many are waiting), 2 openings (also while sliding), moves that scroll fast in one direction or in both or not at all |
| `device` | clients see the configuration; descriptors and lists belong to whom they should, also after openings that fail; fingers at the limits of pads of every touch type | 2 devices, 5 kinds of pad, 2 sets of options beyond the limits, 3 preinits, 1 change of 13, 2 descriptors, ints of 10 bits |

Why the bounds are enough. The post stage's parts interact through at most two
queued actions (a deferral and what replaces it), and 3 in a packet put something
before and after them; two openings reach every state a reopening can leave, the
third closes it again. Inertia takes three ticks, the last cut short. The
recognised gestures need 1 to 3 fingers, a fourth gives a number for which none
exists. Two slots with three contacts give replacement of a contact within a
packet, release by pressure and by slot, and up to three touches at a time. In
`itrack` three fingers make every registered gesture, among them a drag that is taken
up again and a tap inside its hold_time; a fourth finger only ends what runs, which
`gestures` covers. Two devices share the list of `xconfig.c` in every order, and a
third start reuses what the first left.

Environment of the runs, stated as constants: `SpacedClicks` (no click while a
release is pending) and `QuietClose` (not turned off while sliding) hold in
`clicks` and not in `timers`; `itrack` and `closed` are without `QuietClose`, too. `PromptTimers` holds in `itrack`: the release of a tap (20 ms) is made before
a finger lands or leaves or three move (`TapPending`; a drag's release that waits for
its hold_time, or that the queue is about to cancel, is none), and that of a drag
before its hold_time is over. A finger cannot tap in less than that, but several packets in the kernel's
buffer may be read at once. The runs `overlap`, `reopen` and `closed` show what happens
without these. No run but these assumes anything about times. Fairness: weak for `Own` and
strong for `Read`, since `read_input` drains the queue in a loop (a round may be
interrupted by nothing, but in the model its guard waits for moves that a packet may
leave out); strong for the timers, since packets keep disabling them and the server
nevertheless runs a timer whose time has come before it waits for input again.

## Disagreements found

Five runs expect a violation; each counterexample is a few steps long, that of `closed`
a packet with a scroll, its ticks and the closing of the device.

- `overlap`: in the whole driver, a tap while another's release is pending overwrites
  `defer_arg.button` and only then forces the old callback: the old button stays
  down (post-stage.c:234-237).
- `physical_held`: every action of a gesture carries a zero physical mask, so the
  held physical button is released and pressed again (post-stage.c:196-208).
- `reopen`: `itrack_post_init` forgets an armed inertia timer (post-stage.c:103).
- `stale_essential`: after a physical click the next instant tap is lost, for
  `is_essential` is not reset (guesture_manager.c:26-37).
- `closed`: the device is turned off during an inertia; `itrack_post_deinit` leaves the
  timer armed and `touch_handler_deinit` frees the gestures, so the callback of the last
  tick may not find its gesture and `assert(item)` fails (post-stage.c:108-118,
  touch-handler.c:64-72 and 103).

While the physical button is pressed no branch of move.c:24-46 posts a movement, whatever
the guard of line 43 says: the pointer stands still. A hazard, without a run.

With thumbs and palms the dispatch keeps neither `DownIsLive` nor `CallsInOrder`:
a finger that becomes a palm is never released to the touch handler, one that
ceases to be a palm is released without having been started, and a resting palm
counts as a finger. No line of the repository says what should hold, so this is a
hazard and no finding.

In the configuration, `thumb_ratio` is set from the size (mprops.c:191), which
`ClientsSeeConfig` leaves out. The list of `xconfig.c` is never freed twice
(`FreesAreOwned`), but the list of the device before is lost when a second one is
initialised; a failing `mtdev_open` loses its descriptor (`lost`). Both are hazards.

## The proofs

Every theorem is for all values of the constants under the named assumptions of its
module. Each module's section says which invariant makes the properties inductive.

**PostStage_proofs**, for all offers, pads, numbers and bounds:

    Spec => []TypeOK, []DeferArmed, []InertiaTracked, []InertiaTravel,
            []NoGhostPhysical
    QuietClose                => (Spec => []HoldingStopsInertia)
    SpacedClicks, TapsOnly    => (Spec => []NoStuckClick)

(`InertiaTracked` is `SlidingHasTimer`, `AltFollowsSliding` and `RestWhileSliding`.)
The invariant `Inv` is the conjunction of these properties with what makes them
inductive, `QueueInv`: the queue is empty exactly in `idle`, a closed device has no
packet, and no queued action presses a physical button the pad does not report.
Without the last, a ghost press could come out of the queue after the pad was
released. `NoGhostPhysical` is about what X holds, of the buttons no gesture presses
(`PadOnly`; of the others a tap or drag may be the reason), and rests on `PhysicalInv`:
X holds of them only what `last_button_status` has, after a packet that is only what
the pad reports, and no queued action presses one. The step is split by the part of the state, and under it by action.
The last two properties hold in an environment only, and the theorems name it as a
hypothesis: the runs `reopen` and `overlap` show that neither can be dropped. `QuietInv`
adds that a closed device and a stray timer have nothing left to scroll, `ClickInv`
counts the clicks: at most one of queue, timer and pressed buttons holds one.

**Gestures_proofs, GestureMatch_proofs, GestureManager_proofs**, for every number of
fingers, pad buttons and staging bound:

    Spec => []TypeOK, []OneOwner, []AcceptedRunsAlone, []QuietOutsideUpdating,
            []DragWillRelease, []HoldIsSet
    Spec => NoClickWhileMoving
    Spec => (lifting the last finger before a recognition clicks, unless move
             is essential)
    NoPadButtons => (Spec => InstantTapClicks)

The invariant `IInv` says of the manager, between calls, that it is sound (`Sane`: what
the list names and what has matched) and in a phase: while `UPDATING` either gestures
are still asking for the match and none is accepted (`Recognising`), or one is accepted
and the others have ended (`Owned`); in every other state no gesture runs, what it
left staged is harmless to a later acceptance, and what is queued has one owner
(`Quiet`). Why it is needed: `OneOwner` alone does not survive `set_match`,
which ends the losers one by one while they call back. So the proof follows the calls:
a gesture's ending may ask for a match itself, at most twice (`Second` under `First`
under `Manager`), and the lemmas of `GestureMatch_proofs` are proved once for any such
`Ask` that keeps the predicates, then used for each level (`FirstP`, `ManagerP`). The
two loops over the list are at most two rounds each, for a list never has more than a
drag or two others, so the folds are unrolled and no induction is needed. `Ready` and
`DragHeld` say when a drag may press: one that waits has staged its press and nothing
else of buttons, and one that owns the fingers has pressed. With them each call states
what it queues (`Ends` for a finger that lands or leaves: a click, the release of the
drag, its cancellation, or nothing; `Talks` for a movement), on which the theorems of
the driver about buttons rest.

The last two say not what may be queued but what must: `ClicksOf` follows the winning
tap from its own `set_match` through the acceptance to what is posted, behind what
quells a former drag. A tap can lose only to a move that is essential
(`TapsUnlessEssential`, for every pad). A move becomes that when a button is pressed, so
on a pad without physical buttons (`NoPadButtons`) none ever is: `Unpressed` is kept by
every call at every level, and each tap clicks. With a button `InstantTapClicks` is
false, as `stale_essential` shows.

**MtState_proofs**, for every number of slots, ids, edge, readings and pair of
thresholds:

    Spec => []TypeOK, []OneTouchPerContact, []TotalIsDisplacement,
            []EdgeFromTheStart, []PacketFits,
            PacketAgrees, Hysteresis, Lifecycle

`Inv` adds `OneSlotPerContact` (no id is in two slots, which the kernel's contract in
`Track` keeps and without which two slots would land as two touches of one contact)
and `Sound`, which says of each touch that it has been where it is; its edge flag needs
that when a touch is released in place. `ExtractTable` removes the choice of indices
once, `Table` says what a packet does to each contact, and the three temporal
properties follow from it. `Lifecycle` is the refinement of `TouchLifecycle`: every
packet takes each contact one stage on, reopening resets them, the rest stutters. It
assumes nothing of the thresholds: `touch_up` may even be above `touch_down`.

`PacketFits` is about the table of touches and the model at once: in every reachable
state there is exactly one way to give indices to the fingers that land, so `Extract` is
never stuck, its choice of `place` is the computation of `firstbit`, and the branch that
ignores a touch (mtstate.c:195) is dead as long as the table has twice as many entries as
the pad has slots. `FewKept` bounds the touches that were left live by the slots; that
the loop over the slots finds a bit for each is an induction, made with the least slot
that finds none, as the natural numbers are well-founded (`Least`).

**ITrackRead_proofs**, when no reading is a thumb or palm (`FingersOnly`; what happens
with them is a hazard, below):

    ReadSpec => []ReadTypeOK, []DownIsLive, CallsInOrder, KeepsPromise

`ReadInv` is `Inv` of `MtState_proofs` with `FingersInv` (every touch is a finger) and
`LoopInv`: which touches each loop has yet to visit, and that the mask holds those the
touch handler knows. The refinement is then counting: the index of a move is the number
of touches below it (`Rank`), and must leave room for those still `pending`.

**ITrack_proofs**, for the composition:

    DriverSpec => P!Spec
    DriverSpec => []DriverTypeOK, []AltIsInertia
    QuietClose => (DriverSpec => []ItemFound)
    DriverSpec => [](what GestureManager_proofs proves)
    DriverSpec => [](what PostStage_proofs proves without hypotheses, with
                     last_button_status in the place of what X holds)
    PromptTimers => (DriverSpec => []NoStuckButton)
    NoPadDrags   => (DriverSpec => DragGoesOn)
    PromptTimers, NoPadButtons => (DriverSpec => []TapsClick)

`DriverInv` is `IInv` with `CallsInv` (outside of the calls nothing is owed: no call,
no action in `gm.out`) and `HeardInv` (the handler's alternative gesture is the post
stage's, unless an assertion failed). From it every step is one of the manager or takes
one of its actions, and, as `gm.out` holds only `Postable` actions, a step of the post
stage or a stutter of it: the driver implements `PostStage`, and what is proved of either
part holds of the whole. `ItemFound` needs that no inertia outlives the device
(`QuietClose`), as `closed` shows.

`NoStuckButton` needs to know what is under way: the queue of the post stage followed by
`gm.out`, the `Script`. `StuckInv` says that the script is `Orderly`: it clicks at most
once, never while a drag waits for its hold_time; a pending release is cancelled before
that click, a cancellation comes after the release of what is pressed, and it presses
only for a drag that is held. And every button that is down is on the pad, scheduled,
the drag's, or released in the script (`AllOwed`). Both parts are needed: without the
order, a click could overwrite `defer_arg.button` before its release was made, which is
what `overlap` shows to happen when timers are late. `PromptTimers` enters only there;
`AskedOnce` makes it suffice, for of the calls of one packet one at most asks for buttons.

`DragGoesOn` needs the script again, but no promptness: whatever it holds that may
release the button is followed by a press (`PressedAgain`), so with no press queued
nothing lets go of it. `NoPadDrags` (no pad reports the drag's button by itself) is
needed, since letting go of that physical button releases it under a drag too
(post-stage.c:196-208).

`TapsClick` joins the two sides: a tap that a packet ends is queued as a click (what
`GestureManager_proofs` says of lifting), and a click in the script is a press X sees.
`TapInv` says that every owed button is `Due`: the first action of the script that presses
anything presses it, and one before that lifts it if it is down. The second half is the
delicate one. The button of a tap may be down when the fingers leave: it is then that of
a drag whose release waits for its hold_time, and `AllOwed`, `AskedOnce` and
`PromptTimers` leave no other case; the acceptance of the tap lifts it and cancels the
release before it clicks (`Quelled`). On a pad with buttons a tap need not click:
move may be essential.

**Device_proofs**, for every number of devices and descriptors, all options, pads,
requests and word sizes:

    Spec => []TypeOK, []ClientsSeeConfig, []DescriptorsOwned, []FreesAreOwned,
            []InsideIsNoEdge, []RestNeverLands
    RangesNotEmpty => (Spec => []FullPressLands, []HarderStaysDown)

Of the assumptions only `KernelsAssumption` says more than types: the kernel reports no
axis whose minimum is above its maximum. `TypeOK` keeps flags and percentages in their
ranges; the thumb and palm sizes and the thumb ratio are ints and no more, for a client
may set them beyond 0 to 100 (mprops.c:186, a hazard). The descriptors and lists are inductive as
they stand. The others rest on `KnowsPad`: the configuration knows the size of the pad
it was initialised with, its ranges are in order, and between preinit and DEVICE_INIT
its sizes are percentages, so that showing them as words loses nothing.
`InsideIsNoEdge` then is arithmetic: the shift of `get_cap_xmid` and the division of
`touch_which_edge` round alike (`MiddleOfAxis`), and `RestNeverLands` that a quotient of
nothing is at most 0 (`NothingOfRange`). A pad whose range is empty makes the quotient
a division by zero, whose result the build chooses: the last two theorems are about
pads without one.

**Not proved, but model-checked.** The liveness properties `SlidingEnds`, `ClickEnds`
and `EndsAtRest`: they rest on fairness and so on ENABLED, which is out of the prover's
reach. Every other property of the runs that pass is a theorem.
What the runs that expect a violation show needs no proof.

## Not modelled

- `button-axle.c` and the class registration of `device_init`: calls into the X server
  that keep no state of the driver.
- `pinch.c`: never added to the manager (touch-handler.c:60). `test/`: test programs.
- `debug.c`, logging, the numbering of log lines.
- Pointer positions and distances of scrolls, the moving average of `scroll.c`, the
  values of the times: the models take the outcomes of the comparisons.
- The handler of `xconfig.c`: not registered (xconfig.c:117). Were it, its items would
  point into the stack of `device_init` (itrack.c:132), which is gone by then, and
  `xconfig_setfn_int_clamp` would copy the value it was given, not the clamped one
  (xconfig.c:257).
- The memory `touch_handler_deinit` frees, but for what the callback of an inertia may
  make of it (`NotFound`). The pointer to the drag gesture is static (touch-handler.c:31):
  with several devices, closing one unregisters and ends the drag of the one that was
  opened last. `ITrack` has one device; this is a hazard.
- `uninit` while an inertia timer is still armed: the tick would run on the freed
  structure of the device (itrack.c:306). A hazard.
- Failing allocations and ioctls other than those of `Device`; SYN_DROPPED.
- Palms and thumbs in `ITrack`: the dispatch makes no calls for them; what it does when
  a finger becomes one is a hazard above and is checked in no run.

## Plan

1. Done: all modules above; every invariant and action property of the runs that pass
   as a theorem, among them `NoStuckButton`, `DragGoesOn` and `TapsClick` of the whole
   driver; the driver as a refinement of its post stage, the touches of the life of a
   contact, the dispatch of its promise.
2. What X sees of a button (pressed and released in turn, by whom) as an abstract
   specification that `ITrack` implements; its properties are proved one by one now.
3. Thumbs and palms in the dispatch, once the repository says what should hold.
