------------------------------- MODULE Gestures -------------------------------
(***************************************************************************)
(* The gestures that touch_handler_init registers, and what the manager    *)
(* does with their state m that needs no callback: staging and queueing    *)
(* their actions, and choosing whom to accept.                             *)
(***************************************************************************)
EXTENDS ITrackAction, SequencesExt

ASSUME ButtonsAssumption == 0..2 \subseteq Buttons

(* The order is that of the manager's list.                                *)
Registered == <<"move", "tap1", "tap2", "tap3", "scroll", "drag">>
Gestures   == ToSet(Registered)
Taps       == {"tap1", "tap2", "tap3"}
Nobody     == "nobody"

Priority == [move |-> 1, tap1 |-> 32, tap2 |-> 33, tap3 |-> 34,
             scroll |-> 16, drag |-> 17]

RequiredTouches == [move |-> 1, tap1 |-> 1, tap2 |-> 2, tap3 |-> 3,
                    scroll |-> 2, drag |-> 3]

TapButton  == [tap1 |-> 0, tap2 |-> 2, tap3 |-> 1]
DragButton == 0

(* s_get_matched_gesture: those that need this many touches, in the order  *)
(* of the manager's list.                                                  *)
GesturesFor(touches) ==
  LET fits   == {i \in DOMAIN Registered :
                   RequiredTouches[Registered[i]] = touches}
      nth(n) == CHOOSE i \in fits : Cardinality({j \in fits : j <= i}) = n
  IN  [n \in 1..Cardinality(fits) |-> Registered[nth(n)]]

-----------------------------------------------------------------------------
(* struct guesture_manager_s with the gestures it manages.                 *)

MatchStates == {"NONE", "MATHING", "FAILED", "OK"}

(* What a gesture may post: no builder of guesture.c sets physical_button. *)
Postable == {action \in ActionType : action.physical = {}}
Entries  == [by : Gestures, action : Postable]

Managers ==
  [ state:       {"NONE", "WAITING", "UPDATING", "CHANGING"},
    maxTouches:  Nat,                          \* max_touches_number
    list:        Seq(Gestures),                \* current_guesture_item_list
    accepted:    Gestures \cup {Nobody},       \* accepted_item
    match:       [Gestures -> MatchStates],
    essential:   SUBSET Gestures,              \* status.is_essential
    post:        [Gestures -> {"null", "stage", "accept"}],  \* action_fn
    staged:      [Gestures -> Seq(Postable)],                \* action_itr
    out:         Seq(Entries),                 \* queued by the last call
    owners:      SUBSET Gestures,              \* who queued since the start
    alt:         {"scroll", Nobody},           \* alt_guesture
    physical:    SUBSET Buttons,               \* physical_button
    settle:      {"NONE", "SETTLE", "CLEAR"},  \* physical_button_settle
    loaded:      BOOLEAN,                      \* drag.loaded
    hold:        {"garbage", "zero", "open", "over"},        \* drag.hold_time
    readGarbage: BOOLEAN ]

-----------------------------------------------------------------------------
(* Staging and queueing: guesture_post_action calls the gesture's action_fn*)
(* (s_guesture_action_matching_fn or s_guesture_action_accept_fn), and     *)
(* frees the action when there is none.                                    *)

(* Mutant: the gesture of a queued action is not stored.                   *)
EntryUnset(g, action) == [by |-> Nobody, action |-> action]

Entry(g, action) == [by |-> g, action |-> action]

Post(m, g, action) ==
  CASE m.post[g] = "stage"  -> [m EXCEPT !.staged[g] = Append(@, action)]
    [] m.post[g] = "accept" ->
         [m EXCEPT !.out = Append(@, Entry(g, action)),
                   !.owners = @ \cup {g}]
    [] m.post[g] = "null"   -> m

NothingStaged == [g \in Gestures |-> <<>>]

Queued(m, g) ==
  [i \in 1..Len(m.staged[g]) |-> Entry(g, m.staged[g][i])]

(* Mutant: the others' actions are queued, too.                            *)
PostAll(m, g) ==
  [m EXCEPT !.out = @ \o Queued(m, g),
            !.owners = @ \cup {h \in Gestures : m.staged[h] # <<>>},
            !.staged = NothingStaged]

(* The end of s_accept_guesture: the accepted gesture's actions are queued,*)
(* the others freed.  The one list of staged actions (action_itr) is kept  *)
(* apart by gesture: it is only ever read here, in the order of one.       *)
PostStaged(m, g) ==
  [m EXCEPT !.out = @ \o Queued(m, g),
            !.owners = IF m.staged[g] = <<>> THEN @ ELSE @ \cup {g},
            !.staged = NothingStaged]

-----------------------------------------------------------------------------
Active(m, g) == m.match[g] \in {"MATHING", "OK"}

(* The loops over the current list look at current_guesture_count, which   *)
(* an acceptance sets to 0, before every round; GesturesFor gives lists of *)
(* two gestures at most.                                                   *)
ForEachCurrent(Do(_, _), m) ==
  LET Round(n, i) == IF i <= Len(n.list) THEN Do(n, n.list[i]) ELSE n
  IN  Round(Round(m, 1), 2)

(* drag's on_accpet_other, the one callback that is ever registered.       *)
AcceptCallbacks(m, g) ==
  IF ~m.loaded \/ g = "drag" \/ m.hold = "zero" THEN m
  ELSE LET n == IF m.hold = "open"
                  THEN Post(Post(m, g, ButtonUp(DragButton)),
                            g, ButtonUpCancel)
                  ELSE m
       IN  [n EXCEPT !.hold = "zero",
                     !.readGarbage = @ \/ m.hold = "garbage"]

(* guesture_manager_set_guesture_state_change looks for the last essential *)
(* gesture of the list, or else for the one that is OK if no other that    *)
(* may still match comes before it (s_get_matched_guesture).               *)
Essentials(m) == {i \in DOMAIN m.list : m.list[i] \in m.essential}

(* Mutant: gestures that may still match are not waited for.               *)
WinnersAtOnce(m) == {g \in ToSet(m.list) : m.match[g] = "OK"}

Winners(m) ==
  {g \in ToSet(m.list) :
     /\ m.match[g] = "OK"
     /\ \A h \in ToSet(m.list) : Active(m, h) => Priority[h] <= Priority[g]}

Winner(m) == CHOOSE g \in Winners(m) : TRUE
===============================================================================
