---------------------------- MODULE Gestures_proofs ----------------------------
(***************************************************************************)
(* What the operators of Gestures do to the state of the manager, and the  *)
(* phases of a recognition in which the proofs about the manager divide    *)
(* its states.                                                             *)
(***************************************************************************)
EXTENDS Gestures, FiniteSetTheorems, SequenceTheorems, TLAPS

(* Every list of gestures there is: those of one, two and three touches,   *)
(* the empty one of more, and the alternative gesture.  Each has at most   *)
(* one tap, and at most one gesture that is none.                          *)
Lists == {<<>>, <<"move", "tap1">>, <<"tap2", "scroll">>,
          <<"tap3", "drag">>, <<"scroll">>}

(* An action that presses, moves and scrolls nothing: an ending.           *)
Harmless(action) == action.down = {} /\ ~action.moved /\ ~action.holding

HarmlessOf(m, g) == \A i \in 1..Len(m.staged[g]) : Harmless(m.staged[g][i])

(* What an action does to the buttons: nothing, or one of what drag and the*)
(* taps ask for.                                                           *)
Plain(a) == a.down = {} /\ a.up = {} /\ a.defer = "NONE"

Pressing(a)   == a.down = {DragButton} /\ a.up = {} /\ a.defer = "NONE"
Lifting(a)    == a.down = {} /\ a.up = {DragButton} /\ a.defer = "NONE"
Cancelling(a) == a.down = {} /\ a.up = {} /\ a.defer = "CANCEL"
Releasing(a)  == /\ a.down = {} /\ a.up = {} /\ a.defer = "NEW"
                 /\ a.deferButton = {DragButton}
Clicking(a)   == /\ a.up = {} /\ a.defer = "NEW"
                 /\ \E t \in Taps : a.down = {TapButton[t]}
                 /\ a.deferButton = a.down

PlainOf(m, g) == \A i \in 1..Len(m.staged[g]) : Plain(m.staged[g][i])

(* Only a drag has staged anything about buttons.                          *)
Tame(m) == \A g \in Gestures \ {"drag"} : PlainOf(m, g)

Actions(q) == [i \in 1..Len(q) |-> q[i].action]

(* Of the actions s at most the release of a former drag is about buttons, *)
(* if its hold_time is open: the button is let go and the timer cancelled. *)
Quelled(s, open) ==
  \A i \in 1..Len(s) :
    \/ Plain(s[i])
    \/ open /\ Lifting(s[i])
    \/ open /\ Cancelling(s[i]) /\ i > 1 /\ Lifting(s[i - 1])

(* Between any two steps of a handler: drag's hold_time is garbage only    *)
(* while the first drag has not ended, drag has registered its callback    *)
(* when it is open, and what was queued has an owner.                      *)
Sane(m) ==
  /\ m \in Managers
  /\ m.essential \subseteq {"move"}
  /\ ~m.readGarbage
  /\ m.loaded /\ m.hold = "garbage" => Active(m, "drag")
  /\ m.hold = "open" \/ Active(m, "drag") => m.loaded
  /\ \A i \in 1..Len(m.out) : m.out[i].by \in m.owners

(* The gestures of a list run, and none is accepted.                       *)
Competing(m) ==
  /\ m.accepted = Nobody
  /\ m.list \in Lists
  /\ m.owners = {}
  /\ Tame(m)
  /\ \A g \in Gestures :
       Active(m, g) => g \in ToSet(m.list) /\ m.post[g] = "stage"

(* A gesture that matches is still waiting for the tap of its list.        *)
Undecided(m) ==
  \A g \in Gestures :
    IF m.match[g] = "OK"
      THEN \E t \in Taps \cap ToSet(m.list) : m.match[t] = "MATHING"
      ELSE HarmlessOf(m, g)

Recognising(m) == Competing(m) /\ Undecided(m)

(* g alone may run, and all that is queued is its own.                     *)
Won(m, g) ==
  /\ m.accepted = g
  /\ m.list = <<>>
  /\ m.owners \subseteq {g}
  /\ m.staged = NothingStaged
  /\ \A h \in Gestures : Active(m, h) => h = g /\ m.post[g] = "accept"

(* A tap wins only when its fingers leave, which ends it, and a drag only  *)
(* by matching.                                                            *)
Owned(m) ==
  /\ m.accepted \in Gestures \ Taps
  /\ Won(m, m.accepted)
  /\ m.accepted = "drag" => m.match["drag"] = "OK"

(* Nothing runs.                                                           *)
Quiet(m) ==
  /\ \A g \in Gestures : ~Active(m, g) /\ HarmlessOf(m, g)
  /\ Tame(m)
  /\ \E g \in Gestures : m.owners \subseteq {g}

-----------------------------------------------------------------------------
(* What ending, telling and accepting do to the phase.                     *)

(* The hold_time is open, or will be when the drag that runs is ended.     *)
Opening(m) == m.hold = "open" \/ Active(m, "drag")

(* A tap that matches makes its recognition end with w the winner: itself, *)
(* or move if that is essential; then the tap has been ended.              *)
TapWins(m, t, n) ==
  /\ Sane(n)
  /\ n.state = m.state
  /\ n.maxTouches = m.maxTouches
  /\ n.alt = m.alt
  /\ \A h \in Gestures : Active(n, h) => Active(m, h)
  /\ n.hold # "open"
  /\ Quelled(Actions(n.out), Opening(m))
  /\ \E w \in {t, "move"} :
       /\ Won(n, w)
       /\ w = t /\ m.hold = "open" =>
            \E i \in 1..Len(n.out) : Cancelling(n.out[i].action)
       /\ n.post[w] = "accept"
       /\ w # t => n.post[t] = "null"
       /\ w = "move" <=> "move" \in m.essential \cap ToSet(m.list)

Asking(m, t) ==
  /\ Sane(m)
  /\ Competing(m)
  /\ t \in Taps \cap ToSet(m.list)
  /\ m.match[t] = "MATHING"

(* What ending g changes, when nobody is asked for a match.                *)
EndsAlone(m, g, n) ==
  /\ Sane(n)
  /\ n.state = m.state
  /\ n.maxTouches = m.maxTouches
  /\ n.alt = m.alt
  /\ n.list = m.list
  /\ n.accepted = m.accepted
  /\ n.essential = m.essential
  /\ n.match = [m.match EXCEPT ![g] = IF Active(m, g) THEN "NONE" ELSE @]
  /\ \A h \in Gestures \ {g} : n.post[h] = m.post[h]
  /\ Active(m, g) => n.post[g] = "null"
  /\ n.owners \subseteq m.owners \cup {g}
  /\ m.post[g] = "stage" => n.owners = m.owners
  /\ m.post[g] = "accept" => n.staged = m.staged
  /\ g \notin Taps =>
       \A h \in Gestures : HarmlessOf(m, h) => HarmlessOf(n, h)
  /\ g \notin Taps => (Tame(m) => Tame(n))
  /\ \A h \in Gestures \ {g} : n.staged[h] = m.staged[h]
  /\ n.hold = IF g = "drag" /\ Active(m, g) THEN "open" ELSE m.hold
  /\ m.post[g] = "stage" => n.out = m.out
  /\ m.post[g] = "accept" /\ g \notin Taps \cup {"drag"} =>
       n.out = m.out \/ \E e : Plain(e.action) /\ n.out = Append(m.out, e)

(* Only taps fail, and only move is essential.                             *)
Tells(g, how) ==
  /\ how \in {"NO", "OK", "ESSENTIAL"}
  /\ how = "NO" => g \in Taps
  /\ how = "ESSENTIAL" => g = "move"

(* A tap only fails while its finger is down: it matches when it ends.     *)
TellsDown(g, how) == Tells(g, how) /\ (g \in Taps => how = "NO")

(* An acceptance queues what drag has staged, or quells a former drag.     *)
Hushes(m, g, n) ==
  IF g = "drag"
    THEN Actions(n.out) = m.staged["drag"] /\ n.hold = m.hold
    ELSE Quelled(Actions(n.out), m.hold = "open") /\ n.hold # "open"

(* The gesture that told is waiting for the tap, or it has won.            *)
Decided(m, g, n) ==
  /\ Sane(n)
  /\ n.state = m.state
  /\ n.maxTouches = m.maxTouches
  /\ n.alt = m.alt
  /\ \/ /\ Recognising(n)
        /\ n.list = m.list
        /\ g \notin Taps => n.match[g] = "OK" /\ n.post[g] = "stage"
        /\ \A h \in Gestures \ {g} : n.match[h] = m.match[h]
        /\ n.staged = m.staged
        /\ n.hold = m.hold
     \/ /\ Owned(n)
        /\ g \notin Taps => n.accepted = g /\ n.post[g] = "accept"
        /\ n.accepted \in ToSet(m.list)
        /\ Hushes(m, n.accepted, n)
        /\ n.accepted = "drag" => g = "drag" \/ m.match["drag"] = "OK"

(* The tap t clicks its button, behind whatever quells a former drag.      *)
ClicksOf(m, n, t) ==
  /\ n.hold # "open"
  /\ \E q \in Seq(Entries), e \in Entries :
       /\ n.out = Append(q, e)
       /\ e.by = t
       /\ e.action.down = {TapButton[t]}
       /\ Clicking(e.action)
       /\ Quelled(Actions(q), TRUE)
       /\ m.hold = "open" => \E i \in 1..Len(q) : Cancelling(q[i].action)

Clicks(m, n) == \E t \in Taps : ClicksOf(m, n, t)

(* Nothing is left running, and what is queued is one gesture's, but not   *)
(* drag's, which presses only once it is accepted.                         *)
Over(m, n) ==
  /\ Sane(n)
  /\ n.state = m.state
  /\ n.maxTouches = m.maxTouches
  /\ n.alt = m.alt
  /\ \A g \in Gestures : ~Active(n, g) /\ HarmlessOf(n, g)
  /\ \E g \in Gestures \ {"drag"} : n.owners \subseteq {g}
  /\ Tame(n)
  /\ Quelled(Actions(n.out), TRUE) \/ Clicks(m, n)

-----------------------------------------------------------------------------
(* The registered gestures and their lists.                                *)

LEMMA GestureSet ==
  /\ Gestures = {"move", "tap1", "tap2", "tap3", "scroll", "drag"}
  /\ Taps \subseteq Gestures
  /\ Nobody \notin Gestures
<1>1. Gestures = {"move", "tap1", "tap2", "tap3", "scroll", "drag"}
  <2>1. DOMAIN Registered = 1..6
    BY DEF Registered
  <2>2. /\ Registered[1] = "move" /\ Registered[2] = "tap1"
        /\ Registered[3] = "tap2" /\ Registered[4] = "tap3"
        /\ Registered[5] = "scroll" /\ Registered[6] = "drag"
    BY DEF Registered
  <2> QED
    BY <2>1, <2>2 DEF Gestures, ToSet
<1> QED
  BY <1>1 DEF Taps, Nobody

(* What the loops over a list need to know of it.                          *)
LEMMA ListFacts ==
  /\ Lists \subseteq Seq(Gestures)
  /\ Len(<<>>) = 0
  /\ Len(<<"move", "tap1">>) = 2
  /\ Len(<<"tap2", "scroll">>) = 2
  /\ Len(<<"tap3", "drag">>) = 2
  /\ Len(<<"scroll">>) = 1
  /\ ToSet(<<>>) = {}
  /\ ToSet(<<"move", "tap1">>) = {"move", "tap1"}
  /\ ToSet(<<"tap2", "scroll">>) = {"tap2", "scroll"}
  /\ ToSet(<<"tap3", "drag">>) = {"tap3", "drag"}
  /\ ToSet(<<"scroll">>) = {"scroll"}
<1>1. Lists \subseteq Seq(Gestures)
  BY GestureSet DEF Lists
<1>2. ToSet(<<>>) = {}
  BY DEF ToSet
<1>3. ASSUME NEW a, NEW b PROVE ToSet(<<a, b>>) = {a, b}
  BY DEF ToSet
<1>4. ASSUME NEW a PROVE ToSet(<<a>>) = {a}
  BY DEF ToSet
<1> QED
  BY <1>1, <1>2, <1>3, <1>4

LEMMA PairHasTwo ==
  ASSUME NEW a \in Int, NEW b \in Int, a < b
  PROVE  Cardinality({a, b}) = 2
<1>1. IsFiniteSet({a}) /\ Cardinality({a}) = 1
  BY FS_Singleton
<1>2. b \notin {a}
  OBVIOUS
<1>3. Cardinality({a} \cup {b}) = Cardinality({a}) + 1
  BY <1>1, <1>2, FS_AddElement
<1>4. {a} \cup {b} = {a, b}
  OBVIOUS
<1> QED BY <1>1, <1>3, <1>4

(* s_get_matched_gesture finds one of the known lists, for every count.    *)
LEMMA GesturesForLists ==
  ASSUME NEW touches
  PROVE  /\ GesturesFor(touches) \in Lists
         /\ "drag" \in ToSet(GesturesFor(touches)) =>
              touches = RequiredTouches["drag"]
         /\ \A t \in Taps :
              touches = RequiredTouches[t] => t \in ToSet(GesturesFor(touches))
<1> DEFINE fits   == {i \in DOMAIN Registered :
                        RequiredTouches[Registered[i]] = touches}
           below(i) == {j \in fits : j <= i}
           nth(n) == CHOOSE i \in fits : Cardinality(below(i)) = n
<1>1. /\ DOMAIN Registered = 1..6
      /\ Registered[1] = "move" /\ Registered[2] = "tap1"
      /\ Registered[3] = "tap2" /\ Registered[4] = "tap3"
      /\ Registered[5] = "scroll" /\ Registered[6] = "drag"
  BY DEF Registered
<1>2. /\ RequiredTouches["move"] = 1 /\ RequiredTouches["tap1"] = 1
      /\ RequiredTouches["tap2"] = 2 /\ RequiredTouches["tap3"] = 3
      /\ RequiredTouches["scroll"] = 2 /\ RequiredTouches["drag"] = 3
  BY DEF RequiredTouches
<1>3. GesturesFor(touches) = [n \in 1..Cardinality(fits) |-> Registered[nth(n)]]
  BY DEF GesturesFor
<1>4. ASSUME NEW a \in Int, NEW b \in Int, a < b, fits = {a, b}
      PROVE  GesturesFor(touches) = <<Registered[a], Registered[b]>>
  <2>1. Cardinality(fits) = 2
    <3>1. Cardinality({a, b}) = 2
      BY <1>4, PairHasTwo
    <3> QED BY <3>1, <1>4
  <2>2. below(a) = {a} /\ below(b) = {a, b}
    BY <1>4
  <2>3. Cardinality(below(a)) = 1 /\ Cardinality(below(b)) = 2
    BY <2>1, <2>2, <1>4, FS_Singleton
  <2>4. nth(1) = a /\ nth(2) = b
    BY <2>3, <1>4
  <2> HIDE DEF fits, nth
  <2>5. GesturesFor(touches) = [n \in 1..2 |-> Registered[nth(n)]]
    BY <2>1, <1>3
  <2> QED BY <2>4, <2>5
<1>5. CASE touches = 1
  <2>1. fits = {1, 2}
    BY <1>1, <1>2, <1>5
  <2>2. GesturesFor(touches) = <<"move", "tap1">>
    BY <2>1, <1>1, <1>4
  <2> QED BY <2>2, <1>2, <1>5, ListFacts DEF Lists, Taps
<1>6. CASE touches = 2
  <2>1. fits = {3, 5}
    BY <1>1, <1>2, <1>6
  <2>2. GesturesFor(touches) = <<"tap2", "scroll">>
    BY <2>1, <1>1, <1>4
  <2> QED BY <2>2, <1>2, <1>6, ListFacts DEF Lists, Taps
<1>7. CASE touches = 3
  <2>1. fits = {4, 6}
    BY <1>1, <1>2, <1>7
  <2>2. GesturesFor(touches) = <<"tap3", "drag">>
    BY <2>1, <1>1, <1>4
  <2> QED BY <2>2, <1>2, <1>7, ListFacts DEF Lists, Taps
<1>8. CASE touches \notin {1, 2, 3}
  <2>1. fits = {}
    BY <1>1, <1>2, <1>8
  <2>2. Cardinality(fits) = 0
    BY <2>1, FS_EmptySet
  <2> HIDE DEF fits, nth
  <2>3. GesturesFor(touches) = [n \in 1..0 |-> Registered[nth(n)]]
    BY <2>2, <1>3
  <2>4. GesturesFor(touches) = <<>>
    BY <2>3
  <2>5. \A t \in Taps : RequiredTouches[t] # touches
    BY <1>2, <1>8 DEF Taps
  <2> QED BY <2>4, <2>5, ListFacts DEF Lists
<1> QED BY <1>5, <1>6, <1>7, <1>8

-----------------------------------------------------------------------------
(* The actions gestures post.                                              *)

LEMMA ActionTypes ==
  /\ \A b \in Buttons :
       /\ ButtonDownAndUp(b) \in Postable
       /\ ButtonDown(b) \in Postable
       /\ ButtonUp(b) \in Postable
       /\ ButtonUpDefer(b) \in Postable
       /\ Harmless(ButtonUpDefer(b))
       /\ ButtonUpDefer(b).defer = "NEW"
  /\ ButtonUpCancel \in Postable
  /\ ScrollEnd \in Postable
  /\ Harmless(ScrollEnd)
  /\ \A moved \in BOOLEAN : Movement(moved) \in Postable
  /\ \A vx \in Int, vy \in Int : Scroll(vx, vy) \in Postable
<1>1. /\ Zeroed \in ActionType /\ Zeroed.physical = {}
      /\ Zeroed.down = {} /\ ~Zeroed.moved /\ ~Zeroed.holding
  BY DEF Zeroed, ActionType, DeferOps
<1> HIDE DEF Zeroed
<1>2. ASSUME NEW b \in Buttons
      PROVE  /\ ButtonDownAndUp(b) \in Postable
             /\ ButtonDown(b) \in Postable
             /\ ButtonUp(b) \in Postable
  BY <1>1 DEF ButtonDownAndUp, ButtonDown, ButtonUp, ActionType, DeferOps,
              Postable
<1>3. ASSUME NEW b \in Buttons
      PROVE  /\ ButtonUpDefer(b) \in Postable
             /\ Harmless(ButtonUpDefer(b))
             /\ ButtonUpDefer(b).defer = "NEW"
  BY <1>1 DEF ButtonUpDefer, ActionType, DeferOps, Harmless, Postable
<1>4. ButtonUpCancel \in Postable
  BY <1>1 DEF ButtonUpCancel, ActionType, DeferOps, Postable
<1>5. ScrollEnd \in Postable /\ Harmless(ScrollEnd)
  BY <1>1 DEF ScrollEnd, Harmless, Postable
<1>6. \A moved \in BOOLEAN : Movement(moved) \in Postable
  BY <1>1 DEF Movement, ActionType, Postable
<1>7. \A vx \in Int, vy \in Int : Scroll(vx, vy) \in Postable
  BY <1>1 DEF Scroll, ActionType, Postable
<1> QED
  BY <1>2, <1>3, <1>4, <1>5, <1>6, <1>7

(* What they do to the buttons.                                            *)
LEMMA ActionKinds ==
  /\ \A t \in Taps : /\ Clicking(ButtonDownAndUp(TapButton[t]))
                     /\ ButtonDownAndUp(TapButton[t]).down = {TapButton[t]}
  /\ Pressing(ButtonDown(DragButton))
  /\ Lifting(ButtonUp(DragButton))
  /\ Cancelling(ButtonUpCancel)
  /\ Releasing(ButtonUpDefer(DragButton))
  /\ Plain(ScrollEnd)
  /\ \A moved : Plain(Movement(moved))
  /\ \A vx, vy : Plain(Scroll(vx, vy))
<1>1. \A t \in Taps : /\ Clicking(ButtonDownAndUp(TapButton[t]))
                     /\ ButtonDownAndUp(TapButton[t]).down = {TapButton[t]}
  BY DEF Clicking, ButtonDownAndUp, Zeroed
<1>2. Pressing(ButtonDown(DragButton)) /\ Lifting(ButtonUp(DragButton))
  BY DEF Pressing, Lifting, ButtonDown, ButtonUp, Zeroed
<1>3. Cancelling(ButtonUpCancel) /\ Releasing(ButtonUpDefer(DragButton))
  BY DEF Cancelling, Releasing, ButtonUpCancel, ButtonUpDefer, Zeroed
<1>4. Plain(ScrollEnd)
  BY DEF Plain, ScrollEnd, Zeroed
<1>5. \A moved : Plain(Movement(moved))
  BY DEF Plain, Movement, Zeroed
<1>6. \A vx, vy : Plain(Scroll(vx, vy))
  BY DEF Plain, Scroll, Zeroed
<1> QED BY <1>1, <1>2, <1>3, <1>4, <1>5, <1>6

(* The buttons of the gestures are buttons.                                *)
LEMMA GestureButtons ==
  /\ DragButton \in Buttons
  /\ \A t \in Taps : TapButton[t] \in Buttons
<1>1. {0, 1, 2} \subseteq Buttons
  BY ButtonsAssumption
<1> QED
  BY <1>1 DEF DragButton, Taps, TapButton

-----------------------------------------------------------------------------
(* Posting.                                                                *)

(* n differs from m in what is staged and queued only.                     *)
Kept(m, n) ==
  /\ n.state = m.state
  /\ n.maxTouches = m.maxTouches
  /\ n.alt = m.alt
  /\ n.list = m.list
  /\ n.accepted = m.accepted
  /\ n.match = m.match
  /\ n.essential = m.essential
  /\ n.post = m.post
  /\ n.settle = m.settle
  /\ n.loaded = m.loaded
  /\ n.hold = m.hold
  /\ n.readGarbage = m.readGarbage

(* An action goes to one place, depending on the gesture's action_fn.      *)
LEMMA PostStages ==
  ASSUME NEW m \in Managers, NEW g \in Gestures, NEW action \in Postable,
         m.post[g] = "stage"
  PROVE  /\ Post(m, g, action) \in Managers
         /\ Kept(m, Post(m, g, action))
         /\ Post(m, g, action).staged =
              [m.staged EXCEPT ![g] = Append(@, action)]
         /\ Post(m, g, action).out = m.out
         /\ Post(m, g, action).owners = m.owners
<1> DEFINE longer == Append(m.staged[g], action)
           staged == [m.staged EXCEPT ![g] = longer]
<1>1. Post(m, g, action) = [m EXCEPT !.staged = staged]
  BY DEF Post
<1>2. longer \in Seq(Postable)
  BY DEF Managers
<1> HIDE DEF longer
<1>3. staged \in [Gestures -> Seq(Postable)]
  BY <1>2 DEF Managers
<1> HIDE DEF staged
<1>4. [m EXCEPT !.staged = staged] \in Managers
  BY <1>3 DEF Managers
<1>5. Kept(m, [m EXCEPT !.staged = staged])
  BY DEF Kept, Managers
<1>6. /\ [m EXCEPT !.staged = staged].staged = staged
      /\ [m EXCEPT !.staged = staged].out = m.out
      /\ [m EXCEPT !.staged = staged].owners = m.owners
  BY DEF Managers
<1> QED BY <1>1, <1>4, <1>5, <1>6 DEF staged, longer

LEMMA PostAccepted ==
  ASSUME NEW m \in Managers, NEW g \in Gestures, NEW action \in Postable,
         m.post[g] = "accept"
  PROVE  /\ Post(m, g, action) \in Managers
         /\ Kept(m, Post(m, g, action))
         /\ Post(m, g, action).staged = m.staged
         /\ Post(m, g, action).out = Append(m.out, Entry(g, action))
         /\ Post(m, g, action).owners = m.owners \cup {g}
<1> DEFINE longer == Append(m.out, Entry(g, action))
           n == [m EXCEPT !.out = longer, !.owners = @ \cup {g}]
<1>1. Post(m, g, action) = n
  BY DEF Post
<1>2. longer \in Seq(Entries)
  BY DEF Managers, Entry, Entries
<1> HIDE DEF longer
<1>3. n \in Managers
  BY <1>2 DEF Managers
<1>4. Kept(m, n)
  BY DEF Kept, Managers
<1>5. n.staged = m.staged /\ n.out = longer /\ n.owners = m.owners \cup {g}
  BY DEF Managers
<1> HIDE DEF n
<1> QED BY <1>1, <1>3, <1>4, <1>5 DEF longer

LEMMA PostDropped ==
  ASSUME NEW m \in Managers, NEW g \in Gestures, NEW action \in Postable,
         m.post[g] = "null"
  PROVE  Post(m, g, action) = m
BY DEF Post

LEMMA PostKept ==
  ASSUME NEW m \in Managers, NEW g \in Gestures, NEW action \in Postable
  PROVE  /\ Post(m, g, action) \in Managers
         /\ Kept(m, Post(m, g, action))
         /\ Post(m, g, action).owners \subseteq m.owners \cup {g}
<1>1. m.post[g] \in {"null", "stage", "accept"}
  BY DEF Managers
<1>2. CASE m.post[g] = "stage"
  BY <1>2, PostStages
<1>3. CASE m.post[g] = "accept"
  BY <1>3, PostAccepted
<1>4. CASE m.post[g] = "null"
  <2>1. Post(m, g, action) = m
    BY <1>4, PostDropped
  <2> QED BY <2>1 DEF Kept
<1> QED BY <1>1, <1>2, <1>3, <1>4

LEMMA PostSane ==
  ASSUME NEW m, Sane(m), NEW g \in Gestures, NEW action \in Postable
  PROVE  Sane(Post(m, g, action))
<1> DEFINE n == Post(m, g, action)
<1>1. m \in Managers
  BY DEF Sane
<1>2. n \in Managers /\ Kept(m, n)
  BY <1>1, PostKept
<1>3. m.post[g] \in {"null", "stage", "accept"}
  BY <1>1 DEF Managers
<1>4. ASSUME NEW i \in 1..Len(n.out) PROVE n.out[i].by \in n.owners
  <2>1. CASE m.post[g] = "accept"
    <3>1. n.out = Append(m.out, Entry(g, action)) /\ n.owners = m.owners \cup {g}
      BY <1>1, <2>1, PostAccepted
    <3>2. m.out \in Seq(Entries)
      BY <1>1 DEF Managers
    <3>3. CASE i = Len(m.out) + 1
      BY <3>1, <3>2, <3>3 DEF Entry
    <3>4. CASE i # Len(m.out) + 1
      <4>1. i \in 1..Len(m.out) /\ n.out[i] = m.out[i]
        BY <3>1, <3>2, <3>4
      <4> QED BY <4>1, <3>1 DEF Sane
    <3> QED BY <3>3, <3>4
  <2>2. CASE m.post[g] # "accept"
    <3>1. n.out = m.out /\ n.owners = m.owners
      BY <1>1, <1>3, <2>2, PostStages, PostDropped
    <3> QED BY <3>1 DEF Sane
  <2> QED BY <2>1, <2>2
<1> HIDE DEF n
<1>5. /\ n.essential \subseteq {"move"}
      /\ ~n.readGarbage
      /\ n.loaded /\ n.hold = "garbage" => Active(n, "drag")
      /\ n.hold = "open" \/ Active(n, "drag") => n.loaded
  BY <1>2 DEF Sane, Kept, Active
<1>6. Sane(n)
  BY <1>2, <1>4, <1>5 DEF Sane
<1> QED BY <1>6 DEF n

(* A gesture that has won, or whose actions are dropped, may post.         *)
LEMMA PostWon ==
  ASSUME NEW m, Sane(m), NEW w \in Gestures, Won(m, w),
         NEW g \in Gestures, NEW action \in Postable,
         m.post[g] = "null" \/ (g = w /\ m.post[g] = "accept")
  PROVE  Won(Post(m, g, action), w)
<1>1. m \in Managers
  BY DEF Sane
<1>2. CASE m.post[g] = "null"
  <2>1. Post(m, g, action) = m
    BY <1>1, <1>2, PostDropped
  <2> QED BY <2>1
<1>3. CASE g = w /\ m.post[g] = "accept"
  <2>1. /\ Kept(m, Post(m, g, action))
        /\ Post(m, g, action).staged = m.staged
        /\ Post(m, g, action).owners = m.owners \cup {g}
    BY <1>1, <1>3, PostAccepted
  <2> QED BY <1>3, <2>1 DEF Kept, Won, Active
<1> QED BY <1>2, <1>3

(* What a harmless action leaves staged is as harmless as before.          *)
LEMMA PostHarmless ==
  ASSUME NEW m \in Managers, NEW g \in Gestures, NEW action \in Postable,
         Harmless(action), NEW h \in Gestures, HarmlessOf(m, h)
  PROVE  HarmlessOf(Post(m, g, action), h)
<1>1. m.post[g] \in {"null", "stage", "accept"} /\ m.staged[h] \in Seq(Postable)
  BY DEF Managers
<1>2. CASE m.post[g] = "stage" /\ g = h
  <2>1. Post(m, g, action).staged[h] = Append(m.staged[h], action)
    <3>1. Post(m, g, action).staged = [m.staged EXCEPT ![g] = Append(@, action)]
      BY <1>2, PostStages
    <3> QED BY <3>1, <1>2 DEF Managers
  <2> QED BY <1>1, <2>1 DEF HarmlessOf
<1>3. CASE m.post[g] = "stage" /\ g # h
  <2>1. Post(m, g, action).staged[h] = m.staged[h]
    <3>1. Post(m, g, action).staged = [m.staged EXCEPT ![g] = Append(@, action)]
      BY <1>3, PostStages
    <3> QED BY <3>1, <1>3 DEF Managers
  <2> QED BY <2>1 DEF HarmlessOf
<1>4. CASE m.post[g] # "stage"
  <2>1. Post(m, g, action).staged = m.staged
    BY <1>1, <1>4, PostAccepted, PostDropped
  <2> QED BY <2>1 DEF HarmlessOf
<1> QED BY <1>2, <1>3, <1>4

(* What posting changes, in one predicate.                                 *)
Posted(m, g, action, n) ==
  /\ Sane(n)
  /\ Kept(m, n)
  /\ n.owners \subseteq m.owners \cup {g}
  /\ m.post[g] = "stage" =>
       /\ n.owners = m.owners
       /\ n.out = m.out
       /\ n.staged[g] = Append(m.staged[g], action)
  /\ m.post[g] = "accept" =>
       n.staged = m.staged /\ n.out = Append(m.out, Entry(g, action))
  /\ m.post[g] = "null" => n = m
  /\ \A h \in Gestures \ {g} : n.staged[h] = m.staged[h]
  /\ Harmless(action) =>
       \A h \in Gestures : HarmlessOf(m, h) => HarmlessOf(n, h)
  /\ Plain(action) \/ g = "drag" => (Tame(m) => Tame(n))

LEMMA PostPosts ==
  ASSUME NEW m, Sane(m), NEW g \in Gestures, NEW action \in Postable
  PROVE  Posted(m, g, action, Post(m, g, action))
<1> DEFINE n == Post(m, g, action)
<1>1. m \in Managers
  BY DEF Sane
<1>2. Sane(n)
  BY PostSane
<1>3. Kept(m, n) /\ n.owners \subseteq m.owners \cup {g}
  BY <1>1, PostKept
<1>4. m.post[g] = "stage" =>
        /\ n.owners = m.owners
        /\ n.out = m.out
        /\ n.staged = [m.staged EXCEPT ![g] = Append(@, action)]
  BY <1>1, PostStages
<1>5. m.post[g] = "accept" =>
        n.staged = m.staged /\ n.out = Append(m.out, Entry(g, action))
  BY <1>1, PostAccepted
<1>6. Harmless(action) =>
        \A h \in Gestures : HarmlessOf(m, h) => HarmlessOf(n, h)
  BY <1>1, PostHarmless
<1>7. m.post[g] = "null" => n = m
  BY <1>1, PostDropped
<1>8. /\ m.post[g] \in {"null", "stage", "accept"}
      /\ m.staged \in [Gestures -> Seq(Postable)]
  BY <1>1 DEF Managers
<1> HIDE DEF n
<1>9. m.post[g] = "stage" => n.staged[g] = Append(m.staged[g], action)
  BY <1>4, <1>8
<1>10. \A h \in Gestures \ {g} : n.staged[h] = m.staged[h]
  BY <1>4, <1>5, <1>7, <1>8
<1>11. ASSUME Plain(action) \/ g = "drag", Tame(m) PROVE Tame(n)
  <2> SUFFICES ASSUME NEW h \in Gestures \ {"drag"} PROVE PlainOf(n, h)
    BY DEF Tame
  <2>1. PlainOf(m, h)
    BY <1>11 DEF Tame
  <2>2. CASE n.staged[h] = m.staged[h]
    BY <2>1, <2>2 DEF PlainOf
  <2>3. CASE n.staged[h] # m.staged[h]
    <3>1. g = h /\ n.staged[h] = Append(m.staged[h], action) /\ Plain(action)
      BY <1>5, <1>7, <1>8, <1>9, <1>10, <1>11, <2>3
    <3>2. m.staged[h] \in Seq(Postable)
      BY <1>8
    <3> QED BY <2>1, <3>1, <3>2 DEF PlainOf
  <2> QED BY <2>2, <2>3
<1>12. Posted(m, g, action, n)
  BY <1>2, <1>3, <1>4, <1>5, <1>6, <1>7, <1>9, <1>10, <1>11 DEF Posted
<1> QED BY <1>12 DEF n

-----------------------------------------------------------------------------
(* The end of an acceptance.                                               *)

LEMMA PostStagedSane ==
  ASSUME NEW m, Sane(m), NEW g \in Gestures
  PROVE  /\ Sane(PostStaged(m, g))
         /\ Kept(m, PostStaged(m, g))
         /\ PostStaged(m, g).staged = NothingStaged
         /\ PostStaged(m, g).owners \subseteq m.owners \cup {g}
         /\ PostStaged(m, g).out = m.out \o Queued(m, g)
<1> DEFINE n == PostStaged(m, g)
<1>1. m \in Managers /\ m.out \in Seq(Entries) /\ m.staged[g] \in Seq(Postable)
  BY DEF Sane, Managers
<1>2. /\ Queued(m, g) \in Seq(Entries)
      /\ Len(Queued(m, g)) = Len(m.staged[g])
      /\ \A i \in 1..Len(m.staged[g]) : Queued(m, g)[i].by = g
  BY <1>1 DEF Queued, Entry, Entries
<1>3. /\ m.out \o Queued(m, g) \in Seq(Entries)
      /\ Len(m.out \o Queued(m, g)) = Len(m.out) + Len(m.staged[g])
  <2>1. ASSUME NEW s \in Seq(Entries), NEW t \in Seq(Entries)
        PROVE  s \o t \in Seq(Entries) /\ Len(s \o t) = Len(s) + Len(t)
    BY ConcatProperties
  <2> QED BY <1>1, <1>2, <2>1
<1>4. NothingStaged \in [Gestures -> Seq(Postable)]
  BY DEF NothingStaged
<1>5. n \in Managers
  BY <1>1, <1>3, <1>4 DEF PostStaged, Managers
<1>6. /\ n.out = m.out \o Queued(m, g)
      /\ n.staged = NothingStaged
      /\ n.owners = IF m.staged[g] = <<>> THEN m.owners ELSE m.owners \cup {g}
      /\ Kept(m, n)
  BY <1>1 DEF PostStaged, Kept, Managers
<1>7. ASSUME NEW i \in 1..Len(n.out) PROVE n.out[i].by \in n.owners
  <2>1. CASE i <= Len(m.out)
    <3>1. i \in 1..Len(m.out) /\ n.out[i] = m.out[i]
      BY <1>1, <1>2, <1>6, <2>1
    <3> QED BY <3>1, <1>6 DEF Sane
  <2>2. CASE i > Len(m.out)
    <3>1. /\ i - Len(m.out) \in 1..Len(m.staged[g])
          /\ n.out[i] = Queued(m, g)[i - Len(m.out)]
      BY <1>1, <1>2, <1>3, <1>6, <1>7, <2>2
    <3>2. n.out[i].by = g /\ m.staged[g] # <<>>
      BY <1>2, <3>1
    <3> QED BY <3>2, <1>6
  <2>3. i \in Int /\ Len(m.out) \in Int
    BY <1>1, <1>3, <1>6
  <2> QED BY <2>1, <2>2, <2>3
<1> HIDE DEF n
<1>8. Sane(n)
  BY <1>5, <1>6, <1>7 DEF Sane, Kept, Active
<1>9. n.owners \subseteq m.owners \cup {g}
  BY <1>6
<1> QED BY <1>6, <1>8, <1>9 DEF n

(* drag's callback reads hold_time only after its first end has set it.    *)
LEMMA AcceptCallbacksSane ==
  ASSUME NEW m, Sane(m), NEW g \in Gestures, g # "drag" => ~Active(m, "drag")
  PROVE  /\ Sane(AcceptCallbacks(m, g))
         /\ AcceptCallbacks(m, g).state = m.state
         /\ AcceptCallbacks(m, g).match = m.match
         /\ AcceptCallbacks(m, g).essential = m.essential
         /\ AcceptCallbacks(m, g).post = m.post
         /\ AcceptCallbacks(m, g).maxTouches = m.maxTouches
         /\ AcceptCallbacks(m, g).alt = m.alt
         /\ AcceptCallbacks(m, g).owners \subseteq m.owners \cup {g}
<1> DEFINE n == IF m.hold = "open"
                  THEN Post(Post(m, g, ButtonUp(DragButton)),
                            g, ButtonUpCancel)
                  ELSE m
           r == [n EXCEPT !.hold = "zero",
                          !.readGarbage = @ \/ m.hold = "garbage"]
<1>1. CASE ~m.loaded \/ g = "drag" \/ m.hold = "zero"
  BY <1>1 DEF AcceptCallbacks
<1>2. CASE ~(~m.loaded \/ g = "drag" \/ m.hold = "zero")
  <2>1. m.hold # "garbage"
    BY <1>2 DEF Sane
  <2>2. /\ Sane(n)
        /\ Kept(m, n)
        /\ n.owners \subseteq m.owners \cup {g}
    <3>1. CASE m.hold = "open"
      <4> DEFINE p == Post(m, g, ButtonUp(DragButton))
      <4>1. /\ ButtonUp(DragButton) \in Postable
            /\ ButtonUpCancel \in Postable
        BY ActionTypes, GestureButtons
      <4>2. Sane(p) /\ Kept(m, p) /\ p.owners \subseteq m.owners \cup {g}
        <5>1. m \in Managers /\ m.post[g] \in {"null", "stage", "accept"}
          BY DEF Sane, Managers
        <5> QED BY <4>1, <5>1, PostSane, PostKept
      <4> HIDE DEF p
      <4> DEFINE q == Post(p, g, ButtonUpCancel)
      <4>3. Sane(q) /\ Kept(p, q) /\ q.owners \subseteq p.owners \cup {g}
        <5>1. p \in Managers /\ p.post[g] \in {"null", "stage", "accept"}
          BY <4>2 DEF Sane, Managers
        <5> QED BY <4>1, <4>2, <5>1, PostSane, PostKept
      <4>4. n = q
        BY <3>1 DEF p
      <4> HIDE DEF n, q
      <4> QED BY <4>2, <4>3, <4>4 DEF Kept
    <3>2. CASE m.hold # "open"
      BY <3>2 DEF Kept
    <3> QED BY <3>1, <3>2
  <2>3. AcceptCallbacks(m, g) = r
    BY <1>2 DEF AcceptCallbacks
  <2> HIDE DEF n
  <2>4. r \in Managers
    BY <2>2 DEF Sane, Managers
  <2>5. /\ r.hold = "zero" /\ ~r.readGarbage
        /\ r.state = m.state /\ r.match = m.match /\ r.essential = m.essential
        /\ r.post = m.post /\ r.maxTouches = m.maxTouches /\ r.alt = m.alt
        /\ r.out = n.out /\ r.owners = n.owners /\ r.loaded = m.loaded
    BY <2>1, <2>2 DEF Sane, Managers, Kept
  <2>6. Sane(r)
    BY <2>2, <2>4, <2>5 DEF Sane, Active
  <2> QED BY <2>2, <2>3, <2>5, <2>6
<1> QED BY <1>1, <1>2

(* It leaves no hold_time open; when there was one, the accepted gesture   *)
(* lets the button go and cancels the timer.                               *)
LEMMA CallbacksQuell ==
  ASSUME NEW m, Sane(m), NEW g \in Gestures, g # "drag" => ~Active(m, "drag")
  PROVE  /\ g = "drag" => AcceptCallbacks(m, g) = m
         /\ g # "drag" => AcceptCallbacks(m, g).hold # "open"
         /\ m.hold # "open" \/ m.post[g] = "null" =>
              /\ AcceptCallbacks(m, g).staged = m.staged
              /\ AcceptCallbacks(m, g).out = m.out
         /\ g # "drag" /\ m.hold = "open" /\ m.post[g] = "stage" =>
              /\ AcceptCallbacks(m, g).out = m.out
              /\ AcceptCallbacks(m, g).staged[g] =
                   Append(Append(m.staged[g], ButtonUp(DragButton)),
                          ButtonUpCancel)
         /\ g # "drag" /\ m.hold = "open" /\ m.post[g] = "accept" =>
              /\ AcceptCallbacks(m, g).staged = m.staged
              /\ AcceptCallbacks(m, g).out =
                   Append(Append(m.out, Entry(g, ButtonUp(DragButton))),
                          Entry(g, ButtonUpCancel))
<1> DEFINE p == Post(m, g, ButtonUp(DragButton))
           q == Post(p, g, ButtonUpCancel)
           n == IF m.hold = "open" THEN q ELSE m
           c == [n EXCEPT !.hold = "zero",
                          !.readGarbage = @ \/ m.hold = "garbage"]
<1>1. CASE ~m.loaded \/ g = "drag" \/ m.hold = "zero"
  <2>1. AcceptCallbacks(m, g) = m
    BY <1>1 DEF AcceptCallbacks
  <2>2. g # "drag" => m.hold # "open"
    BY <1>1 DEF Sane
  <2> QED BY <2>1, <2>2
<1>2. CASE ~(~m.loaded \/ g = "drag" \/ m.hold = "zero")
  <2>1. ButtonUp(DragButton) \in Postable /\ ButtonUpCancel \in Postable
    BY ActionTypes, GestureButtons
  <2>2. Posted(m, g, ButtonUp(DragButton), p)
    BY <2>1, PostPosts
  <2>3. AcceptCallbacks(m, g) = c
    BY <1>2 DEF AcceptCallbacks
  <2> HIDE DEF p
  <2>4. Posted(p, g, ButtonUpCancel, q)
    BY <2>1, <2>2, PostPosts DEF Posted
  <2> HIDE DEF q
  <2>5. n \in Managers
    BY <2>4 DEF Posted, Sane
  <2> HIDE DEF n
  <2>6. c.hold = "zero" /\ c.staged = n.staged /\ c.out = n.out
    BY <2>5 DEF Managers
  <2> HIDE DEF c
  <2>7. CASE m.hold # "open"
    BY <1>2, <2>3, <2>6, <2>7 DEF n
  <2>8. CASE m.hold = "open" /\ m.post[g] = "null"
    <3>1. p = m /\ q = p
      BY <2>2, <2>4, <2>8 DEF Posted
    <3> QED BY <1>2, <2>3, <2>6, <2>8, <3>1 DEF n
  <2>9. CASE m.hold = "open" /\ m.post[g] = "stage"
    <3>1. /\ q.out = m.out
          /\ q.staged[g] = Append(Append(m.staged[g], ButtonUp(DragButton)),
                                  ButtonUpCancel)
      BY <2>2, <2>4, <2>9 DEF Posted, Kept
    <3> QED BY <1>2, <2>3, <2>6, <2>9, <3>1 DEF n
  <2>10. CASE m.hold = "open" /\ m.post[g] = "accept"
    <3>1. /\ q.out = Append(Append(m.out, Entry(g, ButtonUp(DragButton))),
                            Entry(g, ButtonUpCancel))
          /\ q.staged = m.staged
      BY <2>2, <2>4, <2>10 DEF Posted, Kept
    <3> QED BY <1>2, <2>3, <2>6, <2>10, <3>1 DEF n
  <2>11. m.post[g] \in {"null", "stage", "accept"}
    BY DEF Sane, Managers
  <2> QED BY <2>7, <2>8, <2>9, <2>10, <2>11
<1> QED BY <1>1, <1>2

(* Where nothing has an owner nothing is queued.                           *)
LEMMA NothingOut ==
  ASSUME NEW m, Sane(m), m.owners = {}
  PROVE  m.out = <<>>
<1>1. m.out \in Seq(Entries) /\ \A i \in 1..Len(m.out) : m.out[i].by \in m.owners
  BY DEF Sane, Managers
<1>2. Len(m.out) = 0
  <2>1. ASSUME 1 \in 1..Len(m.out) PROVE FALSE
    <3>1. m.out[1].by \in m.owners
      BY <1>1, <2>1
    <3> QED BY <3>1
  <2>2. Len(m.out) \in Nat
    BY <1>1
  <2> QED BY <2>1, <2>2
<1> QED BY <1>1, <1>2

(* What is queued of a gesture is what it staged.                          *)
LEMMA QueuedActions ==
  ASSUME NEW m \in Managers, NEW g \in Gestures
  PROVE  Actions(<<>> \o Queued(m, g)) = m.staged[g]
<1>1. m.staged[g] \in Seq(Postable)
  BY DEF Managers
<1>2. Queued(m, g) \in Seq(Entries)
  BY <1>1 DEF Queued, Entry, Entries
<1>3. <<>> \o Queued(m, g) = Queued(m, g)
  BY <1>2
<1>4. /\ Len(Queued(m, g)) = Len(m.staged[g])
      /\ \A i \in 1..Len(m.staged[g]) : Queued(m, g)[i].action = m.staged[g][i]
  BY <1>1 DEF Queued, Entry
<1> QED BY <1>1, <1>3, <1>4 DEF Actions

(* Whoever has staged nothing about buttons quells a drag by these two.    *)
LEMMA QuellStaged ==
  ASSUME NEW s \in Seq(Postable), \A i \in 1..Len(s) : Plain(s[i]),
         NEW z, z = Append(Append(s, ButtonUp(DragButton)), ButtonUpCancel)
  PROVE  /\ \A open : Quelled(s, open)
         /\ Quelled(z, TRUE)
         /\ \E i \in 1..Len(z) : Cancelling(z[i])
<1>1. \A open : Quelled(s, open)
  BY DEF Quelled
<1> DEFINE up == ButtonUp(DragButton)
<1>2. up \in Postable /\ ButtonUpCancel \in Postable
  BY ActionTypes, GestureButtons
<1>3. Lifting(up) /\ Cancelling(ButtonUpCancel)
  BY ActionKinds
<1> HIDE DEF up
<1>4. /\ Len(z) = Len(s) + 2 /\ Len(s) \in Nat
      /\ \A i \in 1..Len(s) : z[i] = s[i]
      /\ z[Len(s) + 1] = up
      /\ z[Len(s) + 2] = ButtonUpCancel
  BY <1>2 DEF up
<1>5. ASSUME NEW i \in 1..Len(z)
      PROVE  \/ Plain(z[i])
             \/ Lifting(z[i])
             \/ Cancelling(z[i]) /\ i > 1 /\ Lifting(z[i - 1])
  <2>1. CASE i <= Len(s)
    BY <1>4, <2>1
  <2>2. CASE i = Len(s) + 1
    BY <1>3, <1>4, <2>2
  <2>3. CASE i = Len(s) + 2
    <3>1. i > 1 /\ i - 1 = Len(s) + 1
      BY <1>4, <2>3
    <3> QED BY <1>3, <1>4, <2>3, <3>1
  <2> QED BY <1>4, <2>1, <2>2, <2>3
<1>6. Quelled(z, TRUE)
  BY <1>5 DEF Quelled
<1>7. \E i \in 1..Len(z) : Cancelling(z[i])
  <2>1. Len(s) + 2 \in 1..Len(z)
    BY <1>4
  <2> QED BY <1>3, <1>4, <2>1
<1> QED BY <1>1, <1>6, <1>7

(* Or these two come first: from a gesture that has its actions queued.    *)
LEMMA QuellFirst ==
  ASSUME NEW g \in Gestures, NEW q \in Seq(Entries),
         \A i \in 1..Len(q) : Plain(q[i].action),
         NEW z, z = Append(Append(<<>>, Entry(g, ButtonUp(DragButton))),
                           Entry(g, ButtonUpCancel)) \o q
  PROVE  Quelled(Actions(z), TRUE)
<1> DEFINE up     == Entry(g, ButtonUp(DragButton))
           cancel == Entry(g, ButtonUpCancel)
<1>1. up \in Entries /\ cancel \in Entries
  BY ActionTypes, GestureButtons DEF Entry, Entries
<1>2. Lifting(up.action) /\ Cancelling(cancel.action)
  BY ActionKinds DEF Entry
<1> HIDE DEF up, cancel
<1>3. z = Append(Append(<<>>, up), cancel) \o q
  BY DEF up, cancel
<1>4. /\ Len(z) = Len(q) + 2 /\ Len(q) \in Nat
      /\ z[1] = up /\ z[2] = cancel
      /\ \A i \in 1..Len(z) : i > 2 => z[i] = q[i - 2] /\ i - 2 \in 1..Len(q)
  BY <1>1, <1>3
<1>5. /\ Len(Actions(z)) = Len(z)
      /\ \A i \in 1..Len(z) : Actions(z)[i] = z[i].action
  BY <1>4 DEF Actions
<1>6. ASSUME NEW i \in 1..Len(z)
      PROVE  \/ Plain(z[i].action)
             \/ Lifting(z[i].action)
             \/ Cancelling(z[i].action) /\ i > 1 /\ Lifting(z[i - 1].action)
  <2>1. CASE i = 1
    BY <1>2, <1>4, <2>1
  <2>2. CASE i = 2
    BY <1>2, <1>4, <2>2
  <2>3. CASE i > 2
    BY <1>4, <2>3
  <2> QED BY <1>4, <2>1, <2>2, <2>3
<1>7. ASSUME NEW i \in 1..Len(z), i > 1
      PROVE  Actions(z)[i - 1] = z[i - 1].action
  <2>1. i - 1 \in 1..Len(z)
    BY <1>4, <1>7
  <2> QED BY <1>5, <2>1
<1> QED BY <1>5, <1>6, <1>7 DEF Quelled

-----------------------------------------------------------------------------
(* Where no physical button is ever pressed, move is never essential: this *)
(* is all that Unpressed says beside the types it needs to be kept.        *)
Unpressed(m) ==
  /\ {"post", "list", "accepted", "physical", "essential"} \subseteq DOMAIN m
  /\ m.post \in [Gestures -> {"null", "stage", "accept"}]
  /\ m.list \in Seq(Gestures)
  /\ m.accepted \in Gestures \cup {Nobody}
  /\ m.physical = {}
  /\ m.essential = {}

LEMMA UnpressedLike ==
  ASSUME NEW m, Unpressed(m), NEW n, DOMAIN n = DOMAIN m,
         n.post = m.post, n.list = m.list, n.accepted = m.accepted,
         n.physical = m.physical, n.essential = m.essential
  PROVE  Unpressed(n)
BY DEF Unpressed

LEMMA PostUnpressed ==
  ASSUME NEW m, Unpressed(m), NEW g \in Gestures, NEW action
  PROVE  Unpressed(Post(m, g, action))
<1> DEFINE n == Post(m, g, action)
<1>1. m.post[g] \in {"null", "stage", "accept"}
  BY DEF Unpressed
<1>2. CASE m.post[g] = "null"
  BY <1>2 DEF Post
<1>3. CASE m.post[g] = "stage"
  <2>1. n = [m EXCEPT !.staged[g] = Append(@, action)]
    BY <1>3 DEF Post
  <2> HIDE DEF n
  <2>2. /\ DOMAIN n = DOMAIN m /\ n.post = m.post /\ n.list = m.list
        /\ n.accepted = m.accepted
        /\ n.physical = m.physical /\ n.essential = m.essential
    BY <2>1 DEF Unpressed
  <2> QED BY <2>2, UnpressedLike DEF n
<1>4. CASE m.post[g] = "accept"
  <2>1. n = [m EXCEPT !.out = Append(@, Entry(g, action)),
                      !.owners = @ \cup {g}]
    BY <1>4 DEF Post
  <2> HIDE DEF n
  <2>2. /\ DOMAIN n = DOMAIN m /\ n.post = m.post /\ n.list = m.list
        /\ n.accepted = m.accepted
        /\ n.physical = m.physical /\ n.essential = m.essential
    BY <2>1 DEF Unpressed
  <2> QED BY <2>2, UnpressedLike DEF n
<1> QED BY <1>1, <1>2, <1>3, <1>4

LEMMA CallbacksUnpressed ==
  ASSUME NEW m, Unpressed(m), NEW g \in Gestures
  PROVE  Unpressed(AcceptCallbacks(m, g))
<1> DEFINE n == IF m.hold = "open"
                  THEN Post(Post(m, g, ButtonUp(DragButton)),
                            g, ButtonUpCancel)
                  ELSE m
           c == [n EXCEPT !.hold = "zero",
                          !.readGarbage = @ \/ m.hold = "garbage"]
<1>1. Unpressed(n)
  BY PostUnpressed
<1>2. AcceptCallbacks(m, g) \in {m, c}
  BY DEF AcceptCallbacks
<1> HIDE DEF n
<1>3. /\ DOMAIN c = DOMAIN n /\ c.post = n.post /\ c.list = n.list
      /\ c.accepted = n.accepted
      /\ c.physical = n.physical /\ c.essential = n.essential
  BY <1>1 DEF Unpressed
<1> HIDE DEF c
<1> QED BY <1>1, <1>2, <1>3, UnpressedLike

LEMMA PostStagedUnpressed ==
  ASSUME NEW m, Unpressed(m), NEW g
  PROVE  Unpressed(PostStaged(m, g))
<1> DEFINE n == PostStaged(m, g)
<1>1. /\ DOMAIN n = DOMAIN m /\ n.post = m.post /\ n.list = m.list
      /\ n.accepted = m.accepted
      /\ n.physical = m.physical /\ n.essential = m.essential
  BY DEF PostStaged, Unpressed
<1> HIDE DEF n
<1> QED BY <1>1, UnpressedLike DEF n

(* What ends, accepts or starts a gesture.                                 *)
LEMMA FieldsUnpressed ==
  ASSUME NEW m, Unpressed(m), NEW g
  PROVE  /\ Unpressed([m EXCEPT !.match[g] = "NONE", !.post[g] = "null"])
         /\ \A match : Unpressed([m EXCEPT !.match[g] = match,
                                           !.essential = @ \ {g}])
         /\ g \in Gestures =>
              Unpressed([m EXCEPT !.accepted = g, !.post[g] = "accept",
                                  !.list = <<>>])
         /\ \A state : Unpressed([m EXCEPT !.state = state])
<1>1. Unpressed([m EXCEPT !.match[g] = "NONE", !.post[g] = "null"])
  <2> DEFINE n == [m EXCEPT !.match[g] = "NONE", !.post[g] = "null"]
  <2>1. /\ DOMAIN n = DOMAIN m /\ n.post = [m.post EXCEPT ![g] = "null"]
        /\ n.list = m.list /\ n.accepted = m.accepted
        /\ n.physical = m.physical /\ n.essential = m.essential
    BY DEF Unpressed
  <2> HIDE DEF n
  <2>2. n.post \in [Gestures -> {"null", "stage", "accept"}]
    BY <2>1 DEF Unpressed
  <2> QED BY <2>1, <2>2 DEF Unpressed, n
<1>2. ASSUME NEW match
      PROVE  Unpressed([m EXCEPT !.match[g] = match, !.essential = @ \ {g}])
  <2> DEFINE n == [m EXCEPT !.match[g] = match, !.essential = @ \ {g}]
  <2>1. /\ DOMAIN n = DOMAIN m /\ n.post = m.post
        /\ n.list = m.list /\ n.accepted = m.accepted
        /\ n.physical = m.physical /\ n.essential = m.essential
    BY DEF Unpressed
  <2> HIDE DEF n
  <2> QED BY <2>1, UnpressedLike DEF n
<1>3. ASSUME g \in Gestures
      PROVE  Unpressed([m EXCEPT !.accepted = g, !.post[g] = "accept",
                                 !.list = <<>>])
  <2> DEFINE n == [m EXCEPT !.accepted = g, !.post[g] = "accept",
                            !.list = <<>>]
  <2>1. /\ DOMAIN n = DOMAIN m /\ n.post = [m.post EXCEPT ![g] = "accept"]
        /\ n.list = <<>> /\ n.accepted = g
        /\ n.physical = m.physical /\ n.essential = m.essential
    BY DEF Unpressed
  <2> HIDE DEF n
  <2>2. n.post \in [Gestures -> {"null", "stage", "accept"}]
    BY <1>3, <2>1 DEF Unpressed
  <2>3. n.list \in Seq(Gestures)
    BY <2>1
  <2> QED BY <1>3, <2>1, <2>2, <2>3 DEF Unpressed, n
<1>4. ASSUME NEW state PROVE Unpressed([m EXCEPT !.state = state])
  <2> DEFINE n == [m EXCEPT !.state = state]
  <2>1. /\ DOMAIN n = DOMAIN m /\ n.post = m.post
        /\ n.list = m.list /\ n.accepted = m.accepted
        /\ n.physical = m.physical /\ n.essential = m.essential
    BY DEF Unpressed
  <2> HIDE DEF n
  <2> QED BY <2>1, UnpressedLike DEF n
<1> QED BY <1>1, <1>2, <1>3, <1>4
=============================================================================
