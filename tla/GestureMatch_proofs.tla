-------------------------- MODULE GestureMatch_proofs --------------------------
(***************************************************************************)
(* Ending, matching and accepting, for every operator Ask that ignores a   *)
(* tap that is not matching (AskedOnce) and, where a tap that still matches*)
(* may be ended, lets it or an essential gesture win (AskWins).  SetMatch  *)
(* itself has both properties, so that the levels of GestureManager follow *)
(* one from the other.                                                     *)
(***************************************************************************)
EXTENDS GestureMatch, Gestures_proofs

AskedOnce == \A m, t : m.match[t] # "MATHING" => Ask(m, t) = m

AskWins == \A m, t : Asking(m, t) => TapWins(m, t, Ask(m, t))

-----------------------------------------------------------------------------
(* Ending one gesture.                                                     *)

LEMMA EndInactive ==
  ASSUME NEW m, NEW g, ~Active(m, g)
  PROVE  End(m, g) = m
BY DEF End

(* What is left of a state when g has run its on_end and is cleared.       *)
Cleared(n, g) == [n EXCEPT !.match[g] = "NONE", !.post[g] = "null"]

LEMMA ClearedSane ==
  ASSUME NEW n, NEW g \in Gestures,
         Sane(n)
  PROVE  /\ Cleared(n, g) \in Managers
         /\ Cleared(n, g).state = n.state
         /\ Cleared(n, g).maxTouches = n.maxTouches
         /\ Cleared(n, g).alt = n.alt
         /\ Cleared(n, g).list = n.list
         /\ Cleared(n, g).accepted = n.accepted
         /\ Cleared(n, g).essential = n.essential
         /\ Cleared(n, g).owners = n.owners
         /\ Cleared(n, g).out = n.out
         /\ Cleared(n, g).staged = n.staged
         /\ Cleared(n, g).hold = n.hold
         /\ Cleared(n, g).loaded = n.loaded
         /\ Cleared(n, g).match = [n.match EXCEPT ![g] = "NONE"]
         /\ Cleared(n, g).post = [n.post EXCEPT ![g] = "null"]
         /\ (g = "drag" => n.hold # "garbage") => Sane(Cleared(n, g))
<1> DEFINE match == [n.match EXCEPT ![g] = "NONE"]
           post  == [n.post EXCEPT ![g] = "null"]
           c     == [n EXCEPT !.match = match, !.post = post]
<1>1. Cleared(n, g) = c
  BY DEF Cleared, Sane, Managers
<1>2. /\ match \in [Gestures -> MatchStates]
      /\ post \in [Gestures -> {"null", "stage", "accept"}]
  BY DEF Sane, Managers, MatchStates
<1>3. \A h \in Gestures : h # g => match[h] = n.match[h]
  BY DEF Sane, Managers
<1> HIDE DEF match, post
<1>4. c \in Managers
  BY <1>2 DEF Sane, Managers
<1>5. /\ c.state = n.state /\ c.maxTouches = n.maxTouches /\ c.alt = n.alt
      /\ c.list = n.list /\ c.accepted = n.accepted
      /\ c.essential = n.essential /\ c.owners = n.owners
      /\ c.out = n.out /\ c.staged = n.staged
      /\ c.hold = n.hold /\ c.loaded = n.loaded
      /\ c.readGarbage = n.readGarbage
      /\ c.match = match /\ c.post = post
  BY DEF Sane, Managers
<1> HIDE DEF c
<1>6. ASSUME g = "drag" => n.hold # "garbage" PROVE Sane(c)
  <2>2. "drag" \in Gestures
    BY GestureSet
  <2>3. c.loaded /\ c.hold = "garbage" => Active(c, "drag")
    BY <1>3, <1>5, <1>6, <2>2 DEF Sane, Active
  <2>4. c.hold = "open" \/ Active(c, "drag") => c.loaded
    <3>1. Active(c, "drag") => Active(n, "drag")
      BY <1>3, <1>5, <2>2 DEF Active, Sane, Managers, match
    <3> QED BY <1>5, <3>1 DEF Sane
  <2> QED BY <1>4, <1>5, <2>3, <2>4 DEF Sane
<1> QED BY <1>1, <1>4, <1>5, <1>6 DEF match, post

LEMMA EndAlone ==
  ASSUME AskedOnce, NEW m, Sane(m), NEW g \in Gestures,
         g \in Taps => m.match[g] # "MATHING"
  PROVE  /\ EndsAlone(m, g, End(m, g))
         /\ (g = "drag" /\ Active(m, g) /\ m.post[g] = "accept") =>
              End(m, g).out = Append(m.out, Entry(g, ButtonUpDefer(DragButton)))
<1> DEFINE n == OnEnd(m, g)
<1>0. m \in Managers
  BY DEF Sane
<1>1. CASE ~Active(m, g)
  <2>1. End(m, g) = m
    BY <1>1, EndInactive
  <2>2. m.match = [m.match EXCEPT ![g] = @]
    BY <1>0 DEF Managers
  <2> QED BY <1>1, <2>1, <2>2 DEF EndsAlone
<1>2. CASE Active(m, g)
  <2>1. /\ Sane(n)
        /\ n.state = m.state
        /\ n.maxTouches = m.maxTouches
        /\ n.alt = m.alt
        /\ n.list = m.list
        /\ n.accepted = m.accepted
        /\ n.essential = m.essential
        /\ n.match = m.match
        /\ n.post = m.post
        /\ n.owners \subseteq m.owners \cup {g}
        /\ m.post[g] = "stage" => n.owners = m.owners
        /\ m.post[g] = "accept" => n.staged = m.staged
        /\ g \notin Taps =>
             \A h \in Gestures : HarmlessOf(m, h) => HarmlessOf(n, h)
        /\ g \notin Taps => (Tame(m) => Tame(n))
        /\ \A h \in Gestures \ {g} : n.staged[h] = m.staged[h]
        /\ n.hold = IF g = "drag" THEN "open" ELSE m.hold
        /\ m.post[g] = "stage" => n.out = m.out
        /\ m.post[g] = "accept" /\ g \notin Taps \cup {"drag"} =>
             \/ n.out = m.out
             \/ \E e : Plain(e.action) /\ n.out = Append(m.out, e)
        /\ (g = "drag" /\ m.post[g] = "accept") =>
             n.out = Append(m.out, Entry(g, ButtonUpDefer(DragButton)))
    <3>1. CASE g \in Taps
      <4>1. Ask(m, g) = m
        BY <3>1 DEF AskedOnce
      <4>2. n = Post(m, g, ButtonDownAndUp(TapButton[g])) /\ g # "drag"
        BY <3>1, <4>1 DEF OnEnd, Taps
      <4>3. ButtonDownAndUp(TapButton[g]) \in Postable
        BY <3>1, ActionTypes, GestureButtons
      <4> HIDE DEF n
      <4>4. Posted(m, g, ButtonDownAndUp(TapButton[g]), n)
        BY <4>2, <4>3, PostPosts
      <4> QED BY <3>1, <4>2, <4>4 DEF Posted, Kept
    <3>2. CASE g = "scroll"
      <4>1. n = Post(m, g, ScrollEnd)
        BY <3>2 DEF OnEnd, Taps
      <4>2. ScrollEnd \in Postable /\ Harmless(ScrollEnd)
        BY ActionTypes
      <4> HIDE DEF n
      <4>3. Posted(m, g, ScrollEnd, n)
        BY <4>1, <4>2, PostPosts
      <4>4. Plain(ScrollEnd) /\ Entry(g, ScrollEnd).action = ScrollEnd
        BY ActionKinds DEF Entry
      <4>5. m.post[g] = "accept" =>
              \E e : Plain(e.action) /\ n.out = Append(m.out, e)
        BY <4>3, <4>4 DEF Posted
      <4> QED BY <3>2, <4>2, <4>3, <4>4, <4>5 DEF Posted, Kept
    <3>3. CASE g = "drag"
      <4> DEFINE p == Post(m, g, ButtonUpDefer(DragButton))
      <4>1. n = [p EXCEPT !.hold = "open"]
        BY <3>3 DEF OnEnd, Taps
      <4>2. /\ ButtonUpDefer(DragButton) \in Postable
            /\ Harmless(ButtonUpDefer(DragButton))
        BY ActionTypes, GestureButtons
      <4>3. Posted(m, g, ButtonUpDefer(DragButton), p)
        BY <4>2, PostPosts
      <4> HIDE DEF p, n
      <4>4. /\ Sane(p) /\ p \in Managers /\ Kept(m, p)
            /\ p.owners \subseteq m.owners \cup {g}
            /\ m.post[g] = "stage" => p.owners = m.owners
            /\ m.post[g] = "accept" =>
                 /\ p.staged = m.staged
                 /\ p.out = Append(m.out, Entry(g, ButtonUpDefer(DragButton)))
            /\ \A h \in Gestures : HarmlessOf(m, h) => HarmlessOf(p, h)
            /\ Tame(m) => Tame(p)
            /\ \A h \in Gestures \ {g} : p.staged[h] = m.staged[h]
            /\ m.post[g] = "stage" => p.out = m.out
        BY <3>3, <4>2, <4>3 DEF Posted, Sane
      <4>5. /\ n \in Managers
            /\ n.state = p.state /\ n.maxTouches = p.maxTouches
            /\ n.alt = p.alt
            /\ n.list = p.list /\ n.accepted = p.accepted
            /\ n.essential = p.essential /\ n.match = p.match
            /\ n.post = p.post /\ n.owners = p.owners
            /\ n.staged = p.staged /\ n.out = p.out
            /\ n.loaded = p.loaded /\ n.readGarbage = p.readGarbage
            /\ n.hold = "open"
        BY <4>1, <4>4 DEF Managers
      <4>6. Sane(n)
        <5>1. m.loaded
          BY <1>2, <3>3 DEF Sane
        <5> QED BY <4>4, <4>5, <5>1 DEF Sane, Kept
      <4>7. /\ \A h \in Gestures : HarmlessOf(p, h) => HarmlessOf(n, h)
            /\ Tame(p) => Tame(n)
        BY <4>5 DEF HarmlessOf, Tame, PlainOf
      <4> QED BY <3>3, <4>4, <4>5, <4>6, <4>7 DEF Kept
    <3>4. CASE g = "move"
      <4>1. n = m
        BY <3>4 DEF OnEnd, Taps
      <4> QED BY <3>4, <4>1
    <3> QED BY <3>1, <3>2, <3>3, <3>4, GestureSet DEF Taps
  <2>2. End(m, g) = Cleared(n, g)
    BY <1>2 DEF End, Cleared
  <2> HIDE DEF n
  <2> DEFINE c == Cleared(n, g)
  <2>3. /\ c.state = n.state /\ c.maxTouches = n.maxTouches /\ c.alt = n.alt
        /\ c.list = n.list /\ c.accepted = n.accepted
        /\ c.essential = n.essential /\ c.owners = n.owners
        /\ c.out = n.out /\ c.staged = n.staged /\ c.hold = n.hold
        /\ c.match = [n.match EXCEPT ![g] = "NONE"]
        /\ c.post = [n.post EXCEPT ![g] = "null"]
        /\ Sane(c)
    <3>1. Sane(n) /\ (g = "drag" => n.hold # "garbage")
      BY <2>1
    <3> QED BY <3>1, ClearedSane
  <2>4. /\ \A h \in Gestures : HarmlessOf(n, h) => HarmlessOf(c, h)
        /\ Tame(n) => Tame(c)
    BY <2>3 DEF HarmlessOf, Tame, PlainOf
  <2> HIDE DEF c
  <2>5. /\ c.match = [m.match EXCEPT ![g] = IF Active(m, g) THEN "NONE" ELSE @]
        /\ c.post[g] = "null"
        /\ \A h \in Gestures \ {g} : c.post[h] = m.post[h]
    BY <1>0, <1>2, <2>1, <2>3 DEF Managers
  <2>6. EndsAlone(m, g, c)
    BY <1>2, <2>1, <2>3, <2>4, <2>5 DEF EndsAlone
  <2> QED BY <2>1, <2>2, <2>3, <2>6 DEF c
<1> QED BY <1>1, <1>2

-----------------------------------------------------------------------------
(* Accepting a gesture.                                                    *)

Finished(o, g) ==
  [PostStaged(AcceptCallbacks(o, g), g)
     EXCEPT !.accepted = g, !.post[g] = "accept", !.list = <<>>]

LEMMA AcceptIs ==
  ASSUME NEW m, NEW g
  PROVE  Accept(m, g) = Finished(EndOthers(m, g), g)
BY DEF Accept, Finished

(* The loop ends the one other gesture of the list, if there is one, also  *)
(* when that empties the list.                                             *)
LEMMA OtherEnded ==
  ASSUME NEW m, m.list \in Lists, NEW g \in ToSet(m.list),
         \A h \in ToSet(m.list) \ {g} : End(m, h).list \in {m.list, <<>>}
  PROVE  \/ ToSet(m.list) = {g} /\ EndOthers(m, g) = m
         \/ \E h \in ToSet(m.list) \ {g} :
              ToSet(m.list) = {g, h} /\ EndOthers(m, g) = End(m, h)
<1>1. CASE m.list = <<"scroll">>
  <2>1. ToSet(m.list) = {"scroll"} /\ g = "scroll"
    BY <1>1, ListFacts
  <2>2. EndNth(m, 1, g) = m
    BY <1>1, <2>1 DEF EndNth
  <2>3. EndNth(m, 2, g) = m
    BY <1>1 DEF EndNth
  <2> QED BY <2>1, <2>2, <2>3 DEF EndOthers
<1>2. ASSUME NEW a, NEW b, a # b, m.list = <<a, b>>, ToSet(m.list) = {a, b}
      PROVE  \E h \in ToSet(m.list) \ {g} :
               ToSet(m.list) = {g, h} /\ EndOthers(m, g) = End(m, h)
  <2>1. Len(m.list) = 2 /\ m.list[1] = a /\ m.list[2] = b
    BY <1>2
  <2>2. CASE g = a
    <3>1. EndNth(m, 1, g) = m
      BY <2>1, <2>2 DEF EndNth
    <3>2. EndNth(m, 2, g) = End(m, b)
      BY <1>2, <2>1, <2>2 DEF EndNth
    <3> QED BY <1>2, <2>2, <3>1, <3>2 DEF EndOthers
  <2>3. CASE g = b
    <3> DEFINE n == End(m, a)
    <3>1. EndNth(m, 1, g) = n
      BY <1>2, <2>1, <2>3 DEF EndNth
    <3>2. n.list \in {m.list, <<>>}
      BY <1>2, <2>3
    <3> HIDE DEF n
    <3>3. EndNth(n, 2, g) = n
      BY <1>2, <2>1, <2>3, <3>2 DEF EndNth
    <3> QED BY <1>2, <2>3, <3>1, <3>3 DEF EndOthers, n
  <2> QED BY <1>2, <2>2, <2>3
<1>3. CASE m.list = <<>>
  BY <1>3, ListFacts
<1> QED BY <1>1, <1>2, <1>3, ListFacts DEF Lists

(* An acceptance, from the state in which only the accepted gesture is     *)
(* left.                                                                   *)
LEMMA FinishedWins ==
  ASSUME NEW o, Sane(o), NEW g \in Gestures, o.owners \subseteq {g},
         \A h \in Gestures : Active(o, h) => h = g
  PROVE  /\ Sane(Finished(o, g))
         /\ Won(Finished(o, g), g)
         /\ Finished(o, g).state = o.state
         /\ Finished(o, g).maxTouches = o.maxTouches
         /\ Finished(o, g).alt = o.alt
         /\ Finished(o, g).match = o.match
         /\ Finished(o, g).essential = o.essential
         /\ Finished(o, g).post = [o.post EXCEPT ![g] = "accept"]
         /\ Finished(o, g).hold = AcceptCallbacks(o, g).hold
         /\ Finished(o, g).out = AcceptCallbacks(o, g).out
                                  \o Queued(AcceptCallbacks(o, g), g)
<1> DEFINE c == AcceptCallbacks(o, g)
<1>1. /\ Sane(c) /\ c.state = o.state /\ c.match = o.match
      /\ c.essential = o.essential /\ c.post = o.post
      /\ c.maxTouches = o.maxTouches /\ c.alt = o.alt /\ c.owners \subseteq {g}
  <2>1. g # "drag" => ~Active(o, "drag")
    BY GestureSet
  <2> QED BY <2>1, AcceptCallbacksSane
<1> HIDE DEF c
<1> DEFINE p == PostStaged(c, g)
<1>2. /\ Sane(p) /\ p \in Managers /\ Kept(c, p)
      /\ p.staged = NothingStaged /\ p.owners \subseteq {g}
      /\ p.out = c.out \o Queued(c, g)
  BY <1>1, PostStagedSane DEF Sane
<1> HIDE DEF p
<1> DEFINE post == [p.post EXCEPT ![g] = "accept"]
           n == [p EXCEPT !.accepted = g, !.post = post, !.list = <<>>]
<1>3. Finished(o, g) = n
  BY <1>2 DEF Finished, p, c, Managers
<1>4. post \in [Gestures -> {"null", "stage", "accept"}] /\ post[g] = "accept"
  BY <1>2 DEF Managers
<1> HIDE DEF post
<1>5. n \in Managers
  <2>1. <<>> \in Seq(Gestures) /\ g \in Gestures \cup {Nobody}
    OBVIOUS
  <2> QED BY <1>2, <1>4, <2>1 DEF Managers
<1>6. /\ n.state = p.state /\ n.maxTouches = p.maxTouches /\ n.alt = p.alt
      /\ n.match = p.match /\ n.essential = p.essential
      /\ n.post = post /\ n.staged = p.staged /\ n.owners = p.owners
      /\ n.out = p.out /\ n.loaded = p.loaded /\ n.hold = p.hold
      /\ n.readGarbage = p.readGarbage
      /\ n.accepted = g /\ n.list = <<>>
  BY <1>2 DEF Managers
<1> HIDE DEF n
<1>7. Sane(n)
  BY <1>2, <1>5, <1>6 DEF Sane, Active
<1>8. Won(n, g)
  BY <1>1, <1>2, <1>4, <1>6 DEF Won, Active, Kept
<1>9. /\ n.state = o.state /\ n.maxTouches = o.maxTouches /\ n.alt = o.alt
      /\ n.match = o.match /\ n.essential = o.essential
      /\ n.post = [o.post EXCEPT ![g] = "accept"]
  BY <1>1, <1>2, <1>6 DEF Kept, post
<1>10. n.hold = c.hold /\ n.out = c.out \o Queued(c, g)
  BY <1>2, <1>6 DEF Kept
<1> QED BY <1>3, <1>7, <1>8, <1>9, <1>10 DEF c

(* What it queues: what drag has staged, or what another gesture has with  *)
(* the end of a former drag.                                               *)
LEMMA FinishedTalk ==
  ASSUME NEW o, Sane(o), NEW g \in Gestures, o.owners = {},
         \A h \in Gestures : Active(o, h) => h = g,
         g # "drag" => PlainOf(o, g)
  PROVE  IF g = "drag"
           THEN /\ Actions(Finished(o, g).out) = o.staged["drag"]
                /\ Finished(o, g).hold = o.hold
           ELSE /\ Finished(o, g).hold # "open"
                /\ Quelled(Actions(Finished(o, g).out), o.hold = "open")
                /\ o.hold = "open" /\ o.post[g] = "stage" =>
                     \E i \in 1..Len(Finished(o, g).out) :
                       Cancelling(Finished(o, g).out[i].action)
<1> DEFINE c == AcceptCallbacks(o, g)
           f == Finished(o, g)
<1>1. f.hold = c.hold /\ f.out = c.out \o Queued(c, g)
  BY FinishedWins
<1>2. o.out = <<>>
  BY NothingOut
<1>3. g # "drag" => ~Active(o, "drag")
  BY GestureSet
<1>4. Sane(c) /\ c \in Managers
  BY <1>3, AcceptCallbacksSane DEF Sane
<1>5. /\ g = "drag" => c = o
      /\ g # "drag" => c.hold # "open"
      /\ o.hold # "open" \/ o.post[g] = "null" =>
           c.staged = o.staged /\ c.out = o.out
      /\ g # "drag" /\ o.hold = "open" /\ o.post[g] = "stage" =>
           /\ c.out = o.out
           /\ c.staged[g] = Append(Append(o.staged[g], ButtonUp(DragButton)),
                                   ButtonUpCancel)
      /\ g # "drag" /\ o.hold = "open" /\ o.post[g] = "accept" =>
           /\ c.staged = o.staged
           /\ c.out = Append(Append(o.out, Entry(g, ButtonUp(DragButton))),
                             Entry(g, ButtonUpCancel))
  BY <1>3, CallbacksQuell
<1> HIDE DEF c, f
<1>6. c.out = <<>> => Actions(f.out) = c.staged[g]
  BY <1>1, <1>4, QueuedActions
<1>7. CASE g = "drag"
  BY <1>1, <1>2, <1>5, <1>6, <1>7 DEF f
<1>8. CASE g # "drag" /\ (o.hold # "open" \/ o.post[g] = "null")
  <2>1. Actions(f.out) = o.staged[g]
    BY <1>2, <1>5, <1>6, <1>8
  <2>2. Quelled(Actions(f.out), o.hold = "open")
    BY <1>8, <2>1 DEF Quelled, PlainOf
  <2> QED BY <1>1, <1>5, <1>8, <2>2 DEF f
<1>9. CASE g # "drag" /\ o.hold = "open" /\ o.post[g] = "stage"
  <2>1. Actions(f.out) = Append(Append(o.staged[g], ButtonUp(DragButton)),
                                ButtonUpCancel)
    BY <1>2, <1>5, <1>6, <1>9
  <2>2. /\ o.staged[g] \in Seq(Postable)
        /\ \A i \in 1..Len(o.staged[g]) : Plain(o.staged[g][i])
    BY <1>9 DEF Sane, Managers, PlainOf
  <2>3. /\ Quelled(Actions(f.out), TRUE)
        /\ \E i \in 1..Len(Actions(f.out)) : Cancelling(Actions(f.out)[i])
    BY <2>1, <2>2, QuellStaged
  <2>4. \E i \in 1..Len(f.out) : Cancelling(f.out[i].action)
    <3>1. f.out \in Seq(Entries)
      <4>1. Sane(f)
        BY FinishedWins DEF f
      <4> QED BY <4>1 DEF Sane, Managers
    <3>2. /\ Len(Actions(f.out)) = Len(f.out)
          /\ \A i \in 1..Len(f.out) : Actions(f.out)[i] = f.out[i].action
      BY <3>1 DEF Actions
    <3> QED BY <2>3, <3>2
  <2> QED BY <1>1, <1>5, <1>9, <2>3, <2>4 DEF f
<1>10. CASE g # "drag" /\ o.hold = "open" /\ o.post[g] = "accept"
  <2>1. o.staged[g] \in Seq(Postable)
    BY DEF Sane, Managers
  <2>2. /\ Queued(c, g) \in Seq(Entries)
        /\ \A i \in 1..Len(Queued(c, g)) : Plain(Queued(c, g)[i].action)
    BY <1>5, <1>10, <2>1 DEF Queued, Entry, Entries, PlainOf
  <2>3. Quelled(Actions(f.out), TRUE)
    BY <1>1, <1>2, <1>5, <1>10, <2>2, QuellFirst
  <2> QED BY <1>1, <1>5, <1>10, <2>3 DEF f
<1>11. o.post[g] \in {"null", "stage", "accept"}
  BY DEF Sane, Managers
<1> QED BY <1>7, <1>8, <1>9, <1>10, <1>11

(* A second acceptance of the same gesture adds nothing.                   *)
LEMMA FinishedAgain ==
  ASSUME NEW o, Sane(o), NEW g \in Gestures, o.owners \subseteq {g},
         \A h \in Gestures : Active(o, h) => h = g,
         o.staged = NothingStaged, o.hold # "open", g # "drag"
  PROVE  Finished(o, g).out = o.out /\ Finished(o, g).hold # "open"
<1> DEFINE c == AcceptCallbacks(o, g)
<1>1. Finished(o, g).hold = c.hold /\ Finished(o, g).out = c.out \o Queued(c, g)
  BY FinishedWins
<1>2. g # "drag" => ~Active(o, "drag")
  BY GestureSet
<1>3. c.hold # "open" /\ c.staged = NothingStaged /\ c.out = o.out
  BY <1>2, CallbacksQuell
<1> HIDE DEF c
<1>4. Queued(c, g) = <<>>
  BY <1>3 DEF Queued, NothingStaged
<1>5. o.out \in Seq(Entries)
  BY DEF Sane, Managers
<1> QED BY <1>1, <1>3, <1>4, <1>5

(* What an acceptance promises.                                            *)
Accepts(m, g, n) ==
  /\ Sane(n)
  /\ Won(n, g)
  /\ n.state = m.state
  /\ n.maxTouches = m.maxTouches
  /\ n.alt = m.alt
  /\ n.match[g] = m.match[g]
  /\ n.post[g] = "accept"
  /\ \A h \in ToSet(m.list) \ {g} : Active(m, h) => n.post[h] = "null"
  /\ IF g = "drag"
       THEN Actions(n.out) = m.staged["drag"] /\ n.hold = m.hold
       ELSE /\ n.hold # "open"
            /\ Quelled(Actions(n.out), Opening(m))
            /\ m.hold = "open" /\ m.post[g] = "stage" =>
                 \E i \in 1..Len(n.out) : Cancelling(n.out[i].action)

LEMMA AcceptAlone ==
  ASSUME AskedOnce, NEW m, Sane(m), Competing(m), NEW g \in ToSet(m.list),
         \A h \in ToSet(m.list) \ {g} : h \in Taps => m.match[h] # "MATHING"
  PROVE  Accepts(m, g, Accept(m, g))
<1>1. /\ m \in Managers /\ m.list \in Lists /\ ToSet(m.list) \subseteq Gestures
      /\ m.owners = {} /\ Tame(m)
      /\ \A h \in Gestures :
           Active(m, h) => h \in ToSet(m.list) /\ m.post[h] = "stage"
  BY ListFacts, GestureSet DEF Sane, Competing, Lists
<1>2. ASSUME NEW h \in ToSet(m.list) \ {g}
      PROVE  EndsAlone(m, h, End(m, h))
  BY <1>1, EndAlone
<1>3. \A h \in ToSet(m.list) \ {g} : End(m, h).list \in {m.list, <<>>}
  BY <1>2 DEF EndsAlone
<1> DEFINE o == EndOthers(m, g)
<1>4. \/ ToSet(m.list) = {g} /\ o = m
      \/ \E h \in ToSet(m.list) \ {g} :
           ToSet(m.list) = {g, h} /\ o = End(m, h)
  BY <1>1, <1>3, OtherEnded
<1> HIDE DEF o
<1>5. /\ Sane(o)
      /\ o.owners = {}
      /\ \A h \in Gestures : Active(o, h) => h = g
      /\ o.state = m.state
      /\ o.maxTouches = m.maxTouches
      /\ o.alt = m.alt
      /\ o.match[g] = m.match[g]
      /\ \A h \in ToSet(m.list) \ {g} : Active(m, h) => o.post[h] = "null"
      /\ o.staged[g] = m.staged[g]
      /\ o.post[g] = m.post[g]
      /\ m.hold = "open" => o.hold = "open"
      /\ o.hold = "open" => Opening(m)
      /\ g = "drag" => o.hold = m.hold
  <2>1. CASE ToSet(m.list) = {g} /\ o = m
    BY <1>1, <2>1 DEF Opening
  <2>2. CASE \E h \in ToSet(m.list) \ {g} :
               ToSet(m.list) = {g, h} /\ o = End(m, h)
    <3>1. PICK h \in ToSet(m.list) \ {g} :
                 ToSet(m.list) = {g, h} /\ o = End(m, h)
      BY <2>2
    <3>2. EndsAlone(m, h, o) /\ h \in Gestures /\ h # g
      BY <1>1, <1>2, <3>1
    <3>3. o.owners = {}
      <4>1. CASE Active(m, h)
        BY <1>1, <3>2, <4>1 DEF EndsAlone
      <4>2. CASE ~Active(m, h)
        BY <1>1, <3>1, <4>2, EndInactive
      <4> QED BY <4>1, <4>2
    <3>4. m.match \in [Gestures -> MatchStates] /\ o.match[g] = m.match[g]
      BY <1>1, <3>2 DEF EndsAlone, Managers
    <3>5. \A k \in Gestures : Active(o, k) => k = g
      BY <1>1, <3>1, <3>2, <3>4 DEF EndsAlone, Active
    <3>6. /\ o.staged[g] = m.staged[g] /\ o.post[g] = m.post[g]
          /\ m.hold = "open" => o.hold = "open"
          /\ o.hold = "open" => Opening(m)
          /\ g = "drag" => o.hold = m.hold
      BY <1>1, <3>1, <3>2 DEF EndsAlone, Opening
    <3> QED BY <3>1, <3>2, <3>3, <3>4, <3>5, <3>6 DEF EndsAlone
  <2> QED BY <1>4, <2>1, <2>2
<1>6. /\ Sane(Finished(o, g))
      /\ Won(Finished(o, g), g)
      /\ Finished(o, g).state = o.state
      /\ Finished(o, g).maxTouches = o.maxTouches
      /\ Finished(o, g).alt = o.alt
      /\ Finished(o, g).match = o.match
      /\ Finished(o, g).post = [o.post EXCEPT ![g] = "accept"]
  BY <1>1, <1>5, FinishedWins
<1>9. IF g = "drag"
        THEN /\ Actions(Finished(o, g).out) = m.staged["drag"]
             /\ Finished(o, g).hold = m.hold
        ELSE /\ Finished(o, g).hold # "open"
             /\ Quelled(Actions(Finished(o, g).out), Opening(m))
             /\ m.hold = "open" /\ m.post[g] = "stage" =>
                  \E i \in 1..Len(Finished(o, g).out) :
                    Cancelling(Finished(o, g).out[i].action)
  <2>1. g # "drag" => PlainOf(o, g)
    BY <1>1, <1>5 DEF Tame, PlainOf
  <2> DEFINE f == Finished(o, g)
  <2>2. IF g = "drag"
          THEN Actions(f.out) = o.staged["drag"] /\ f.hold = o.hold
          ELSE /\ f.hold # "open"
               /\ Quelled(Actions(f.out), o.hold = "open")
               /\ o.hold = "open" /\ o.post[g] = "stage" =>
                    \E i \in 1..Len(f.out) : Cancelling(f.out[i].action)
    BY <1>1, <1>5, <2>1, FinishedTalk
  <2> HIDE DEF f
  <2>3. CASE g = "drag"
    BY <1>5, <2>2, <2>3 DEF f
  <2>4. CASE g # "drag"
    <3>1. Quelled(Actions(f.out), Opening(m))
      BY <1>5, <2>2, <2>4 DEF Quelled
    <3> QED BY <1>5, <2>2, <2>4, <3>1 DEF f
  <2> QED BY <2>3, <2>4
<1>7. Accept(m, g) = Finished(o, g)
  BY AcceptIs DEF o
<1>8. o.post \in [Gestures -> {"null", "stage", "accept"}]
  BY <1>5 DEF Sane, Managers
<1>10. /\ Finished(o, g).post[g] = "accept"
       /\ \A h \in Gestures \ {g} : Finished(o, g).post[h] = o.post[h]
  BY <1>1, <1>6, <1>8
<1>11. \A h \in ToSet(m.list) \ {g} :
         Active(m, h) => Finished(o, g).post[h] = "null"
  BY <1>1, <1>5, <1>10
<1>12. /\ Finished(o, g).state = m.state
       /\ Finished(o, g).maxTouches = m.maxTouches
       /\ Finished(o, g).alt = m.alt
       /\ Finished(o, g).match[g] = m.match[g]
  BY <1>5, <1>6
<1>13. Accepts(m, g, Finished(o, g))
  BY ONLY <1>6, <1>9, <1>10, <1>11, <1>12 DEF Accepts
<1> QED BY <1>7, <1>13

-----------------------------------------------------------------------------
(* A gesture tells that it matches or not.                                 *)

Told(m, g, how) ==
  [m EXCEPT !.match[g]  = IF how = "NO" THEN "FAILED" ELSE "OK",
            !.essential = IF how = "ESSENTIAL" THEN @ \cup {g} ELSE @ \ {g}]

LEMMA SetMatchIs ==
  ASSUME NEW m, NEW g, NEW how, m.match[g] = "MATHING"
  PROVE  SetMatch(m, g, how) = StateChange(Told(m, g, how))
BY DEF SetMatch, Told

LEMMA ToldKeeps ==
  ASSUME NEW m, Sane(m), NEW g \in Gestures, NEW how,
         Tells(g, how), m.match[g] = "MATHING"
  PROVE  /\ Sane(Told(m, g, how))
         /\ Competing(m) => Competing(Told(m, g, how))
         /\ \A w : Won(m, w) => Won(Told(m, g, how), w)
         /\ Told(m, g, how).accepted = m.accepted
         /\ Told(m, g, how).state = m.state
         /\ Told(m, g, how).maxTouches = m.maxTouches
         /\ Told(m, g, how).alt = m.alt
         /\ Told(m, g, how).list = m.list
         /\ Told(m, g, how).post = m.post
         /\ Told(m, g, how).staged = m.staged
         /\ Told(m, g, how).out = m.out
         /\ Told(m, g, how).owners = m.owners
         /\ Told(m, g, how).hold = m.hold
         /\ Opening(Told(m, g, how)) <=> Opening(m)
         /\ Told(m, g, how).match[g] = IF how = "NO" THEN "FAILED" ELSE "OK"
         /\ \A h \in Gestures \ {g} :
              Told(m, g, how).match[h] = m.match[h]
         /\ g # "move" => Told(m, g, how).essential = m.essential
         /\ how = "ESSENTIAL" => Told(m, g, how).essential = {"move"}
         /\ g = "move" /\ how # "ESSENTIAL" => Told(m, g, how).essential = {}
<1> DEFINE match == [m.match EXCEPT ![g] = IF how = "NO" THEN "FAILED" ELSE "OK"]
           essential == IF how = "ESSENTIAL" THEN m.essential \cup {g}
                                             ELSE m.essential \ {g}
           n == [m EXCEPT !.match = match, !.essential = essential]
<1>1. m \in Managers
  BY DEF Sane
<1>2. Told(m, g, how) = n
  BY <1>1 DEF Told, Managers
<1>3. /\ match \in [Gestures -> MatchStates]
      /\ match[g] = IF how = "NO" THEN "FAILED" ELSE "OK"
      /\ \A h \in Gestures \ {g} : match[h] = m.match[h]
  BY <1>1 DEF Managers, MatchStates
<1>4. /\ essential \subseteq {"move"}
      /\ g # "move" => essential = m.essential
      /\ how = "ESSENTIAL" => essential = {"move"}
      /\ g = "move" /\ how # "ESSENTIAL" => essential = {}
  BY DEF Sane, Tells
<1>5. "move" \in Gestures /\ "drag" \in Gestures /\ "drag" \notin Taps
  BY GestureSet DEF Taps
<1> HIDE DEF match, essential
<1>6. n \in Managers
  BY <1>1, <1>3, <1>4, <1>5, ZenonT(40) DEF Managers
<1>7. /\ n.state = m.state /\ n.maxTouches = m.maxTouches /\ n.alt = m.alt
      /\ n.list = m.list /\ n.accepted = m.accepted
      /\ n.post = m.post /\ n.staged = m.staged /\ n.owners = m.owners
      /\ n.out = m.out /\ n.loaded = m.loaded /\ n.hold = m.hold
      /\ n.readGarbage = m.readGarbage
      /\ n.match = match /\ n.essential = essential
  BY <1>1 DEF Managers
<1> HIDE DEF n
<1>8. \A h \in Gestures : Active(n, h) => Active(m, h)
  BY <1>3, <1>7 DEF Active
<1>9. Active(n, "drag") <=> Active(m, "drag")
  BY <1>3, <1>5, <1>7 DEF Active, Tells
<1>10. Sane(n)
  BY <1>4, <1>6, <1>7, <1>9 DEF Sane
<1>11. Competing(m) => Competing(n)
  BY <1>7, <1>8 DEF Competing, Tame, PlainOf
<1>13. Opening(n) <=> Opening(m)
  BY <1>7, <1>9 DEF Opening
<1>12. \A w : Won(m, w) => Won(n, w)
  BY <1>7, <1>8 DEF Won
<1> QED BY <1>2, <1>3, <1>4, <1>7, <1>10, <1>11, <1>12, <1>13

(* The one gesture that may be essential is accepted if the list has it.   *)
LEMMA EssentialFirst ==
  ASSUME NEW m, Sane(m), m.list \in Lists
  PROVE  /\ Essentials(m) # {} <=> "move" \in m.essential \cap ToSet(m.list)
         /\ Essentials(m) # {} => m.list[Max(Essentials(m))] = "move"
<1>1. Essentials(m) = {i \in DOMAIN m.list : m.list[i] \in m.essential}
  BY DEF Essentials
<1>2. m.essential \subseteq {"move"}
  BY DEF Sane
<1>3. CASE Essentials(m) = {}
  BY <1>1, <1>3 DEF ToSet
<1>4. CASE Essentials(m) # {}
  <2>1. m.list = <<"move", "tap1">>
    BY <1>1, <1>2, <1>4 DEF Lists
  <2>2. Essentials(m) = {1}
    BY <1>1, <1>2, <1>4, <2>1
  <2>3. Max({1}) = 1
    BY DEF Max
  <2> QED BY <1>2, <1>4, <2>1, <2>2, <2>3, <1>1, ListFacts
<1> QED BY <1>3, <1>4

(* A tap wins its list at once, unless move is essential.                  *)
LEMMA TapMatches ==
  ASSUME AskedOnce, NEW m, NEW t, Asking(m, t)
  PROVE  TapWins(m, t, SetMatch(m, t, "OK"))
<1> DEFINE n == Told(m, t, "OK")
<1>1. /\ Sane(m) /\ Competing(m) /\ t \in Gestures /\ t # "move"
      /\ Tells(t, "OK") /\ m.match[t] = "MATHING"
  BY GestureSet DEF Asking, Tells, Taps
<1>2. /\ Sane(n) /\ Competing(n) /\ n.state = m.state
      /\ n.maxTouches = m.maxTouches
      /\ n.alt = m.alt /\ n.list = m.list /\ n.post = m.post
      /\ n.match[t] = "OK"
      /\ \A h \in Gestures \ {t} : n.match[h] = m.match[h]
      /\ n.essential = m.essential
      /\ n.hold = m.hold
      /\ Opening(n) <=> Opening(m)
  BY <1>1, ToldKeeps
<1>3. SetMatch(m, t, "OK") = StateChange(n)
  BY <1>1, SetMatchIs
<1> HIDE DEF n
<1>4. /\ n.accepted = Nobody /\ n.list \in Lists
      /\ t \in Taps /\ t \in ToSet(n.list)
      /\ ToSet(n.list) \subseteq Gestures
  BY <1>2, ListFacts, GestureSet DEF Competing, Asking, Lists
<1>5. \A h \in Taps \cap ToSet(n.list) : h = t
  BY <1>4, ListFacts DEF Lists, Taps
<1>8. \A h \in Gestures : Active(n, h) => Active(m, h)
  BY <1>1, <1>2 DEF Active
<1>6. CASE Essentials(n) # {}
  <2>1. /\ n.list[Max(Essentials(n))] = "move"
        /\ "move" \in ToSet(n.list)
    BY <1>2, <1>4, <1>6, EssentialFirst
  <2>2. StateChange(n) = Accept(n, "move")
    BY <1>4, <1>6, <2>1 DEF StateChange
  <2>3. Accepts(n, "move", Accept(n, "move"))
    BY <1>2, <1>5, <2>1, AcceptAlone
  <2>4. Active(n, t)
    BY <1>2 DEF Active
  <2> DEFINE a == Accept(n, "move")
  <2>5. \A h \in Gestures : Active(a, h) => Active(m, h)
    BY <1>8, <2>3 DEF Accepts, Won, Active
  <2>6. a.hold # "open" /\ Quelled(Actions(a.out), Opening(m))
    BY <1>2, <2>3 DEF Accepts, Quelled
  <2>7. SetMatch(m, t, "OK") = a
    BY <1>3, <2>2
  <2>8. "move" \in m.essential \cap ToSet(m.list)
    BY <1>2, <1>4, <1>6, EssentialFirst
  <2>9. /\ Sane(a) /\ Won(a, "move") /\ a.post["move"] = "accept"
        /\ a.state = m.state /\ a.maxTouches = m.maxTouches
        /\ a.alt = m.alt /\ a.post[t] = "null"
    BY <1>1, <1>2, <1>4, <2>3, <2>4 DEF Accepts
  <2> HIDE DEF a
  <2> QED
    BY <1>1, <2>5, <2>6, <2>7, <2>8, <2>9 DEF TapWins
<1>7. CASE Essentials(n) = {}
  <2>1. Winners(n) = {t}
    <3>1. \A h \in Gestures : Priority[h] \in Int /\ Priority[h] <= 34
      BY GestureSet DEF Priority
    <3>2. \A h \in ToSet(n.list) \ {t} : Priority[h] < Priority[t]
      BY <1>4, ListFacts DEF Lists, Taps, Priority
    <3>3. t \in Winners(n)
      BY <1>2, <1>4, <3>1, <3>2 DEF Winners
    <3>4. ASSUME NEW h \in Winners(n), h # t PROVE FALSE
      BY <1>2, <1>4, <3>1, <3>2, <3>4 DEF Winners, Active
    <3> QED BY <3>3, <3>4
  <2>2. StateChange(n) = Accept(n, t)
    BY <1>4, <1>7, <2>1 DEF StateChange, Winner
  <2>3. Accepts(n, t, Accept(n, t))
    BY <1>2, <1>4, <1>5, AcceptAlone
  <2>4. "move" \notin m.essential \cap ToSet(m.list)
    BY <1>2, <1>4, <1>7, EssentialFirst
  <2> DEFINE a == Accept(n, t)
  <2>5. \A h \in Gestures : Active(a, h) => Active(m, h)
    BY <1>8, <2>3 DEF Accepts, Won, Active
  <2>6. m.post[t] = "stage" /\ t # "drag"
    BY <1>1, <1>4 DEF Competing, Active, Taps
  <2>7. a.hold # "open" /\ Quelled(Actions(a.out), Opening(m))
    BY <1>2, <2>3, <2>6 DEF Accepts, Quelled
  <2>8. m.hold = "open" => \E i \in 1..Len(a.out) : Cancelling(a.out[i].action)
    BY <1>2, <2>3, <2>6 DEF Accepts
  <2>9. SetMatch(m, t, "OK") = a
    BY <1>3, <2>2
  <2>10. /\ Sane(a) /\ Won(a, t) /\ a.post[t] = "accept"
         /\ a.state = m.state /\ a.maxTouches = m.maxTouches
         /\ a.alt = m.alt
    BY <1>2, <2>3 DEF Accepts
  <2> HIDE DEF a
  <2> QED
    BY <1>1, <2>4, <2>5, <2>7, <2>8, <2>9, <2>10 DEF TapWins
<1> QED BY <1>6, <1>7

(* Ending a tap that still matches ends its recognition.                   *)
LEMMA EndTap ==
  ASSUME AskWins, NEW m, NEW t, Asking(m, t)
  PROVE  /\ Sane(End(m, t))
         /\ End(m, t).state = m.state
         /\ End(m, t).maxTouches = m.maxTouches
         /\ End(m, t).alt = m.alt
         /\ ~Active(End(m, t), t)
         /\ \A h \in Gestures : Active(End(m, t), h) => Active(m, h)
         /\ End(m, t).hold # "open"
         /\ \E w \in {t, "move"} :
              /\ Won(End(m, t), w)
              /\ w = t => ClicksOf(m, End(m, t), t)
              /\ w # t => /\ End(m, t).post[w] = "accept"
                         /\ Quelled(Actions(End(m, t).out), Opening(m))
              /\ w = "move" <=> "move" \in m.essential \cap ToSet(m.list)
<1> DEFINE o == Ask(m, t)
           click == ButtonDownAndUp(TapButton[t])
           n == Post(o, t, click)
<1>1. /\ t \in Taps /\ t \in Gestures /\ "move" \in Gestures
      /\ t # "drag" /\ Active(m, t)
  BY GestureSet DEF Asking, Active, Taps
<1>2. End(m, t) = Cleared(n, t)
  <2>1. OnEnd(m, t) = n
    BY <1>1 DEF OnEnd, Taps
  <2> QED BY <1>1, <2>1 DEF End, Cleared
<1>3. TapWins(m, t, o)
  BY DEF AskWins
<1> HIDE DEF o
<1>4. PICK w \in {t, "move"} :
        /\ Won(o, w)
        /\ o.post[w] = "accept"
        /\ w # t => o.post[t] = "null"
        /\ w = t /\ m.hold = "open" =>
             \E i \in 1..Len(o.out) : Cancelling(o.out[i].action)
        /\ w = "move" <=> "move" \in m.essential \cap ToSet(m.list)
  BY <1>3 DEF TapWins
<1>15. o.hold # "open" /\ Quelled(Actions(o.out), Opening(m))
  BY <1>3 DEF TapWins
<1>5. /\ Sane(o) /\ o.state = m.state /\ o.maxTouches = m.maxTouches
      /\ o.alt = m.alt
      /\ w \in Gestures
  BY <1>1, <1>3 DEF TapWins
<1>6. click \in Postable /\ Clicking(click) /\ click.down = {TapButton[t]}
  BY <1>1, ActionTypes, GestureButtons, ActionKinds
<1> HIDE DEF click
<1>16. Posted(o, t, click, n)
  BY <1>1, <1>5, <1>6, PostPosts
<1>7. Sane(n) /\ Kept(o, n) /\ Won(n, w)
  BY <1>1, <1>4, <1>5, <1>6, <1>16, PostWon DEF Posted
<1>17. IF w = t THEN n.out = Append(o.out, Entry(t, click)) ELSE n.out = o.out
  BY <1>4, <1>16 DEF Posted
<1> HIDE DEF n
<1> DEFINE c == Cleared(n, t)
<1>8. /\ Sane(c) /\ c.state = n.state /\ c.maxTouches = n.maxTouches
      /\ c.alt = n.alt
      /\ c.list = n.list /\ c.accepted = n.accepted /\ c.owners = n.owners
      /\ c.staged = n.staged /\ c.out = n.out /\ c.hold = n.hold
      /\ c.match = [n.match EXCEPT ![t] = "NONE"]
      /\ c.post = [n.post EXCEPT ![t] = "null"]
  BY <1>1, <1>7, ClearedSane
<1>9. /\ n.match \in [Gestures -> MatchStates]
      /\ n.post \in [Gestures -> {"null", "stage", "accept"}]
  BY <1>7 DEF Sane, Managers
<1> HIDE DEF c
<1>10. ~Active(c, t)
  BY <1>1, <1>8, <1>9 DEF Active
<1>11. \A h \in Gestures : Active(c, h) => h # t /\ Active(n, h) /\ c.post[h] = n.post[h]
  BY <1>8, <1>9, <1>10 DEF Active
<1>12. Won(c, w)
  BY <1>7, <1>8, <1>11 DEF Won
<1>14. \A h \in Gestures : Active(c, h) => Active(m, h)
  BY <1>3, <1>7, <1>11 DEF TapWins, Kept, Active
<1>13. w # t => c.post[w] = "accept"
  BY <1>4, <1>5, <1>7, <1>8, <1>9 DEF Kept
<1>18. c.hold # "open"
  BY <1>7, <1>8, <1>15 DEF Kept
<1>19. w = t => ClicksOf(m, c, t)
  <2> SUFFICES ASSUME w = t PROVE ClicksOf(m, c, t)
    OBVIOUS
  <2>1. o.out \in Seq(Entries) /\ Entry(t, click) \in Entries
    BY <1>1, <1>5, <1>6 DEF Sane, Managers, Entry, Entries
  <2>2. Quelled(Actions(o.out), TRUE)
    BY <1>15 DEF Quelled
  <2>3. /\ Entry(t, click).by = t
        /\ Entry(t, click).action.down = {TapButton[t]}
        /\ Clicking(Entry(t, click).action)
    BY <1>1, <1>6 DEF Entry
  <2>4. c.out = Append(o.out, Entry(t, click))
    BY <1>8, <1>17
  <2> QED BY <1>4, <1>18, <2>1, <2>2, <2>3, <2>4 DEF ClicksOf
<1>20. w # t => Quelled(Actions(c.out), Opening(m))
  BY <1>8, <1>15, <1>17
<1>21. End(m, t) = c
  BY <1>2 DEF c
<1>22. Sane(c) /\ c.state = m.state /\ c.maxTouches = m.maxTouches /\ c.alt = m.alt
  BY <1>5, <1>7, <1>8 DEF Kept
<1> QED
  BY <1>4, <1>10, <1>12, <1>13, <1>14, <1>18, <1>19, <1>20, <1>21, <1>22

(* An essential move is accepted although the tap is still matching: the   *)
(* tap's end accepts move, too, and this acceptance does it again.         *)
LEMMA AcceptOver ==
  ASSUME AskedOnce, AskWins, NEW m, Sane(m), Competing(m),
         "move" \in m.essential \cap ToSet(m.list)
  PROVE  /\ Sane(Accept(m, "move"))
         /\ Won(Accept(m, "move"), "move")
         /\ Accept(m, "move").state = m.state
         /\ Accept(m, "move").maxTouches = m.maxTouches
         /\ Accept(m, "move").alt = m.alt
         /\ Accept(m, "move").post["move"] = "accept"
         /\ Accept(m, "move").hold # "open"
         /\ Quelled(Actions(Accept(m, "move").out), m.hold = "open")
<1>1. /\ m.list \in Lists /\ "move" \in Gestures
      /\ ToSet(m.list) = {"move", "tap1"}
  BY ListFacts, GestureSet DEF Competing, Lists
<1>4. ~Active(m, "drag") /\ Opening(m) = (m.hold = "open")
  BY <1>1, GestureSet DEF Competing, Opening
<1>2. CASE m.match["tap1"] # "MATHING"
  <2>1. Accepts(m, "move", Accept(m, "move"))
    BY <1>1, <1>2, AcceptAlone
  <2> QED BY <1>4, <2>1 DEF Accepts
<1>3. CASE m.match["tap1"] = "MATHING"
  <2> DEFINE o == End(m, "tap1")
  <2>1. Asking(m, "tap1")
    BY <1>1, <1>3 DEF Asking, Taps
  <2>2. /\ Sane(o) /\ o.state = m.state /\ o.maxTouches = m.maxTouches
        /\ o.alt = m.alt
        /\ Won(o, "move") /\ o.post["move"] = "accept"
        /\ o.hold # "open" /\ Quelled(Actions(o.out), m.hold = "open")
    BY <1>4, <2>1, EndTap
  <2>3. o.list = <<>>
    BY <2>2 DEF Won
  <2>4. EndOthers(m, "move") = o
    <3>1. ToSet(m.list) \ {"move"} = {"tap1"}
      BY <1>1
    <3> QED BY <1>1, <2>3, <3>1, OtherEnded
  <2>5. Accept(m, "move") = Finished(o, "move")
    BY <2>4, AcceptIs
  <2> HIDE DEF o
  <2>6. /\ Sane(Finished(o, "move"))
        /\ Won(Finished(o, "move"), "move")
        /\ Finished(o, "move").state = o.state
        /\ Finished(o, "move").maxTouches = o.maxTouches
        /\ Finished(o, "move").alt = o.alt
        /\ Finished(o, "move").post = [o.post EXCEPT !["move"] = "accept"]
    BY <1>1, <2>2, FinishedWins DEF Won
  <2>8. /\ Finished(o, "move").hold # "open"
        /\ Finished(o, "move").out = o.out
    <3>1. /\ o.owners \subseteq {"move"} /\ o.staged = NothingStaged
          /\ \A h \in Gestures : Active(o, h) => h = "move"
      BY <2>2 DEF Won
    <3> QED BY <1>1, <2>2, <3>1, FinishedAgain
  <2>7. o.post \in [Gestures -> {"null", "stage", "accept"}]
    BY <2>2 DEF Sane, Managers
  <2> QED BY <1>1, <2>2, <2>5, <2>6, <2>7, <2>8
<1> QED BY <1>2, <1>3

-----------------------------------------------------------------------------
(* What telling does to the phase of the recognition.                      *)

LEMMA MatchedOnce ==
  ASSUME NEW m, NEW g, NEW how, m.match[g] # "MATHING"
  PROVE  SetMatch(m, g, how) = m
BY DEF SetMatch

LEMMA SetMatchDecides ==
  ASSUME AskedOnce, AskWins, NEW m, Sane(m), Recognising(m),
         NEW g \in Gestures, NEW how, TellsDown(g, how),
         m.match[g] = "MATHING"
  PROVE  Decided(m, g, SetMatch(m, g, how))
<1> DEFINE n == Told(m, g, how)
<1>1. /\ Competing(m) /\ Undecided(m) /\ Tells(g, how)
      /\ g \in Taps <=> how = "NO"
  BY DEF Recognising, TellsDown, Tells
<1>2. /\ Sane(n) /\ Competing(n) /\ n.state = m.state
      /\ n.maxTouches = m.maxTouches
      /\ n.alt = m.alt /\ n.list = m.list /\ n.post = m.post
      /\ n.staged = m.staged /\ n.hold = m.hold
      /\ n.match[g] = IF how = "NO" THEN "FAILED" ELSE "OK"
      /\ \A h \in Gestures \ {g} : n.match[h] = m.match[h]
  BY <1>1, ToldKeeps
<1>3. SetMatch(m, g, how) = StateChange(n)
  BY SetMatchIs
<1> HIDE DEF n
<1>4. /\ n.accepted = Nobody /\ n.list \in Lists
      /\ ToSet(n.list) \subseteq Gestures /\ Taps \subseteq Gestures
      /\ g \in ToSet(n.list)
  BY <1>1, <1>2, ListFacts, GestureSet DEF Competing, Lists, Active
<1>5. \A t \in Taps \cap ToSet(n.list) : \A u \in Taps \cap ToSet(n.list) : u = t
  BY <1>4, ListFacts DEF Lists, Taps
<1>6. \A h \in ToSet(n.list) \ Taps : \A k \in ToSet(n.list) \ Taps : k = h
  BY <1>4, ListFacts DEF Lists, Taps
<1>7. \A h \in Taps : n.match[h] # "OK"
  <2> SUFFICES ASSUME NEW h \in Taps, n.match[h] = "OK" PROVE FALSE
    OBVIOUS
  <2>1. h # g /\ m.match[h] = "OK"
    BY <1>1, <1>2, <1>4
  <2>2. h \in ToSet(m.list)
    BY <1>1, <1>4, <2>1 DEF Competing, Active
  <2>3. PICK t \in Taps \cap ToSet(m.list) : m.match[t] = "MATHING"
    BY <1>1, <1>4, <2>1 DEF Undecided
  <2> QED BY <1>2, <1>5, <2>1, <2>2, <2>3
<1>8. \A h \in Taps : \A k \in ToSet(n.list) \ Taps : Priority[k] < Priority[h]
  <2>1. ToSet(n.list) \ Taps \subseteq {"move", "scroll", "drag"}
    BY <1>4, GestureSet DEF Taps
  <2> QED BY <2>1 DEF Taps, Priority
<1>9. CASE Essentials(n) # {}
  <2>1. /\ n.list[Max(Essentials(n))] = "move"
        /\ "move" \in n.essential \cap ToSet(n.list)
    BY <1>2, <1>4, <1>9, EssentialFirst
  <2>2. StateChange(n) = Accept(n, "move")
    BY <1>4, <1>9, <2>1 DEF StateChange
  <2> DEFINE a == Accept(n, "move")
  <2>3. /\ Sane(a) /\ Won(a, "move") /\ a.state = n.state
        /\ a.maxTouches = n.maxTouches
        /\ a.alt = n.alt /\ a.post["move"] = "accept"
        /\ a.hold # "open" /\ Quelled(Actions(a.out), n.hold = "open")
    BY <1>2, <2>1, AcceptOver
  <2> HIDE DEF a
  <2>4. Owned(a) /\ a.accepted = "move"
    BY <2>3, GestureSet DEF Owned, Won, Taps
  <2>5. g \notin Taps => g = "move"
    BY <1>4, <1>6, <2>1 DEF Taps
  <2>6. Hushes(m, a.accepted, a) /\ a.accepted \in ToSet(m.list)
    BY <1>2, <2>1, <2>3, <2>4 DEF Hushes
  <2>7. SetMatch(m, g, how) = a
    BY <1>3, <2>2 DEF a
  <2> QED BY <1>2, <2>3, <2>4, <2>5, <2>6, <2>7 DEF Decided
<1>10. CASE Essentials(n) = {} /\ Winners(n) # {}
  <2> DEFINE w == Winner(n)
  <2>1. w \in Winners(n)
    BY <1>10 DEF Winner
  <2>2. StateChange(n) = Accept(n, w)
    BY <1>4, <1>10 DEF StateChange
  <2> HIDE DEF w
  <2>3. /\ w \in ToSet(n.list) \ Taps /\ w \in Gestures
        /\ n.match[w] = "OK"
        /\ \A h \in ToSet(n.list) : Active(n, h) => Priority[h] <= Priority[w]
    BY <1>4, <1>7, <2>1 DEF Winners
  <2>4. \A h \in ToSet(n.list) : h \in Taps => n.match[h] # "MATHING"
    <3> SUFFICES ASSUME NEW h \in ToSet(n.list), h \in Taps,
                        n.match[h] = "MATHING"
                 PROVE  FALSE
      OBVIOUS
    <3>1. Priority[h] <= Priority[w] /\ Priority[w] < Priority[h]
      BY <1>8, <2>3 DEF Active
    <3>2. Priority[h] \in Int /\ Priority[w] \in Int
      BY <2>3, GestureSet DEF Priority, Taps
    <3> QED BY <3>1, <3>2
  <2> DEFINE a == Accept(n, w)
  <2>5. Accepts(n, w, a)
    BY <1>2, <2>3, <2>4, AcceptAlone
  <2> HIDE DEF a
  <2>6. Owned(a) /\ a.accepted = w
    BY <2>3, <2>5 DEF Accepts, Owned, Won
  <2>7. g \notin Taps => g = w
    BY <1>4, <1>6, <2>3
  <2>8. SetMatch(m, g, how) = a
    BY <1>3, <2>2 DEF a
  <2>9. w # "drag" => ~Active(n, "drag")
    <3>1. "drag" \in Gestures \ Taps
      BY GestureSet DEF Taps
    <3> QED BY <1>2, <1>6, <2>3, <3>1 DEF Competing
  <2>10. Hushes(m, w, a)
    BY <1>2, <2>5, <2>9 DEF Hushes, Accepts, Opening
  <2>11. w = "drag" => g = "drag" \/ m.match["drag"] = "OK"
    BY <1>2, <2>3
  <2>12. w \in ToSet(m.list)
    BY <1>2, <2>3
  <2>13. /\ Sane(a) /\ a.state = m.state /\ a.maxTouches = m.maxTouches
         /\ a.alt = m.alt /\ a.post[w] = "accept"
    BY <1>2, <2>5 DEF Accepts
  <2> QED
    BY <2>6, <2>7, <2>8, <2>10, <2>11, <2>12, <2>13 DEF Decided
<1>11. CASE Essentials(n) = {} /\ Winners(n) = {}
  <2>1. StateChange(n) = n
    BY <1>4, <1>11 DEF StateChange
  <2>2. Undecided(n)
    <3> SUFFICES ASSUME NEW x \in Gestures
                 PROVE  IF n.match[x] = "OK"
                          THEN \E t \in Taps \cap ToSet(n.list) :
                                 n.match[t] = "MATHING"
                          ELSE HarmlessOf(n, x)
      BY DEF Undecided
    <3>1. CASE n.match[x] = "OK"
      <4>1. x \in ToSet(n.list) \ Taps
        BY <1>2, <1>7, <3>1 DEF Competing, Active
      <4>2. PICK h \in ToSet(n.list) :
                   Active(n, h) /\ ~(Priority[h] <= Priority[x])
        BY <1>11, <3>1, <4>1 DEF Winners
      <4>3. h \in Taps
        <5>1. Priority[x] \in Int
          BY GestureSet DEF Priority
        <5>2. h # x
          BY <4>2, <5>1
        <5> QED BY <1>6, <4>1, <4>2, <5>2
      <4> QED BY <1>7, <3>1, <4>2, <4>3 DEF Active
    <3>2. CASE n.match[x] # "OK"
      <4>1. m.match[x] # "OK"
        BY <1>2, <3>2
      <4> QED BY <1>1, <1>2, <3>2, <4>1 DEF Undecided, HarmlessOf
    <3> QED BY <3>1, <3>2
  <2>3. g \notin Taps => n.match[g] = "OK" /\ n.post[g] = "stage"
    BY <1>1, <1>2 DEF Competing, Active
  <2> QED BY <1>2, <1>3, <2>1, <2>2, <2>3 DEF Decided, Recognising
<1> QED BY <1>9, <1>10, <1>11

(* The accepted gesture may tell late: nothing is accepted again.          *)
LEMMA SetMatchOwned ==
  ASSUME NEW m, Sane(m), Owned(m), NEW how, TellsDown(m.accepted, how)
  PROVE  /\ Sane(SetMatch(m, m.accepted, how))
         /\ Owned(SetMatch(m, m.accepted, how))
         /\ SetMatch(m, m.accepted, how).accepted = m.accepted
         /\ SetMatch(m, m.accepted, how).state = m.state
         /\ SetMatch(m, m.accepted, how).maxTouches = m.maxTouches
         /\ SetMatch(m, m.accepted, how).alt = m.alt
         /\ SetMatch(m, m.accepted, how).post = m.post
         /\ SetMatch(m, m.accepted, how).staged = m.staged
         /\ SetMatch(m, m.accepted, how).out = m.out
         /\ SetMatch(m, m.accepted, how).hold = m.hold
         /\ SetMatch(m, m.accepted, how).match["drag"] = m.match["drag"]
<1> DEFINE g == m.accepted
           n == Told(m, g, how)
<1>1. g \in Gestures \ Taps /\ g # Nobody /\ Won(m, g)
  BY GestureSet DEF Owned
<1>2. CASE m.match[g] # "MATHING"
  BY <1>2, MatchedOnce
<1>3. CASE m.match[g] = "MATHING"
  <2>1. /\ Sane(n) /\ Won(n, g) /\ n.accepted = g /\ n.state = m.state
        /\ n.maxTouches = m.maxTouches /\ n.alt = m.alt /\ n.post = m.post
        /\ n.staged = m.staged /\ n.out = m.out /\ n.hold = m.hold
        /\ \A h \in Gestures \ {g} : n.match[h] = m.match[h]
    BY <1>1, <1>3, ToldKeeps DEF TellsDown
  <2>2. SetMatch(m, g, how) = n
    <3>1. SetMatch(m, g, how) = StateChange(n)
      BY <1>3, SetMatchIs
    <3> HIDE DEF n
    <3> QED BY <1>1, <2>1, <3>1 DEF StateChange
  <2>3. g # "drag"
    BY <1>3 DEF Owned
  <2> HIDE DEF n
  <2>4. Owned(n)
    BY <1>1, <2>1, <2>3 DEF Owned
  <2>5. n.match["drag"] = m.match["drag"]
    BY <2>1, <2>3, GestureSet
  <2> QED BY <2>1, <2>2, <2>4, <2>5
<1> QED BY <1>2, <1>3

-----------------------------------------------------------------------------
(* Ending all gestures of a list.                                          *)

EndRound(n, i) == IF i <= Len(n.list) THEN End(n, n.list[i]) ELSE n
EndAll(m)      == EndRound(EndRound(m, 1), 2)

(* No tap can match any more.                                              *)
Losing(m) ==
  /\ Sane(m)
  /\ Competing(m)
  /\ \A t \in Taps : ~Active(m, t)
  /\ \A g \in Gestures : HarmlessOf(m, g)

LEMMA EndLosing ==
  ASSUME AskedOnce, NEW m, Losing(m), NEW g \in Gestures
  PROVE  /\ Losing(End(m, g))
         /\ End(m, g).state = m.state
         /\ End(m, g).maxTouches = m.maxTouches
         /\ End(m, g).alt = m.alt
         /\ End(m, g).list = m.list
         /\ ~Active(End(m, g), g)
         /\ \A h \in Gestures : Active(End(m, g), h) => Active(m, h)
<1> DEFINE n == End(m, g)
<1>1. /\ Sane(m) /\ Competing(m) /\ m.match \in [Gestures -> MatchStates]
      /\ Taps \subseteq Gestures
  BY GestureSet DEF Losing, Sane, Managers
<1>2. CASE ~Active(m, g)
  BY <1>2, EndInactive
<1>3. CASE Active(m, g)
  <2>1. g \notin Taps /\ m.post[g] = "stage"
    BY <1>1, <1>3 DEF Losing, Competing
  <2>2. EndsAlone(m, g, n)
    BY <1>1, <2>1, EndAlone
  <2> HIDE DEF n
  <2>3. /\ Sane(n) /\ n.state = m.state /\ n.maxTouches = m.maxTouches
        /\ n.alt = m.alt
        /\ n.list = m.list /\ n.accepted = m.accepted
        /\ n.match = [m.match EXCEPT ![g] = "NONE"]
        /\ \A h \in Gestures \ {g} : n.post[h] = m.post[h]
        /\ n.owners = m.owners
        /\ \A h \in Gestures : HarmlessOf(n, h)
        /\ Tame(n)
    BY <1>1, <1>3, <2>1, <2>2 DEF EndsAlone, Losing, Competing
  <2>4. ~Active(n, g) /\ \A h \in Gestures : Active(n, h) => h # g /\ Active(m, h)
    BY <1>1, <2>3 DEF Active
  <2>5. Losing(n)
    BY <1>1, <2>3, <2>4 DEF Losing, Competing
  <2> QED BY <2>3, <2>4, <2>5 DEF n
<1> QED BY <1>2, <1>3

LEMMA EndAllLosing ==
  ASSUME AskedOnce, NEW m, Losing(m)
  PROVE  Over(m, EndAll(m))
<1> DEFINE n1 == EndRound(m, 1)
           n2 == EndRound(n1, 2)
<1>1. /\ m.list \in Lists
      /\ \A i \in 1..Len(m.list) : m.list[i] \in Gestures
      /\ Len(m.list) \in 0..2
      /\ ToSet(m.list) = {m.list[i] : i \in 1..Len(m.list)}
  <2>1. m.list \in Lists
    BY DEF Losing, Competing
  <2>2. Len(m.list) \in 0..2
    BY <2>1, ListFacts DEF Lists
  <2>3. m.list \in Seq(Gestures)
    BY <2>1, ListFacts
  <2>4. DOMAIN m.list = 1..Len(m.list)
    BY <2>3
  <2> QED BY <2>1, <2>2, <2>3, <2>4 DEF ToSet
<1>2. ASSUME NEW n, Losing(n), NEW i \in 1..2, n.list = m.list
      PROVE  /\ Losing(EndRound(n, i))
             /\ EndRound(n, i).state = n.state
             /\ EndRound(n, i).maxTouches = n.maxTouches
             /\ EndRound(n, i).alt = n.alt
             /\ EndRound(n, i).list = n.list
             /\ i <= Len(m.list) => ~Active(EndRound(n, i), m.list[i])
             /\ \A h \in Gestures : Active(EndRound(n, i), h) => Active(n, h)
  <2>1. CASE i <= Len(m.list)
    <3>1. n.list[i] \in Gestures /\ EndRound(n, i) = End(n, n.list[i])
      BY <1>1, <1>2, <2>1, GestureSet DEF EndRound
    <3> QED BY <1>2, <2>1, <3>1, EndLosing
  <2>2. CASE ~(i <= Len(m.list))
    <3>1. EndRound(n, i) = n
      BY <1>2, <2>2 DEF EndRound
    <3> QED BY <1>2, <2>2, <3>1
  <2> QED BY <2>1, <2>2
<1>3. /\ Losing(n1) /\ n1.state = m.state /\ n1.maxTouches = m.maxTouches
      /\ n1.alt = m.alt
      /\ n1.list = m.list
      /\ 1 <= Len(m.list) => ~Active(n1, m.list[1])
  BY <1>2
<1> HIDE DEF n1
<1>4. /\ Losing(n2) /\ n2.state = m.state /\ n2.maxTouches = m.maxTouches
      /\ n2.alt = m.alt
      /\ n2.list = m.list
      /\ 2 <= Len(m.list) => ~Active(n2, m.list[2])
      /\ \A h \in Gestures : Active(n2, h) => Active(n1, h)
  BY <1>2, <1>3
<1> HIDE DEF n2
<1>5. ASSUME NEW g \in Gestures, Active(n2, g) PROVE FALSE
  <2>1. g \in ToSet(m.list)
    BY <1>4, <1>5 DEF Losing, Competing
  <2>2. PICK i \in 1..Len(m.list) : g = m.list[i]
    BY <1>1, <2>1
  <2>3. i = 1 \/ i = 2
    BY <1>1
  <2> QED BY <1>1, <1>3, <1>4, <1>5, <2>2, <2>3
<1>6. EndAll(m) = n2
  BY DEF EndAll, n1, n2
<1>7. "move" \in Gestures \ {"drag"}
  BY GestureSet
<1>8. Quelled(Actions(n2.out), TRUE)
  <2>1. n2.out = <<>>
    BY <1>4, NothingOut DEF Losing, Competing
  <2> QED BY <2>1 DEF Quelled, Actions
<1> QED BY <1>4, <1>5, <1>6, <1>7, <1>8 DEF Over, Losing, Competing

LEMMA EndAllOver ==
  ASSUME AskedOnce, AskWins, NEW m, Sane(m), Recognising(m)
  PROVE  /\ Over(m, EndAll(m))
         /\ m.essential = {} =>
              \A t \in Taps \cap ToSet(m.list) :
                m.match[t] = "MATHING" => ClicksOf(m, EndAll(m), t)
<1>1. /\ Competing(m) /\ Undecided(m) /\ m.list \in Lists
      /\ Taps \subseteq Gestures /\ "move" \in Gestures
      /\ m.match \in [Gestures -> MatchStates]
  BY GestureSet DEF Recognising, Competing, Sane, Managers
<1>2. CASE \A t \in Taps \cap ToSet(m.list) : m.match[t] # "MATHING"
  <2>1. \A g \in Gestures : m.match[g] # "OK" /\ HarmlessOf(m, g)
    BY <1>1, <1>2 DEF Undecided
  <2>2. \A t \in Taps : ~Active(m, t)
    BY <1>1, <1>2, <2>1 DEF Competing, Active
  <2>3. Losing(m)
    BY <1>1, <2>1, <2>2 DEF Losing
  <2> QED BY <1>2, <2>3, EndAllLosing
<1>3. ASSUME NEW n, NEW t, Asking(n, t), ~Active(n, "move"),
             n.state = m.state, n.maxTouches = m.maxTouches,
             n.alt = m.alt, n.hold = m.hold, n.essential = m.essential
      PROVE  /\ Over(m, End(n, t)) /\ End(n, t).list = <<>>
             /\ m.essential = {} => ClicksOf(m, End(n, t), t)
  <2> DEFINE e == End(n, t)
  <2>1. PICK w \in {t, "move"} :
              /\ Won(e, w)
              /\ w = t => ClicksOf(n, e, t)
              /\ w # t => Quelled(Actions(e.out), Opening(n))
              /\ w = "move" <=> "move" \in n.essential \cap ToSet(n.list)
    BY <1>3, EndTap
  <2>2. /\ Sane(e) /\ e.state = m.state /\ e.maxTouches = m.maxTouches
        /\ e.alt = m.alt
        /\ ~Active(e, t) /\ ~Active(e, "move")
    BY <1>1, <1>3, EndTap
  <2> HIDE DEF e
  <2>3. /\ \A g \in Gestures : ~Active(e, g)
        /\ e.list = <<>> /\ e.staged = NothingStaged
        /\ e.owners \subseteq {w}
    BY <2>1, <2>2 DEF Won
  <2>4. \A g \in Gestures : HarmlessOf(e, g) /\ PlainOf(e, g)
    BY <2>3 DEF HarmlessOf, PlainOf, NothingStaged
  <2>7. w = t => ClicksOf(m, e, t)
    BY <1>3, <2>1 DEF ClicksOf
  <2>8. m.essential = {} => w = t
    BY <1>3, <2>1
  <2>6. Quelled(Actions(e.out), TRUE) \/ Clicks(m, e)
    <3>1. CASE w = t
      BY <1>3, <2>7, <3>1 DEF Clicks, Asking
    <3>2. CASE w # t
      BY <2>1, <3>2 DEF Quelled
    <3> QED BY <3>1, <3>2
  <2>5. w \in Gestures \ {"drag"}
    BY <1>1, <1>3, <2>1 DEF Asking, Taps
  <2>9. Over(m, e)
    BY <2>2, <2>3, <2>4, <2>5, <2>6 DEF Over, Tame
  <2> QED BY <2>3, <2>7, <2>8, <2>9 DEF e
<1>4. ASSUME NEW t \in Taps \cap ToSet(m.list), m.match[t] = "MATHING"
      PROVE  /\ Over(m, EndAll(m))
             /\ m.essential = {} => ClicksOf(m, EndAll(m), t)
  <2>1. Asking(m, t)
    BY <1>1, <1>4 DEF Asking
  <2>2. CASE m.list = <<"move", "tap1">>
    <3> DEFINE n == End(m, "move")
    <3>1. t = "tap1"
      BY <1>4, <2>2, ListFacts DEF Taps
    <3>2. EndsAlone(m, "move", n)
      BY <1>1, EndAlone DEF Taps
    <3>3. /\ ~Active(m, "move") => n = m
          /\ Active(m, "move") => m.post["move"] = "stage"
      BY <1>1, EndInactive DEF Competing
    <3> HIDE DEF n
    <3>4. /\ Sane(n) /\ n.state = m.state /\ n.maxTouches = m.maxTouches
          /\ n.alt = m.alt
          /\ n.list = m.list /\ n.accepted = m.accepted
          /\ n.essential = m.essential
          /\ \A h \in Gestures \ {"move"} :
               n.match[h] = m.match[h] /\ n.post[h] = m.post[h]
          /\ ~Active(n, "move")
          /\ n.owners = m.owners
          /\ n.hold = m.hold
          /\ Tame(m) => Tame(n)
      BY <1>1, <3>2, <3>3 DEF EndsAlone, Active, Taps
    <3>5. Competing(n)
      BY <1>1, <3>4 DEF Competing, Active
    <3>6. Asking(n, t)
      BY <1>1, <1>4, <2>1, <3>1, <3>4, <3>5 DEF Asking
    <3>7. EndAll(m) = End(n, t)
      <4>1. EndRound(m, 1) = n
        BY <2>2, ListFacts DEF EndRound, n
      <4>2. EndRound(n, 2) = End(n, t)
        BY <2>2, <3>1, <3>4, ListFacts DEF EndRound
      <4> QED BY <4>1, <4>2 DEF EndAll
    <3> QED BY <1>3, <3>4, <3>6, <3>7
  <2>3. CASE m.list # <<"move", "tap1">>
    <3> DEFINE n == End(m, t)
    <3>1. ~Active(m, "move")
      BY <1>1, <2>3, ListFacts DEF Competing, Lists
    <3>2. /\ Over(m, n) /\ n.list = <<>>
          /\ m.essential = {} => ClicksOf(m, n, t)
      BY <1>3, <2>1, <3>1
    <3>3. EndRound(m, 1) = n
      <4>1. m.list \in {<<"tap2", "scroll">>, <<"tap3", "drag">>}
        BY <1>1, <1>4, <2>3, ListFacts DEF Lists, Taps
      <4>2. t = m.list[1]
        <5>1. t \in Taps \cap {"tap2", "scroll"} => t = "tap2"
          BY DEF Taps
        <5>2. t \in Taps \cap {"tap3", "drag"} => t = "tap3"
          BY DEF Taps
        <5> QED BY <1>4, <4>1, <5>1, <5>2, ListFacts
      <4>3. 1 <= Len(m.list)
        BY <4>1, ListFacts
      <4> QED BY <4>2, <4>3 DEF EndRound
    <3> HIDE DEF n
    <3>4. EndRound(n, 2) = n
      BY <3>2, ListFacts DEF EndRound
    <3> QED BY <3>2, <3>3, <3>4 DEF EndAll
  <2> QED BY <2>2, <2>3
<1> QED BY <1>2, <1>4

-----------------------------------------------------------------------------
(* Where no physical button is ever pressed, these functions make nothing  *)
(* essential.                                                              *)

AskUnpressed ==
  \A m, t : Unpressed(m) /\ t \in Taps => Unpressed(Ask(m, t))

LEMMA EndUnpressed ==
  ASSUME AskUnpressed, NEW m, Unpressed(m), NEW g \in Gestures
  PROVE  Unpressed(End(m, g))
<1> DEFINE o == OnEnd(m, g)
<1>1. Unpressed(o)
  <2>1. CASE g \in Taps
    <3>1. o = Post(Ask(m, g), g, ButtonDownAndUp(TapButton[g]))
      BY <2>1 DEF OnEnd, Taps
    <3> QED BY <2>1, <3>1, PostUnpressed DEF AskUnpressed
  <2>2. CASE g = "scroll"
    BY <2>2, PostUnpressed DEF OnEnd, Taps
  <2>3. CASE g = "drag"
    <3> DEFINE p == Post(m, g, ButtonUpDefer(DragButton))
    <3>1. o = [p EXCEPT !.hold = "open"]
      BY <2>3 DEF OnEnd, Taps
    <3>2. Unpressed(p)
      BY PostUnpressed
    <3> HIDE DEF p, o
    <3>3. /\ DOMAIN o = DOMAIN p /\ o.post = p.post /\ o.list = p.list
          /\ o.accepted = p.accepted
          /\ o.physical = p.physical /\ o.essential = p.essential
      BY <3>1, <3>2 DEF Unpressed
    <3> QED BY <3>2, <3>3, UnpressedLike
  <2>4. CASE g = "move"
    BY <2>4 DEF OnEnd, Taps
  <2> QED BY <2>1, <2>2, <2>3, <2>4, GestureSet DEF Taps
<1>2. End(m, g) \in {m, [o EXCEPT !.match[g] = "NONE", !.post[g] = "null"]}
  BY DEF End
<1> HIDE DEF o
<1>3. Unpressed([o EXCEPT !.match[g] = "NONE", !.post[g] = "null"])
  BY <1>1, FieldsUnpressed
<1> QED BY <1>1, <1>2, <1>3

LEMMA EndNthUnpressed ==
  ASSUME AskUnpressed, NEW m, Unpressed(m), NEW i \in Nat \ {0}, NEW g
  PROVE  Unpressed(EndNth(m, i, g))
<1>1. ASSUME i <= Len(m.list) PROVE m.list[i] \in Gestures
  BY <1>1 DEF Unpressed
<1> QED BY <1>1, EndUnpressed DEF EndNth

LEMMA SetMatchUnpressed ==
  ASSUME AskUnpressed, NEW m, Unpressed(m), NEW g, NEW how,
         how # "ESSENTIAL"
  PROVE  Unpressed(SetMatch(m, g, how))
<1>1. ASSUME NEW n, Unpressed(n), NEW h \in Gestures
      PROVE  Unpressed(Accept(n, h))
  <2> DEFINE a == PostStaged(AcceptCallbacks(EndOthers(n, h), h), h)
  <2>1. Unpressed(EndOthers(n, h))
    BY <1>1, EndNthUnpressed DEF EndOthers
  <2>2. Unpressed(a)
    BY <2>1, CallbacksUnpressed, PostStagedUnpressed
  <2>3. Accept(n, h) = [a EXCEPT !.accepted = h, !.post[h] = "accept",
                                 !.list = <<>>]
    BY DEF Accept
  <2> HIDE DEF a
  <2>4. Unpressed([a EXCEPT !.accepted = h, !.post[h] = "accept",
                            !.list = <<>>])
    BY <1>1, <2>2, FieldsUnpressed
  <2> QED BY <2>3, <2>4
<1>2. ASSUME NEW n, Unpressed(n) PROVE Unpressed(StateChange(n))
  <2>1. Essentials(n) = {}
    BY <1>2 DEF Essentials, Unpressed
  <2>2. Winners(n) # {} => Winner(n) \in Gestures
    <3>1. ToSet(n.list) \subseteq Gestures
      BY <1>2 DEF ToSet, Unpressed
    <3> QED BY <3>1 DEF Winner, Winners
  <2> QED BY <1>1, <1>2, <2>1, <2>2 DEF StateChange
<1> DEFINE match == IF how = "NO" THEN "FAILED" ELSE "OK"
           told  == [m EXCEPT !.match[g] = match, !.essential = @ \ {g}]
<1>3. SetMatch(m, g, how) \in {m, StateChange(told)}
  BY DEF SetMatch
<1>4. Unpressed(told)
  BY FieldsUnpressed
<1> HIDE DEF told
<1> QED BY <1>2, <1>3, <1>4
=============================================================================
