------------------------- MODULE GestureManager_proofs -------------------------
(***************************************************************************)
(* The invariants of GestureManager, for every number of fingers, every    *)
(* button and every scroll velocity.                                       *)
(*                                                                         *)
(* GestureMatch_proofs is instantiated at two levels, as GestureMatch is   *)
(* in GestureManager: at First, to show that a tap that is asked for its   *)
(* match lets itself or an essential gesture win, and at Manager, where    *)
(* this is what the gestures ask.  Then each handler is shown to keep the  *)
(* phase of the recognition, and with it the inductive invariant IInv.     *)
(***************************************************************************)
EXTENDS GestureManager, Gestures_proofs

FirstP   == INSTANCE GestureMatch_proofs WITH Ask <- AskAgain
ManagerP == INSTANCE GestureMatch_proofs WITH Ask <- SetOK

(* The names of Gestures and Gestures_proofs mean the same in an instance. *)
LEMMA FirstNames ==
  /\ \A m, t : FirstP!Asking(m, t) = Asking(m, t)
  /\ \A m, t, n : FirstP!TapWins(m, t, n) = TapWins(m, t, n)
<1>1. /\ FirstP!Taps = Taps
      /\ FirstP!Nobody = Nobody
      /\ FirstP!Lists = Lists
      /\ FirstP!Gestures = Gestures
      /\ FirstP!NothingStaged = NothingStaged
      /\ \A s : FirstP!ToSet(s) = ToSet(s)
  BY DEF FirstP!Taps, Taps, FirstP!Nobody, Nobody, FirstP!Lists, Lists,
         FirstP!Gestures, Gestures, FirstP!Registered, Registered,
         FirstP!NothingStaged, NothingStaged, FirstP!ToSet, ToSet
<1>2. FirstP!Managers = Managers
  <2>1. FirstP!Postable = Postable
    BY DEF FirstP!Postable, Postable, FirstP!ActionType, ActionType,
           FirstP!DeferOps, DeferOps
  <2>2. FirstP!Entries = Entries
    BY <1>1, <2>1 DEF FirstP!Entries, Entries
  <2>3. FirstP!MatchStates = MatchStates
    BY DEF FirstP!MatchStates, MatchStates
  <2> QED BY <1>1, <2>1, <2>2, <2>3 DEF FirstP!Managers, Managers
<1>3. \A m, g : FirstP!Active(m, g) = Active(m, g)
  BY DEF FirstP!Active, Active
<1>20. /\ FirstP!DragButton = DragButton
       /\ FirstP!TapButton = TapButton
  BY DEF FirstP!DragButton, DragButton, FirstP!TapButton, TapButton
<1>21. /\ \A a : FirstP!Plain(a) = Plain(a)
       /\ \A a : FirstP!Lifting(a) = Lifting(a)
       /\ \A a : FirstP!Cancelling(a) = Cancelling(a)
  BY <1>20 DEF FirstP!Plain, Plain, FirstP!Lifting, Lifting,
               FirstP!Cancelling, Cancelling
<1>22. \A a : FirstP!Clicking(a) = Clicking(a)
  BY <1>1, <1>20 DEF FirstP!Clicking, Clicking
<1>23. \A m, g : FirstP!PlainOf(m, g) = PlainOf(m, g)
  BY <1>21 DEF FirstP!PlainOf, PlainOf
<1>24. \A m : FirstP!Tame(m) = Tame(m)
  BY <1>1, <1>23 DEF FirstP!Tame, Tame
<1>25. /\ \A q : FirstP!Actions(q) = Actions(q)
       /\ \A q, open : FirstP!Quelled(q, open) = Quelled(q, open)
  BY <1>21 DEF FirstP!Actions, Actions, FirstP!Quelled, Quelled
<1>26. \A m : FirstP!Opening(m) = Opening(m)
  BY <1>3 DEF FirstP!Opening, Opening
<1>4. \A m : FirstP!Sane(m) = Sane(m)
  BY <1>1, <1>2, <1>3 DEF FirstP!Sane, Sane
<1>5. \A m : FirstP!Competing(m) = Competing(m)
  BY <1>1, <1>3, <1>24 DEF FirstP!Competing, Competing
<1>6. \A m, g : FirstP!Won(m, g) = Won(m, g)
  BY <1>1, <1>3 DEF FirstP!Won, Won
<1>7. \A m, g : FirstP!HarmlessOf(m, g) = HarmlessOf(m, g)
  BY DEF FirstP!HarmlessOf, HarmlessOf, FirstP!Harmless, Harmless
<1>8. \A m, t : FirstP!Asking(m, t) = Asking(m, t)
  BY <1>1, <1>4, <1>5 DEF FirstP!Asking, Asking
<1>9. \A m, t, n : FirstP!TapWins(m, t, n) = TapWins(m, t, n)
  BY <1>1, <1>3, <1>4, <1>6, <1>21, <1>25, <1>26
  DEF FirstP!TapWins, TapWins
<1> QED BY <1>8, <1>9

LEMMA ManagerNames ==
  /\ ManagerP!Gestures = Gestures
  /\ \A m : ManagerP!Sane(m) = Sane(m)
  /\ \A m : ManagerP!Recognising(m) = Recognising(m)
  /\ \A m : ManagerP!Owned(m) = Owned(m)
  /\ \A m, t : ManagerP!Asking(m, t) = Asking(m, t)
  /\ \A m, t, n : ManagerP!TapWins(m, t, n) = TapWins(m, t, n)
  /\ \A g, how : ManagerP!TellsDown(g, how) = TellsDown(g, how)
  /\ \A m, g, n : ManagerP!Decided(m, g, n) = Decided(m, g, n)
  /\ \A m, n : ManagerP!Over(m, n) = Over(m, n)
  /\ \A m, g, n : ManagerP!EndsAlone(m, g, n) = EndsAlone(m, g, n)
  /\ \A m, n, t : ManagerP!ClicksOf(m, n, t) = ClicksOf(m, n, t)
  /\ \A m : ManagerP!Unpressed(m) = Unpressed(m)
  /\ ManagerP!Taps = Taps
  /\ \A s : ManagerP!ToSet(s) = ToSet(s)
<1>1. /\ ManagerP!Taps = Taps
      /\ ManagerP!Nobody = Nobody
      /\ ManagerP!Lists = Lists
      /\ ManagerP!Gestures = Gestures
      /\ ManagerP!NothingStaged = NothingStaged
      /\ \A s : ManagerP!ToSet(s) = ToSet(s)
  BY DEF ManagerP!Taps, Taps, ManagerP!Nobody, Nobody, ManagerP!Lists, Lists,
         ManagerP!Gestures, Gestures, ManagerP!Registered, Registered,
         ManagerP!NothingStaged, NothingStaged, ManagerP!ToSet, ToSet
<1>2. ManagerP!Managers = Managers
  <2>1. ManagerP!Postable = Postable
    BY DEF ManagerP!Postable, Postable, ManagerP!ActionType, ActionType,
           ManagerP!DeferOps, DeferOps
  <2>2. ManagerP!Entries = Entries
    BY <1>1, <2>1 DEF ManagerP!Entries, Entries
  <2>3. ManagerP!MatchStates = MatchStates
    BY DEF ManagerP!MatchStates, MatchStates
  <2> QED BY <1>1, <2>1, <2>2, <2>3 DEF ManagerP!Managers, Managers
<1>3. \A m, g : ManagerP!Active(m, g) = Active(m, g)
  BY DEF ManagerP!Active, Active
<1>20. /\ ManagerP!DragButton = DragButton
       /\ ManagerP!TapButton = TapButton
  BY DEF ManagerP!DragButton, DragButton, ManagerP!TapButton, TapButton
<1>21. /\ \A a : ManagerP!Plain(a) = Plain(a)
       /\ \A a : ManagerP!Lifting(a) = Lifting(a)
       /\ \A a : ManagerP!Cancelling(a) = Cancelling(a)
  BY <1>20 DEF ManagerP!Plain, Plain, ManagerP!Lifting, Lifting,
               ManagerP!Cancelling, Cancelling
<1>22. \A a : ManagerP!Clicking(a) = Clicking(a)
  BY <1>1, <1>20 DEF ManagerP!Clicking, Clicking
<1>23. \A m, g : ManagerP!PlainOf(m, g) = PlainOf(m, g)
  BY <1>21 DEF ManagerP!PlainOf, PlainOf
<1>24. \A m : ManagerP!Tame(m) = Tame(m)
  BY <1>1, <1>23 DEF ManagerP!Tame, Tame
<1>25. /\ \A q : ManagerP!Actions(q) = Actions(q)
       /\ \A q, open : ManagerP!Quelled(q, open) = Quelled(q, open)
  BY <1>21 DEF ManagerP!Actions, Actions, ManagerP!Quelled, Quelled
<1>26. \A m : ManagerP!Opening(m) = Opening(m)
  BY <1>3 DEF ManagerP!Opening, Opening
<1>4. \A m : ManagerP!Sane(m) = Sane(m)
  BY <1>1, <1>2, <1>3 DEF ManagerP!Sane, Sane
<1>5. \A m : ManagerP!Competing(m) = Competing(m)
  BY <1>1, <1>3, <1>24 DEF ManagerP!Competing, Competing
<1>6. \A m, g : ManagerP!Won(m, g) = Won(m, g)
  BY <1>1, <1>3 DEF ManagerP!Won, Won
<1>7. \A m, g : ManagerP!HarmlessOf(m, g) = HarmlessOf(m, g)
  BY DEF ManagerP!HarmlessOf, HarmlessOf, ManagerP!Harmless, Harmless
<1>8. \A m, t : ManagerP!Asking(m, t) = Asking(m, t)
  BY <1>1, <1>4, <1>5 DEF ManagerP!Asking, Asking
<1>9. \A m, t, n : ManagerP!TapWins(m, t, n) = TapWins(m, t, n)
  BY <1>1, <1>3, <1>4, <1>6, <1>21, <1>25, <1>26
  DEF ManagerP!TapWins, TapWins
<1>10. \A m : ManagerP!Undecided(m) = Undecided(m)
  BY <1>1, <1>7 DEF ManagerP!Undecided, Undecided
<1>11. \A m : ManagerP!Recognising(m) = Recognising(m)
  BY <1>5, <1>10 DEF ManagerP!Recognising, Recognising
<1>12. \A m : ManagerP!Owned(m) = Owned(m)
  BY <1>1, <1>6 DEF ManagerP!Owned, Owned
<1>13. \A g, how : ManagerP!TellsDown(g, how) = TellsDown(g, how)
  BY <1>1 DEF ManagerP!TellsDown, TellsDown, ManagerP!Tells, Tells
<1>14. \A m, g, n : ManagerP!Decided(m, g, n) = Decided(m, g, n)
  <2>1. \A m, g, n : ManagerP!Hushes(m, g, n) = Hushes(m, g, n)
    BY <1>25 DEF ManagerP!Hushes, Hushes
  <2> QED
    BY <1>1, <1>4, <1>11, <1>12, <2>1 DEF ManagerP!Decided, Decided
<1>17. \A m, n, t : ManagerP!ClicksOf(m, n, t) = ClicksOf(m, n, t)
  <2>1. ManagerP!Entries = Entries
    <3>1. ManagerP!Postable = Postable
      BY DEF ManagerP!Postable, Postable, ManagerP!ActionType, ActionType,
             ManagerP!DeferOps, DeferOps
    <3> QED BY <1>1, <3>1 DEF ManagerP!Entries, Entries
  <2> QED
    BY <1>20, <1>21, <1>22, <1>25, <2>1, ZenonT(60)
    DEF ManagerP!ClicksOf, ClicksOf
<1>15. \A m, n : ManagerP!Over(m, n) = Over(m, n)
  <2>1. \A m, n : ManagerP!Clicks(m, n) = Clicks(m, n)
    BY <1>1, <1>17 DEF ManagerP!Clicks, Clicks
  <2> QED
    BY <1>1, <1>3, <1>4, <1>7, <1>24, <1>25, <2>1 DEF ManagerP!Over, Over
<1>18. \A m : ManagerP!Unpressed(m) = Unpressed(m)
  BY <1>1 DEF ManagerP!Unpressed, Unpressed
<1>16. \A m, g, n : ManagerP!EndsAlone(m, g, n) = EndsAlone(m, g, n)
  BY <1>1, <1>3, <1>4, <1>7, <1>21, <1>24
  DEF ManagerP!EndsAlone, EndsAlone
<1> QED
  BY <1>1, <1>4, <1>8, <1>9, <1>11, <1>12, <1>13, <1>14, <1>15, <1>16,
     <1>17, <1>18

(* So do the functions of GestureMatch in the instances First and FirstP,  *)
(* Manager and ManagerP.                                                   *)
LEMMA FirstCalls ==
  \A m, t : SetOK(m, t) = FirstP!SetMatch(m, t, "OK")
<1>1. \A m, g, action : First!Post(m, g, action) = FirstP!Post(m, g, action)
  BY DEF First!Post, First!Entry, FirstP!Post, FirstP!Entry
<1>2. \A m, g : First!Active(m, g) = FirstP!Active(m, g)
  BY DEF First!Active, FirstP!Active
<1>3. \A m, g : First!OnEnd(m, g) = FirstP!OnEnd(m, g)
  <2>1. /\ First!Taps = FirstP!Taps
        /\ First!TapButton = FirstP!TapButton
        /\ First!DragButton = FirstP!DragButton
    BY DEF First!Taps, FirstP!Taps, First!TapButton, FirstP!TapButton,
           First!DragButton, FirstP!DragButton
  <2>2. First!Zeroed = FirstP!Zeroed
    BY DEF First!Zeroed, FirstP!Zeroed
  <2>3. /\ \A b : First!ButtonDownAndUp(b) = FirstP!ButtonDownAndUp(b)
        /\ \A b : First!ButtonUpDefer(b) = FirstP!ButtonUpDefer(b)
        /\ First!ScrollEnd = FirstP!ScrollEnd
    BY <2>2 DEF First!ButtonDownAndUp, FirstP!ButtonDownAndUp,
           First!ButtonUpDefer, FirstP!ButtonUpDefer,
           First!ScrollEnd, FirstP!ScrollEnd
  <2> QED
    BY <1>1, <2>1, <2>3 DEF First!OnEnd, FirstP!OnEnd
<1>4. \A m, g : First!End(m, g) = FirstP!End(m, g)
  BY <1>2, <1>3, ZenonT(40) DEF First!End, FirstP!End
<1>5. \A m, g : First!AcceptCallbacks(m, g) = FirstP!AcceptCallbacks(m, g)
  <2>1. First!Zeroed = FirstP!Zeroed
    BY DEF First!Zeroed, FirstP!Zeroed
  <2>2. /\ First!ButtonUp(First!DragButton)
             = FirstP!ButtonUp(FirstP!DragButton)
        /\ First!ButtonUpCancel = FirstP!ButtonUpCancel
    BY <2>1 DEF First!ButtonUp, FirstP!ButtonUp, First!DragButton,
           FirstP!DragButton,
           First!ButtonUpCancel, FirstP!ButtonUpCancel
  <2> QED
    BY <1>1, <2>2 DEF First!AcceptCallbacks, FirstP!AcceptCallbacks
<1>6. \A m, g : First!PostStaged(m, g) = FirstP!PostStaged(m, g)
  BY DEF First!PostStaged, First!Queued, First!Entry, First!NothingStaged,
         First!Gestures, First!Registered, First!ToSet, FirstP!PostStaged,
         FirstP!Queued, FirstP!Entry, FirstP!NothingStaged, FirstP!Gestures,
         FirstP!Registered, FirstP!ToSet
<1>7. \A m, i, g : First!EndNth(m, i, g) = FirstP!EndNth(m, i, g)
  BY <1>4 DEF First!EndNth, FirstP!EndNth
<1>8. \A m, g : First!EndOthers(m, g) = FirstP!EndOthers(m, g)
  BY <1>7 DEF First!EndOthers, FirstP!EndOthers
<1>9. \A m, g : First!Accept(m, g) = FirstP!Accept(m, g)
  BY <1>5, <1>6, <1>8 DEF First!Accept, FirstP!Accept
<1>10. \A m : First!Winners(m) = FirstP!Winners(m)
  BY <1>2 DEF First!Winners, First!Priority, First!ToSet, FirstP!Winners,
         FirstP!Priority, FirstP!ToSet
<1>11. \A m : First!Winner(m) = FirstP!Winner(m)
  BY DEF First!Winner, First!Winners, First!Active, First!Priority,
         First!ToSet, FirstP!Winner, FirstP!Winners, FirstP!Active,
         FirstP!Priority, FirstP!ToSet
<1>12. \A m : First!Essentials(m) = FirstP!Essentials(m)
  BY DEF First!Essentials, FirstP!Essentials
<1>13. \A S : First!Max(S) = FirstP!Max(S)
  BY DEF First!Max, FirstP!Max
<1>14. \A m : First!StateChange(m) = FirstP!StateChange(m)
  BY <1>9, <1>10, <1>11, <1>12, <1>13 DEF First!StateChange, First!Nobody,
         FirstP!StateChange, FirstP!Nobody
<1>15. \A m, g, how : First!SetMatch(m, g, how) = FirstP!SetMatch(m, g, how)
  BY <1>14 DEF First!SetMatch, FirstP!SetMatch
<1> QED BY <1>15 DEF SetOK

LEMMA ManagerCalls ==
  /\ \A m, g : EndGesture(m, g) = ManagerP!End(m, g)
  /\ \A m, g, how : Match(m, g, how) = ManagerP!SetMatch(m, g, how)
  /\ \A m : ForEachCurrent(EndGesture, m) = ManagerP!EndAll(m)
<1>1. \A m, g, action : Manager!Post(m, g, action) = ManagerP!Post(m, g, action)
  BY DEF Manager!Post, Manager!Entry, ManagerP!Post, ManagerP!Entry
<1>2. \A m, g : Manager!Active(m, g) = ManagerP!Active(m, g)
  BY DEF Manager!Active, ManagerP!Active
<1>3. \A m, g : Manager!OnEnd(m, g) = ManagerP!OnEnd(m, g)
  <2>1. /\ Manager!Taps = ManagerP!Taps
        /\ Manager!TapButton = ManagerP!TapButton
        /\ Manager!DragButton = ManagerP!DragButton
    BY DEF Manager!Taps, ManagerP!Taps, Manager!TapButton, ManagerP!TapButton,
           Manager!DragButton, ManagerP!DragButton
  <2>2. Manager!Zeroed = ManagerP!Zeroed
    BY DEF Manager!Zeroed, ManagerP!Zeroed
  <2>3. /\ \A b : Manager!ButtonDownAndUp(b) = ManagerP!ButtonDownAndUp(b)
        /\ \A b : Manager!ButtonUpDefer(b) = ManagerP!ButtonUpDefer(b)
        /\ Manager!ScrollEnd = ManagerP!ScrollEnd
    BY <2>2 DEF Manager!ButtonDownAndUp, ManagerP!ButtonDownAndUp,
           Manager!ButtonUpDefer, ManagerP!ButtonUpDefer,
           Manager!ScrollEnd, ManagerP!ScrollEnd
  <2> QED
    BY <1>1, <2>1, <2>3 DEF Manager!OnEnd, ManagerP!OnEnd
<1>4. \A m, g : Manager!End(m, g) = ManagerP!End(m, g)
  BY <1>2, <1>3, ZenonT(40) DEF Manager!End, ManagerP!End
<1>5. \A m, g : Manager!AcceptCallbacks(m, g) = ManagerP!AcceptCallbacks(m, g)
  <2>1. Manager!Zeroed = ManagerP!Zeroed
    BY DEF Manager!Zeroed, ManagerP!Zeroed
  <2>2. /\ Manager!ButtonUp(Manager!DragButton)
             = ManagerP!ButtonUp(ManagerP!DragButton)
        /\ Manager!ButtonUpCancel = ManagerP!ButtonUpCancel
    BY <2>1 DEF Manager!ButtonUp, ManagerP!ButtonUp, Manager!DragButton,
           ManagerP!DragButton,
           Manager!ButtonUpCancel, ManagerP!ButtonUpCancel
  <2> QED
    BY <1>1, <2>2 DEF Manager!AcceptCallbacks, ManagerP!AcceptCallbacks
<1>6. \A m, g : Manager!PostStaged(m, g) = ManagerP!PostStaged(m, g)
  BY DEF Manager!PostStaged, Manager!Queued, Manager!Entry,
         Manager!NothingStaged, Manager!Gestures, Manager!Registered,
         Manager!ToSet, ManagerP!PostStaged, ManagerP!Queued,
         ManagerP!Entry, ManagerP!NothingStaged, ManagerP!Gestures,
         ManagerP!Registered, ManagerP!ToSet
<1>7. \A m, i, g : Manager!EndNth(m, i, g) = ManagerP!EndNth(m, i, g)
  BY <1>4 DEF Manager!EndNth, ManagerP!EndNth
<1>8. \A m, g : Manager!EndOthers(m, g) = ManagerP!EndOthers(m, g)
  BY <1>7 DEF Manager!EndOthers, ManagerP!EndOthers
<1>9. \A m, g : Manager!Accept(m, g) = ManagerP!Accept(m, g)
  BY <1>5, <1>6, <1>8 DEF Manager!Accept, ManagerP!Accept
<1>10. \A m : Manager!Winners(m) = ManagerP!Winners(m)
  BY <1>2 DEF Manager!Winners, Manager!Priority, Manager!ToSet,
         ManagerP!Winners, ManagerP!Priority, ManagerP!ToSet
<1>11. \A m : Manager!Winner(m) = ManagerP!Winner(m)
  BY DEF Manager!Winner, Manager!Winners, Manager!Active, Manager!Priority,
         Manager!ToSet, ManagerP!Winner, ManagerP!Winners, ManagerP!Active,
         ManagerP!Priority, ManagerP!ToSet
<1>12. \A m : Manager!Essentials(m) = ManagerP!Essentials(m)
  BY DEF Manager!Essentials, ManagerP!Essentials
<1>13. \A S : Manager!Max(S) = ManagerP!Max(S)
  BY DEF Manager!Max, ManagerP!Max
<1>14. \A m : Manager!StateChange(m) = ManagerP!StateChange(m)
  BY <1>9, <1>10, <1>11, <1>12, <1>13 DEF Manager!StateChange,
         Manager!Nobody, ManagerP!StateChange, ManagerP!Nobody
<1>15. \A m, g, how : Manager!SetMatch(m, g, how) = ManagerP!SetMatch(m, g, how)
  BY <1>14 DEF Manager!SetMatch, ManagerP!SetMatch
<1>16. \A m, g : EndGesture(m, g) = ManagerP!End(m, g)
  BY <1>4 DEF EndGesture
<1>17. \A m : ForEachCurrent(EndGesture, m) = ManagerP!EndAll(m)
  BY <1>16, ZenonT(40)
     DEF ForEachCurrent, ManagerP!EndAll, ManagerP!EndRound
<1>18. \A m, g, how : Match(m, g, how) = ManagerP!SetMatch(m, g, how)
  BY <1>15 DEF Match
<1> QED BY <1>16, <1>17, <1>18

-----------------------------------------------------------------------------
(* The calls of GestureMatch, as GestureManager makes them.                *)

(* A tap asks for a match once, and the match lets it or move win.         *)
LEMMA SetOKAsks ==
  ManagerP!AskedOnce /\ ManagerP!AskWins
<1>1. FirstP!AskedOnce
  BY DEF FirstP!AskedOnce, AskAgain, Second!SetMatch
<1>2. ASSUME NEW m, NEW t, m.match[t] # "MATHING"
      PROVE  SetOK(m, t) = m
  BY <1>2, FirstCalls DEF FirstP!SetMatch
<1>3. ASSUME NEW m, NEW t, Asking(m, t)
      PROVE  TapWins(m, t, SetOK(m, t))
  <2>1. FirstP!TapWins(m, t, FirstP!SetMatch(m, t, "OK"))
    BY <1>1, <1>3, FirstNames, FirstP!TapMatches, ButtonsAssumption
  <2> QED BY <2>1, FirstNames, FirstCalls
<1>4. ManagerP!AskedOnce
  BY <1>2 DEF ManagerP!AskedOnce
<1>5. ManagerP!AskWins
  BY <1>3, ManagerNames DEF ManagerP!AskWins
<1> QED BY <1>4, <1>5

LEMMA MatchOnce ==
  ASSUME NEW m, NEW g, NEW how, m.match[g] # "MATHING"
  PROVE  Match(m, g, how) = m
BY ManagerCalls DEF ManagerP!SetMatch

LEMMA MatchDecides ==
  ASSUME NEW m, Sane(m), Recognising(m), NEW g \in Gestures, NEW how,
         TellsDown(g, how), m.match[g] = "MATHING"
  PROVE  Decided(m, g, Match(m, g, how))
<1>1. ManagerP!Decided(m, g, ManagerP!SetMatch(m, g, how))
  BY SetOKAsks, ManagerNames, ManagerP!SetMatchDecides, ButtonsAssumption
<1> QED BY <1>1, ManagerNames, ManagerCalls

LEMMA MatchOwned ==
  ASSUME NEW m, Sane(m), Owned(m), NEW how, TellsDown(m.accepted, how)
  PROVE  /\ Sane(Match(m, m.accepted, how))
         /\ Owned(Match(m, m.accepted, how))
         /\ Match(m, m.accepted, how).accepted = m.accepted
         /\ Match(m, m.accepted, how).state = m.state
         /\ Match(m, m.accepted, how).maxTouches = m.maxTouches
         /\ Match(m, m.accepted, how).alt = m.alt
         /\ Match(m, m.accepted, how).post = m.post
         /\ Match(m, m.accepted, how).staged = m.staged
         /\ Match(m, m.accepted, how).out = m.out
         /\ Match(m, m.accepted, how).hold = m.hold
         /\ Match(m, m.accepted, how).match["drag"] = m.match["drag"]
<1> DEFINE n == ManagerP!SetMatch(m, m.accepted, how)
<1>1. /\ ManagerP!Sane(n) /\ ManagerP!Owned(n) /\ n.accepted = m.accepted
      /\ n.state = m.state /\ n.maxTouches = m.maxTouches
      /\ n.alt = m.alt /\ n.post = m.post
      /\ n.staged = m.staged /\ n.out = m.out /\ n.hold = m.hold
      /\ n.match["drag"] = m.match["drag"]
  BY ManagerNames, ManagerP!SetMatchOwned, ButtonsAssumption
<1>2. Match(m, m.accepted, how) = n
  BY ManagerCalls
<1> HIDE DEF n
<1> QED BY <1>1, <1>2, ManagerNames

LEMMA EndIdle ==
  ASSUME NEW m, NEW g, ~Active(m, g)
  PROVE  EndGesture(m, g) = m
BY ManagerCalls DEF ManagerP!End, ManagerP!Active, Active

LEMMA EndAllEnds ==
  ASSUME NEW m, Sane(m), Recognising(m)
  PROVE  /\ Over(m, ForEachCurrent(EndGesture, m))
         /\ m.essential = {} =>
              \A t \in Taps \cap ToSet(m.list) : m.match[t] = "MATHING" =>
                ClicksOf(m, ForEachCurrent(EndGesture, m), t)
<1>1. /\ ManagerP!Over(m, ManagerP!EndAll(m))
      /\ m.essential = {} =>
           \A t \in Taps \cap ToSet(m.list) : m.match[t] = "MATHING" =>
             ManagerP!ClicksOf(m, ManagerP!EndAll(m), t)
  BY SetOKAsks, ManagerNames, ManagerP!EndAllOver, ButtonsAssumption
<1>2. ForEachCurrent(EndGesture, m) = ManagerP!EndAll(m)
  BY ManagerCalls
<1> QED BY <1>1, <1>2, ManagerNames

LEMMA EndAccepted ==
  ASSUME NEW m, Sane(m), NEW g \in Gestures \ Taps
  PROVE  /\ EndsAlone(m, g, EndGesture(m, g))
         /\ (g = "drag" /\ Active(m, g) /\ m.post[g] = "accept") =>
              EndGesture(m, g).out =
                Append(m.out, Entry(g, ButtonUpDefer(DragButton)))
<1> DEFINE n == ManagerP!End(m, g)
           entry == ManagerP!Entry(g, ManagerP!ButtonUpDefer(ManagerP!DragButton))
<1>1. /\ ManagerP!EndsAlone(m, g, n)
      /\ (g = "drag" /\ ManagerP!Active(m, g) /\ m.post[g] = "accept") =>
           n.out = Append(m.out, entry)
  <2>1. ManagerP!Taps = Taps
    BY DEF ManagerP!Taps, Taps
  <2> QED
    BY <2>1, SetOKAsks, ManagerNames, ManagerP!EndAlone, ButtonsAssumption
<1>2. EndGesture(m, g) = n
  BY ManagerCalls
<1>3. entry = Entry(g, ButtonUpDefer(DragButton))
  BY DEF ManagerP!Entry, ManagerP!ButtonUpDefer, ManagerP!DragButton,
         ManagerP!Zeroed, Entry, ButtonUpDefer, DragButton, Zeroed
<1>4. ManagerP!Active(m, g) = Active(m, g)
  BY DEF ManagerP!Active, Active
<1> HIDE DEF n, entry
<1> QED BY <1>1, <1>2, <1>3, <1>4, ManagerNames

-----------------------------------------------------------------------------
(* While gestures run: either the recognition goes on, with the same list, *)
(* or a gesture owns it, and that one keeps it.                            *)

Running(m) == Recognising(m) \/ Owned(m)

Runs(m, n) ==
  /\ Sane(n)
  /\ n.state = m.state
  /\ n.maxTouches = m.maxTouches
  /\ n.alt = m.alt
  /\ \/ Recognising(m) /\ Recognising(n) /\ n.list = m.list
     \/ Recognising(m) /\ Owned(n) /\ n.accepted \in ToSet(m.list)
     \/ Owned(m) /\ Owned(n) /\ n.accepted = m.accepted

(* g has matched: what it posts is staged until it wins, and queued then.  *)
Sure(m, g) ==
  \/ Recognising(m) /\ m.match[g] = "OK" /\ m.post[g] = "stage"
  \/ Owned(m) /\ m.accepted = g /\ m.post[g] = "accept"

(* A drag that waits for its tap has staged the press it begins with, and  *)
(* nothing else about buttons.                                             *)
Calm(m) ==
  /\ \A i \in 1..Len(m.staged["drag"]) :
       Plain(m.staged["drag"][i]) \/ Pressing(m.staged["drag"][i])
  /\ IF m.match["drag"] = "OK"
       THEN \E i \in 1..Len(m.staged["drag"]) : Pressing(m.staged["drag"][i])
       ELSE m.staged["drag"] = <<>>

(* What the movements since b have queued: a drag presses when it wins, and*)
(* cancels its timer only later; any other winner quells the drag before.  *)
Speaks(b, m) ==
  IF m.accepted = Nobody
    THEN Calm(m) /\ m.hold = b.hold
    ELSE /\ m.hold = "open" => b.hold = "open"
         /\ IF m.accepted = "drag"
              THEN /\ \A i \in 1..Len(m.out) :
                        \/ Plain(m.out[i].action) \/ Pressing(m.out[i].action)
                        \/ b.accepted = "drag" /\ Cancelling(m.out[i].action)
                   /\ b.accepted # "drag" =>
                        \E i \in 1..Len(m.out) : Pressing(m.out[i].action)
              ELSE Quelled(Actions(m.out), b.hold = "open")

GoesOn(m, n) == \A b : Speaks(b, m) => Speaks(b, n)

LEMMA OneOrOther ==
  ASSUME NEW m
  PROVE  /\ Recognising(m) => m.accepted = Nobody
         /\ Owned(m) => m.accepted \in Gestures \ Taps /\ m.accepted # Nobody
                        /\ m.list = <<>>
BY GestureSet DEF Recognising, Competing, Owned, Won

LEMMA RunsSelf ==
  ASSUME NEW m, Sane(m), Running(m)
  PROVE  Runs(m, m) /\ GoesOn(m, m)
BY DEF Runs, Running, GoesOn

LEMMA RunsOn ==
  ASSUME NEW m, NEW n, NEW o, Runs(m, n), Runs(n, o)
  PROVE  /\ Runs(m, o)
         /\ GoesOn(m, n) /\ GoesOn(n, o) => GoesOn(m, o)
<1>1. Runs(m, o)
  BY OneOrOther DEF Runs
<1>2. GoesOn(m, n) /\ GoesOn(n, o) => GoesOn(m, o)
  BY DEF GoesOn
<1> QED BY <1>1, <1>2

(* Nothing is queued while a recognition goes on.                          *)
LEMMA NothingYet ==
  ASSUME NEW m, Sane(m), Recognising(m)
  PROVE  m.out = <<>>
BY NothingOut DEF Recognising, Competing

(* What is staged, once the matching of another gesture lets drag win.     *)
LEMMA DecidedSpeaks ==
  ASSUME NEW b, NEW m, Sane(m), Recognising(m), Speaks(b, m),
         NEW g \in Gestures \ {"drag"}, NEW n, Decided(m, g, n)
  PROVE  Speaks(b, n)
<1>0. /\ Calm(m) /\ m.hold = b.hold /\ m.accepted = Nobody
      /\ "drag" \in Gestures
  BY OneOrOther, GestureSet DEF Speaks
<1>1. CASE Recognising(n) /\ n.staged = m.staged /\ n.hold = m.hold
             /\ \A h \in Gestures \ {g} : n.match[h] = m.match[h]
  <2>1. n.accepted = Nobody /\ n.match["drag"] = m.match["drag"]
    BY <1>0, <1>1, OneOrOther
  <2>2. Calm(n)
    BY <1>0, <1>1, <2>1 DEF Calm
  <2> QED BY <1>0, <1>1, <2>1, <2>2 DEF Speaks
<1>2. CASE Owned(n) /\ Hushes(m, n.accepted, n)
             /\ (n.accepted = "drag" => g = "drag" \/ m.match["drag"] = "OK")
  <2>1. n.accepted # Nobody
    BY <1>2, OneOrOther
  <2>2. CASE n.accepted = "drag"
    <3>1. /\ Actions(n.out) = m.staged["drag"] /\ n.hold = m.hold
          /\ m.match["drag"] = "OK"
      BY <1>2, <2>2 DEF Hushes
    <3>2. n.out \in Seq(Entries)
      BY DEF Decided, Sane, Managers
    <3>3. /\ Len(m.staged["drag"]) = Len(n.out)
          /\ \A i \in 1..Len(n.out) : m.staged["drag"][i] = n.out[i].action
      BY <3>1, <3>2 DEF Actions
    <3> QED BY <1>0, <2>1, <2>2, <3>1, <3>3 DEF Speaks, Calm
  <2>3. CASE n.accepted # "drag"
    BY <1>0, <1>2, <2>1, <2>3 DEF Speaks, Hushes
  <2> QED BY <2>2, <2>3
<1> QED BY <1>1, <1>2 DEF Decided

LEMMA MatchRuns ==
  ASSUME NEW m, Sane(m), Running(m), NEW g \in Gestures,
         m.accepted \in {Nobody, g}, Active(m, g),
         NEW how, TellsDown(g, how)
  PROVE  /\ Runs(m, Match(m, g, how))
         /\ g # "drag" => GoesOn(m, Match(m, g, how))
         /\ g \notin Taps => Sure(Match(m, g, how), g)
<1>1. CASE Recognising(m) /\ m.match[g] = "MATHING"
  <2> DEFINE n == Match(m, g, how)
  <2>1. Decided(m, g, n)
    BY <1>1, MatchDecides
  <2> HIDE DEF n
  <2>2. g # "drag" => GoesOn(m, n)
    BY <1>1, <2>1, DecidedSpeaks DEF GoesOn
  <2>3. Runs(m, n)
    BY <1>1, <2>1 DEF Decided, Runs
  <2>4. g \notin Taps => Sure(n, g)
    BY <1>1, <2>1 DEF Decided, Sure, Recognising
  <2> QED BY <2>2, <2>3, <2>4 DEF n
<1>2. CASE Recognising(m) /\ m.match[g] # "MATHING"
  <2>1. Match(m, g, how) = m
    BY <1>2, MatchOnce
  <2>2. m.match[g] = "OK" /\ m.post[g] = "stage"
    BY <1>2 DEF Active, Recognising, Competing
  <2> QED BY <1>2, <2>1, <2>2, RunsSelf DEF Sure, GoesOn
<1>3. CASE Owned(m)
  <2> DEFINE n == Match(m, g, how)
  <2>1. m.accepted = g /\ m.post[g] = "accept" /\ g # Nobody
    BY <1>3, OneOrOther DEF Owned, Won
  <2>2. /\ Sane(n) /\ Owned(n) /\ n.accepted = g
        /\ n.state = m.state /\ n.maxTouches = m.maxTouches
        /\ n.alt = m.alt /\ n.post = m.post
        /\ n.out = m.out /\ n.hold = m.hold
    BY <1>3, <2>1, MatchOwned
  <2> HIDE DEF n
  <2>3. GoesOn(m, n)
    BY <2>1, <2>2 DEF GoesOn, Speaks
  <2> QED BY <1>3, <2>1, <2>2, <2>3 DEF Runs, Sure, n
<1> QED BY <1>1, <1>2, <1>3 DEF Running

(* Another plain action changes nothing of this.                           *)
LEMMA StagedCalm ==
  ASSUME NEW m \in Managers, NEW action \in Postable,
         Plain(action) \/ Pressing(action),
         \A i \in 1..Len(m.staged["drag"]) :
           Plain(m.staged["drag"][i]) \/ Pressing(m.staged["drag"][i]),
         Calm(m) \/ Pressing(action),
         NEW n, n.match = m.match, m.match["drag"] = "OK",
         n.staged = [m.staged EXCEPT !["drag"] = Append(@, action)]
  PROVE  Calm(n)
<1> DEFINE s == m.staged["drag"]
<1>1. s \in Seq(Postable) /\ "drag" \in Gestures
      /\ m.staged \in [Gestures -> Seq(Postable)]
  BY GestureSet DEF Managers
<1>2. n.staged["drag"] = Append(s, action)
  BY <1>1
<1>3. /\ Len(Append(s, action)) = Len(s) + 1 /\ Len(s) \in Nat
      /\ Append(s, action)[Len(s) + 1] = action
      /\ \A i \in 1..Len(s) : Append(s, action)[i] = s[i]
  BY <1>1
<1>4. Calm(m) => \E i \in 1..Len(s) : Pressing(s[i])
  BY DEF Calm
<1>5. \A i \in 1..Len(s) : Plain(s[i]) \/ Pressing(s[i])
  OBVIOUS
<1> HIDE DEF s
<1>6. \A i \in 1..(Len(s) + 1) : i \in 1..Len(s) \/ i = Len(s) + 1
  BY <1>3
<1>7. \E i \in 1..(Len(s) + 1) : Pressing(Append(s, action)[i])
  <2>1. CASE Calm(m)
    BY <1>3, <1>4, <2>1
  <2>2. CASE Pressing(action)
    <3>1. Len(s) + 1 \in 1..(Len(s) + 1)
      BY <1>3
    <3> QED BY <1>3, <2>2, <3>1
  <2> QED BY <2>1, <2>2
<1> QED BY <1>2, <1>3, <1>5, <1>6, <1>7 DEF Calm

LEMMA QuelledMore ==
  ASSUME NEW q \in Seq(Entries), NEW e, Plain(e.action), NEW open,
         Quelled(Actions(q), open)
  PROVE  Quelled(Actions(Append(q, e)), open)
<1>1. /\ Len(Append(q, e)) = Len(q) + 1 /\ Len(q) \in Nat
      /\ Append(q, e)[Len(q) + 1] = e
      /\ \A i \in 1..Len(q) : Append(q, e)[i] = q[i]
  OBVIOUS
<1>2. /\ Len(Actions(q)) = Len(q)
      /\ \A i \in 1..Len(q) : Actions(q)[i] = q[i].action
  BY <1>1 DEF Actions
<1>3. /\ Len(Actions(Append(q, e))) = Len(q) + 1
      /\ \A i \in 1..(Len(q) + 1) :
           Actions(Append(q, e))[i] = Append(q, e)[i].action
  BY <1>1 DEF Actions
<1>4. \A i \in 1..Len(q) : Actions(Append(q, e))[i] = Actions(q)[i]
  BY <1>1, <1>2, <1>3
<1>5. Plain(Actions(Append(q, e))[Len(q) + 1])
  BY <1>1, <1>3
<1> HIDE DEF Actions
<1>6. SUFFICES ASSUME NEW i \in 1..(Len(q) + 1)
               PROVE  \/ Plain(Actions(Append(q, e))[i])
                      \/ open /\ Lifting(Actions(Append(q, e))[i])
                      \/ /\ open
                         /\ Cancelling(Actions(Append(q, e))[i]) /\ i > 1
                         /\ Lifting(Actions(Append(q, e))[i - 1])
  BY <1>3 DEF Quelled
<1>7. CASE i \in 1..Len(q)
  <2>1. i > 1 => i - 1 \in 1..Len(q)
    BY <1>1, <1>7
  <2> QED BY <1>2, <1>4, <1>7, <2>1 DEF Quelled
<1>8. CASE i = Len(q) + 1
  BY <1>5, <1>8
<1> QED BY <1>1, <1>7, <1>8

LEMMA PlainSpeaks ==
  ASSUME NEW b, NEW m, Speaks(b, m), m.out \in Seq(Entries),
         m.accepted # Nobody, NEW e, Plain(e.action),
         NEW n, n.out = Append(m.out, e), n.accepted = m.accepted,
         n.hold = m.hold
  PROVE  Speaks(b, n)
<1>1. CASE m.accepted = "drag"
  <2>1. /\ Len(n.out) = Len(m.out) + 1 /\ Len(m.out) \in Nat
        /\ n.out[Len(m.out) + 1] = e
        /\ \A i \in 1..Len(m.out) : n.out[i] = m.out[i]
    OBVIOUS
  <2>2. \A i \in 1..Len(n.out) : i \in 1..Len(m.out) \/ i = Len(m.out) + 1
    BY <2>1
  <2>3. \A i \in 1..Len(m.out) : i \in 1..Len(n.out)
    BY <2>1
  <2> QED BY <1>1, <2>1, <2>2, <2>3 DEF Speaks
<1>2. CASE m.accepted # "drag"
  BY <1>2, QuelledMore DEF Speaks
<1> QED BY <1>1, <1>2

LEMMA PostRuns ==
  ASSUME NEW m, Sane(m), NEW g \in Gestures, Sure(m, g),
         NEW action \in Postable, Plain(action) \/ g = "drag"
  PROVE  /\ Runs(m, Post(m, g, action))
         /\ Sure(Post(m, g, action), g)
         /\ Plain(action) => GoesOn(m, Post(m, g, action))
<1> DEFINE n == Post(m, g, action)
<1>1. m \in Managers
  BY DEF Sane
<1>2. Sane(n) /\ Kept(m, n) /\ (Tame(m) => Tame(n))
  BY PostPosts DEF Posted
<1>3. CASE Recognising(m) /\ m.match[g] = "OK" /\ m.post[g] = "stage"
  <2>1. /\ n.staged = [m.staged EXCEPT ![g] = Append(@, action)]
        /\ n.owners = m.owners
    BY <1>1, <1>3, PostStages
  <2>2. \A h \in Gestures \ {g} : n.staged[h] = m.staged[h]
    BY <1>1, <2>1 DEF Managers
  <2> HIDE DEF n
  <2>3. Competing(n)
    BY <1>2, <1>3, <2>1 DEF Kept, Recognising, Competing, Active
  <2>4. Undecided(n)
    BY <1>2, <1>3, <2>2 DEF Kept, Recognising, Undecided, HarmlessOf
  <2>5. n.match[g] = "OK" /\ n.post[g] = "stage" /\ n.list = m.list
        /\ n.state = m.state /\ n.maxTouches = m.maxTouches /\ n.alt = m.alt
    BY <1>2, <1>3 DEF Kept
  <2>6. Plain(action) => GoesOn(m, n)
    <3> SUFFICES ASSUME Plain(action), NEW b, Speaks(b, m) PROVE Speaks(b, n)
      BY DEF GoesOn
    <3>1. /\ Calm(m) /\ m.hold = b.hold /\ m.accepted = Nobody
      BY <1>3, OneOrOther DEF Speaks
    <3>2. Calm(n)
      <4>1. CASE g = "drag"
        <5>1. \A i \in 1..Len(m.staged["drag"]) :
                Plain(m.staged["drag"][i]) \/ Pressing(m.staged["drag"][i])
          BY <3>1 DEF Calm
        <5>2. /\ n.match = m.match /\ m.match["drag"] = "OK"
              /\ n.staged = [m.staged EXCEPT !["drag"] = Append(@, action)]
          BY <1>2, <1>3, <2>1, <4>1 DEF Kept
        <5> QED BY <1>1, <3>1, <5>1, <5>2, StagedCalm
      <4>2. CASE g # "drag"
        <5>1. n.staged["drag"] = m.staged["drag"]
          BY <2>2, <4>2, GestureSet
        <5> QED BY <1>2, <3>1, <5>1 DEF Calm, Kept
      <4> QED BY <4>1, <4>2
    <3> QED BY <1>2, <3>1, <3>2 DEF Speaks, Kept
  <2> QED BY <1>2, <1>3, <2>3, <2>4, <2>5, <2>6 DEF Runs, Sure, Recognising, n
<1>4. CASE Owned(m) /\ m.accepted = g /\ m.post[g] = "accept"
  <2>1. Won(n, g)
    BY <1>4, PostWon DEF Owned
  <2> HIDE DEF n
  <2>2. Owned(n) /\ n.accepted = g /\ n.post[g] = "accept"
    BY <1>2, <1>4, <2>1 DEF Kept, Owned
  <2>3. n.out = Append(m.out, Entry(g, action))
    BY <1>1, <1>4, PostAccepted DEF n
  <2>4. Plain(action) => GoesOn(m, n)
    <3> SUFFICES ASSUME Plain(action), NEW b, Speaks(b, m) PROVE Speaks(b, n)
      BY DEF GoesOn
    <3>1. m.out \in Seq(Entries) /\ Entry(g, action).action = action
      BY <1>1 DEF Managers, Entry
    <3>2. m.accepted # Nobody /\ n.accepted = m.accepted /\ n.hold = m.hold
      BY <1>2, <1>4, OneOrOther DEF Kept
    <3> QED BY <2>3, <3>1, <3>2, PlainSpeaks
  <2> QED BY <1>2, <1>4, <2>2, <2>4 DEF Runs, Sure, Kept, n
<1> QED BY <1>3, <1>4 DEF Sure

(* The handling of the physical button leaves the recognition alone.       *)
LEMMA SettleRuns ==
  ASSUME NEW m, Sane(m), Running(m), NEW settle \in {"NONE", "SETTLE", "CLEAR"}
  PROVE  /\ Runs(m, [m EXCEPT !.settle = settle])
         /\ Running([m EXCEPT !.settle = settle])
         /\ [m EXCEPT !.settle = settle].accepted = m.accepted
         /\ [m EXCEPT !.settle = settle].match = m.match
         /\ GoesOn(m, [m EXCEPT !.settle = settle])
<1> DEFINE n == [m EXCEPT !.settle = settle]
<1>1. /\ n \in Managers
      /\ n.state = m.state /\ n.maxTouches = m.maxTouches /\ n.alt = m.alt
      /\ n.list = m.list /\ n.accepted = m.accepted
      /\ n.match = m.match /\ n.essential = m.essential
      /\ n.post = m.post /\ n.staged = m.staged /\ n.out = m.out
      /\ n.owners = m.owners /\ n.loaded = m.loaded
      /\ n.hold = m.hold /\ n.readGarbage = m.readGarbage
  BY DEF Sane, Managers
<1> HIDE DEF n
<1>2. Sane(n)
  BY <1>1 DEF Sane, Active
<1>3. Recognising(m) => Recognising(n)
  BY <1>1 DEF Recognising, Competing, Undecided, HarmlessOf, Active,
              Tame, PlainOf
<1>4. Owned(m) => Owned(n)
  BY <1>1 DEF Owned, Won, Active
<1>5. GoesOn(m, n)
  BY <1>1 DEF GoesOn, Speaks, Calm
<1> QED BY <1>1, <1>2, <1>3, <1>4, <1>5 DEF Runs, Running, n

-----------------------------------------------------------------------------
(* The updates.                                                            *)

LEMMA UpdateTapRuns ==
  ASSUME NEW m, Sane(m), Running(m), NEW g \in Taps, m.accepted \in {Nobody, g},
         Active(m, g), NEW sample
  PROVE  /\ Runs(m, UpdateTap(m, g, sample))
         /\ GoesOn(m, UpdateTap(m, g, sample))
<1>1. g \in Gestures /\ TellsDown(g, "NO") /\ g # "drag"
  BY GestureSet DEF TellsDown, Tells, Taps
<1> QED BY <1>1, MatchRuns, RunsSelf DEF UpdateTap

LEMMA UpdateMoveRuns ==
  ASSUME NEW m, Sane(m), Running(m), m.accepted \in {Nobody, "move"},
         Active(m, "move"), NEW sample
  PROVE  /\ Runs(m, UpdateMove(m, sample))
         /\ GoesOn(m, UpdateMove(m, sample))
<1>1. /\ "move" \in Gestures /\ "move" \notin Taps
      /\ TellsDown("move", "OK") /\ TellsDown("move", "ESSENTIAL")
  BY GestureSet DEF TellsDown, Tells, Taps
<1>2. CASE m.physical # {}
  <2> DEFINE s == [m EXCEPT !.settle = "SETTLE"]
             n == IF m.settle = "NONE" THEN Match(s, "move", "ESSENTIAL")
                                       ELSE m
  <2>1. Runs(m, n) /\ GoesOn(m, n)
    <3>1. CASE m.settle = "NONE"
      <4>1. /\ Runs(m, s) /\ Running(s) /\ Sane(s) /\ GoesOn(m, s)
            /\ s.accepted = m.accepted /\ s.match = m.match
        BY SettleRuns DEF Runs
      <4> HIDE DEF s
      <4>2. Active(s, "move")
        BY <4>1 DEF Active
      <4>3. /\ Runs(s, Match(s, "move", "ESSENTIAL"))
            /\ GoesOn(s, Match(s, "move", "ESSENTIAL"))
        BY <1>1, <4>1, <4>2, MatchRuns
      <4> QED BY <3>1, <4>1, <4>3, RunsOn
    <3>2. CASE m.settle # "NONE"
      BY <3>2, RunsSelf
    <3> QED BY <3>1, <3>2
  <2>2. UpdateMove(m, sample) =
          IF n.settle = "SETTLE" /\ sample.step = "big"
            THEN [n EXCEPT !.settle = "CLEAR"] ELSE n
    BY <1>2 DEF UpdateMove
  <2> HIDE DEF n
  <2>3. /\ Runs(m, [n EXCEPT !.settle = "CLEAR"])
        /\ GoesOn(m, [n EXCEPT !.settle = "CLEAR"])
    <3>1. Sane(n) /\ Running(n)
      BY <2>1 DEF Runs, Running
    <3>2. /\ Runs(n, [n EXCEPT !.settle = "CLEAR"])
          /\ GoesOn(n, [n EXCEPT !.settle = "CLEAR"])
      BY <3>1, SettleRuns
    <3> QED BY <2>1, <3>2, RunsOn
  <2> QED BY <2>1, <2>2, <2>3
<1>3. CASE m.physical = {} /\ m.settle # "NONE"
  <2>1. UpdateMove(m, sample) = [m EXCEPT !.settle = "NONE"]
    BY <1>3 DEF UpdateMove
  <2> QED BY <2>1, SettleRuns
<1>4. CASE m.physical = {} /\ m.settle = "NONE" /\ m.match["move"] = "MATHING"
  <2>1. UpdateMove(m, sample) = Match(m, "move", "OK")
    BY <1>4 DEF UpdateMove
  <2> QED BY <1>1, <2>1, MatchRuns
<1>5. CASE m.physical = {} /\ m.settle = "NONE" /\ m.match["move"] # "MATHING"
  <2> DEFINE action == Movement(sample.step # "none")
  <2>1. UpdateMove(m, sample) = Post(m, "move", action)
    BY <1>5 DEF UpdateMove
  <2>2. action \in Postable /\ Plain(action)
    BY ActionTypes, ActionKinds
  <2>3. Sure(m, "move")
    BY <1>1, <1>5, OneOrOther
    DEF Running, Sure, Active, Recognising, Competing, Owned, Won
  <2> QED BY <1>1, <2>1, <2>2, <2>3, PostRuns
<1> QED BY <1>2, <1>3, <1>4, <1>5

LEMMA UpdateScrollRuns ==
  ASSUME NEW m, Sane(m), Running(m), m.accepted \in {Nobody, "scroll"},
         Active(m, "scroll"), NEW sample \in Samples
  PROVE  /\ Runs(m, UpdateScroll(m, sample))
         /\ GoesOn(m, UpdateScroll(m, sample))
<1> DEFINE n == Match(m, "scroll", "OK")
           action == Scroll(sample.speed.x, sample.speed.y)
<1>1. "scroll" \in Gestures /\ "scroll" \notin Taps /\ TellsDown("scroll", "OK")
  BY GestureSet DEF TellsDown, Tells, Taps
<1>2. Runs(m, n) /\ Sure(n, "scroll") /\ Sane(n) /\ GoesOn(m, n)
  BY <1>1, MatchRuns DEF Runs
<1>3. action \in Postable
  <2>1. sample.speed \in Speeds
    BY DEF Samples
  <2>2. sample.speed \in [x : Int, y : Int]
    BY <2>1, SpeedsAssumption, Zenon
  <2>3. sample.speed.x \in Int /\ sample.speed.y \in Int
    BY <2>2
  <2> QED BY <2>3, ActionTypes
<1>4. UpdateScroll(m, sample) = Post(n, "scroll", action)
  BY DEF UpdateScroll
<1>6. Plain(action)
  BY ActionKinds
<1> HIDE DEF n, action
<1>5. Runs(n, Post(n, "scroll", action)) /\ GoesOn(n, Post(n, "scroll", action))
  BY <1>1, <1>2, <1>3, <1>6, PostRuns
<1> QED BY <1>2, <1>4, <1>5, RunsOn

(* drag presses the button with the movement that makes it match.          *)
LEMMA UpdateDragRuns ==
  ASSUME NEW m, Sane(m), Running(m), m.accepted \in {Nobody, "drag"},
         Active(m, "drag"), NEW sample
  PROVE  Runs(m, UpdateDrag(m, sample))
<1>1. /\ "drag" \in Gestures /\ "drag" \notin Taps
      /\ TellsDown("drag", "OK")
  BY GestureSet DEF TellsDown, Tells, Taps
<1>2. /\ Movement(TRUE) \in Postable /\ ButtonUpCancel \in Postable
      /\ ButtonDown(DragButton) \in Postable
  BY ActionTypes, GestureButtons
<1>3. ASSUME NEW n, Runs(m, n), Sure(n, "drag"), NEW action \in Postable
      PROVE  /\ Runs(m, Post(n, "drag", action))
             /\ Sure(Post(n, "drag", action), "drag")
  <2>1. /\ Runs(n, Post(n, "drag", action))
        /\ Sure(Post(n, "drag", action), "drag")
    BY <1>1, <1>3, PostRuns DEF Runs
  <2> QED BY <1>3, <2>1, RunsOn
<1>4. m.match["drag"] # "MATHING" => Sure(m, "drag")
  BY <1>1, OneOrOther
  DEF Running, Sure, Active, Recognising, Competing, Owned, Won
<1>5. CASE sample.step = "none"
  BY <1>5, RunsSelf DEF UpdateDrag
<1>6. CASE sample.step # "none" /\ m.accepted = "drag"
  <2> DEFINE n == Post(m, "drag", Movement(TRUE))
  <2>1. Sure(m, "drag")
    BY <1>4, <1>6, OneOrOther DEF Running, Owned, Nobody, Recognising, Competing
  <2>2. Runs(m, n) /\ Sure(n, "drag")
    BY <1>2, <1>3, <2>1, RunsSelf
  <2>3. UpdateDrag(m, sample) = Post(n, "drag", ButtonUpCancel)
    BY <1>6 DEF UpdateDrag
  <2> HIDE DEF n
  <2> QED BY <1>2, <1>3, <2>2, <2>3
<1>7. CASE sample.step # "none" /\ m.accepted # "drag"
  <2> DEFINE o == Match(m, "drag", "OK")
             n == IF m.match["drag"] = "MATHING"
                    THEN Post(o, "drag", ButtonDown(DragButton)) ELSE m
  <2>1. Runs(m, n) /\ Sure(n, "drag")
    <3>1. Runs(m, o) /\ Sure(o, "drag")
      BY <1>1, MatchRuns
    <3> HIDE DEF o
    <3>2. /\ Runs(m, Post(o, "drag", ButtonDown(DragButton)))
          /\ Sure(Post(o, "drag", ButtonDown(DragButton)), "drag")
      BY <1>2, <1>3, <3>1
    <3> QED BY <1>4, <3>2, RunsSelf
  <2>2. UpdateDrag(m, sample) = Post(n, "drag", Movement(TRUE))
    BY <1>7 DEF UpdateDrag
  <2> HIDE DEF n
  <2> QED BY <1>2, <1>3, <2>1, <2>2
<1> QED BY <1>5, <1>6, <1>7

(* drag queues its press when it wins, and cancels its timer afterwards.   *)
LEMMA DragQueues ==
  ASSUME NEW b, NEW m, m.out \in Seq(Entries), NEW e,
         m.hold = "open" => b.hold = "open",
         \A i \in 1..Len(m.out) :
           \/ Plain(m.out[i].action) \/ Pressing(m.out[i].action)
           \/ b.accepted = "drag" /\ Cancelling(m.out[i].action),
         \/ Pressing(e.action)
         \/ b.accepted = "drag" /\ Cancelling(e.action),
         NEW n, n.out = Append(m.out, e), n.accepted = "drag",
         n.hold = m.hold
  PROVE  Speaks(b, n)
<1>1. /\ Len(n.out) = Len(m.out) + 1 /\ Len(m.out) \in Nat
      /\ n.out[Len(m.out) + 1] = e
      /\ \A i \in 1..Len(m.out) : n.out[i] = m.out[i]
  OBVIOUS
<1>2. \A i \in 1..Len(n.out) : i \in 1..Len(m.out) \/ i = Len(m.out) + 1
  BY <1>1
<1>3. Len(m.out) + 1 \in 1..Len(n.out)
  BY <1>1
<1>4. \A i \in 1..Len(n.out) :
        \/ Plain(n.out[i].action) \/ Pressing(n.out[i].action)
        \/ b.accepted = "drag" /\ Cancelling(n.out[i].action)
  BY <1>1, <1>2
<1>5. b.accepted # "drag" => Pressing(n.out[Len(m.out) + 1].action)
  BY <1>1
<1>6. n.accepted # Nobody
  BY DEF Nobody
<1> QED BY <1>3, <1>4, <1>5, <1>6 DEF Speaks

(* The movement that makes drag match, with the press behind it.           *)
LEMMA DragPresses ==
  ASSUME NEW b, NEW m, Sane(m), Recognising(m), Speaks(b, m),
         m.match["drag"] = "MATHING"
  PROVE  Speaks(b, Post(Match(m, "drag", "OK"), "drag", ButtonDown(DragButton)))
<1> DEFINE o == Match(m, "drag", "OK")
           press == ButtonDown(DragButton)
           n == Post(o, "drag", press)
<1>1. /\ "drag" \in Gestures /\ "drag" \notin Taps
      /\ TellsDown("drag", "OK") /\ press \in Postable /\ Pressing(press)
  BY GestureSet, ActionTypes, ActionKinds, GestureButtons
     DEF TellsDown, Tells, Taps
<1>2. Decided(m, "drag", o)
  BY <1>1, MatchDecides
<1>3. m.staged["drag"] = <<>> /\ m.hold = b.hold
  BY OneOrOther DEF Speaks, Calm
<1> HIDE DEF o, press
<1>4. o \in Managers
  BY <1>2 DEF Decided, Sane
<1>5. CASE Recognising(o) /\ o.match["drag"] = "OK" /\ o.post["drag"] = "stage"
             /\ o.staged = m.staged /\ o.hold = m.hold
  <2>1. /\ n.staged = [o.staged EXCEPT !["drag"] = Append(@, press)]
        /\ Kept(o, n)
    BY <1>1, <1>4, <1>5, PostStages
  <2> HIDE DEF n
  <2>2. \A i \in 1..Len(o.staged["drag"]) :
          Plain(o.staged["drag"][i]) \/ Pressing(o.staged["drag"][i])
    <3>1. Len(o.staged["drag"]) = 0
      BY <1>3, <1>5, ListFacts
    <3> QED BY <3>1
  <2>3. Calm(n)
    BY <1>1, <1>4, <1>5, <2>1, <2>2, StagedCalm DEF Kept
  <2>4. n.accepted = Nobody /\ n.hold = b.hold
    BY <1>3, <1>5, <2>1, OneOrOther DEF Kept
  <2> QED BY <2>3, <2>4 DEF Speaks, n, o, press
<1>6. CASE Owned(o) /\ o.accepted = "drag" /\ o.post["drag"] = "accept"
             /\ Hushes(m, "drag", o)
  <2>1. /\ n.out = Append(o.out, Entry("drag", press))
        /\ Kept(o, n)
    BY <1>1, <1>4, <1>6, PostAccepted
  <2>2. /\ Actions(o.out) = <<>> /\ o.hold = b.hold
    BY <1>3, <1>6 DEF Hushes
  <2>3. o.out \in Seq(Entries)
    BY <1>4 DEF Managers
  <2>4. Len(o.out) = 0
    <3>1. Len(Actions(o.out)) = Len(o.out)
      BY <2>3 DEF Actions
    <3> QED BY <2>2, <3>1, ListFacts
  <2>5. Entry("drag", press).action = press
    BY DEF Entry
  <2> HIDE DEF n
  <2>6. n.accepted = "drag" /\ n.hold = o.hold
    BY <1>6, <2>1 DEF Kept
  <2>7. \A i \in 1..Len(o.out) :
          \/ Plain(o.out[i].action) \/ Pressing(o.out[i].action)
          \/ b.accepted = "drag" /\ Cancelling(o.out[i].action)
    BY <2>4
  <2>8. Speaks(b, n)
    BY <1>1, <2>1, <2>2, <2>3, <2>5, <2>6, <2>7, DragQueues
  <2> QED BY <2>8 DEF n, o, press
<1> QED BY <1>1, <1>2, <1>5, <1>6 DEF Decided

LEMMA UpdateDragSpeaks ==
  ASSUME NEW m, Sane(m), Running(m), m.accepted \in {Nobody, "drag"},
         Active(m, "drag"), NEW sample,
         NEW b, Speaks(b, m), m.accepted = "drag" => b.accepted = "drag"
  PROVE  Speaks(b, UpdateDrag(m, sample))
<1>1. /\ "drag" \in Gestures /\ "drag" \notin Taps /\ "drag" # Nobody
      /\ TellsDown("drag", "OK")
  BY GestureSet DEF TellsDown, Tells, Taps, Nobody
<1>2. /\ Movement(TRUE) \in Postable /\ ButtonUpCancel \in Postable
      /\ ButtonDown(DragButton) \in Postable
      /\ Plain(Movement(TRUE)) /\ Cancelling(ButtonUpCancel)
  BY ActionTypes, ActionKinds, GestureButtons
<1>3. m.match["drag"] # "MATHING" => Sure(m, "drag")
  BY <1>1, OneOrOther
  DEF Running, Sure, Active, Recognising, Competing, Owned, Won
<1>4. CASE sample.step = "none"
  BY <1>4 DEF UpdateDrag
<1>5. CASE sample.step # "none" /\ m.accepted = "drag"
  <2> DEFINE n == Post(m, "drag", Movement(TRUE))
             o == Post(n, "drag", ButtonUpCancel)
  <2>1. Sure(m, "drag")
    BY <1>3, <1>5, OneOrOther DEF Running, Owned, Nobody, Recognising, Competing
  <2>2. Runs(m, n) /\ Sure(n, "drag") /\ Speaks(b, n)
    BY <1>1, <1>2, <2>1, PostRuns DEF GoesOn
  <2>3. UpdateDrag(m, sample) = o
    BY <1>5 DEF UpdateDrag
  <2> HIDE DEF n
  <2>4. n \in Managers /\ n.accepted = "drag" /\ n.post["drag"] = "accept"
    <3>1. ~Recognising(m)
      BY <1>1, <1>5, OneOrOther
    <3> QED BY <1>5, <2>2, <3>1, OneOrOther DEF Runs, Sane, Sure
  <2>5. /\ o.out = Append(n.out, Entry("drag", ButtonUpCancel)) /\ Kept(n, o)
    BY <1>1, <1>2, <2>4, PostAccepted
  <2> HIDE DEF o
  <2>6. o.accepted = "drag" /\ o.hold = n.hold /\ n.out \in Seq(Entries)
        /\ Entry("drag", ButtonUpCancel).action = ButtonUpCancel
    BY <2>4, <2>5 DEF Kept, Managers, Entry
  <2>7. /\ n.hold = "open" => b.hold = "open"
        /\ \A i \in 1..Len(n.out) :
             \/ Plain(n.out[i].action) \/ Pressing(n.out[i].action)
             \/ b.accepted = "drag" /\ Cancelling(n.out[i].action)
    BY <1>1, <2>2, <2>4 DEF Speaks
  <2>8. Speaks(b, o)
    BY <1>2, <1>5, <2>5, <2>6, <2>7, DragQueues
  <2> QED BY <2>3, <2>8
<1>6. CASE sample.step # "none" /\ m.accepted # "drag"
  <2> DEFINE o == Match(m, "drag", "OK")
             p == Post(o, "drag", ButtonDown(DragButton))
             n == IF m.match["drag"] = "MATHING" THEN p ELSE m
  <2>1. Recognising(m)
    BY <1>6, OneOrOther DEF Running
  <2>2. m.match["drag"] = "MATHING" => Speaks(b, p)
    BY <2>1, DragPresses
  <2>3. Runs(m, o) /\ Sure(o, "drag")
    BY <1>1, MatchRuns
  <2> HIDE DEF o
  <2>4. Runs(o, p) /\ Sure(p, "drag")
    BY <1>1, <1>2, <2>3, PostRuns DEF Runs
  <2> HIDE DEF p
  <2>5. Speaks(b, n) /\ Sure(n, "drag") /\ Sane(n)
    BY <1>3, <2>2, <2>4 DEF Runs
  <2>6. UpdateDrag(m, sample) = Post(n, "drag", Movement(TRUE))
    BY <1>6 DEF UpdateDrag, p, o
  <2> HIDE DEF n
  <2>7. GoesOn(n, Post(n, "drag", Movement(TRUE)))
    BY <1>1, <1>2, <2>5, PostRuns
  <2> QED BY <2>5, <2>6, <2>7 DEF GoesOn
<1> QED BY <1>4, <1>5, <1>6

(* m only goes on for the drag that b had accepted.                        *)
StillSpeaks(m, n) ==
  \A b : Speaks(b, m) /\ (m.accepted = "drag" => b.accepted = "drag") =>
          Speaks(b, n)

LEMMA UpdateRuns ==
  ASSUME NEW m, Sane(m), Running(m), NEW g \in Gestures,
         m.accepted \in {Nobody, g}, NEW sample \in Samples
  PROVE  /\ Runs(m, Update(m, g, sample))
         /\ StillSpeaks(m, Update(m, g, sample))
<1>0. ASSUME NEW n, GoesOn(m, n) PROVE StillSpeaks(m, n)
  BY <1>0 DEF GoesOn, StillSpeaks
<1>1. CASE ~Active(m, g)
  BY <1>0, <1>1, RunsSelf DEF Update
<1>2. CASE Active(m, g) /\ g \in Taps
  <2>1. Update(m, g, sample) = UpdateTap(m, g, sample)
    BY <1>2 DEF Update, Taps
  <2> QED BY <1>0, <1>2, <2>1, UpdateTapRuns
<1>3. CASE Active(m, g) /\ g = "move"
  <2>1. Update(m, g, sample) = UpdateMove(m, sample)
    BY <1>3 DEF Update, Taps
  <2> QED BY <1>0, <1>3, <2>1, UpdateMoveRuns
<1>4. CASE Active(m, g) /\ g = "scroll"
  <2>1. Update(m, g, sample) = UpdateScroll(m, sample)
    BY <1>4 DEF Update, Taps
  <2> QED BY <1>0, <1>4, <2>1, UpdateScrollRuns
<1>5. CASE Active(m, g) /\ g = "drag"
  <2>1. Update(m, g, sample) = UpdateDrag(m, sample)
    BY <1>5 DEF Update, Taps
  <2>2. StillSpeaks(m, UpdateDrag(m, sample))
    BY <1>5, UpdateDragSpeaks DEF StillSpeaks
  <2> QED BY <1>5, <2>1, <2>2, UpdateDragRuns
<1> QED BY <1>1, <1>2, <1>3, <1>4, <1>5, GestureSet DEF Taps

(* A round of the loop over the list; an acceptance empties it.            *)
UpdateNth(n, i, sample) ==
  IF i <= Len(n.list) THEN Update(n, n.list[i], sample) ELSE n

LEMMA UpdateRunningRuns ==
  ASSUME NEW m, Sane(m), Running(m), NEW sample \in Samples,
         Speaks(m, m)
  PROVE  /\ Runs(m, UpdateRunning(m, sample))
         /\ Speaks(m, UpdateRunning(m, sample))
<1>1. CASE m.accepted # Nobody
  <2>1. UpdateRunning(m, sample) = Update(m, m.accepted, sample)
    BY <1>1 DEF UpdateRunning
  <2>2. m.accepted \in Gestures
    BY <1>1, OneOrOther DEF Running
  <2> QED BY <2>1, <2>2, UpdateRuns DEF StillSpeaks
<1>2. CASE m.accepted = Nobody
  <2> DEFINE n1 == UpdateNth(m, 1, sample)
             n2 == UpdateNth(n1, 2, sample)
  <2>1. UpdateRunning(m, sample) = n2
    BY <1>2 DEF UpdateRunning, ForEachCurrent, UpdateNth
  <2> DEFINE GoesFrom(n, o) == Speaks(m, n) => Speaks(m, o)
  <2>2. ASSUME NEW n, Sane(n), Running(n), NEW i \in 1..2
        PROVE  /\ Runs(n, UpdateNth(n, i, sample))
               /\ GoesFrom(n, UpdateNth(n, i, sample))
    <3>1. CASE i <= Len(n.list)
      <4>1. n.accepted = Nobody /\ n.list \in Lists
        BY <2>2, <3>1, OneOrOther, ListFacts DEF Running, Recognising, Competing
      <4>2. n.list[i] \in Gestures
        <5>1. n.list \in Seq(Gestures) /\ i \in 1..Len(n.list)
          BY <3>1, <4>1, ListFacts
        <5> QED BY <5>1
      <4>3. /\ Runs(n, Update(n, n.list[i], sample))
            /\ StillSpeaks(n, Update(n, n.list[i], sample))
        BY <2>2, <4>1, <4>2, UpdateRuns
      <4>4. n.accepted # "drag"
        BY <4>1 DEF Nobody
      <4> QED BY <3>1, <4>3, <4>4 DEF UpdateNth, StillSpeaks
    <3>2. CASE ~(i <= Len(n.list))
      BY <2>2, <3>2, RunsSelf DEF UpdateNth
    <3> QED BY <3>1, <3>2
  <2>3. Runs(m, n1) /\ Speaks(m, n1)
    BY <2>2
  <2> HIDE DEF n1
  <2>4. Runs(n1, n2) /\ Speaks(m, n2)
    BY <2>2, <2>3 DEF Runs, Running
  <2> HIDE DEF n2
  <2> QED BY <2>1, <2>3, <2>4, RunsOn
<1> QED BY <1>1, <1>2

-----------------------------------------------------------------------------
(* Starting and ending a recognition.                                      *)

(* Every gesture of the list matches from the start, and stages.           *)
Starts(m, g, n) ==
  /\ n \in Managers
  /\ n.state = m.state
  /\ n.maxTouches = m.maxTouches
  /\ n.alt = m.alt
  /\ n.list = m.list
  /\ n.accepted = m.accepted
  /\ n.essential = m.essential
  /\ n.staged = m.staged
  /\ n.out = m.out
  /\ n.owners = m.owners
  /\ n.hold = m.hold
  /\ n.readGarbage = m.readGarbage
  /\ n.match = [m.match EXCEPT ![g] = "MATHING"]
  /\ n.post = [m.post EXCEPT ![g] = "stage"]
  /\ n.loaded <=> m.loaded \/ g = "drag"

LEMMA StartStarts ==
  ASSUME NEW m \in Managers, NEW g \in Gestures, ~Active(m, g)
  PROVE  Starts(m, g, Start(m, g))
<1> DEFINE match  == [m.match EXCEPT ![g] = "MATHING"]
           post   == [m.post EXCEPT ![g] = "stage"]
           loaded == m.loaded \/ g = "drag"
           n == [m EXCEPT !.match = match, !.post = post, !.loaded = loaded]
<1>1. Start(m, g) = n
  <2>1. EndGesture(m, g) = m
    BY EndIdle
  <2> HIDE DEF EndGesture
  <2> QED BY <2>1 DEF Start
<1>2. /\ match \in [Gestures -> MatchStates]
      /\ post \in [Gestures -> {"null", "stage", "accept"}]
      /\ loaded \in BOOLEAN
  BY DEF Managers, MatchStates
<1> HIDE DEF match, post, loaded
<1>3. n \in Managers
  BY <1>2 DEF Managers
<1>4. /\ n.state = m.state /\ n.maxTouches = m.maxTouches /\ n.alt = m.alt
      /\ n.list = m.list /\ n.accepted = m.accepted
      /\ n.essential = m.essential /\ n.staged = m.staged
      /\ n.out = m.out /\ n.owners = m.owners /\ n.hold = m.hold
      /\ n.readGarbage = m.readGarbage
      /\ n.match = match /\ n.post = post /\ n.loaded = loaded
  BY DEF Managers
<1> HIDE DEF n
<1> QED BY <1>1, <1>3, <1>4 DEF Starts, match, post, loaded

(* s with the gestures of S started, none of which was active.             *)
Begun(s, S, n) ==
  /\ n \in Managers
  /\ n.state = s.state
  /\ n.maxTouches = s.maxTouches
  /\ n.alt = s.alt
  /\ n.list = s.list
  /\ n.accepted = s.accepted
  /\ n.essential = s.essential
  /\ n.staged = s.staged
  /\ n.out = s.out
  /\ n.owners = s.owners
  /\ n.hold = s.hold
  /\ n.readGarbage = s.readGarbage
  /\ \A g \in Gestures :
       /\ n.match[g] = IF g \in S THEN "MATHING" ELSE s.match[g]
       /\ n.post[g] = IF g \in S THEN "stage" ELSE s.post[g]
  /\ n.loaded <=> s.loaded \/ "drag" \in S

LEMMA BeginOne ==
  ASSUME NEW s, \A g \in Gestures : ~Active(s, g),
         NEW S, NEW m, Begun(s, S, m), NEW a \in Gestures \ S
  PROVE  Begun(s, S \cup {a}, Start(m, a))
<1>1. m \in Managers /\ ~Active(m, a)
  BY DEF Begun, Active
<1> DEFINE n == Start(m, a)
<1>2. Starts(m, a, n)
  BY <1>1, StartStarts
<1> HIDE DEF n
<1>3. \A g \in Gestures :
        /\ n.match[g] = IF g \in S \cup {a} THEN "MATHING" ELSE s.match[g]
        /\ n.post[g] = IF g \in S \cup {a} THEN "stage" ELSE s.post[g]
  BY <1>1, <1>2 DEF Begun, Starts, Managers
<1>4. n.loaded <=> s.loaded \/ "drag" \in S \cup {a}
  BY <1>2 DEF Begun, Starts
<1>5. Begun(s, S \cup {a}, n)
  BY <1>2, <1>3, <1>4 DEF Begun, Starts
<1> QED BY <1>5 DEF n

StartNth(n, i) == IF i <= Len(n.list) THEN Start(n, n.list[i]) ELSE n

LEMMA BeginAll ==
  ASSUME NEW s \in Managers, s.list \in Lists,
         \A g \in Gestures : ~Active(s, g)
  PROVE  Begun(s, ToSet(s.list), ForEachCurrent(Start, s))
<1>1. ForEachCurrent(Start, s) = StartNth(StartNth(s, 1), 2)
  BY DEF ForEachCurrent, StartNth
<1>2. Begun(s, {}, s)
  BY DEF Begun
<1>3. CASE s.list = <<>>
  <2>1. StartNth(s, 1) = s /\ StartNth(s, 2) = s
    BY <1>3, ListFacts DEF StartNth
  <2> QED BY <1>1, <1>2, <1>3, <2>1, ListFacts
<1>4. CASE s.list = <<"scroll">>
  <2> DEFINE n == Start(s, "scroll")
  <2>1. "scroll" \in Gestures
    BY GestureSet
  <2>2. Begun(s, {} \cup {"scroll"}, n)
    BY <1>2, <2>1, BeginOne
  <2>3. StartNth(s, 1) = n
    BY <1>4 DEF StartNth
  <2> HIDE DEF n
  <2>4. n.list = s.list
    BY <2>2 DEF Begun
  <2>5. StartNth(n, 2) = n
    BY <1>4, <2>4 DEF StartNth
  <2>6. {} \cup {"scroll"} = ToSet(s.list)
    BY <1>4, ListFacts
  <2> QED BY <1>1, <2>2, <2>3, <2>5, <2>6
<1>5. ASSUME NEW a \in Gestures, NEW b \in Gestures, a # b,
             s.list = <<a, b>>, ToSet(s.list) = {a, b}
      PROVE  Begun(s, ToSet(s.list), ForEachCurrent(Start, s))
  <2> DEFINE n == Start(s, a)
  <2>1. Begun(s, {} \cup {a}, n)
    BY <1>2, BeginOne
  <2>2. StartNth(s, 1) = n
    BY <1>5 DEF StartNth
  <2> HIDE DEF n
  <2>3. n.list = s.list
    BY <2>1 DEF Begun
  <2>4. StartNth(n, 2) = Start(n, b)
    BY <1>5, <2>3 DEF StartNth
  <2>5. Begun(s, {} \cup {a} \cup {b}, Start(n, b))
    <3>1. b \in Gestures \ ({} \cup {a})
      BY <1>5
    <3> QED BY <2>1, <3>1, BeginOne
  <2>6. {} \cup {a} \cup {b} = ToSet(s.list)
    BY <1>5
  <2> QED BY <1>1, <2>2, <2>4, <2>5, <2>6
<1> QED BY <1>3, <1>4, <1>5, ListFacts, GestureSet DEF Lists

(* A new recognition: all its gestures match, none has yet.                *)
LEMMA StartListCompetes ==
  ASSUME NEW m, Sane(m), \A g \in Gestures : ~Active(m, g), Tame(m),
         m.out = <<>>, NEW list \in Lists
  PROVE  /\ Sane(StartList(m, list))
         /\ Competing(StartList(m, list))
         /\ StartList(m, list).state = "UPDATING"
         /\ StartList(m, list).maxTouches = m.maxTouches
         /\ StartList(m, list).alt = m.alt
         /\ StartList(m, list).staged = m.staged
         /\ StartList(m, list).out = <<>>
         /\ StartList(m, list).hold = m.hold
         /\ StartList(m, list).list = list
         /\ \A g \in Gestures : StartList(m, list).match[g] # "OK"
         /\ StartList(m, list).essential = m.essential
         /\ \A g \in ToSet(list) : StartList(m, list).match[g] = "MATHING"
<1> DEFINE s == [m EXCEPT !.list = list, !.owners = {}]
           r == ForEachCurrent(Start, s)
           n == [r EXCEPT !.state = "UPDATING", !.accepted = Nobody]
<1>1. /\ s \in Managers /\ s.list = list /\ s.owners = {}
      /\ s.state = m.state /\ s.maxTouches = m.maxTouches /\ s.alt = m.alt
      /\ s.accepted = m.accepted /\ s.match = m.match /\ s.post = m.post
      /\ s.essential = m.essential /\ s.staged = m.staged
      /\ s.out = m.out /\ s.loaded = m.loaded /\ s.hold = m.hold
      /\ s.readGarbage = m.readGarbage
  <2>1. list \in Seq(Gestures)
    BY ListFacts
  <2> QED BY <2>1 DEF Sane, Managers
<1>2. StartList(m, list) = n
  BY DEF StartList
<1> HIDE DEF s
<1>3. Begun(s, ToSet(list), r)
  BY <1>1, BeginAll DEF Active
<1> HIDE DEF r
<1>4. /\ n \in Managers /\ n.state = "UPDATING" /\ n.accepted = Nobody
      /\ n.maxTouches = m.maxTouches /\ n.alt = m.alt /\ n.list = list
      /\ n.essential = m.essential /\ n.staged = m.staged
      /\ n.out = <<>> /\ n.owners = {} /\ n.hold = m.hold
      /\ n.readGarbage = m.readGarbage
      /\ n.loaded <=> m.loaded \/ "drag" \in ToSet(list)
      /\ \A g \in Gestures :
           /\ n.match[g] = IF g \in ToSet(list) THEN "MATHING" ELSE m.match[g]
           /\ n.post[g] = IF g \in ToSet(list) THEN "stage" ELSE m.post[g]
  <2>1. /\ n \in Managers /\ n.state = "UPDATING" /\ n.accepted = Nobody
        /\ n.maxTouches = r.maxTouches /\ n.alt = r.alt /\ n.list = r.list
        /\ n.essential = r.essential /\ n.staged = r.staged
        /\ n.out = r.out /\ n.owners = r.owners /\ n.hold = r.hold
        /\ n.readGarbage = r.readGarbage /\ n.loaded = r.loaded
        /\ n.match = r.match /\ n.post = r.post
    BY <1>3 DEF Begun, Managers
  <2> HIDE DEF n
  <2> QED BY <1>1, <1>3, <2>1 DEF Begun
<1> HIDE DEF n
<1>5. "drag" \in Gestures
  BY GestureSet
<1>6. Sane(n)
  <2>1. \A i \in 1..Len(n.out) : n.out[i].by \in n.owners
    BY <1>4, ListFacts
  <2>2. n.loaded /\ n.hold = "garbage" => Active(n, "drag")
    BY <1>4, <1>5 DEF Sane, Active
  <2>3. n.hold = "open" \/ Active(n, "drag") => n.loaded
    BY <1>4, <1>5 DEF Sane, Active
  <2> QED BY <1>4, <2>1, <2>2, <2>3 DEF Sane
<1>7. Competing(n) /\ \A g \in Gestures : n.match[g] # "OK"
  <2>1. Tame(n)
    BY <1>4 DEF Tame, PlainOf
  <2> QED BY <1>4, <2>1 DEF Competing, Active
<1>8. \A g \in ToSet(list) : n.match[g] = "MATHING"
  <2>1. ToSet(list) \subseteq Gestures
    <3>1. list \in Seq(Gestures)
      BY ListFacts
    <3> QED BY <3>1 DEF ToSet
  <2> QED BY <1>4, <2>1
<1> QED BY <1>2, <1>4, <1>6, <1>7, <1>8

(* What the end of the gestures that ran from m queues: the release of the *)
(* button of a drag that had won, a click, or no more than the release of  *)
(* a former drag.                                                          *)
Closes(m, n) ==
  \/ /\ m.accepted = "drag"
     /\ n.out = <<Entry("drag", ButtonUpDefer(DragButton))>>
  \/ m.accepted # "drag" /\ Quelled(Actions(n.out), TRUE)
  \/ m.accepted # "drag" /\ Clicks(m, n)

(* The gestures that ran are ended; a drag that had won queues the release *)
(* of its button.                                                          *)
Rest(m, n) ==
  /\ Sane(n)
  /\ n.state = m.state
  /\ n.maxTouches = m.maxTouches
  /\ n.alt = m.alt
  /\ n.accepted = Nobody
  /\ \A g \in Gestures : ~Active(n, g) /\ HarmlessOf(n, g)
  /\ \E g \in Gestures : n.owners \subseteq {g}
  /\ Tame(n)
  /\ Closes(m, n)
  /\ IF m.accepted = "drag"
       THEN n.out = Append(m.out, Entry("drag", ButtonUpDefer(DragButton)))
       ELSE "drag" \notin n.owners

LEMMA EndRunningRests ==
  ASSUME NEW m, Sane(m), Running(m), m.out = <<>>
  PROVE  Rest(m, EndRunning(m))
<1> DEFINE e == IF m.accepted # Nobody THEN EndGesture(m, m.accepted)
                                       ELSE ForEachCurrent(EndGesture, m)
           n == [e EXCEPT !.accepted = Nobody, !.list = <<>>]
<1>1. EndRunning(m) = n
  BY DEF EndRunning
<1>2. /\ Sane(e) /\ e.state = m.state /\ e.maxTouches = m.maxTouches
      /\ e.alt = m.alt
      /\ \A g \in Gestures : ~Active(e, g) /\ HarmlessOf(e, g)
      /\ \E g \in Gestures : e.owners \subseteq {g}
      /\ IF m.accepted = "drag"
           THEN e.out = Append(m.out, Entry("drag", ButtonUpDefer(DragButton)))
           ELSE "drag" \notin e.owners
      /\ Tame(e)
      /\ Closes(m, e)
  <2>1. CASE Owned(m)
    <3> DEFINE g == m.accepted
    <3>1. /\ g \in Gestures \ Taps /\ g # Nobody /\ Won(m, g)
          /\ m.match \in [Gestures -> MatchStates]
          /\ g = "drag" => Active(m, g)
      BY <2>1, OneOrOther DEF Owned, Sane, Managers, Active
    <3>2. e = EndGesture(m, g)
      BY <3>1
    <3>3. EndsAlone(m, g, e)
      BY <3>1, <3>2, EndAccepted
    <3>4. g = "drag" =>
            e.out = Append(m.out, Entry("drag", ButtonUpDefer(DragButton)))
      BY <3>1, <3>2, EndAccepted DEF Won
    <3> HIDE DEF e
    <3>5. \A h \in Gestures : ~Active(e, h)
      <4>1. e.match = [m.match EXCEPT ![g] = IF Active(m, g) THEN "NONE" ELSE @]
        BY <3>3 DEF EndsAlone
      <4> QED BY <3>1, <4>1 DEF Active, Won
    <3>6. \A h \in Gestures : HarmlessOf(e, h)
      <4>1. \A h \in Gestures : HarmlessOf(m, h)
        BY <3>1 DEF Won, HarmlessOf, NothingStaged
      <4> QED BY <3>1, <3>3, <4>1 DEF EndsAlone
    <3>7. e.owners \subseteq {g}
      BY <3>1, <3>3 DEF EndsAlone, Won
    <3>8. Tame(e)
      <4>1. Tame(m)
        BY <3>1 DEF Won, Tame, PlainOf, NothingStaged
      <4> QED BY <3>1, <3>3, <4>1 DEF EndsAlone
    <3>9. Closes(m, e)
      <4>1. CASE g = "drag"
        <5>1. e.out = Append(<<>>, Entry("drag", ButtonUpDefer(DragButton)))
          BY <3>4, <4>1
        <5> QED BY <4>1, <5>1 DEF Closes
      <4>2. CASE g # "drag"
        <5>1. Quelled(Actions(<<>>), TRUE)
          BY ListFacts DEF Quelled, Actions
        <5>2. g \notin Taps \cup {"drag"} /\ <<>> \in Seq(Entries)
          BY <3>1, <4>2
        <5>3. \/ e.out = <<>>
              \/ \E x : Plain(x.action) /\ e.out = Append(<<>>, x)
          <6>1. CASE Active(m, g)
            <7>1. m.post[g] = "accept"
              BY <3>1, <6>1 DEF Won
            <7> QED BY <3>3, <5>2, <7>1 DEF EndsAlone
          <6>2. CASE ~Active(m, g)
            BY <3>2, <6>2, EndIdle
          <6> QED BY <6>1, <6>2
        <5>4. Quelled(Actions(e.out), TRUE)
          BY <5>1, <5>2, <5>3, QuelledMore
        <5> QED BY <4>2, <5>4 DEF Closes
      <4> QED BY <4>1, <4>2
    <3> QED BY <3>1, <3>3, <3>4, <3>5, <3>6, <3>7, <3>8, <3>9 DEF EndsAlone
  <2>2. CASE Recognising(m)
    <3>1. m.accepted = Nobody /\ m.accepted # "drag"
      BY <2>2, OneOrOther DEF Nobody
    <3>2. e = ForEachCurrent(EndGesture, m)
      BY <3>1
    <3>3. Over(m, e)
      BY <2>2, <3>2, EndAllEnds
    <3> HIDE DEF e
    <3>4. Closes(m, e)
      BY <3>1, <3>3 DEF Over, Closes
    <3> QED BY <3>1, <3>3, <3>4 DEF Over
  <2> QED BY <2>1, <2>2 DEF Running
<1> HIDE DEF e
<1>3. /\ n \in Managers
      /\ n.state = e.state /\ n.maxTouches = e.maxTouches /\ n.alt = e.alt
      /\ n.accepted = Nobody /\ n.match = e.match /\ n.owners = e.owners
      /\ n.essential = e.essential /\ n.staged = e.staged
      /\ n.out = e.out /\ n.loaded = e.loaded /\ n.hold = e.hold
      /\ n.readGarbage = e.readGarbage
  <2>1. <<>> \in Seq(Gestures)
    OBVIOUS
  <2> QED BY <1>2, <2>1 DEF Sane, Managers
<1> HIDE DEF n
<1>4. Sane(n) /\ \A g \in Gestures : ~Active(n, g) /\ HarmlessOf(n, g)
  BY <1>2, <1>3 DEF Sane, Active, HarmlessOf
<1>5. Tame(n) /\ Closes(m, n)
  BY <1>2, <1>3 DEF Tame, PlainOf, Closes, Clicks, ClicksOf
<1> QED BY <1>1, <1>2, <1>3, <1>4, <1>5 DEF Rest

-----------------------------------------------------------------------------
(* Between the calls of the manager, and in each of them.                  *)

Phase(m) == IF m.state = "UPDATING" THEN Running(m) ELSE Quiet(m)

(* n may differ from m in what the phases do not depend on.                *)
Alike(m, n) ==
  /\ n \in Managers
  /\ n.match = m.match
  /\ n.essential = m.essential
  /\ n.post = m.post
  /\ n.staged = m.staged
  /\ n.owners = m.owners
  /\ n.loaded = m.loaded
  /\ n.readGarbage = m.readGarbage
  /\ \/ n.out \in {m.out, <<>>}
     \/ m.out # <<>> /\ n.out = Tail(m.out)
  /\ n.hold = m.hold \/ n.hold \notin {"garbage", "open"}

LEMMA AlikeSane ==
  ASSUME NEW m, Sane(m), NEW n, Alike(m, n)
  PROVE  /\ Sane(n)
         /\ Quiet(m) => Quiet(n)
         /\ Recognising(m) /\ n.accepted = m.accepted /\ n.list = m.list =>
              Recognising(n)
         /\ Owned(m) /\ n.accepted = m.accepted /\ n.list = m.list => Owned(n)
<1>1. \A g \in Gestures :
        /\ Active(n, g) <=> Active(m, g)
        /\ HarmlessOf(n, g) <=> HarmlessOf(m, g)
  BY DEF Alike, Active, HarmlessOf
<1>2. Sane(n)
  <2>1. \A i \in 1..Len(n.out) : n.out[i].by \in n.owners
    <3>1. CASE n.out = m.out
      BY <3>1 DEF Alike, Sane
    <3>2. CASE n.out = <<>>
      BY <3>2, ListFacts
    <3>3. CASE m.out # <<>> /\ n.out = Tail(m.out)
      <4>1. m.out \in Seq(Entries)
        BY DEF Sane, Managers
      <4>2. ASSUME NEW i \in 1..Len(n.out)
            PROVE  i + 1 \in 1..Len(m.out) /\ n.out[i] = m.out[i + 1]
        BY <3>3, <4>1
      <4> QED BY <4>2 DEF Alike, Sane
    <3> QED BY <3>1, <3>2, <3>3 DEF Alike
  <2>2. n.loaded /\ n.hold = "garbage" => Active(n, "drag")
    BY DEF Alike, Sane, Active
  <2>3. n.hold = "open" \/ Active(n, "drag") => n.loaded
    BY DEF Alike, Sane, Active
  <2> QED BY <2>1, <2>2, <2>3 DEF Alike, Sane
<1>6. Tame(m) => Tame(n)
  BY DEF Alike, Tame, PlainOf
<1>3. Quiet(m) => Quiet(n)
  BY <1>1, <1>6 DEF Quiet, Alike
<1>4. Recognising(m) /\ n.accepted = m.accepted /\ n.list = m.list =>
        Recognising(n)
  BY <1>1, <1>6 DEF Recognising, Competing, Undecided, Alike
<1>5. Owned(m) /\ n.accepted = m.accepted /\ n.list = m.list => Owned(n)
  BY <1>1 DEF Owned, Won, Alike
<1> QED BY <1>2, <1>3, <1>4, <1>5

(* Of the recognition that runs with count fingers.                        *)
Ready(m, count) ==
  m.state = "UPDATING" =>
    /\ m.accepted = Nobody => Calm(m)
    /\ m.accepted = "drag" \/ "drag" \in ToSet(m.list) =>
         count = RequiredTouches["drag"]

LEMMA AlikeReady ==
  ASSUME NEW m, NEW count, Ready(m, count), NEW n, Alike(m, n),
         n.state = m.state, n.accepted = m.accepted, n.list = m.list
  PROVE  Ready(n, count)
BY DEF Ready, Alike, Calm

(* What a call queues can only press for a drag that owns the fingers.     *)
LEMMA QueuedByOwners ==
  ASSUME NEW m, Sane(m), NEW e \in ToSet(m.out)
  PROVE  e.by \in m.owners
<1>1. m.out \in Seq(Entries)
  BY DEF Sane, Managers
<1>2. PICK i \in 1..Len(m.out) : e = m.out[i]
  BY <1>1 DEF ToSet
<1> QED BY <1>2 DEF Sane

LEMMA OneOwnerAtMost ==
  ASSUME NEW m, Phase(m)
  PROVE  \E g \in Gestures :
           /\ m.owners \subseteq {g}
           /\ m.state = "UPDATING" => g \notin Taps
           /\ (m.state = "UPDATING" /\ m.accepted # "drag") => g # "drag"
<1>1. "move" \in Gestures \ Taps
  BY GestureSet DEF Taps
<1>2. CASE m.state = "UPDATING" /\ Recognising(m)
  BY <1>1, <1>2 DEF Recognising, Competing
<1>3. CASE m.state = "UPDATING" /\ Owned(m)
  BY <1>3 DEF Owned, Won
<1>4. CASE m.state # "UPDATING"
  BY <1>4 DEF Phase, Quiet
<1> QED BY <1>2, <1>3, <1>4 DEF Phase, Running

(* A call from c to n: the phase is right again, and a drag that owned the *)
(* fingers still does, or has queued the release.                          *)
Called(c, n) ==
  /\ Sane(n)
  /\ Phase(n)
  /\ IF c.state = "UPDATING" /\ c.accepted = "drag"
       THEN \/ n.state = "UPDATING" /\ n.accepted = "drag"
            \/ \E e \in ToSet(n.out) : Releases(e)
       ELSE \/ n.state = "UPDATING" /\ n.accepted = "drag"
            \/ \A e \in ToSet(n.out) : e.by # "drag"
  /\ n.state = "UPDATING" /\ n.accepted = "drag" =>
       /\ \A e \in ToSet(n.out) : ~Releases(e)
       /\ \/ c.state = "UPDATING" /\ c.accepted = "drag"
          \/ \E e \in ToSet(n.out) : Presses(e)

(* What a finger that lands or leaves lets the call queue.                 *)
Ends(c, n) ==
  /\ n.state # "UPDATING"
  /\ \/ n.out = <<>> /\ n.hold = c.hold
     \/ /\ c.state = "UPDATING" /\ c.accepted = "drag"
        /\ n.out = <<Entry("drag", ButtonUpDefer(DragButton))>>
     \/ Quelled(Actions(n.out), TRUE)
     \/ Clicks(c, n)

(* What a movement lets it queue: b is the recognition that then runs.     *)
Talks(c, n, idx) ==
  \/ n.out = <<>> /\ n.hold = c.hold
  \/ /\ idx = 0
     /\ n.state = "UPDATING"
     /\ \E b : /\ Speaks(b, n)
               /\ b.hold = c.hold
               /\ b.accepted = "drag" => c.state = "UPDATING" /\ c.accepted = "drag"

(* What is queued last is in the queue.                                    *)
LEMMA ReleaseQueued ==
  ASSUME NEW n, n.out = Append(<<>>, Entry("drag", ButtonUpDefer(DragButton)))
  PROVE  \E e \in ToSet(n.out) : Releases(e)
<1> DEFINE e == Entry("drag", ButtonUpDefer(DragButton))
<1>1. Releases(e)
  <2>1. ButtonUpDefer(DragButton).defer = "NEW"
    BY ActionTypes, GestureButtons
  <2> HIDE DEF DragButton
  <2> QED BY <2>1 DEF Releases, Entry
<1> HIDE DEF e
<1>2. n.out = <<e>>
  BY DEF e
<1>3. e \in ToSet(n.out)
  BY <1>2 DEF ToSet
<1> QED BY <1>1, <1>3

LEMMA RestIsQuiet ==
  ASSUME NEW c, c.state = "UPDATING", c.out = <<>>,
         NEW r, Rest(c, r), NEW n, Alike(r, n),
         n.state # "UPDATING", n.out = r.out
  PROVE  Called(c, n)
<1>1. Sane(r) /\ Quiet(r)
  BY DEF Rest, Quiet
<1>2. Sane(n) /\ Phase(n)
  BY <1>1, AlikeSane DEF Phase
<1>3. CASE c.accepted = "drag"
  BY <1>2, <1>3, ReleaseQueued DEF Rest, Called
<1>4. CASE c.accepted # "drag"
  <2>1. \A e \in ToSet(n.out) : e.by # "drag"
    BY <1>1, <1>4, QueuedByOwners DEF Rest
  <2> QED BY <1>2, <1>4, <2>1 DEF Called
<1> QED BY <1>3, <1>4

(* A call that queues nothing and stays in its phase.                      *)
LEMMA CalledIdly ==
  ASSUME NEW c, Sane(c), Phase(c), NEW n, Alike(c, n), n.out = <<>>,
         n.accepted = c.accepted, n.list = c.list,
         n.state = "UPDATING" <=> c.state = "UPDATING"
  PROVE  Called(c, n)
<1>1. Sane(n) /\ Phase(n)
  BY AlikeSane DEF Phase, Running
<1>2. \A e \in ToSet(n.out) : e.by # "drag" /\ ~Releases(e)
  BY ListFacts
<1> QED BY <1>1, <1>2 DEF Called

LEMMA TouchStartCalled ==
  ASSUME NEW c, Sane(c), Phase(c), c.out = <<>>, NEW count \in Nat
  PROVE  /\ Called(c, TouchStart(c, count))
         /\ TouchStart(c, count).maxTouches = count
         /\ TouchStart(c, count).alt = c.alt
         /\ TouchStart(c, count).state # "NONE"
         /\ Ends(c, TouchStart(c, count))
         /\ c.state # "UPDATING" =>
              /\ TouchStart(c, count).out = <<>>
              /\ TouchStart(c, count).hold = c.hold
<1>1. c \in Managers /\ c.state \in {"NONE", "WAITING", "UPDATING", "CHANGING"}
  BY DEF Sane, Managers
<1>2. CASE c.state # "UPDATING"
  <2> DEFINE state == IF c.state = "CHANGING" THEN "CHANGING" ELSE "WAITING"
             n == [c EXCEPT !.state = state, !.maxTouches = count]
  <2>1. TouchStart(c, count) = n
    BY <1>1, <1>2 DEF TouchStart, Managers
  <2>2. /\ state \in {"WAITING", "CHANGING"}
        /\ state # "NONE" /\ state # "UPDATING"
    OBVIOUS
  <2> HIDE DEF state
  <2>3. /\ Alike(c, n) /\ n.out = <<>>
        /\ n.accepted = c.accepted /\ n.list = c.list /\ n.hold = c.hold
        /\ n.state = state /\ n.maxTouches = count /\ n.alt = c.alt
    BY <1>1, <2>2 DEF Alike, Managers
  <2> HIDE DEF n
  <2>4. Ends(c, n)
    BY <2>2, <2>3 DEF Ends
  <2> QED BY <1>2, <2>1, <2>2, <2>3, <2>4, CalledIdly
<1>3. CASE c.state = "UPDATING"
  <2> DEFINE r == EndRunning(c)
             n == [r EXCEPT !.state = "WAITING", !.maxTouches = count]
  <2>1. Rest(c, r)
    BY <1>3, EndRunningRests DEF Phase
  <2>2. TouchStart(c, count) = n
    BY <1>3 DEF TouchStart
  <2> HIDE DEF r
  <2>4. r \in Managers /\ r.alt = c.alt
    BY <2>1 DEF Rest, Sane
  <2>3. /\ Alike(r, n) /\ n.out = r.out /\ n.hold = r.hold
        /\ n.state = "WAITING" /\ n.maxTouches = count /\ n.alt = r.alt
    BY <2>4 DEF Alike, Managers
  <2> HIDE DEF n
  <2>5. Ends(c, n)
    BY <1>3, <2>1, <2>3 DEF Rest, Closes, Clicks, ClicksOf, Ends
  <2> QED BY <1>3, <2>1, <2>2, <2>3, <2>4, <2>5, RestIsQuiet
<1> QED BY <1>2, <1>3

LEMMA ClicksAlike ==
  ASSUME NEW m, NEW n, NEW t, ClicksOf(m, n, t),
         NEW c, c.hold = m.hold, NEW o, o.hold = n.hold, o.out = n.out
  PROVE  ClicksOf(c, o, t)
BY DEF ClicksOf

(* Fingers that land and leave at once start a recognition to end it.      *)
LEMMA InstantTapCalled ==
  ASSUME NEW c, Sane(c), Quiet(c), c.out = <<>>, c.state # "UPDATING",
         NEW list \in Lists
  PROVE  LET n == [ForEachCurrent(EndGesture, StartList(c, list))
                     EXCEPT !.state = "NONE"]
         IN  /\ Called(c, n) /\ n.maxTouches = c.maxTouches
             /\ n.alt = c.alt /\ n.state = "NONE"
             /\ Ends(c, n)
             /\ c.essential = {} =>
                  \A t \in Taps \cap ToSet(list) : ClicksOf(c, n, t)
<1> DEFINE s == StartList(c, list)
           e == ForEachCurrent(EndGesture, s)
           n == [e EXCEPT !.state = "NONE"]
<1>1. /\ Sane(s) /\ Competing(s) /\ s.maxTouches = c.maxTouches
      /\ s.alt = c.alt /\ s.hold = c.hold
      /\ s.staged = c.staged
      /\ \A g \in Gestures : s.match[g] # "OK"
      /\ s.essential = c.essential /\ s.list = list
      /\ \A g \in ToSet(list) : s.match[g] = "MATHING"
  BY StartListCompetes DEF Quiet
<1> HIDE DEF s
<1>2. Recognising(s)
  BY <1>1 DEF Recognising, Undecided, Quiet, HarmlessOf
<1>3. /\ Over(s, e)
      /\ c.essential = {} =>
           \A t \in Taps \cap ToSet(list) : ClicksOf(s, e, t)
  BY <1>1, <1>2, EndAllEnds
<1> HIDE DEF e
<1>8. e \in Managers /\ e.maxTouches = c.maxTouches /\ e.alt = c.alt
  BY <1>1, <1>3 DEF Over, Sane
<1>4. /\ Alike(e, n) /\ n.state = "NONE" /\ n.maxTouches = c.maxTouches
      /\ n.alt = c.alt /\ n.hold = e.hold /\ n.out = e.out
      /\ n.owners = e.owners
  BY <1>8 DEF Alike, Managers
<1> HIDE DEF n
<1>5. Sane(n) /\ Quiet(n)
  BY <1>3, <1>4, AlikeSane DEF Over, Quiet
<1>6. \A q \in ToSet(n.out) : q.by # "drag"
  BY <1>3, <1>4, <1>5, QueuedByOwners DEF Over
<1>7. Called(c, n)
  BY <1>4, <1>5, <1>6 DEF Called, Phase
<1>10. \A t : ClicksOf(s, e, t) => ClicksOf(c, n, t)
  BY <1>1, <1>4, ClicksAlike
<1>9. Ends(c, n)
  <2>1. Quelled(Actions(n.out), TRUE) \/ Clicks(c, n)
    BY <1>3, <1>4, <1>10 DEF Over, Clicks
  <2> QED BY <1>4, <2>1 DEF Ends
<1>11. c.essential = {} => \A t \in Taps \cap ToSet(list) : ClicksOf(c, n, t)
  BY <1>3, <1>10
<1> QED BY <1>4, <1>7, <1>9, <1>11 DEF n, e, s

LEMMA TouchEndCalled ==
  ASSUME NEW c, Sane(c), Phase(c), c.out = <<>>, c.state # "NONE", NEW count
  PROVE  /\ Called(c, TouchEnd(c, count))
         /\ TouchEnd(c, count).maxTouches = c.maxTouches
         /\ TouchEnd(c, count).alt = c.alt
         /\ TouchEnd(c, count).state = "NONE" <=> count = 1
         /\ Ends(c, TouchEnd(c, count))
         /\ c.state # "UPDATING" /\ (c.state = "WAITING" => count # 1) =>
              /\ TouchEnd(c, count).out = <<>>
              /\ TouchEnd(c, count).hold = c.hold
         /\ TouchEnd(c, count).state = "WAITING" =>
              c.state = "WAITING" /\ count # 1
         /\ c.state = "WAITING" /\ count = 1 /\ c.essential = {} =>
              \A t \in Taps : c.maxTouches = RequiredTouches[t] =>
                ClicksOf(c, TouchEnd(c, count), t)
<1>1. c \in Managers /\ c.state \in {"WAITING", "UPDATING", "CHANGING"}
  BY DEF Sane, Managers
<1>2. CASE c.state = "WAITING" /\ count = 1
  <2> DEFINE list == GesturesFor(c.maxTouches)
             n == [ForEachCurrent(EndGesture, StartList(c, list))
                     EXCEPT !.state = "NONE"]
  <2>1. /\ list \in Lists
        /\ \A t \in Taps : c.maxTouches = RequiredTouches[t] =>
             t \in ToSet(list)
    BY GesturesForLists
  <2>2. TouchEnd(c, count) = n
    BY <1>2 DEF TouchEnd
  <2> HIDE DEF list
  <2>3. /\ Called(c, n) /\ n.maxTouches = c.maxTouches
        /\ n.alt = c.alt /\ n.state = "NONE" /\ Ends(c, n)
        /\ c.essential = {} =>
             \A t \in Taps \cap ToSet(list) : ClicksOf(c, n, t)
    BY <1>2, <2>1, InstantTapCalled DEF Phase
  <2> HIDE DEF n
  <2>4. c.essential = {} =>
          \A t \in Taps : c.maxTouches = RequiredTouches[t] =>
            ClicksOf(c, n, t)
    BY <2>1, <2>3
  <2> QED BY <1>2, <2>2, <2>3, <2>4
<1>3. CASE c.state = "UPDATING"
  <2> DEFINE r == EndRunning(c)
             state == IF count = 1 THEN "NONE" ELSE "CHANGING"
             n == [r EXCEPT !.state = state]
  <2>1. Rest(c, r)
    BY <1>3, EndRunningRests DEF Phase
  <2>2. TouchEnd(c, count) = n
    BY <1>3 DEF TouchEnd
  <2>3. state \in {"NONE", "CHANGING"} /\ (state = "NONE" <=> count = 1)
    OBVIOUS
  <2> HIDE DEF r, state
  <2>6. r \in Managers /\ r.maxTouches = c.maxTouches /\ r.alt = c.alt
    BY <2>1 DEF Rest, Sane
  <2>7. state \in {"NONE", "WAITING", "UPDATING", "CHANGING"}
    BY <2>3
  <2>4. /\ Alike(r, n) /\ n.out = r.out /\ n.hold = r.hold
        /\ n.state = state /\ n.maxTouches = c.maxTouches /\ n.alt = c.alt
    BY <2>6, <2>7 DEF Alike, Managers
  <2> HIDE DEF n
  <2>5. n.state # "UPDATING" /\ n.state # "WAITING"
    BY <2>3, <2>4
  <2>8. Ends(c, n)
    BY <1>3, <2>1, <2>4, <2>5 DEF Rest, Closes, Clicks, ClicksOf, Ends
  <2>9. Called(c, n)
    BY <1>3, <2>1, <2>4, <2>5, RestIsQuiet
  <2> QED BY <1>3, <2>2, <2>3, <2>4, <2>5, <2>8, <2>9
<1>4. CASE c.state = "CHANGING" \/ (c.state = "WAITING" /\ count # 1)
  <2> DEFINE state == IF count = 1 THEN "NONE" ELSE c.state
             n == [c EXCEPT !.state = state]
  <2>1. TouchEnd(c, count) = n
    BY <1>1, <1>4 DEF TouchEnd, Managers
  <2>2. /\ state \in {"NONE", "WAITING", "CHANGING"}
        /\ state = "NONE" <=> count = 1
        /\ state # "UPDATING"
    BY <1>4
  <2> HIDE DEF state
  <2>3. /\ Alike(c, n) /\ n.out = <<>>
        /\ n.accepted = c.accepted /\ n.list = c.list /\ n.hold = c.hold
        /\ n.state = state /\ n.maxTouches = c.maxTouches /\ n.alt = c.alt
    BY <1>1, <2>2 DEF Alike, Managers
  <2>5. state = "WAITING" => c.state = "WAITING" /\ count # 1
    BY <1>4 DEF state
  <2> HIDE DEF n
  <2>4. Ends(c, n)
    BY <2>2, <2>3 DEF Ends
  <2>6. Called(c, n)
    BY <1>4, <2>2, <2>3, CalledIdly
  <2> QED BY <1>4, <2>1, <2>2, <2>3, <2>4, <2>5, <2>6
<1> QED BY <1>1, <1>2, <1>3, <1>4

(* What touch_update does before the gestures are updated: begun there.    *)
Begins(c, count, b) ==
  /\ Ready(b, count)
  /\ b.hold = c.hold
  /\ b.state = "UPDATING" /\ b.accepted = "drag" => b = c
  /\ Sane(b)
  /\ Phase(b)
  /\ b.out = <<>>
  /\ b.state # "NONE"
  /\ b.maxTouches = c.maxTouches
  /\ b.alt = c.alt
  /\ c.state = "UPDATING" => b = c

LEMMA FreshListBegins ==
  ASSUME NEW c, Sane(c), Quiet(c), c.out = <<>>, c.state # "UPDATING",
         NEW list \in Lists, NEW count,
         "drag" \in ToSet(list) => count = RequiredTouches["drag"]
  PROVE  Begins(c, count, [StartList(c, list) EXCEPT !.staged = NothingStaged])
<1> DEFINE s == StartList(c, list)
           b == [s EXCEPT !.staged = NothingStaged]
<1>1. /\ Sane(s) /\ Competing(s) /\ s.state = "UPDATING"
      /\ s.maxTouches = c.maxTouches /\ s.alt = c.alt /\ s.out = <<>>
      /\ s.hold = c.hold /\ s.list = list
      /\ \A g \in Gestures : s.match[g] # "OK"
  BY StartListCompetes DEF Quiet
<1> HIDE DEF s
<1>2. NothingStaged \in [Gestures -> Seq(Postable)]
  BY DEF NothingStaged
<1>3. /\ b \in Managers /\ b.state = s.state /\ b.maxTouches = s.maxTouches
      /\ b.alt = s.alt
      /\ b.list = s.list /\ b.accepted = s.accepted /\ b.match = s.match
      /\ b.essential = s.essential /\ b.post = s.post
      /\ b.staged = NothingStaged /\ b.out = s.out /\ b.owners = s.owners
      /\ b.loaded = s.loaded /\ b.hold = s.hold
      /\ b.readGarbage = s.readGarbage
  BY <1>1, <1>2 DEF Sane, Managers
<1> HIDE DEF b
<1>4. Sane(b)
  BY <1>1, <1>3 DEF Sane, Active
<1>8. Tame(b)
  BY <1>3, ListFacts DEF Tame, PlainOf, NothingStaged
<1>5. Competing(b)
  BY <1>1, <1>3, <1>8 DEF Competing, Active
<1>6. Undecided(b)
  BY <1>1, <1>3 DEF Undecided, HarmlessOf, NothingStaged
<1>9. b.accepted = Nobody /\ b.accepted # "drag"
  BY <1>5 DEF Competing, Nobody
<1>10. Ready(b, count)
  <2>1. b.staged["drag"] = <<>> /\ b.match["drag"] # "OK"
    BY <1>1, <1>3, GestureSet DEF NothingStaged
  <2>2. Calm(b)
    BY <2>1, ListFacts DEF Calm
  <2> QED BY <1>1, <1>3, <1>9, <2>2 DEF Ready
<1>7. Begins(c, count, b)
  BY <1>1, <1>3, <1>4, <1>5, <1>6, <1>9, <1>10
     DEF Begins, Phase, Running, Recognising
<1> QED BY <1>7 DEF b, s

LEMMA TouchUpdateCalled ==
  ASSUME NEW c, Sane(c), Phase(c), c.out = <<>>, c.state # "NONE",
         NEW idx, NEW count, NEW sample \in Samples, Ready(c, count)
  PROVE  /\ Called(c, TouchUpdate(c, idx, count, sample))
         /\ TouchUpdate(c, idx, count, sample).maxTouches = c.maxTouches
         /\ TouchUpdate(c, idx, count, sample).alt = c.alt
         /\ TouchUpdate(c, idx, count, sample).state # "NONE"
         /\ \A e \in ToSet(TouchUpdate(c, idx, count, sample).out) :
              e.by \notin Taps
         /\ Ready(TouchUpdate(c, idx, count, sample), count)
         /\ Talks(c, TouchUpdate(c, idx, count, sample), idx)
         /\ c.state = "UPDATING" /\ c.accepted = "drag" =>
              /\ TouchUpdate(c, idx, count, sample).state = "UPDATING"
              /\ TouchUpdate(c, idx, count, sample).accepted = "drag"
<1> DEFINE waiting  == \/ c.state = "WAITING"
                       \/ c.state = "CHANGING" /\ sample.elapsed
           debounced == c.state = "WAITING" /\ idx = 0 /\ sample.elapsed
           altOnly  == c.alt # Nobody /\ RequiredTouches[c.alt] = count
           list     == IF altOnly THEN <<c.alt>> ELSE GesturesFor(count)
           begun    == IF ~waiting THEN c
                       ELSE IF altOnly \/ debounced \/ sample.far
                         THEN [StartList(c, list) EXCEPT !.staged = NothingStaged]
                         ELSE [c EXCEPT !.state = "WAITING"]
           n == IF begun.state = "UPDATING" /\ idx = 0
                  THEN UpdateRunning(begun, sample) ELSE begun
<1>1. TouchUpdate(c, idx, count, sample) = n
  BY DEF TouchUpdate
<1>2. /\ list \in Lists
      /\ "drag" \in ToSet(list) => count = RequiredTouches["drag"]
  <2>1. CASE altOnly
    <3>1. c.alt = "scroll"
      BY <2>1 DEF Sane, Managers
    <3> QED BY <2>1, <3>1, ListFacts DEF Lists
  <2>2. CASE ~altOnly
    BY <2>2, GesturesForLists
  <2> QED BY <2>1, <2>2
<1> HIDE DEF list, altOnly, debounced
<1>3. Begins(c, count, begun)
  <2>1. CASE ~waiting
    BY <2>1 DEF Begins
  <2>2. CASE waiting /\ (altOnly \/ debounced \/ sample.far)
    <3>1. c.state # "UPDATING" /\ Quiet(c)
      BY <2>2 DEF Phase
    <3> QED BY <1>2, <2>2, <3>1, FreshListBegins
  <2>3. CASE waiting /\ ~(altOnly \/ debounced \/ sample.far)
    <3> DEFINE b == [c EXCEPT !.state = "WAITING"]
    <3>1. c.state # "UPDATING" /\ Quiet(c)
      BY <2>3 DEF Phase
    <3>2. /\ Alike(c, b) /\ b.state = "WAITING" /\ b.out = <<>>
          /\ b.maxTouches = c.maxTouches
          /\ b.alt = c.alt /\ b.hold = c.hold
      BY DEF Alike, Sane, Managers
    <3>3. begun = b
      BY <2>3
    <3> HIDE DEF b, begun
    <3> QED BY <3>1, <3>2, <3>3, AlikeSane DEF Begins, Phase, Ready
  <2> QED BY <2>1, <2>2, <2>3
<1> HIDE DEF begun, waiting
<1>4. CASE begun.state = "UPDATING" /\ idx = 0
  <2>6. Running(begun) /\ Speaks(begun, begun)
    <3>1. Running(begun) /\ begun.out = <<>> /\ Ready(begun, count)
      BY <1>3, <1>4 DEF Begins, Phase
    <3>2. Quelled(Actions(begun.out), begun.hold = "open")
      BY <3>1, ListFacts DEF Quelled, Actions
    <3> QED BY <1>4, <3>1, <3>2, ListFacts DEF Ready, Speaks
  <2>1. /\ Running(begun) /\ Runs(begun, n) /\ Speaks(begun, n)
    BY <1>3, <1>4, <2>6, UpdateRunningRuns DEF Begins
  <2> HIDE DEF n
  <2>2. /\ Sane(n) /\ n.state = "UPDATING" /\ n.maxTouches = c.maxTouches
        /\ n.alt = c.alt
        /\ Phase(n)
    BY <1>3, <1>4, <2>1 DEF Begins, Runs, Phase, Running
  <2>3. \A e \in ToSet(n.out) :
          e.by \notin Taps /\ (n.accepted # "drag" => e.by # "drag")
    <3>1. PICK g \in Gestures :
            /\ n.owners \subseteq {g}
            /\ g \notin Taps
            /\ n.accepted # "drag" => g # "drag"
      BY <2>2, OneOwnerAtMost
    <3> QED BY <2>2, <3>1, QueuedByOwners
  <2>4. (c.state = "UPDATING" /\ c.accepted = "drag") => n.accepted = "drag"
    <3> SUFFICES ASSUME c.state = "UPDATING", c.accepted = "drag"
                 PROVE  n.accepted = "drag"
      OBVIOUS
    <3>1. begun = c
      BY <1>3 DEF Begins
    <3>2. ~Recognising(c)
      BY OneOrOther DEF Nobody
    <3> QED BY <2>1, <3>1, <3>2 DEF Runs
  <2>7. n.accepted = "drag" =>
          /\ \A e \in ToSet(n.out) : ~Releases(e)
          /\ \/ c.state = "UPDATING" /\ c.accepted = "drag"
             \/ \E e \in ToSet(n.out) : Presses(e)
    <3> SUFFICES ASSUME n.accepted = "drag"
                 PROVE  /\ \A e \in ToSet(n.out) : ~Releases(e)
                        /\ \/ c.state = "UPDATING" /\ c.accepted = "drag"
                           \/ \E e \in ToSet(n.out) : Presses(e)
      OBVIOUS
    <3>1. /\ \A i \in 1..Len(n.out) :
               \/ Plain(n.out[i].action) \/ Pressing(n.out[i].action)
               \/ Cancelling(n.out[i].action)
          /\ begun.accepted # "drag" =>
               \E i \in 1..Len(n.out) : Pressing(n.out[i].action)
      BY <2>1 DEF Speaks, Nobody
    <3>2. n.out \in Seq(Entries)
      BY <2>2 DEF Sane, Managers
    <3>3. \A e \in ToSet(n.out) : ~Releases(e)
      BY <3>1, <3>2 DEF ToSet, Releases, Plain, Pressing, Cancelling
    <3>4. CASE begun.accepted = "drag"
      BY <1>3, <1>4, <3>3, <3>4 DEF Begins
    <3>5. CASE begun.accepted # "drag"
      <4>1. PICK i \in 1..Len(n.out) : Pressing(n.out[i].action)
        BY <3>1, <3>5
      <4>2. n.out[i].by \in n.owners
        BY <2>2 DEF Sane
      <4>3. n.owners \subseteq {"drag"}
        BY <2>2, OneOrOther DEF Phase, Running, Owned, Won, Nobody
      <4>4. n.out[i] \in ToSet(n.out)
        BY <3>2 DEF ToSet
      <4>5. Presses(n.out[i])
        BY <4>1, <4>2, <4>3 DEF Presses, Pressing
      <4> QED BY <3>3, <4>4, <4>5
    <3> QED BY <3>4, <3>5
  <2>5. Called(c, n)
    BY <2>2, <2>3, <2>4, <2>7 DEF Called
  <2>8. Ready(n, count)
    <3>1. n.accepted = Nobody => Calm(n)
      BY <2>1 DEF Speaks
    <3>2. Ready(begun, count) /\ begun.state = "UPDATING"
      BY <1>3, <1>4 DEF Begins
    <3>3. n.accepted = "drag" \/ "drag" \in ToSet(n.list) =>
            begun.accepted = "drag" \/ "drag" \in ToSet(begun.list)
      BY <2>1, OneOrOther, ListFacts DEF Runs, Nobody
    <3> QED BY <2>2, <3>1, <3>2, <3>3 DEF Ready
  <2>9. Talks(c, n, idx)
    <3>1. /\ begun.hold = c.hold
          /\ begun.accepted = "drag" => c.state = "UPDATING" /\ c.accepted = "drag"
      BY <1>3, <1>4 DEF Begins
    <3> QED BY <1>4, <2>1, <2>2, <3>1 DEF Talks
  <2> QED BY <1>1, <2>2, <2>3, <2>4, <2>5, <2>8, <2>9
<1>5. CASE ~(begun.state = "UPDATING" /\ idx = 0)
  <2>1. n = begun
    BY <1>5
  <2> HIDE DEF n
  <2>2. Called(c, n)
    BY <1>3, <2>1, ListFacts DEF Begins, Called
  <2>3. Talks(c, n, idx)
    BY <1>3, <2>1 DEF Begins, Talks
  <2>4. Ready(n, count)
    BY <1>3, <2>1 DEF Begins
  <2> QED BY <1>1, <1>3, <2>1, <2>2, <2>3, <2>4, ListFacts DEF Begins
<1> QED BY <1>4, <1>5

-----------------------------------------------------------------------------
(* The inductive invariant of GestureManager.                              *)

(* A drag that owns the fingers has queued its press.                      *)
DragHeld == gm.state = "UPDATING" /\ gm.accepted = "drag" => held

IInv ==
  /\ TypeOK
  /\ Ready(gm, fingers)
  /\ DragHeld
  /\ Sane(gm)
  /\ Phase(gm)
  /\ gm.state = "NONE" <=> fingers = 0
  /\ DragWillRelease

LEMMA InitInv ==
  Init => IInv
<1> SUFFICES ASSUME Init PROVE IInv
  OBVIOUS
<1>1. /\ NothingStaged \in [Gestures -> Seq(Postable)]
      /\ [g \in Gestures |-> "NONE"] \in [Gestures -> MatchStates]
      /\ [g \in Gestures |-> "null"] \in
           [Gestures -> {"null", "stage", "accept"}]
      /\ <<>> \in Seq(Gestures) /\ <<>> \in Seq(Entries)
  BY DEF NothingStaged, MatchStates
<1>2. gm \in Managers
  BY <1>1 DEF Init, Fresh, Managers
<1>3. \A g \in Gestures : ~Active(gm, g) /\ HarmlessOf(gm, g)
  BY ListFacts DEF Init, Fresh, Active, HarmlessOf, NothingStaged
<1>4. Sane(gm)
  BY <1>2, <1>3, GestureSet, ListFacts DEF Init, Fresh, Sane
<1>8. Tame(gm)
  BY ListFacts DEF Init, Fresh, Tame, PlainOf, NothingStaged
<1>5. Quiet(gm)
  BY <1>3, <1>8, GestureSet DEF Init, Fresh, Quiet
<1>7. gm.state = "NONE" /\ gm.maxTouches = 0 /\ fingers = 0 /\ held = FALSE
  BY DEF Init, Fresh
<1>6. TypeOK
  <2>1. MaxFingers \in Nat
    BY BoundsAssumption
  <2>2. gm.maxTouches <= MaxFingers /\ fingers \in 0..MaxFingers
    BY <1>7, <2>1
  <2> QED BY <1>2, <1>7, <2>2 DEF TypeOK
<1> QED
  BY <1>4, <1>5, <1>6, <1>7 DEF IInv, Phase, DragWillRelease, Ready, DragHeld

(* A call starts with nothing queued.                                      *)
LEMMA CallingPhase ==
  ASSUME IInv
  PROVE  /\ Sane(Calling) /\ Phase(Calling) /\ Calling.out = <<>>
         /\ Alike(gm, Calling)
         /\ Calling.state = gm.state /\ Calling.accepted = gm.accepted
         /\ Calling.list = gm.list /\ Calling.maxTouches = gm.maxTouches
         /\ Calling.alt = gm.alt
         /\ Calling.hold = gm.hold
         /\ Calling.essential = gm.essential
         /\ Ready(Calling, fingers)
<1>1. gm \in Managers /\ <<>> \in Seq(Entries)
  BY DEF IInv, TypeOK
<1>2. /\ Alike(gm, Calling) /\ Calling.out = <<>>
      /\ Calling.state = gm.state /\ Calling.accepted = gm.accepted
      /\ Calling.list = gm.list /\ Calling.maxTouches = gm.maxTouches
      /\ Calling.alt = gm.alt
      /\ Calling.hold = gm.hold
      /\ Calling.essential = gm.essential
  BY <1>1 DEF Calling, Alike, Managers
<1>3. Sane(Calling) /\ Phase(Calling)
  BY <1>2, AlikeSane DEF IInv, Phase, Running
<1>4. Ready(Calling, fingers)
  BY <1>2, AlikeReady DEF IInv
<1> QED BY <1>2, <1>3, <1>4

(* A call keeps the invariant.                                             *)
LEMMA CallKeeps ==
  ASSUME IInv, NEW n, Called(Calling, n), Call(n),
         n.maxTouches <= MaxFingers, fingers' \in 0..MaxFingers,
         n.state = "NONE" <=> fingers' = 0, Ready(n, fingers')
  PROVE  IInv'
<1>1. gm' = n /\ Sane(n) /\ Phase(n) /\ n \in Managers
  BY DEF Call, Called, Sane
<1>2. /\ Calling.state = gm.state /\ Calling.accepted = gm.accepted
      /\ held \in BOOLEAN
  BY CallingPhase DEF IInv, TypeOK
<1>3. held' \in BOOLEAN
  BY <1>2 DEF Call
<1>4. TypeOK'
  BY <1>1, <1>3 DEF TypeOK
<1>5. ASSUME held'
      PROVE  n.state = "UPDATING" /\ n.accepted = "drag" /\ n.match["drag"] = "OK"
  <2>1. ~ \E e \in ToSet(n.out) : Releases(e)
    BY <1>5 DEF Call
  <2>2. held \/ \E e \in ToSet(n.out) : Presses(e)
    BY <1>5, <2>1 DEF Call
  <2>3. n.state = "UPDATING" /\ n.accepted = "drag"
    <3>1. held => Calling.state = "UPDATING" /\ Calling.accepted = "drag"
      BY <1>2 DEF IInv, DragWillRelease
    <3>2. CASE Calling.state = "UPDATING" /\ Calling.accepted = "drag"
      BY <2>1, <3>2 DEF Called
    <3>3. CASE ~(Calling.state = "UPDATING" /\ Calling.accepted = "drag")
      BY <2>2, <3>1, <3>3 DEF Called, Presses
    <3> QED BY <3>2, <3>3
  <2>4. ~Recognising(n)
    BY <2>3, OneOrOther DEF Nobody
  <2> QED BY <1>1, <2>3, <2>4 DEF Phase, Running, Owned
<1>6. DragWillRelease'
  BY <1>1, <1>5 DEF DragWillRelease
<1>7. DragHeld'
  <2> SUFFICES ASSUME n.state = "UPDATING", n.accepted = "drag" PROVE held'
    BY <1>1 DEF DragHeld
  <2>1. /\ \A e \in ToSet(n.out) : ~Releases(e)
        /\ held \/ \E e \in ToSet(n.out) : Presses(e)
    BY <1>2 DEF Called, IInv, DragHeld
  <2> QED BY <2>1 DEF Call
<1>8. Ready(gm, fingers)'
  BY <1>1 DEF Ready, Calm
<1> QED BY <1>1, <1>4, <1>6, <1>7, <1>8 DEF IInv, Phase, Sane, Running

(* What every step does: it keeps the invariant, and unless a finger lands *)
(* or leaves it queues no click.                                           *)
Safe ==
  /\ IInv'
  /\ fingers' = fingers => \A e \in ToSet(gm'.out) : e.by \notin Taps

LEMMA LandSafe ==
  ASSUME IInv, Land
  PROVE  /\ Safe /\ gm'.alt = gm.alt
         /\ Ends(Calling, gm')
         /\ gm.state # "UPDATING" => gm'.out = <<>> /\ gm'.hold = gm.hold
<1> DEFINE n == TouchStart(Calling, fingers + 1)
<1>1. /\ fingers \in Nat /\ fingers + 1 \in 0..MaxFingers /\ MaxFingers \in Nat
      /\ fingers + 1 \in Nat
  BY BoundsAssumption DEF Land, IInv, TypeOK
<1>2. /\ Called(Calling, n) /\ n.maxTouches = fingers + 1 /\ n.state # "NONE"
      /\ n.alt = gm.alt /\ Ends(Calling, n)
      /\ gm.state # "UPDATING" => n.out = <<>> /\ n.hold = gm.hold
  BY <1>1, CallingPhase, TouchStartCalled
<1>3. fingers' = fingers + 1 /\ Call(n)
  BY DEF Land
<1> HIDE DEF n
<1>5. Ready(n, fingers')
  BY <1>2 DEF Ends, Ready
<1>4. IInv'
  BY <1>1, <1>2, <1>3, <1>5, CallKeeps
<1> QED BY <1>1, <1>2, <1>3, <1>4 DEF Safe, Call

LEMMA LiftSafe ==
  ASSUME IInv, Lift
  PROVE  /\ Safe /\ gm'.alt = gm.alt
         /\ Ends(Calling, gm')
         /\ gm.state # "UPDATING" /\ (gm.state = "WAITING" => fingers # 1) =>
              gm'.out = <<>> /\ gm'.hold = gm.hold
         /\ gm'.state = "WAITING" => gm.state = "WAITING" /\ fingers # 1
         /\ gm.state = "WAITING" /\ fingers = 1 /\ gm.essential = {} =>
              \A t \in Taps : gm.maxTouches = RequiredTouches[t] =>
                ClicksOf(Calling, gm', t)
<1> DEFINE n == TouchEnd(Calling, fingers)
<1>1. /\ fingers \in Nat /\ fingers - 1 \in 0..MaxFingers /\ fingers > 0
      /\ gm.maxTouches <= MaxFingers
  BY BoundsAssumption DEF Lift, IInv, TypeOK
<1>2. Calling.state # "NONE" /\ Calling.maxTouches <= MaxFingers
  BY <1>1, CallingPhase DEF IInv
<1>3. /\ Called(Calling, n) /\ n.maxTouches <= MaxFingers
      /\ n.alt = gm.alt /\ Ends(Calling, n)
      /\ n.state = "NONE" <=> fingers = 1
      /\ gm.state # "UPDATING" /\ (gm.state = "WAITING" => fingers # 1) =>
           n.out = <<>> /\ n.hold = gm.hold
      /\ n.state = "WAITING" => gm.state = "WAITING" /\ fingers # 1
      /\ gm.state = "WAITING" /\ fingers = 1 /\ gm.essential = {} =>
           \A t \in Taps : gm.maxTouches = RequiredTouches[t] =>
             ClicksOf(Calling, n, t)
  BY <1>2, CallingPhase, TouchEndCalled
<1>4. fingers' = fingers - 1 /\ Call(n)
  BY DEF Lift
<1> HIDE DEF n
<1>5. n.state = "NONE" <=> fingers' = 0
  BY <1>1, <1>3, <1>4
<1>7. Ready(n, fingers')
  BY <1>3 DEF Ends, Ready
<1>6. IInv'
  BY <1>1, <1>3, <1>4, <1>5, <1>7, CallKeeps
<1> QED BY <1>1, <1>3, <1>4, <1>6 DEF Safe, Call

LEMMA MoveSafe ==
  ASSUME IInv, NEW idx \in 0..(fingers - 1), NEW sample \in Samples,
         Move(idx, sample)
  PROVE  /\ Safe /\ gm'.alt = gm.alt
         /\ Talks(Calling, gm', idx)
         /\ held => held'
<1> DEFINE n == TouchUpdate(Calling, idx, fingers, sample)
<1>1. /\ fingers \in 0..MaxFingers /\ fingers # 0
      /\ gm.maxTouches <= MaxFingers
  BY BoundsAssumption DEF IInv, TypeOK
<1>2. Calling.state # "NONE" /\ Calling.maxTouches <= MaxFingers
  BY <1>1, CallingPhase DEF IInv
<1>3. /\ Called(Calling, n) /\ n.maxTouches <= MaxFingers
      /\ n.state # "NONE" /\ n.alt = gm.alt
      /\ \A e \in ToSet(n.out) : e.by \notin Taps
      /\ Talks(Calling, n, idx) /\ Ready(n, fingers)
      /\ gm.state = "UPDATING" /\ gm.accepted = "drag" =>
           n.state = "UPDATING" /\ n.accepted = "drag"
  BY <1>2, CallingPhase, TouchUpdateCalled
<1>4. fingers' = fingers /\ Call(n)
  BY DEF Move
<1> HIDE DEF n
<1>5. IInv'
  BY <1>1, <1>3, <1>4, CallKeeps
<1>6. gm' = n
  BY <1>4 DEF Call
<1>7. held => held'
  BY <1>3, <1>5, <1>6 DEF IInv, DragWillRelease, DragHeld
<1> QED BY <1>3, <1>5, <1>6, <1>7 DEF Safe

(* The calls that only note something down.                                *)
LEMMA NoteSafe ==
  ASSUME IInv, NEW n, Call(n), fingers' = fingers, Alike(Calling, n),
         n.out = <<>>, n.state = gm.state, n.accepted = gm.accepted,
         n.list = gm.list, n.maxTouches = gm.maxTouches
  PROVE  Safe
<1>1. Called(Calling, n)
  BY CallingPhase, CalledIdly
<1>2. /\ n.maxTouches <= MaxFingers /\ fingers' \in 0..MaxFingers
      /\ n.state = "NONE" <=> fingers' = 0
  BY DEF IInv, TypeOK
<1>5. Ready(n, fingers')
  BY CallingPhase, AlikeReady
<1>3. IInv'
  BY <1>1, <1>2, <1>5, CallKeeps
<1>4. gm' = n
  BY DEF Call
<1> QED BY <1>3, <1>4, ListFacts DEF Safe

LEMMA NextSafe ==
  ASSUME IInv, Next
  PROVE  Safe
<1>1. /\ Calling \in Managers /\ Calling.out = <<>>
      /\ Calling.state = gm.state /\ Calling.accepted = gm.accepted
      /\ Calling.list = gm.list /\ Calling.maxTouches = gm.maxTouches
      /\ Calling.alt = gm.alt
      /\ Calling.hold = gm.hold
  BY CallingPhase DEF Sane
<1>2. CASE Reopen
  <2>1. Init'
    BY <1>2 DEF Reopen, Init, Fresh
  <2>2. IInv'
    BY <2>1, InitInv, PTL
  <2>3. gm'.out = <<>>
    BY <1>2 DEF Reopen, Fresh
  <2> QED BY <2>2, <2>3, ListFacts DEF Safe
<1>3. CASE Land
  BY <1>3, LandSafe
<1>4. CASE Lift
  BY <1>4, LiftSafe
<1>5. CASE \E idx \in 0..(fingers - 1), sample \in Samples : Move(idx, sample)
  BY <1>5, MoveSafe
<1>6. CASE \E buttons \in Pads : PhysicalUpdate(buttons)
  <2>1. PICK buttons \in Pads : PhysicalUpdate(buttons)
    BY <1>6
  <2> DEFINE n == [Calling EXCEPT !.physical = buttons]
  <2>2. buttons \in SUBSET Buttons
    BY MaskAssumption
  <2>3. /\ Alike(Calling, n) /\ n.out = <<>> /\ n.state = gm.state
        /\ n.accepted = gm.accepted /\ n.list = gm.list
        /\ n.maxTouches = gm.maxTouches
    BY <1>1, <2>2 DEF Alike, Managers
  <2>4. Call(n) /\ fingers' = fingers
    BY <2>1 DEF PhysicalUpdate
  <2> HIDE DEF n
  <2> QED BY <2>3, <2>4, NoteSafe
<1>7. CASE \E isOn \in BOOLEAN : SetPostScrollingState(isOn)
  <2>1. PICK isOn \in BOOLEAN : SetPostScrollingState(isOn)
    BY <1>7
  <2> DEFINE alt == IF isOn THEN "scroll" ELSE Nobody
             n == [Calling EXCEPT !.alt = alt]
  <2>2. alt \in {"scroll", Nobody}
    OBVIOUS
  <2>3. Call(n) /\ fingers' = fingers
    BY <2>1 DEF SetPostScrollingState
  <2> HIDE DEF alt
  <2>4. /\ Alike(Calling, n) /\ n.out = <<>> /\ n.state = gm.state
        /\ n.accepted = gm.accepted /\ n.list = gm.list
        /\ n.maxTouches = gm.maxTouches
    BY <1>1, <2>2 DEF Alike, Managers
  <2> HIDE DEF n
  <2> QED BY <2>3, <2>4, NoteSafe
<1>8. CASE HoldPasses
  <2> DEFINE n == [Calling EXCEPT !.hold = "over"]
  <2>1. /\ Alike(Calling, n) /\ n.out = <<>> /\ n.state = gm.state
        /\ n.accepted = gm.accepted /\ n.list = gm.list
        /\ n.maxTouches = gm.maxTouches
    BY <1>1 DEF Alike, Managers
  <2>2. Call(n) /\ fingers' = fingers
    BY <1>8 DEF HoldPasses
  <2> HIDE DEF n
  <2> QED BY <2>1, <2>2, NoteSafe
<1> QED BY <1>2, <1>3, <1>4, <1>5, <1>6, <1>7, <1>8 DEF Next

LEMMA StepSafe ==
  ASSUME IInv, [Next]_vars
  PROVE  IInv' /\ (Safe \/ UNCHANGED vars)
<1>1. CASE Next
  BY <1>1, NextSafe DEF Safe
<1>2. CASE UNCHANGED vars
  BY <1>2 DEF vars, IInv, TypeOK, DragWillRelease, Phase, Sane, Ready,
              DragHeld
<1> QED BY <1>1, <1>2

LEMMA Inductive ==
  Spec => []IInv
<1>1. Init => IInv
  BY InitInv
<1>2. IInv /\ [Next]_vars => IInv'
  BY StepSafe
<1> QED BY <1>1, <1>2, PTL DEF Spec

-----------------------------------------------------------------------------
(* The properties.                                                         *)

LEMMA InvGives ==
  IInv => /\ OneOwner
          /\ AcceptedRunsAlone
          /\ QuietOutsideUpdating
          /\ HoldIsSet
<1> SUFFICES ASSUME IInv
             PROVE  /\ OneOwner
                    /\ AcceptedRunsAlone
                    /\ QuietOutsideUpdating
                    /\ HoldIsSet
  OBVIOUS
<1>1. OneOwner
  <2>1. PICK g \in Gestures : gm.owners \subseteq {g}
    BY OneOwnerAtMost DEF IInv
  <2>2. gm.owners = {} \/ gm.owners = {g}
    BY <2>1
  <2>3. Cardinality({}) = 0 /\ Cardinality({g}) = 1
    BY FS_EmptySet, FS_Singleton
  <2>4. CASE gm.owners = {}
    BY <2>3, <2>4 DEF OneOwner
  <2>5. CASE gm.owners = {g}
    BY <2>3, <2>5 DEF OneOwner
  <2> QED BY <2>2, <2>4, <2>5
<1>2. AcceptedRunsAlone
  BY OneOrOther DEF IInv, Phase, Running, Owned, Won, AcceptedRunsAlone
<1>3. QuietOutsideUpdating
  <2>1. gm.state = "NONE" <=> fingers = 0
    BY DEF IInv
  <2>2. ASSUME gm.state # "UPDATING", NEW g \in Gestures
        PROVE  /\ ~Active(gm, g)
               /\ \A action \in ToSet(gm.staged[g]) :
                    action.down = {} /\ ~action.moved /\ ~action.holding
    <3>1. ~Active(gm, g) /\ HarmlessOf(gm, g)
      BY <2>2 DEF IInv, Phase, Quiet
    <3>2. gm.staged[g] \in Seq(Postable)
      BY DEF IInv, TypeOK, Managers
    <3>3. \A action \in ToSet(gm.staged[g]) : Harmless(action)
      BY <3>1, <3>2 DEF ToSet, HarmlessOf
    <3> QED BY <3>1, <3>3 DEF Harmless
  <2> QED BY <2>1, <2>2 DEF QuietOutsideUpdating
<1>4. HoldIsSet
  BY DEF IInv, Sane, HoldIsSet
<1> QED BY <1>1, <1>2, <1>3, <1>4

(* The state of the manager has its type: whatever the callbacks that call *)
(* the manager do, no gesture, list or queue holds anything else.          *)
THEOREM ManagerTypes == Spec => []TypeOK
<1>1. IInv => TypeOK
  BY DEF IInv
<1> QED BY <1>1, Inductive, PTL

(* From one list to the next, all queued actions come from one gesture     *)
(* (s_accept_guesture), for any number of fingers and staged actions.      *)
THEOREM OneOwnerEach == Spec => []OneOwner
<1>1. IInv => OneOwner
  BY InvGives
<1> QED BY <1>1, Inductive, PTL

(* An accepted gesture runs alone: the others were ended or never start.   *)
THEOREM AcceptedAlone == Spec => []AcceptedRunsAlone
<1>1. IInv => AcceptedRunsAlone
  BY InvGives
<1> QED BY <1>1, Inductive, PTL

(* The manager rests with the fingers, with no gesture running, and leaves *)
(* nothing staged that a later acceptance must not queue.                  *)
THEOREM RestsQuietly == Spec => []QuietOutsideUpdating
<1>1. IInv => QuietOutsideUpdating
  BY InvGives
<1> QED BY <1>1, Inductive, PTL

(* A drag that has pressed its button is accepted and running until the    *)
(* release is queued.                                                      *)
THEOREM DragReleases == Spec => []DragWillRelease
<1>1. IInv => DragWillRelease
  BY DEF IInv
<1> QED BY <1>1, Inductive, PTL

(* drag's hold_time, which malloc leaves unset, is never read unset.       *)
THEOREM HoldSet == Spec => []HoldIsSet
<1>1. IInv => HoldIsSet
  BY InvGives
<1> QED BY <1>1, Inductive, PTL

(* Clicks are queued only by the landing or leaving of a finger.           *)
THEOREM ClicksOnlyOnTouch == Spec => NoClickWhileMoving
<1>1. IInv /\ [Next]_vars =>
        [Queues(gm', IsClick) => fingers' # fingers]_vars
  <2> SUFFICES ASSUME IInv, [Next]_vars, ~ UNCHANGED vars,
                      Queues(gm', IsClick), fingers' = fingers
               PROVE  FALSE
    OBVIOUS
  <2>1. \A e \in ToSet(gm'.out) : e.by \notin Taps
    BY StepSafe DEF Safe
  <2> QED BY <2>1 DEF Queues, IsClick
<1> QED BY <1>1, Inductive, PTL DEF Spec, NoClickWhileMoving
-----------------------------------------------------------------------------
(* On a pad without physical buttons move is never essential, and a tap    *)
(* that ends before a recognition clicks.                                  *)

NoPadButtons == Pads \subseteq {{}}

SecondP == INSTANCE GestureMatch_proofs WITH Ask <- Unheard

LEMMA SecondCalls ==
  \A m, t : AskAgain(m, t) = SecondP!SetMatch(m, t, "OK")
<1>1. \A m, g, action : Second!Post(m, g, action) = SecondP!Post(m, g, action)
  BY DEF Second!Post, Second!Entry, SecondP!Post, SecondP!Entry
<1>2. \A m, g : Second!Active(m, g) = SecondP!Active(m, g)
  BY DEF Second!Active, SecondP!Active
<1>3. \A m, g : Second!OnEnd(m, g) = SecondP!OnEnd(m, g)
  <2>1. /\ Second!Taps = SecondP!Taps
        /\ Second!TapButton = SecondP!TapButton
        /\ Second!DragButton = SecondP!DragButton
    BY DEF Second!Taps, SecondP!Taps, Second!TapButton, SecondP!TapButton,
           Second!DragButton, SecondP!DragButton
  <2>2. Second!Zeroed = SecondP!Zeroed
    BY DEF Second!Zeroed, SecondP!Zeroed
  <2>3. /\ \A b : Second!ButtonDownAndUp(b) = SecondP!ButtonDownAndUp(b)
        /\ \A b : Second!ButtonUpDefer(b) = SecondP!ButtonUpDefer(b)
        /\ Second!ScrollEnd = SecondP!ScrollEnd
    BY <2>2 DEF Second!ButtonDownAndUp, SecondP!ButtonDownAndUp,
           Second!ButtonUpDefer, SecondP!ButtonUpDefer,
           Second!ScrollEnd, SecondP!ScrollEnd
  <2> QED
    BY <1>1, <2>1, <2>3 DEF Second!OnEnd, SecondP!OnEnd
<1>4. \A m, g : Second!End(m, g) = SecondP!End(m, g)
  BY <1>2, <1>3, ZenonT(40) DEF Second!End, SecondP!End
<1>5. \A m, g : Second!AcceptCallbacks(m, g) = SecondP!AcceptCallbacks(m, g)
  <2>1. Second!Zeroed = SecondP!Zeroed
    BY DEF Second!Zeroed, SecondP!Zeroed
  <2>2. /\ Second!ButtonUp(Second!DragButton)
             = SecondP!ButtonUp(SecondP!DragButton)
        /\ Second!ButtonUpCancel = SecondP!ButtonUpCancel
    BY <2>1 DEF Second!ButtonUp, SecondP!ButtonUp, Second!DragButton,
           SecondP!DragButton,
           Second!ButtonUpCancel, SecondP!ButtonUpCancel
  <2> QED
    BY <1>1, <2>2 DEF Second!AcceptCallbacks, SecondP!AcceptCallbacks
<1>6. \A m, g : Second!PostStaged(m, g) = SecondP!PostStaged(m, g)
  BY DEF Second!PostStaged, Second!Queued, Second!Entry, Second!NothingStaged,
         Second!Gestures, Second!Registered, Second!ToSet, SecondP!PostStaged,
         SecondP!Queued, SecondP!Entry, SecondP!NothingStaged, SecondP!Gestures,
         SecondP!Registered, SecondP!ToSet
<1>7. \A m, i, g : Second!EndNth(m, i, g) = SecondP!EndNth(m, i, g)
  BY <1>4 DEF Second!EndNth, SecondP!EndNth
<1>8. \A m, g : Second!EndOthers(m, g) = SecondP!EndOthers(m, g)
  BY <1>7 DEF Second!EndOthers, SecondP!EndOthers
<1>9. \A m, g : Second!Accept(m, g) = SecondP!Accept(m, g)
  BY <1>5, <1>6, <1>8 DEF Second!Accept, SecondP!Accept
<1>10. \A m : Second!Winners(m) = SecondP!Winners(m)
  BY <1>2 DEF Second!Winners, Second!Priority, Second!ToSet, SecondP!Winners,
         SecondP!Priority, SecondP!ToSet
<1>11. \A m : Second!Winner(m) = SecondP!Winner(m)
  BY DEF Second!Winner, Second!Winners, Second!Active, Second!Priority,
         Second!ToSet, SecondP!Winner, SecondP!Winners, SecondP!Active,
         SecondP!Priority, SecondP!ToSet
<1>12. \A m : Second!Essentials(m) = SecondP!Essentials(m)
  BY DEF Second!Essentials, SecondP!Essentials
<1>13. \A S : Second!Max(S) = SecondP!Max(S)
  BY DEF Second!Max, SecondP!Max
<1>14. \A m : Second!StateChange(m) = SecondP!StateChange(m)
  BY <1>9, <1>10, <1>11, <1>12, <1>13 DEF Second!StateChange, Second!Nobody,
         SecondP!StateChange, SecondP!Nobody
<1>15. \A m, g, how : Second!SetMatch(m, g, how) = SecondP!SetMatch(m, g, how)
  BY <1>14 DEF Second!SetMatch, SecondP!SetMatch
<1> QED BY <1>15 DEF AskAgain

(* No call of GestureMatch makes a gesture essential, at any level.        *)
LEMMA UnpressedNames ==
  /\ \A m : SecondP!Unpressed(m) = Unpressed(m)
  /\ \A m : FirstP!Unpressed(m) = Unpressed(m)
<1>1. SecondP!Gestures = Gestures /\ SecondP!Nobody = Nobody
  BY DEF SecondP!Gestures, Gestures, SecondP!Registered, Registered,
         SecondP!ToSet, ToSet, SecondP!Nobody, Nobody
<1>2. FirstP!Gestures = Gestures /\ FirstP!Nobody = Nobody
  BY DEF FirstP!Gestures, Gestures, FirstP!Registered, Registered,
         FirstP!ToSet, ToSet, FirstP!Nobody, Nobody
<1>3. \A m : SecondP!Unpressed(m) = Unpressed(m)
  BY <1>1 DEF SecondP!Unpressed, Unpressed
<1>4. \A m : FirstP!Unpressed(m) = Unpressed(m)
  BY <1>2 DEF FirstP!Unpressed, Unpressed
<1> QED BY <1>3, <1>4

LEMMA CallsUnpressed ==
  ASSUME NEW m, Unpressed(m), NEW g
  PROVE  /\ g \in Gestures => Unpressed(EndGesture(m, g))
         /\ \A how : how # "ESSENTIAL" => Unpressed(Match(m, g, how))
<1>1. SecondP!AskUnpressed
  BY DEF SecondP!AskUnpressed, Unheard
<1>2. FirstP!AskUnpressed
  <2> SUFFICES ASSUME NEW n, FirstP!Unpressed(n), NEW t
               PROVE  FirstP!Unpressed(AskAgain(n, t))
    BY DEF FirstP!AskUnpressed
  <2>1. SecondP!Unpressed(n) /\ "OK" # "ESSENTIAL"
    BY UnpressedNames
  <2>2. SecondP!Unpressed(SecondP!SetMatch(n, t, "OK"))
    BY <1>1, <2>1, SecondP!SetMatchUnpressed, ButtonsAssumption
  <2> QED BY <2>2, UnpressedNames, SecondCalls
<1>3. ManagerP!AskUnpressed
  <2> SUFFICES ASSUME NEW n, ManagerP!Unpressed(n), NEW t
               PROVE  ManagerP!Unpressed(SetOK(n, t))
    BY DEF ManagerP!AskUnpressed
  <2>1. FirstP!Unpressed(n) /\ "OK" # "ESSENTIAL"
    BY UnpressedNames, ManagerNames
  <2>2. FirstP!Unpressed(FirstP!SetMatch(n, t, "OK"))
    BY <1>2, <2>1, FirstP!SetMatchUnpressed, ButtonsAssumption
  <2> QED BY <2>2, UnpressedNames, ManagerNames, FirstCalls
<1>4. ManagerP!Unpressed(m)
  BY ManagerNames
<1>5. g \in Gestures => Unpressed(EndGesture(m, g))
  <2> SUFFICES ASSUME g \in Gestures PROVE Unpressed(EndGesture(m, g))
    OBVIOUS
  <2>1. g \in ManagerP!Gestures
    BY ManagerNames
  <2>2. ManagerP!Unpressed(ManagerP!End(m, g))
    BY <1>3, <1>4, <2>1, ManagerP!EndUnpressed, ButtonsAssumption
  <2> QED BY <2>2, ManagerNames, ManagerCalls
<1>6. ASSUME NEW how, how # "ESSENTIAL"
      PROVE  Unpressed(Match(m, g, how))
  <2>1. ManagerP!Unpressed(ManagerP!SetMatch(m, g, how))
    BY <1>3, <1>4, <1>6, ManagerP!SetMatchUnpressed, ButtonsAssumption
  <2> QED BY <2>1, ManagerNames, ManagerCalls
<1> QED BY <1>5, <1>6

(* Nor does any handler of the manager.                                    *)
LEMMA NthUnpressed ==
  ASSUME NEW m, Unpressed(m), NEW i \in {1, 2}, i <= Len(m.list)
  PROVE  m.list[i] \in Gestures
BY DEF Unpressed

LEMMA StartUnpressed ==
  ASSUME NEW m, Unpressed(m), NEW g \in Gestures
  PROVE  Unpressed(Start(m, g))
<1> DEFINE e == EndGesture(m, g)
           n == [e EXCEPT !.match[g] = "MATHING", !.post[g] = "stage",
                          !.loaded = @ \/ g = "drag"]
<1>1. Unpressed(e)
  BY CallsUnpressed
<1>2. Start(m, g) = n
  BY DEF Start
<1> HIDE DEF e
<1>3. /\ DOMAIN n = DOMAIN e /\ n.post = [e.post EXCEPT ![g] = "stage"]
      /\ n.list = e.list /\ n.accepted = e.accepted
      /\ n.physical = e.physical /\ n.essential = e.essential
  BY <1>1 DEF Unpressed
<1> HIDE DEF n
<1>4. n.post \in [Gestures -> {"null", "stage", "accept"}]
  BY <1>1, <1>3 DEF Unpressed
<1> QED BY <1>1, <1>2, <1>3, <1>4 DEF Unpressed

LEMMA StartListUnpressed ==
  ASSUME NEW m, Unpressed(m), NEW list \in Seq(Gestures)
  PROVE  Unpressed(StartList(m, list))
<1> DEFINE s == [m EXCEPT !.list = list, !.owners = {}]
           r == StartNth(s, 1)
           q == StartNth(r, 2)
           n == [q EXCEPT !.state = "UPDATING", !.accepted = Nobody]
<1>1. StartList(m, list) = n
  BY DEF StartList, ForEachCurrent, StartNth
<1>2. /\ DOMAIN s = DOMAIN m /\ s.post = m.post /\ s.list = list
      /\ s.accepted = m.accepted /\ s.physical = m.physical
      /\ s.essential = m.essential
  BY DEF Unpressed
<1> HIDE DEF s
<1>3. Unpressed(s)
  BY <1>2 DEF Unpressed
<1>4. Unpressed(r)
  BY <1>3, NthUnpressed, StartUnpressed DEF StartNth
<1> HIDE DEF r
<1>5. Unpressed(q)
  BY <1>4, NthUnpressed, StartUnpressed DEF StartNth
<1> HIDE DEF q
<1>6. /\ DOMAIN n = DOMAIN q /\ n.post = q.post /\ n.list = q.list
      /\ n.accepted = Nobody /\ n.physical = q.physical
      /\ n.essential = q.essential
  BY <1>5 DEF Unpressed
<1> HIDE DEF n
<1> QED BY <1>1, <1>5, <1>6 DEF Unpressed

EndEach(n, i) == IF i <= Len(n.list) THEN EndGesture(n, n.list[i]) ELSE n

LEMMA EndAllUnpressed ==
  ASSUME NEW m, Unpressed(m)
  PROVE  Unpressed(ForEachCurrent(EndGesture, m))
<1> DEFINE n == EndEach(m, 1)
<1>1. ForEachCurrent(EndGesture, m) = EndEach(n, 2)
  BY DEF ForEachCurrent, EndEach
<1>2. Unpressed(n)
  BY NthUnpressed, CallsUnpressed DEF EndEach
<1> HIDE DEF n
<1>3. Unpressed(EndEach(n, 2))
  BY <1>2, NthUnpressed, CallsUnpressed DEF EndEach
<1> QED BY <1>1, <1>3

LEMMA EndRunningUnpressed ==
  ASSUME NEW m, Unpressed(m)
  PROVE  Unpressed(EndRunning(m))
<1> DEFINE e == IF m.accepted # Nobody THEN EndGesture(m, m.accepted)
                                       ELSE ForEachCurrent(EndGesture, m)
           n == [e EXCEPT !.accepted = Nobody, !.list = <<>>]
<1>1. EndRunning(m) = n
  BY DEF EndRunning
<1>2. Unpressed(e)
  <2>1. m.accepted # Nobody => m.accepted \in Gestures
    BY DEF Unpressed
  <2> QED BY <2>1, CallsUnpressed, EndAllUnpressed
<1> HIDE DEF e
<1>3. /\ DOMAIN n = DOMAIN e /\ n.post = e.post /\ n.list = <<>>
      /\ n.accepted = Nobody /\ n.physical = e.physical
      /\ n.essential = e.essential
  BY <1>2 DEF Unpressed
<1> HIDE DEF n
<1>4. n.list \in Seq(Gestures)
  BY <1>3
<1> QED BY <1>1, <1>2, <1>3, <1>4 DEF Unpressed

LEMMA UpdateUnpressed ==
  ASSUME NEW m, Unpressed(m), NEW g \in Gestures, NEW sample
  PROVE  Unpressed(Update(m, g, sample))
<1>1. "NO" # "ESSENTIAL" /\ "OK" # "ESSENTIAL"
  OBVIOUS
<1>2. Unpressed(UpdateTap(m, g, sample))
  BY <1>1, CallsUnpressed DEF UpdateTap
<1>3. Unpressed(UpdateMove(m, sample))
  <2> DEFINE n == [m EXCEPT !.settle = "NONE"]
  <2>1. /\ DOMAIN n = DOMAIN m /\ n.post = m.post /\ n.list = m.list
        /\ n.accepted = m.accepted /\ n.physical = m.physical
        /\ n.essential = m.essential
    BY DEF Unpressed
  <2> HIDE DEF n
  <2>2. Unpressed(n)
    BY <2>1, UnpressedLike
  <2>3. Unpressed(Match(m, "move", "OK"))
    BY <1>1, CallsUnpressed
  <2>4. Unpressed(Post(m, "move", Movement(sample.step # "none")))
    BY GestureSet, PostUnpressed
  <2>5. UpdateMove(m, sample) \in
          {n, Match(m, "move", "OK"),
           Post(m, "move", Movement(sample.step # "none"))}
    BY DEF UpdateMove, Unpressed, n
  <2> QED BY <2>2, <2>3, <2>4, <2>5
<1>4. Unpressed(UpdateScroll(m, sample))
  BY <1>1, GestureSet, CallsUnpressed, PostUnpressed DEF UpdateScroll
<1>5. Unpressed(UpdateDrag(m, sample))
  <2> DEFINE n == IF m.match["drag"] = "MATHING"
                    THEN Post(Match(m, "drag", "OK"),
                              "drag", ButtonDown(DragButton))
                    ELSE m
  <2>1. Unpressed(n)
    BY <1>1, GestureSet, CallsUnpressed, PostUnpressed
  <2>2. Unpressed(Post(n, "drag", Movement(TRUE)))
    BY <2>1, GestureSet, PostUnpressed
  <2>3. Unpressed(Post(Post(m, "drag", Movement(TRUE)),
                       "drag", ButtonUpCancel))
    BY GestureSet, PostUnpressed
  <2>4. UpdateDrag(m, sample) \in
          {m, Post(n, "drag", Movement(TRUE)),
           Post(Post(m, "drag", Movement(TRUE)), "drag", ButtonUpCancel)}
    BY DEF UpdateDrag
  <2> HIDE DEF n
  <2> QED BY <2>2, <2>3, <2>4
<1>6. Update(m, g, sample) \in
        {m, UpdateTap(m, g, sample), UpdateMove(m, sample),
         UpdateScroll(m, sample), UpdateDrag(m, sample)}
  BY GestureSet DEF Update, Taps
<1> QED BY <1>2, <1>3, <1>4, <1>5, <1>6

LEMMA UpdateRunningUnpressed ==
  ASSUME NEW m, Unpressed(m), NEW sample
  PROVE  Unpressed(UpdateRunning(m, sample))
<1>1. CASE m.accepted # Nobody
  <2>1. m.accepted \in Gestures
    BY <1>1 DEF Unpressed
  <2>2. UpdateRunning(m, sample) = Update(m, m.accepted, sample)
    BY <1>1 DEF UpdateRunning
  <2> QED BY <2>1, <2>2, UpdateUnpressed
<1>2. CASE m.accepted = Nobody
  <2> DEFINE n == UpdateNth(m, 1, sample)
  <2>1. UpdateRunning(m, sample) = UpdateNth(n, 2, sample)
    BY <1>2 DEF UpdateRunning, ForEachCurrent, UpdateNth
  <2>2. Unpressed(n)
    BY NthUnpressed, UpdateUnpressed DEF UpdateNth
  <2> HIDE DEF n
  <2>3. Unpressed(UpdateNth(n, 2, sample))
    BY <2>2, NthUnpressed, UpdateUnpressed DEF UpdateNth
  <2> QED BY <2>1, <2>3
<1> QED BY <1>1, <1>2
LEMMA TouchStartUnpressed ==
  ASSUME NEW m, Unpressed(m), NEW count,
         m.state \in {"NONE", "WAITING", "UPDATING", "CHANGING"}
  PROVE  Unpressed(TouchStart(m, count))
<1> DEFINE r == EndRunning(m)
           n == CASE m.state \in {"NONE", "WAITING"} ->
                       [m EXCEPT !.state = "WAITING"]
                  [] m.state = "UPDATING" -> [r EXCEPT !.state = "WAITING"]
                  [] m.state = "CHANGING" -> m
           o == [n EXCEPT !.maxTouches = count]
<1>1. TouchStart(m, count) = o
  BY DEF TouchStart
<1>2. Unpressed(n)
  <2>1. Unpressed([m EXCEPT !.state = "WAITING"])
    BY FieldsUnpressed
  <2>2. Unpressed(r)
    BY EndRunningUnpressed, SMTT(30)
  <2> HIDE DEF r
  <2>3. Unpressed([r EXCEPT !.state = "WAITING"])
    BY <2>2, FieldsUnpressed
  <2>4. n \in {[m EXCEPT !.state = "WAITING"],
               [r EXCEPT !.state = "WAITING"], m}
    OBVIOUS
  <2> HIDE DEF n
  <2> QED BY <2>1, <2>3, <2>4, SMTT(30)
<1> HIDE DEF n
<1>3. /\ DOMAIN o = DOMAIN n /\ o.post = n.post /\ o.list = n.list
      /\ o.accepted = n.accepted /\ o.physical = n.physical
      /\ o.essential = n.essential
  BY <1>2 DEF Unpressed
<1> HIDE DEF o
<1> QED BY <1>1, <1>2, <1>3, UnpressedLike

LEMMA TouchEndUnpressed ==
  ASSUME NEW m, Unpressed(m), NEW count,
         m.state \in {"NONE", "WAITING", "UPDATING", "CHANGING"}
  PROVE  Unpressed(TouchEnd(m, count))
<1>1. ASSUME NEW n, Unpressed(n), NEW state
      PROVE  Unpressed([n EXCEPT !.state = state])
  BY <1>1, FieldsUnpressed
<1>2. CASE m.state = "NONE"
  BY <1>2 DEF TouchEnd
<1>3. CASE m.state = "WAITING"
  <2> DEFINE s == StartList(m, GesturesFor(m.maxTouches))
             e == ForEachCurrent(EndGesture, s)
  <2>1. GesturesFor(m.maxTouches) \in Seq(Gestures)
    BY GesturesForLists, ListFacts
  <2>2. Unpressed(s)
    BY <2>1, StartListUnpressed
  <2> HIDE DEF s
  <2>3. Unpressed(e)
    BY <2>2, EndAllUnpressed
  <2>4. TouchEnd(m, count) = IF count = 1 THEN [e EXCEPT !.state = "NONE"]
                                          ELSE m
    BY <1>3 DEF TouchEnd, s
  <2> HIDE DEF e
  <2>5. Unpressed([e EXCEPT !.state = "NONE"])
    BY <2>3, <1>1
  <2> QED BY <2>4, <2>5
<1>4. CASE m.state = "UPDATING"
  <2> DEFINE r == EndRunning(m)
             state == IF count = 1 THEN "NONE" ELSE "CHANGING"
  <2>1. TouchEnd(m, count) = [r EXCEPT !.state = state]
    BY <1>4 DEF TouchEnd
  <2>2. Unpressed(r)
    BY EndRunningUnpressed
  <2> HIDE DEF r, state
  <2>3. Unpressed([r EXCEPT !.state = state])
    BY <2>2, <1>1
  <2> QED BY <2>1, <2>3
<1>5. CASE m.state = "CHANGING"
  <2> DEFINE state == IF count = 1 THEN "NONE" ELSE m.state
  <2>1. TouchEnd(m, count) = [m EXCEPT !.state = state]
    BY <1>5 DEF TouchEnd
  <2> HIDE DEF state
  <2>2. Unpressed([m EXCEPT !.state = state])
    BY <1>1
  <2> QED BY <2>1, <2>2
<1> QED BY <1>2, <1>3, <1>4, <1>5

LEMMA TouchUpdateUnpressed ==
  ASSUME NEW m, Unpressed(m), NEW idx, NEW count, NEW sample,
         m.alt \in {"scroll", Nobody}
  PROVE  Unpressed(TouchUpdate(m, idx, count, sample))
<1> DEFINE waiting  == \/ m.state = "WAITING"
                       \/ m.state = "CHANGING" /\ sample.elapsed
           debounced == m.state = "WAITING" /\ idx = 0 /\ sample.elapsed
           altOnly  == m.alt # Nobody /\ RequiredTouches[m.alt] = count
           list     == IF altOnly THEN <<m.alt>> ELSE GesturesFor(count)
           fresh    == [StartList(m, list) EXCEPT !.staged = NothingStaged]
           begun    == IF ~waiting THEN m
                       ELSE IF altOnly \/ debounced \/ sample.far
                         THEN fresh ELSE [m EXCEPT !.state = "WAITING"]
<1>1. TouchUpdate(m, idx, count, sample) =
        IF begun.state = "UPDATING" /\ idx = 0
          THEN UpdateRunning(begun, sample) ELSE begun
  BY DEF TouchUpdate
<1>2. list \in Seq(Gestures)
  <2>1. GesturesFor(count) \in Seq(Gestures)
    BY GesturesForLists, ListFacts
  <2>2. altOnly => m.alt \in Gestures
    BY GestureSet
  <2> QED BY <2>1, <2>2
<1> HIDE DEF list
<1>3. Unpressed(fresh)
  <2> DEFINE s == StartList(m, list)
  <2>1. Unpressed(s)
    BY <1>2, StartListUnpressed
  <2>2. fresh = [s EXCEPT !.staged = NothingStaged]
    OBVIOUS
  <2> HIDE DEF s, fresh
  <2>3. /\ DOMAIN fresh = DOMAIN s /\ fresh.post = s.post
        /\ fresh.list = s.list /\ fresh.accepted = s.accepted
        /\ fresh.physical = s.physical /\ fresh.essential = s.essential
    BY <2>1, <2>2 DEF Unpressed
  <2> QED BY <2>1, <2>3, UnpressedLike
<1> HIDE DEF fresh, waiting, altOnly, debounced
<1>4. Unpressed(begun)
  <2>1. Unpressed([m EXCEPT !.state = "WAITING"])
    BY FieldsUnpressed
  <2>2. begun \in {m, fresh, [m EXCEPT !.state = "WAITING"]}
    OBVIOUS
  <2> HIDE DEF begun
  <2> QED BY <1>3, <2>1, <2>2
<1> HIDE DEF begun
<1> QED BY <1>1, <1>4, UpdateRunningUnpressed

(* So the manager of such a pad stays as it is.                            *)
LEMMA HandlersUnpressed ==
  ASSUME IInv, Unpressed(gm)
  PROVE  /\ Land => Unpressed(gm')
         /\ Lift => Unpressed(gm')
         /\ \A idx, sample : Move(idx, sample) => Unpressed(gm')
         /\ PhysicalUpdate({}) => Unpressed(gm')
         /\ \A isOn : SetPostScrollingState(isOn) => Unpressed(gm')
         /\ HoldPasses => Unpressed(gm')
<1>1. /\ Calling \in Managers
      /\ Calling.state \in {"NONE", "WAITING", "UPDATING", "CHANGING"}
      /\ Calling.alt \in {"scroll", Nobody}
  BY CallingPhase DEF Sane, Managers
<1>2. Unpressed(Calling)
  <2> DEFINE n == Calling
  <2>1. /\ DOMAIN n = DOMAIN gm /\ n.post = gm.post /\ n.list = gm.list
        /\ n.accepted = gm.accepted /\ n.physical = gm.physical
        /\ n.essential = gm.essential
    BY DEF Calling, Unpressed
  <2> HIDE DEF n
  <2> QED BY <2>1, UnpressedLike DEF n
<1>3. Land => Unpressed(gm')
  BY <1>1, <1>2, TouchStartUnpressed DEF Land, Call
<1>4. Lift => Unpressed(gm')
  BY <1>1, <1>2, TouchEndUnpressed DEF Lift, Call
<1>5. \A idx, sample : Move(idx, sample) => Unpressed(gm')
  BY <1>1, <1>2, TouchUpdateUnpressed DEF Move, Call
<1>6. ASSUME NEW n, DOMAIN n = DOMAIN Calling, n.post = Calling.post,
             n.list = Calling.list, n.accepted = Calling.accepted,
             n.physical = Calling.physical \/ n.physical = {},
             n.essential = Calling.essential
      PROVE  Unpressed(n)
  BY <1>2, <1>6 DEF Unpressed
<1>7. PhysicalUpdate({}) => Unpressed(gm')
  <2> DEFINE n == [Calling EXCEPT !.physical = {}]
  <2>1. /\ DOMAIN n = DOMAIN Calling /\ n.post = Calling.post
        /\ n.list = Calling.list /\ n.accepted = Calling.accepted
        /\ n.physical = {} /\ n.essential = Calling.essential
    BY <1>2 DEF Unpressed
  <2>2. PhysicalUpdate({}) => gm' = n
    BY DEF PhysicalUpdate, Call
  <2> HIDE DEF n
  <2> QED BY <1>6, <2>1, <2>2
<1>8. ASSUME NEW isOn, SetPostScrollingState(isOn) PROVE Unpressed(gm')
  <2> DEFINE n == [Calling EXCEPT !.alt = IF isOn THEN "scroll" ELSE Nobody]
  <2>1. /\ DOMAIN n = DOMAIN Calling /\ n.post = Calling.post
        /\ n.list = Calling.list /\ n.accepted = Calling.accepted
        /\ n.physical = Calling.physical /\ n.essential = Calling.essential
    BY <1>2 DEF Unpressed
  <2>2. gm' = n
    BY <1>8 DEF SetPostScrollingState, Call
  <2> HIDE DEF n
  <2> QED BY <1>6, <2>1, <2>2
<1>9. HoldPasses => Unpressed(gm')
  <2> DEFINE n == [Calling EXCEPT !.hold = "over"]
  <2>1. /\ DOMAIN n = DOMAIN Calling /\ n.post = Calling.post
        /\ n.list = Calling.list /\ n.accepted = Calling.accepted
        /\ n.physical = Calling.physical /\ n.essential = Calling.essential
    BY <1>2 DEF Unpressed
  <2>2. HoldPasses => gm' = n
    BY DEF HoldPasses, Call
  <2> HIDE DEF n
  <2> QED BY <1>6, <2>1, <2>2
<1> QED BY <1>3, <1>4, <1>5, <1>7, <1>8, <1>9

LEMMA FreshUnpressed == Unpressed(Fresh)
<1> DEFINE n == Fresh
<1>1. /\ {"post", "list", "accepted", "physical", "essential"}
           \subseteq DOMAIN n
      /\ n.post = [g \in Gestures |-> "null"] /\ n.list = <<>>
      /\ n.accepted = Nobody /\ n.physical = {} /\ n.essential = {}
  BY DEF Fresh
<1> HIDE DEF n
<1>2. n.post \in [Gestures -> {"null", "stage", "accept"}]
  BY <1>1
<1>3. n.list \in Seq(Gestures)
  BY <1>1
<1> QED BY <1>1, <1>2, <1>3 DEF Unpressed, n

(* What lifting the last finger queues.                                    *)
LEMMA LiftClicks ==
  ASSUME IInv, Lift, fingers = 1, gm.state = "WAITING", gm.essential = {},
         NEW t \in Taps, gm.maxTouches = RequiredTouches[t]
  PROVE  \E e \in ToSet(gm'.out) : e.by = t /\ IsClick(e)
<1>1. ClicksOf(Calling, gm', t)
  BY LiftSafe
<1>2. PICK q \in Seq(Entries), e \in Entries :
        /\ gm'.out = Append(q, e)
        /\ e.by = t
        /\ e.action.down = {TapButton[t]}
  BY <1>1 DEF ClicksOf
<1>3. e \in ToSet(gm'.out)
  <2>1. Len(q) + 1 \in DOMAIN gm'.out /\ gm'.out[Len(q) + 1] = e
    BY <1>2
  <2> QED BY <2>1 DEF ToSet
<1> QED BY <1>2, <1>3 DEF IsClick

(* Only an essential move keeps fingers that land and leave at once from   *)
(* clicking the button of their number, on any pad (README.md:17).         *)
THEOREM TapsUnlessEssential ==
  Spec => [][\A g \in Taps :
               /\ Lift /\ fingers = 1
               /\ gm.state = "WAITING" /\ gm.essential = {}
               /\ gm.maxTouches = RequiredTouches[g]
               => Queues(gm', LAMBDA e : e.by = g /\ IsClick(e))]_vars
<1>1. IInv /\ [Next]_vars =>
        [\A g \in Taps :
           /\ Lift /\ fingers = 1
           /\ gm.state = "WAITING" /\ gm.essential = {}
           /\ gm.maxTouches = RequiredTouches[g]
           => Queues(gm', LAMBDA e : e.by = g /\ IsClick(e))]_vars
  BY LiftClicks DEF Queues
<1> QED BY <1>1, Inductive, PTL DEF Spec

(* Fingers that land and leave at once click the button of their number    *)
(* (README.md:17), on every pad that has no physical button: once one was  *)
(* pressed, move stays essential and wins against the tap.                 *)
THEOREM InstantTaps ==
  ASSUME NoPadButtons
  PROVE  Spec => InstantTapClicks
<1> DEFINE I == IInv /\ Unpressed(gm)
           Click == \A g \in Taps :
                      /\ Lift /\ fingers = 1
                      /\ gm.state = "WAITING"
                      /\ gm.maxTouches = RequiredTouches[g]
                      => Queues(gm', LAMBDA e : e.by = g /\ IsClick(e))
<1>1. Init => I
  BY InitInv, FreshUnpressed DEF Init
<1>2. I /\ [Next]_vars => I'
  <2> SUFFICES ASSUME I, [Next]_vars PROVE I'
    OBVIOUS
  <2>1. IInv'
    BY StepSafe
  <2>2. Unpressed(gm)'
    <3>1. CASE UNCHANGED vars
      BY <3>1 DEF vars, Unpressed
    <3>2. CASE Reopen
      BY <3>2, FreshUnpressed DEF Reopen
    <3>3. ASSUME NEW buttons \in Pads, PhysicalUpdate(buttons)
          PROVE  Unpressed(gm')
      <4>1. buttons = {}
        BY <3>3 DEF NoPadButtons
      <4> QED BY <3>3, <4>1, HandlersUnpressed
    <3> QED BY <3>1, <3>2, <3>3, HandlersUnpressed DEF Next
  <2> QED BY <2>1, <2>2
<1>3. I /\ [Next]_vars => [Click]_vars
  <2> SUFFICES ASSUME I, NEW t \in Taps, Lift, fingers = 1,
                      gm.state = "WAITING",
                      gm.maxTouches = RequiredTouches[t]
               PROVE  Queues(gm', LAMBDA e : e.by = t /\ IsClick(e))
    OBVIOUS
  <2> QED BY LiftClicks DEF Unpressed, Queues
<1> HIDE DEF I, Click
<1> QED BY <1>1, <1>2, <1>3, PTL DEF Spec, InstantTapClicks, Click
=============================================================================
