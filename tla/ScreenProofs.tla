---------------------------- MODULE ScreenProofs ----------------------------
(***************************************************************************)
(* What nflow-tui shows and sends.                                         *)
(*                                                                         *)
(* ExecuteView, for any tree and projects: which sub-view a key reaches;   *)
(* what the list of nodes shows, where a node's ancestors are those above  *)
(* it after which all are deeper; and that the selection stays within it.  *)
(*                                                                         *)
(* Panels, for any specs and projects: what a plan is generated from.      *)
(*                                                                         *)
(* Scrolling, for texts and areas of any height, whatever the keys take    *)
(* the height to be and wherever the counters overflow.                    *)
(*                                                                         *)
(* LiveViews, for any specs and tasks: what is on its way over the single  *)
(* connection. StreamsInv is the part that matters: as long as nothing is  *)
(* sent too early, at most one stream is, and whoever waits has asked for  *)
(* that one. So each action is shown to keep what is on its way (Kept),    *)
(* and the views to begin to wait only by asking.                          *)
(***************************************************************************)
EXTENDS ExecuteView, Panels, Scrolling, LiveViews, FiniteSetTheorems,
        WellFoundedInduction, TLAPS

-----------------------------------------------------------------------------
(* ExecuteView *)

SubViews == {"filter", "logs", "pager", "dialogue", "name", "plan", "confirm"}

OpenInv == open \subseteq SubViews \cup Overlays /\ OneSubView

LEMMA ExclusiveOnes ==
    /\ SubViews = {Exclusive[n] : n \in DOMAIN Exclusive}
    /\ \A n \in DOMAIN Exclusive : Exclusive[n] \in SubViews
BY DEF SubViews, Exclusive

\* Where a key reaches no sub-view and there is no overlay, nothing is open.
LEMMA NothingOpen ==
    ASSUME OpenInv, NoneOpen, ~HasOverlay
    PROVE  \A s \in open : ~IsOpen(s)
<1>1. \A s \in SubViews : ~IsOpen(s)
  BY ExclusiveOnes DEF NoneOpen
<1> QED
  BY <1>1 DEF OpenInv, HasOverlay

\* What a key reaches is all that is open.
LEMMA OnlyReached ==
    ASSUME OpenInv, NEW s, Reaches(s)
    PROVE  s \in open /\ \A u \in open : IsOpen(u) => u = s
BY DEF OpenInv, OneSubView, Reaches, IsOpen

\* Closing opens nothing, nor does leaving the view of a log.
LEMMA ClosingKeeps ==
    ASSUME OpenInv, open' \subseteq open, view' = view \/ view' = "execute",
           "confirm" \in open' <=> confirm' # NoAction
    PROVE  OpenInv'
<1>1. \A s \in open' : IsOpen(s)' => s \in open /\ IsOpen(s)
  BY DEF IsOpen
<1> QED
  BY <1>1 DEF OpenInv, OneSubView

\* What opens where nothing is open is alone.
LEMMA OpeningKeeps ==
    ASSUME OpenInv, NEW s \in SubViews \cup Overlays,
           \A u \in open : IsOpen(u) => u = s \/ u \notin open',
           open' \subseteq open \cup {s}, view' = view,
           "confirm" \in open' <=> confirm' # NoAction
    PROVE  OpenInv'
<1>1. \A u \in open' : IsOpen(u)' => u = s
  BY DEF IsOpen
<1> QED
  BY <1>1 DEF OpenInv, OneSubView

LEMMA OpenStep == OpenInv /\ [Next]_vars => OpenInv'
<1> SUFFICES ASSUME OpenInv, [Next]_vars PROVE OpenInv'
  OBVIOUS
<1>1. "confirm" \in open <=> confirm # NoAction
  BY DEF OpenInv, OneSubView
<1>2. CASE UNCHANGED uiVars
  BY <1>2 DEF uiVars, OpenInv, OneSubView, IsOpen
<1>3. CASE FilterKey
  BY <1>1, <1>3, ClosingKeeps DEF FilterKey
<1>4. CASE LogsKey
  BY <1>1, <1>4, ClosingKeeps DEF LogsKey
<1>5. CASE SubViewKey
  <2>1. PICK s \in {"pager", "dialogue", "name", "plan"} :
            /\ Reaches(s)
            /\ \/ open' = open \ {s}
               \/ s = "name" /\ open' = (open \ {s}) \cup {"dialogue"}
    BY <1>5 DEF SubViewKey
  <2>2. UNCHANGED <<view, confirm>>
    BY <1>5 DEF SubViewKey
  <2>3. CASE open' = open \ {s}
    BY <1>1, <2>1, <2>2, <2>3, ClosingKeeps
  <2>4. CASE s = "name" /\ open' = (open \ {s}) \cup {"dialogue"}
    <3>1. \A u \in open : IsOpen(u) => u = "dialogue" \/ u \notin open'
      BY <2>1, <2>4, OnlyReached
    <3> QED
      BY <1>1, <2>2, <2>4, <3>1, OpeningKeeps DEF SubViews
  <2> QED
    BY <2>1, <2>3, <2>4
<1>6. CASE ConfirmKey
  BY <1>6, ClosingKeeps DEF ConfirmKey
<1>7. CASE EscapeKey
  BY <1>1, <1>7, ClosingKeeps DEF EscapeKey, Overlays
<1>8. CASE SwitchProject
  BY <1>8, ClosingKeeps DEF SwitchProject
<1>9. CASE GlobalKey
  <2>1. /\ \A u \in open : ~IsOpen(u)
        /\ confirm' = confirm
    BY <1>9, NothingOpen DEF GlobalKey
  <2>2. ASSUME NEW o \in Overlays \cup {"filter"}, open' = open \cup {o}, view' = view
        PROVE  OpenInv'
    BY <1>1, <2>1, <2>2, OpeningKeeps DEF SubViews, Overlays
  <2>3. CASE open' = open
    <3>1. \A u \in open' : IsOpen(u)' => u = "logs"
      BY <2>1, <2>3 DEF IsOpen
    <3> QED
      BY <2>1, <2>3, <3>1 DEF OpenInv, OneSubView
  <2> QED
    BY <1>9, <2>2, <2>3 DEF GlobalKey
<1>10. CASE OpenKey
  <2>1. /\ \A u \in open : ~IsOpen(u)
        /\ UNCHANGED <<view, confirm>>
    BY <1>10, NothingOpen DEF OpenKey, AtView
  <2>2. PICK s \in SubViews \ {"confirm"} : open' = open \cup {s}
    BY <1>10 DEF OpenKey, SubViews
  <2> QED
    BY <1>1, <2>1, <2>2, OpeningKeeps
<1>11. CASE AskKey
  <2>1. /\ \A u \in open : ~IsOpen(u)
        /\ view' = view /\ open' = open \cup {"confirm"}
    BY <1>11, NothingOpen DEF AskKey, AtView
  <2>2. confirm' # NoAction
    BY <1>11 DEF AskKey, NoAction
  <2> QED
    BY <2>1, <2>2, OpeningKeeps DEF SubViews
<1> QED
  BY <1>2, <1>3, <1>4, <1>5, <1>6, <1>7, <1>8, <1>9, <1>10, <1>11
  DEF Next, Key, DaemonEvent, MoveKey, CollapseKey, VerifyKey, vars

\* Two sub-views are never open at a time, so that a key is for what is on the
\* screen, and the popup is open just when it has a question: in any project,
\* with any tree, however often it is fetched.
THEOREM KeysReachOne == Spec => []OneSubView
<1>1. Init => OpenInv
  BY DEF Init, OpenInv, OneSubView
<1>2. OpenInv => OneSubView
  BY DEF OpenInv
<1> QED
  BY <1>1, <1>2, OpenStep, PTL DEF Spec

\* What is sent is what the open popup asked about: the story it named, though
\* the tree has been fetched and the selection moved since, in the project in
\* which it was asked, and never nothing.
THEOREM SendsConfirmed ==
    Spec => SendsWhatWasConfirmed /\ [][request' # NoRequest => confirm # NoAction]_vars
<1>1. OneSubView /\ [Next]_vars =>
          [request' # NoRequest =>
              /\ "confirm" \in open
              /\ request' = [action |-> confirm, project |-> project]]_vars
  BY DEF Next, DaemonEvent, Key, ConfirmKey, Confirmed, Reaches, IsOpen
<1>2. OneSubView /\ [Next]_vars => [request' # NoRequest => confirm # NoAction]_vars
  BY DEF Next, DaemonEvent, Key, ConfirmKey, OneSubView, Reaches, IsOpen
<1> QED
  BY <1>1, <1>2, KeysReachOne, PTL DEF Spec, SendsWhatWasConfirmed

-----------------------------------------------------------------------------
(* ExecuteView: the tree *)

LEMMA LeastNumber ==
    ASSUME NEW S, S \subseteq Nat, S # {}
    PROVE  \E n \in S : \A m \in S : n <= m
<1> DEFINE R == OpToRel(<, Nat)
<1>1. IsWellFoundedOn(R, Nat)
  BY NatLessThanWellFounded
<1>2. \A a, b \in Nat : a < b => <<a, b>> \in R
  BY DEF OpToRel
<1> HIDE DEF R
<1>3. \E n \in S : \A m \in S : ~(<<m, n>> \in R)
  BY <1>1, WFMin
<1>4. PICK n \in S : \A m \in S : ~(<<m, n>> \in R)
  BY <1>3
<1>5. ASSUME NEW m \in S
      PROVE  n <= m
  <2>1. ~(m < n)
    BY <1>2, <1>4
  <2> QED
    BY <2>1
<1> QED
  BY <1>5

LEMMA GreatestNumber ==
    ASSUME NEW top \in Nat, NEW S, S \subseteq 1..top, S # {}
    PROVE  \E n \in S : \A m \in S : m <= n
<1> DEFINE T == {top - n : n \in S}
<1>1. T \subseteq Nat /\ T # {}
  <2>1. ASSUME NEW n \in S
        PROVE  top - n \in Nat
    OBVIOUS
  <2> QED
    BY <2>1
<1>2. PICK d \in T : \A m \in T : d <= m
  BY <1>1, LeastNumber
<1>3. PICK n \in S : d = top - n
  OBVIOUS
<1>4. ASSUME NEW m \in S
      PROVE  m <= n
  <2>1. d <= top - m
    BY <1>2
  <2> QED
    BY <1>3, <2>1
<1> QED
  BY <1>4

Size == Len(Shape)

LEMMA Depths ==
    /\ Size \in Nat /\ Node = 1..Size
    /\ \A i \in Node :
           /\ Depth(i) \in 0..3
           /\ i = 1 => Depth(i) = 0
           /\ i > 1 => Depth(i) <= Depth(i - 1) + 1
<1>1. Shape \in Seq((0..3) \X {"", "impl", "verify"})
  BY ShapeAssumption
<1> DEFINE kinds == (0..3) \X {"", "impl", "verify"}
<1>2. /\ Size \in Nat /\ Node = 1..Size
      /\ \A i \in Node : Shape[i] \in kinds
  <2>1. PICK K : K = kinds
    OBVIOUS
  <2>2. Shape \in Seq(K)
    BY <1>1, <2>1
  <2>3. /\ Len(Shape) \in Nat /\ DOMAIN Shape = 1..Len(Shape)
        /\ \A i \in 1..Len(Shape) : Shape[i] \in K
    BY <2>2
  <2> QED
    BY <2>1, <2>3 DEF Node, Size
<1>3. ASSUME NEW i \in Node
      PROVE  /\ Depth(i) \in 0..3
             /\ i = 1 => Depth(i) = 0
             /\ i > 1 => Depth(i) <= Depth(i - 1) + 1
  <2>1. Shape[i] \in kinds
    BY <1>2
  <2>2. Depth(i) \in 0..3
    BY <2>1 DEF Depth
  <2>3. i \in DOMAIN Shape
    BY DEF Node
  <2>4. /\ i = 1 => Shape[i][1] = 0
        /\ i > 1 => Shape[i][1] <= Shape[i - 1][1] + 1
    BY <2>3, ShapeAssumption
  <2> QED
    BY <2>2, <2>4 DEF Depth
<1> QED
  BY <1>2, <1>3

\* The nodes on the way from i to the root: those after which all, up to i, are
\* deeper.
Above(i) == {j \in 1..(i - 1) : \A k \in (j + 1)..i : Depth(j) < Depth(k)}

\* Each node below the top has a parent: the last before it that is less deep
\* is so by one.
LEMMA ParentBelow ==
    ASSUME NEW i \in Node, Depth(i) # 0
    PROVE  /\ Parent(i) \in 1..(i - 1) /\ Parent(i) \in Node
           /\ Depth(Parent(i)) = Depth(i) - 1
           /\ \A k \in (Parent(i) + 1)..(i - 1) : Depth(k) >= Depth(i)
<1> DEFINE S == {j \in 1..(i - 1) : Depth(j) < Depth(i)}
<1>1. i \in Nat /\ i > 1 /\ 1..(i - 1) \subseteq Node
  BY Depths
<1>2. 1 \in S
  BY <1>1, Depths
<1>3. S \subseteq 1..i /\ i \in Nat
  BY <1>1
<1>4. PICK j \in S : \A m \in S : m <= j
  BY <1>2, <1>3, GreatestNumber
<1>5. ASSUME NEW k \in (j + 1)..(i - 1)
      PROVE  Depth(k) >= Depth(i)
  <2>1. k \in 1..(i - 1) /\ k \notin S
    BY <1>1, <1>4
  <2>2. ~(Depth(k) < Depth(i))
    BY <2>1
  <2>3. k \in Node /\ Depth(k) \in 0..3 /\ Depth(i) \in 0..3
    BY <1>1, <2>1, Depths
  <2> QED
    BY <2>2, <2>3
<1>6. Depth(j) = Depth(i) - 1
  <2>1. j + 1 \in Node /\ j \in Node /\ j \in Nat
    BY <1>1, <1>4, Depths
  <2>2. /\ Depth(j + 1) <= Depth(j) + 1 /\ Depth(j) < Depth(i)
        /\ Depth(j) \in 0..3 /\ Depth(j + 1) \in 0..3 /\ Depth(i) \in 0..3
    BY <1>4, <2>1, Depths
  <2>3. Depth(j + 1) >= Depth(i)
    <3>1. j + 1 = i \/ j + 1 \in (j + 1)..(i - 1)
      BY <1>1, <1>4, <2>1
    <3> QED
      BY <1>5, <2>2, <3>1
  <2> QED
    BY <2>2, <2>3
<1>7. \E n \in 1..(i - 1) : /\ Depth(n) = Depth(i) - 1
                            /\ \A k \in (n + 1)..(i - 1) : Depth(k) >= Depth(i)
  BY <1>4, <1>5, <1>6
<1> HIDE DEF S
<1> QED
  BY <1>1, <1>7 DEF Parent

LEMMA AboveTop ==
    ASSUME NEW i \in Node, Depth(i) = 0
    PROVE  Above(i) = {}
<1>1. ASSUME NEW j \in Above(i)
      PROVE  FALSE
  <2>1. i \in (j + 1)..i /\ j \in Node
    BY Depths DEF Above
  <2>2. Depth(j) < Depth(i)
    BY <2>1 DEF Above
  <2> QED
    BY <2>1, <2>2, Depths
<1> QED
  BY <1>1

LEMMA AboveParent ==
    ASSUME NEW i \in Node, Depth(i) # 0
    PROVE  Above(i) = {Parent(i)} \cup Above(Parent(i))
<1> DEFINE p == Parent(i)
<1>1. /\ p \in 1..(i - 1) /\ p \in Node /\ i \in Nat
      /\ Depth(p) = Depth(i) - 1
      /\ \A k \in (p + 1)..(i - 1) : Depth(k) >= Depth(i)
      /\ \A k \in 1..i : k \in Node /\ Depth(k) \in 0..3
  BY ParentBelow, Depths
<1> HIDE DEF p
<1>2. \A k \in (p + 1)..i : Depth(p) < Depth(k)
  BY <1>1
<1>3. p \in Above(i)
  BY <1>1, <1>2 DEF Above
<1>4. ASSUME NEW j \in Above(p)
      PROVE  j \in Above(i)
  <2>1. j \in 1..(p - 1) /\ \A k \in (j + 1)..p : Depth(j) < Depth(k)
    BY <1>4 DEF Above
  <2>2. Depth(j) < Depth(p)
    BY <1>1, <2>1
  <2>3. ASSUME NEW k \in (j + 1)..i
        PROVE  Depth(j) < Depth(k)
    <3>1. CASE k <= p
      BY <1>1, <2>1, <3>1
    <3>2. CASE k > p
      <4>1. Depth(p) < Depth(k)
        BY <1>1, <1>2, <3>2
      <4>2. j \in 1..i /\ k \in 1..i
        BY <1>1, <2>1
      <4> QED
        BY <1>1, <2>2, <4>1, <4>2
    <3> QED
      BY <1>1, <2>1, <3>1, <3>2
  <2> QED
    BY <1>1, <2>1, <2>3 DEF Above
<1>5. ASSUME NEW j \in Above(i), j # p
      PROVE  j \in Above(p)
  <2>1. j \in 1..(i - 1) /\ \A k \in (j + 1)..i : Depth(j) < Depth(k)
    BY <1>5 DEF Above
  <2>2. ~(j > p)
    <3>1. Depth(j) < Depth(i)
      BY <1>1, <2>1
    <3> QED
      BY <1>1, <2>1, <3>1
  <2> QED
    BY <1>1, <1>5, <2>1, <2>2 DEF Above
<1> QED
  BY <1>3, <1>4, <1>5 DEF p

\* The ancestors, found from parent to parent, are the nodes above.
LEMMA AncestorsAreAbove ==
    ASSUME NEW i \in Node
    PROVE  Ancestors(i) = Above(i)
<1> DEFINE Step(g) == [n \in Node |-> IF Depth(n) = 0 THEN {}
                                      ELSE {Parent(n)} \cup g[Parent(n)]]
           f == CHOOSE g : g = Step(g)
           above == [n \in Node |-> Above(n)]
<1>1. above = Step(above)
  <2>1. ASSUME NEW n \in Node
        PROVE  above[n] = IF Depth(n) = 0 THEN {} ELSE {Parent(n)} \cup above[Parent(n)]
    BY AboveTop, AboveParent, ParentBelow
  <2> QED
    BY <2>1
<1>2. f = Step(f)
  BY <1>1
<1>3. Ancestors(i) = f[i]
  BY DEF Ancestors
<1>4. \A n \in Node : f[n] = IF Depth(n) = 0 THEN {} ELSE {Parent(n)} \cup f[Parent(n)]
  BY <1>2
<1> HIDE DEF f
<1> DEFINE S == {n \in Node : f[n] # Above(n)}
<1>5. S = {}
  <2> SUFFICES ASSUME S # {} PROVE FALSE
    OBVIOUS
  <2>1. S \subseteq Nat
    BY Depths
  <2>2. PICK n \in S : \A m \in S : n <= m
    BY <2>1, LeastNumber
  <2>3. Depth(n) # 0
    BY <1>4, AboveTop
  <2>4. Parent(n) \in Node /\ Parent(n) < n /\ n \in Nat
    BY <2>1, <2>3, ParentBelow
  <2>5. f[Parent(n)] = Above(Parent(n))
    BY <2>1, <2>2, <2>4
  <2> QED
    BY <1>4, <2>3, <2>5, AboveParent
<1> QED
  BY <1>3, <1>5

LEMMA AboveOfAbove ==
    ASSUME NEW t \in Node, NEW i \in Above(t), NEW j \in Above(i)
    PROVE  j \in Above(t)
<1>1. /\ t \in Nat /\ i \in 1..(t - 1) /\ j \in 1..(i - 1)
      /\ \A k \in 1..t : Depth(k) \in Int
      /\ \A k \in (i + 1)..t : Depth(i) < Depth(k)
      /\ \A k \in (j + 1)..i : Depth(j) < Depth(k)
  BY Depths DEF Above
<1>2. ASSUME NEW k \in (j + 1)..t
      PROVE  Depth(j) < Depth(k)
  <2>1. CASE k <= i
    BY <1>1, <2>1
  <2>2. CASE k > i
    <3>1. Depth(j) < Depth(i) /\ Depth(i) < Depth(k)
      BY <1>1, <2>2
    <3>2. j \in 1..t /\ i \in 1..t /\ k \in 1..t
      BY <1>1
    <3> QED
      BY <1>1, <3>1, <3>2
  <2> QED
    BY <1>1, <2>1, <2>2
<1> QED
  BY <1>1, <1>2 DEF Above

LEMMA AboveIsNodes ==
    ASSUME NEW i \in Node
    PROVE  /\ i \in Nat /\ Above(i) \subseteq Node
           /\ \A k \in 1..i : k \in Node /\ Depth(k) \in 0..3
BY Depths DEF Above

LEMMA MarksAreAbove ==
    ASSUME NEW t \in Node, NEW i \in Node
    PROVE  i \in Marks(t) <=> (i = t \/ i \in Above(t))
<1>1. t \in Nat /\ i \in Nat /\ i >= 1 /\ t >= 1
  BY Depths
<1>2. CASE i = t
  BY <1>1, <1>2 DEF Marks
<1>3. CASE i # t
  BY <1>1, <1>3 DEF Marks, Above
<1> QED
  BY <1>2, <1>3

LEMMA MarksAreNodes == \A t \in Node : Marks(t) \subseteq Node
BY Depths DEF Marks

\* What a collapsed node hides.
LEMMA BelowIsAbove ==
    ASSUME NEW i \in Node, NEW j \in Node
    PROVE  (/\ j < i /\ HasChildren(j)
            /\ \A k \in (j + 1)..i : Depth(k) > Depth(j)) <=> j \in Above(i)
<1>1. /\ i \in Nat /\ j \in Nat /\ j >= 1
      /\ \A k \in 1..i : k \in Node /\ Depth(k) \in 0..3
      /\ Depth(j) \in 0..3
  BY Depths
<1>2. ASSUME j < i, \A k \in (j + 1)..i : Depth(k) > Depth(j)
      PROVE  j \in Above(i)
  <2>1. j \in 1..(i - 1) /\ (j + 1)..i \subseteq 1..i
    BY <1>1, <1>2
  <2>2. \A k \in (j + 1)..i : Depth(j) < Depth(k)
    BY <1>1, <1>2, <2>1
  <2> QED
    BY <2>1, <2>2 DEF Above
<1>3. ASSUME j \in Above(i)
      PROVE  /\ j < i /\ HasChildren(j)
             /\ \A k \in (j + 1)..i : Depth(k) > Depth(j)
  <2>1. j < i /\ \A k \in (j + 1)..i : Depth(j) < Depth(k)
    BY <1>1, <1>3 DEF Above
  <2>2. (j + 1)..i \subseteq 1..i /\ j + 1 \in (j + 1)..i
    BY <1>1, <2>1
  <2>3. \A k \in (j + 1)..i : Depth(k) > Depth(j)
    BY <1>1, <2>1, <2>2
  <2>4. HasChildren(j)
    BY <1>1, <2>2, <2>3 DEF HasChildren
  <2> QED
    BY <2>1, <2>3, <2>4
<1> QED
  BY <1>2, <1>3

LEMMA MatchesAndAbove ==
    ASSUME NEW q \in Query \cup {""}, NEW i \in Node
    PROVE  i \in Matching(q) <=> (q = "" \/ \E t \in Titles[q] : i = t \/ i \in Above(t))
<1>1. CASE q = ""
  BY <1>1 DEF Matching
<1>2. CASE q # ""
  <2>1. Titles[q] \subseteq Node
    BY <1>2, ShapeAssumption DEF Node
  <2>2. Matching(q) = UNION {Marks(t) : t \in Titles[q]}
    BY <1>2 DEF Matching
  <2>3. i \in Matching(q) <=> \E t \in Titles[q] : i \in Marks(t)
    BY <2>2
  <2>4. \A t \in Titles[q] : i \in Marks(t) <=> (i = t \/ i \in Above(t))
    BY <2>1, MarksAreAbove
  <2> QED
    BY <1>2, <2>3, <2>4
<1> QED
  BY <1>1, <1>2

LEMMA MatchingIsNodes ==
    ASSUME NEW q \in Query \cup {""}
    PROVE  Matching(q) \subseteq Node
<1>1. CASE q = ""
  BY <1>1 DEF Matching
<1>2. CASE q # ""
  <2>1. Titles[q] \subseteq Node
    BY <1>2, ShapeAssumption DEF Node
  <2>2. Matching(q) = UNION {Marks(t) : t \in Titles[q]}
    BY <1>2 DEF Matching
  <2> QED
    BY <2>1, <2>2, MarksAreNodes
<1> QED
  BY <1>1, <1>2

\* What is above a match matches as well.
LEMMA MatchingReachesUp ==
    ASSUME NEW q \in Query \cup {""}, NEW i \in Node, i \in Matching(q),
           NEW j \in Above(i)
    PROVE  j \in Matching(q)
<1>1. j \in Node
  BY AboveIsNodes
<1>2. CASE q = ""
  BY <1>1, <1>2 DEF Matching
<1>3. CASE q # ""
  <2>1. PICK t \in Titles[q] : i = t \/ i \in Above(t)
    BY <1>3, MatchesAndAbove
  <2>2. t \in Node
    BY <1>3, ShapeAssumption DEF Node
  <2>3. j \in Above(t)
    BY <2>1, <2>2, AboveOfAbove
  <2> QED
    BY <1>1, <2>3, MatchesAndAbove
<1> QED
  BY <1>2, <1>3

\* So a node that matches is skipped just if a node above it is collapsed.
LEMMA SkippedBelow ==
    ASSUME NEW q \in Query \cup {""}, NEW i \in Node, i \in Matching(q)
    PROVE  Skipped(i, q) <=> Above(i) \cap collapsed # {}
<1>1. ASSUME NEW j \in collapsed, j \in Above(i)
      PROVE  Skipped(i, q)
  <2>1. j \in Node /\ j \in Matching(q)
    BY <1>1, AboveIsNodes, MatchingReachesUp
  <2> QED
    BY <1>1, <2>1, BelowIsAbove DEF Skipped
<1>2. ASSUME Skipped(i, q)
      PROVE  Above(i) \cap collapsed # {}
  <2>1. PICK j \in collapsed \cap Matching(q) :
            /\ j < i /\ HasChildren(j)
            /\ \A k \in (j + 1)..i : Depth(k) > Depth(j)
    BY <1>2 DEF Skipped
  <2>2. j \in Node
    BY MatchingIsNodes
  <2> QED
    BY <2>1, <2>2, BelowIsAbove
<1> QED
  BY <1>1, <1>2

LEMMA ExactlyVisible == VisibleIsExact
<1> SUFFICES ASSUME NEW q \in Query \cup {""}
             PROVE  Visible(q) =
                    {i \in Nodes :
                        /\ q = "" \/ \E t \in Titles[q] : i = t \/ i \in Ancestors(t)
                        /\ ~(hideVerify /\ Shape[i][2] = "verify")
                        /\ Ancestors(i) \cap collapsed = {}}
  BY DEF VisibleIsExact
<1>1. Nodes \subseteq Node
  BY DEF Nodes
<1>2. ASSUME NEW i \in Nodes
      PROVE  i \in Matching(q) <=>
                 (q = "" \/ \E t \in Titles[q] : i = t \/ i \in Ancestors(t))
  <2>1. q # "" => Titles[q] \subseteq Node
    BY ShapeAssumption DEF Node
  <2> QED
    BY <1>1, <2>1, MatchesAndAbove, AncestorsAreAbove
<1>3. ASSUME NEW i \in Nodes, i \in Matching(q)
      PROVE  ~Skipped(i, q) <=> Ancestors(i) \cap collapsed = {}
  BY <1>1, <1>3, SkippedBelow, AncestorsAreAbove
<1> QED
  BY <1>2, <1>3 DEF Visible, Hidden

\* In a tree of any size and with any filter the list shows the nodes a reader
\* expects, in whatever state: what the two passes of visible_nodes_filtered keep
\* is what matches or has a match below it, is not hidden and has no collapsed
\* ancestor.
THEOREM ListsAreExact == Spec => []VisibleIsExact
<1>1. VisibleIsExact
  BY ExactlyVisible
<1> QED
  BY <1>1, PTL

-----------------------------------------------------------------------------
(* ExecuteView: the selection *)

FilterTyped == filter \in [query : Query \cup {""}, applied : Query \cup {""}]

\* What typing, Enter and Esc make of a filter.
LEMMA FilterStays ==
    ASSUME NEW Q, "" \in Q, NEW f \in [query : Q, applied : Q], NEW g,
           \/ \E q \in Q : g = [f EXCEPT !.query = q]
           \/ g = [f EXCEPT !.query = f.applied]
           \/ g = [f EXCEPT !.applied = f.query]
           \/ g = [query |-> "", applied |-> ""]
    PROVE  g \in [query : Q, applied : Q]
<1>1. f.query \in Q /\ f.applied \in Q
  OBVIOUS
<1>2. ASSUME NEW q \in Q, g = [f EXCEPT !.query = q]
      PROVE  g \in [query : Q, applied : Q]
  BY <1>2
<1>3. ASSUME NEW q \in Q, g = [f EXCEPT !.applied = q]
      PROVE  g \in [query : Q, applied : Q]
  BY <1>3
<1>4. CASE g = [query |-> "", applied |-> ""]
  BY <1>4
<1> QED
  BY <1>1, <1>2, <1>3, <1>4

SelectionInv == selected \in Nat /\ selected >= 1 /\ FilterTyped /\ SelectionInRange

LEMMA NodesAreFinite ==
    ASSUME NEW S, S \subseteq Node
    PROVE  IsFiniteSet(S) /\ Cardinality(S) \in Nat /\ (S # {} => Cardinality(S) >= 1)
<1>1. IsFiniteSet(Node)
  BY Depths, FS_Interval
<1>2. IsFiniteSet(S)
  BY <1>1, FS_Subset
<1>3. Cardinality(S) \in Nat
  BY <1>2, FS_CardinalityType
<1>4. S # {} => Cardinality(S) # 0
  BY <1>2, FS_EmptySet
<1> QED
  BY <1>2, <1>3, <1>4

LEMMA MoreNodes ==
    ASSUME NEW S, NEW T, S \subseteq T, T \subseteq Node
    PROVE  Cardinality(S) <= Cardinality(T)
BY NodesAreFinite, FS_Subset

LEMMA PlacesAreInRange ==
    ASSUME NEW S, S \subseteq Node, NEW i \in S
    PROVE  Place(i, S) \in 1..Cardinality(S)
<1> DEFINE T == {j \in S : j <= i}
<1>1. T \subseteq S /\ T \subseteq Node
  OBVIOUS
<1>2. i \in T
  BY Depths
<1>3. Cardinality(T) \in Nat /\ Cardinality(T) >= 1 /\ Cardinality(S) \in Nat
  BY <1>1, <1>2, NodesAreFinite
<1>4. Cardinality(T) <= Cardinality(S)
  BY <1>1, MoreNodes
<1> QED
  BY <1>3, <1>4 DEF Place

\* What a reader expects of the list, with the nodes above for ancestors.
LEMMA VisibleFromAbove ==
    ASSUME VisibleIsExact, NEW q \in Query \cup {""}
    PROVE  Visible(q) = {i \in Nodes :
                             /\ q = "" \/ \E t \in Titles[q] : i = t \/ i \in Above(t)
                             /\ ~(hideVerify /\ Shape[i][2] = "verify")
                             /\ Above(i) \cap collapsed = {}}
<1>1. Nodes \subseteq Node
  BY DEF Nodes
<1>2. q # "" => Titles[q] \subseteq Node
  BY ShapeAssumption DEF Node
<1>3. \A i \in Nodes : Ancestors(i) = Above(i)
  BY <1>1, AncestorsAreAbove
<1>4. q # "" => \A t \in Titles[q] : Ancestors(t) = Above(t)
  BY <1>2, AncestorsAreAbove
<1> DEFINE Named(i) == q = "" \/ \E t \in Titles[q] : i = t \/ i \in Above(t)
           Known(i) == q = "" \/ \E t \in Titles[q] : i = t \/ i \in Ancestors(t)
           Shown(i) == ~(hideVerify /\ Shape[i][2] = "verify")
<1>5. Visible(q) = {i \in Nodes : Known(i) /\ Shown(i) /\ Ancestors(i) \cap collapsed = {}}
  BY DEF VisibleIsExact
<1>6. \A i : Known(i) <=> Named(i)
  BY <1>4
<1> HIDE DEF Named, Known, Shown
<1>7. Visible(q) = {i \in Nodes : Named(i) /\ Shown(i) /\ Above(i) \cap collapsed = {}}
  BY <1>3, <1>5, <1>6
<1> QED
  BY <1>7 DEF Named, Shown

\* A filter only takes nodes away.
LEMMA FilteredIsLess ==
    ASSUME VisibleIsExact, NEW q \in Query \cup {""}
    PROVE  Visible(q) \subseteq Visible("") /\ Visible(q) \subseteq Node
<1>1. "" \in Query \cup {""}
  OBVIOUS
<1> QED
  BY <1>1, VisibleFromAbove DEF Nodes

LEMMA ClampedInRange ==
    ASSUME NEW n \in Nat, n >= 1, NEW S, S \subseteq Node
    PROVE  /\ Clamped(n, S) \in Nat /\ Clamped(n, S) >= 1
           /\ S # {} => Clamped(n, S) <= Cardinality(S)
BY NodesAreFinite DEF Clamped

\* Numbers only.
LEMMA OneBack ==
    ASSUME NEW n \in Nat, n > 1, NEW m, m = n - 1
    PROVE  m \in Nat /\ m >= 1 /\ \A c \in Nat : n <= c => m <= c
OBVIOUS

LEMMA OneOn ==
    ASSUME NEW n \in Nat, NEW b \in Nat, n < b, NEW m, m = n + 1
    PROVE  m \in Nat /\ m >= 1 /\ \A c \in Nat : b <= c => m <= c
OBVIOUS

LEMMA InInterval ==
    ASSUME NEW c \in Nat, NEW n \in 1..c
    PROVE  n \in Nat /\ n >= 1 /\ n <= c
OBVIOUS

LEMMA UpdateSelects ==
    ASSUME NEW n \in Nat, n >= 1, NEW p, Update(p, n)
    PROVE  selected' \in Nat /\ selected' >= 1 /\ SelectionInRange'
<1> DEFINE visible == Visible("")'
           busy == RunningAt(Visible(""))'
<1>1. visible \subseteq Node
  BY DEF Visible, Nodes
<1>2. busy \subseteq 1..Cardinality(visible)
  <2>1. ASSUME NEW m \in busy
        PROVE  m \in 1..Cardinality(visible)
    <3>1. PICK i \in visible : m = Place(i, visible)
      BY DEF RunningAt
    <3> QED
      BY <1>1, <3>1, PlacesAreInRange
  <2> QED
    BY <2>1
<1>3. selected' = IF busy # {}
                  THEN CHOOSE m \in busy : \A k \in busy : m <= k
                  ELSE Clamped(n, visible)
  BY DEF Update
<1> HIDE DEF busy, visible
<1>4. Cardinality(visible) \in Nat
  BY <1>1, NodesAreFinite
<1>5. CASE busy # {}
  <2>1. busy \subseteq Nat
    BY <1>2, <1>4
  <2>2. \E m \in busy : \A k \in busy : m <= k
    BY <1>5, <2>1, LeastNumber
  <2>3. selected' \in busy
    BY <1>3, <1>5, <2>2
  <2>4. selected' \in 1..Cardinality(visible)
    BY <1>2, <2>3
  <2>5. selected' \in Nat /\ selected' >= 1 /\ selected' <= Cardinality(visible)
    BY <1>4, <2>4, InInterval
  <2> QED
    BY <2>5 DEF SelectionInRange, visible
<1>6. CASE busy = {}
  <2>1. selected' = Clamped(n, visible)
    BY <1>3, <1>6
  <2> QED
    BY <1>1, <2>1, ClampedInRange DEF SelectionInRange, visible
<1> QED
  BY <1>5, <1>6

LEMMA FetchSelects ==
    ASSUME SelectionInv, Fetch \/ UNCHANGED treeVars
    PROVE  selected' \in Nat /\ selected' >= 1 /\ SelectionInRange'
<1>1. CASE Update(project, selected)
  BY <1>1, UpdateSelects DEF SelectionInv
<1>2. CASE UNCHANGED treeVars
  <2>1. selected' = selected /\ Visible("")' = Visible("")
    BY <1>2 DEF treeVars, Visible, Nodes, Skipped, Hidden, Matching
  <2> QED
    BY <2>1 DEF SelectionInv, SelectionInRange
<1> QED
  BY <1>1, <1>2 DEF Fetch

LEMMA MoveSelects ==
    ASSUME VisibleIsExact, SelectionInv, MoveKey
    PROVE  selected' \in Nat /\ selected' >= 1 /\ SelectionInRange'
<1>1. PICK q \in Query \cup {""} :
          \/ selected > 1 /\ selected' = selected - 1
          \/ selected < Cardinality(Visible(q)) /\ selected' = selected + 1
  BY DEF MoveKey, SelectionInv, FilterTyped
<1>2. Visible("")' = Visible("")
  BY DEF MoveKey, Visible, Nodes, Skipped, Hidden, Matching
<1> DEFINE visible == Visible(q)
           all == Visible("")
<1>3. visible \subseteq all /\ all \subseteq Node /\ visible \subseteq Node
  BY FilteredIsLess
<1>4. selected \in Nat /\ selected >= 1 /\ (all # {} => selected <= Cardinality(all))
  BY DEF SelectionInv, SelectionInRange
<1>5. \/ selected > 1 /\ selected' = selected - 1
      \/ selected < Cardinality(visible) /\ selected' = selected + 1
  BY <1>1
<1>6. /\ Cardinality(visible) <= Cardinality(all)
      /\ Cardinality(visible) \in Nat /\ Cardinality(all) \in Nat
  BY <1>3, MoreNodes, NodesAreFinite
<1>7. /\ selected' \in Nat /\ selected' >= 1
      /\ all # {} => selected' <= Cardinality(all)
  <2> HIDE DEF visible, all
  <2>1. CASE selected > 1 /\ selected' = selected - 1
    BY <1>4, <1>6, <2>1, OneBack
  <2>2. CASE selected < Cardinality(visible) /\ selected' = selected + 1
    BY <1>4, <1>6, <2>2, OneOn
  <2> QED
    BY <1>5, <2>1, <2>2
<1> QED
  BY <1>2, <1>7 DEF SelectionInRange

LEMMA AboveIsBefore ==
    ASSUME NEW j \in Node, NEW i \in Node, j <= i
    PROVE  i \notin Above(j)
BY Depths DEF Above

LEMMA CollapseSelects ==
    ASSUME VisibleIsExact, VisibleIsExact', SelectionInv, CollapseKey
    PROVE  selected' \in Nat /\ selected' >= 1 /\ SelectionInRange'
<1>1. PICK q \in Query \cup {""} : q = filter.applied
  BY DEF SelectionInv, FilterTyped
<1>2. PICK i \in Visible(q) :
          /\ Place(i, Visible(q)) = selected
          /\ collapsed' \subseteq collapsed \cup {i}
  BY <1>1 DEF CollapseKey, At
<1>3. selected' = selected /\ hideVerify' = hideVerify /\ Nodes' = Nodes
  BY DEF CollapseKey, Nodes
<1> DEFINE before == {j \in Visible(q) : j <= i}
           all == Visible("")'
<1>4. all = {j \in Nodes : /\ ~(hideVerify /\ Shape[j][2] = "verify")
                           /\ Above(j) \cap collapsed' = {}}
  <2>1. all = {j \in Nodes' : /\ "" = "" \/ \E t \in Titles[""] : j = t \/ j \in Ancestors(t)
                              /\ ~(hideVerify' /\ Shape[j][2] = "verify")
                              /\ Ancestors(j) \cap collapsed' = {}}
    BY ZenonT(30) DEF VisibleIsExact
  <2>2. all = {j \in Nodes : /\ ~(hideVerify /\ Shape[j][2] = "verify")
                             /\ Ancestors(j) \cap collapsed' = {}}
    BY <1>3, <2>1
  <2>3. \A j \in Nodes : Ancestors(j) = Above(j)
    BY AncestorsAreAbove DEF Nodes
  <2> QED
    BY <2>2, <2>3
<1>5. before \subseteq all
  <2>1. ASSUME NEW j \in before
        PROVE  j \in all
    <3>1. /\ j \in Nodes /\ ~(hideVerify /\ Shape[j][2] = "verify")
          /\ Above(j) \cap collapsed = {}
      BY VisibleFromAbove
    <3>2. j \in Node /\ i \in Node /\ j <= i
      BY FilteredIsLess
    <3>3. i \notin Above(j)
      BY <3>2, AboveIsBefore
    <3>4. Above(j) \cap collapsed' = {}
      BY <1>2, <3>1, <3>3
    <3> QED
      BY <1>4, <3>1, <3>4
  <2> QED
    BY <2>1
<1>6. all \subseteq Node
  BY <1>4 DEF Nodes
<1>7. Cardinality(before) <= Cardinality(all) /\ selected = Cardinality(before)
  BY <1>2, <1>5, <1>6, MoreNodes DEF Place
<1> QED
  BY <1>3, <1>7 DEF SelectionInRange, SelectionInv

LEMMA SelectionStep ==
    ASSUME VisibleIsExact, VisibleIsExact', SelectionInv, [Next]_vars
    PROVE  SelectionInv'
<1>1. FilterTyped'
  <2>1. CASE UNCHANGED filter
    BY <2>1 DEF SelectionInv, FilterTyped
  <2>2. CASE FilterKey
    <3>1. \/ \E q \in Query \cup {""} : filter' = [filter EXCEPT !.query = q]
          \/ filter' = [filter EXCEPT !.applied = filter.query]
          \/ filter' = [query |-> "", applied |-> ""]
      BY <2>2 DEF FilterKey
    <3> QED
      BY <3>1, FilterStays DEF SelectionInv, FilterTyped
  <2>3. CASE EscapeKey
    <3>1. filter' = filter \/ filter' = [query |-> "", applied |-> ""]
      BY <2>3 DEF EscapeKey
    <3> QED
      BY <3>1, FilterStays DEF SelectionInv, FilterTyped
  <2>4. CASE GlobalKey
    <3>1. filter' = filter \/ filter' = [filter EXCEPT !.query = filter.applied]
      BY <2>4 DEF GlobalKey
    <3> QED
      BY <3>1, FilterStays DEF SelectionInv, FilterTyped
  <2> QED
    BY <2>1, <2>2, <2>3, <2>4
    DEF Next, DaemonEvent, Key, LogsKey, SubViewKey, ConfirmKey, SwitchProject, OpenKey,
        MoveKey, CollapseKey, VerifyKey, AskKey, vars, uiVars
<1>2. selected' \in Nat /\ selected' >= 1 /\ SelectionInRange'
  <2>1. CASE Fetch \/ UNCHANGED treeVars
    BY <2>1, FetchSelects
  <2>2. CASE SwitchProject
    <3>1. PICK p \in Project :
              \/ Update(p, 1)
              \/ tree' = EmptyTree(p) /\ selected' = 1
      BY <2>2 DEF SwitchProject
    <3>2. CASE Update(p, 1)
      BY <3>2, UpdateSelects
    <3>3. CASE tree' = EmptyTree(p) /\ selected' = 1
      <4>1. ~tree'.waves
        BY <3>3 DEF EmptyTree, NoTree
      <4>2. Visible("")' = {}
        BY <4>1 DEF Visible, Nodes
      <4>3. SelectionInRange'
        BY <4>2 DEF SelectionInRange
      <4> QED
        BY <3>3, <4>3
    <3> QED
      BY <3>1, <3>2, <3>3
  <2>3. CASE VerifyKey
    <3>1. selected' = Clamped(selected, Visible("")')
      BY <2>3 DEF VerifyKey
    <3>2. PICK visible : visible = Visible("")'
      OBVIOUS
    <3>3. visible \subseteq Node
      BY <3>2 DEF Visible, Nodes
    <3>4. /\ selected' \in Nat /\ selected' >= 1
          /\ visible # {} => selected' <= Cardinality(visible)
      BY <3>1, <3>2, <3>3, ClampedInRange DEF SelectionInv
    <3> QED
      BY <3>2, <3>4 DEF SelectionInRange
  <2> QED
    BY <2>1, <2>2, <2>3, MoveSelects, CollapseSelects
    DEF Next, DaemonEvent, Key, FilterKey, LogsKey, SubViewKey, ConfirmKey, EscapeKey,
        GlobalKey, OpenKey, AskKey, vars
<1> QED
  BY <1>1, <1>2 DEF SelectionInv

\* Whenever the tree shows a node, one is selected: in a tree of any size, whatever
\* was collapsed, hidden, filtered or fetched since, so that keys which act on the
\* selection never miss.
THEOREM SomethingIsSelected == Spec => []SelectionInRange
<1>1. Init => SelectionInv
  <2>1. ASSUME Init
        PROVE  Visible("") = {} /\ selected = 1 /\ FilterTyped
    BY <2>1 DEF Init, NoTree, Visible, Nodes, FilterTyped
  <2>2. 1 \in Nat /\ 1 >= 1
    OBVIOUS
  <2> QED
    BY <2>1, <2>2 DEF SelectionInv, SelectionInRange
<1>2. VisibleIsExact /\ VisibleIsExact' /\ SelectionInv /\ [Next]_vars => SelectionInv'
  BY SelectionStep
<1>3. SelectionInv => SelectionInRange
  BY DEF SelectionInv
<1> QED
  BY <1>1, <1>2, <1>3, ListsAreExact, PTL DEF Spec

-----------------------------------------------------------------------------
(* Panels *)

\* The list is the current project's; while the dialog is open, what it offers and
\* what is ticked in it is approved in the list, which nothing fetches anew.
PanelsInv ==
    /\ list.of = owner
    /\ form = [specs |-> form.specs, ticked |-> form.ticked,
               cursor |-> form.cursor, code |-> form.code]
    /\ panel = "generate" =>
           /\ \A i \in DOMAIN form.specs : form.specs[i] \in Approved(list.items)
           /\ form.ticked \subseteq Approved(list.items)

LEMMA PanelsInvInit == PanelsInit => PanelsInv
<1> SUFFICES ASSUME PanelsInit PROVE PanelsInv
  OBVIOUS
<1>1. list.of = owner /\ panel = "specs" /\ form = NoForm
  BY DEF PanelsInit
<1>2. form = [specs |-> form.specs, ticked |-> form.ticked,
              cursor |-> form.cursor, code |-> form.code]
  BY <1>1 DEF NoForm
<1> QED
  BY <1>1, <1>2 DEF PanelsInv

\* A new dialog offers what is approved, and nothing is ticked.
LEMMA OpenOffersApproved == PanelsInv /\ OpenGenerate => PanelsInv'
<1> SUFFICES ASSUME PanelsInv, OpenGenerate PROVE PanelsInv'
  OBVIOUS
<1> DEFINE approved == {n \in DOMAIN list.items : list.items[n].status = "approved"}
<1>1. PICK at \in [1..Cardinality(approved) -> approved] :
          form' = NewForm([i \in DOMAIN at |-> list.items[at[i]].name])
  BY DEF OpenGenerate
<1>2. /\ form' = [specs |-> [i \in DOMAIN at |-> list.items[at[i]].name], ticked |-> {},
                  cursor |-> 0, code |-> FALSE]
      /\ list' = list /\ owner' = owner
  BY <1>1 DEF NewForm, NoForm, OpenGenerate
<1>3. ASSUME NEW i \in DOMAIN at
      PROVE  list.items[at[i]].name \in Approved(list.items)
  <2>1. at[i] \in approved
    BY <1>1
  <2> QED
    BY <2>1 DEF Approved
<1> QED
  BY <1>2, <1>3 DEF PanelsInv

\* Only what the dialog offers can be ticked.
LEMMA FillTicksApproved == PanelsInv /\ FillGenerate => PanelsInv'
<1> SUFFICES ASSUME PanelsInv, FillGenerate PROVE PanelsInv'
  OBVIOUS
<1>1. /\ panel = "generate" /\ list' = list /\ owner' = owner
      /\ form'.specs = form.specs
      /\ form' = [specs |-> form'.specs, ticked |-> form'.ticked,
                  cursor |-> form'.cursor, code |-> form'.code]
  BY DEF FillGenerate, PanelsInv
<1>2. \/ form'.ticked = form.ticked
      \/ \E i \in DOMAIN form.specs : form'.ticked \subseteq form.ticked \cup {form.specs[i]}
  BY DEF FillGenerate, PanelsInv
<1>3. form'.ticked \subseteq Approved(list.items)
  BY <1>1, <1>2 DEF PanelsInv
<1> QED
  BY <1>1, <1>3 DEF PanelsInv

LEMMA PanelsInvStep == PanelsInv /\ [PanelsNext]_panelsVars => PanelsInv'
<1> SUFFICES ASSUME PanelsInv, [PanelsNext]_panelsVars PROVE PanelsInv'
  OBVIOUS
<1>1. CASE UNCHANGED <<owner, form>> /\ list'.of = list.of /\ panel' # "generate"
  BY <1>1 DEF PanelsInv
<1>2. CASE ToProject
  BY <1>2 DEF PanelsInv, ToProject, FetchSpecs, Emptied
<1>3. CASE UNCHANGED panelsVars
  BY <1>3 DEF PanelsInv, panelsVars
<1>4. CASE MovePick \/ NewSpec \/ ToView \/ OpenSpec
  BY <1>1, <1>4 DEF MovePick, NewSpec, ToView, OpenSpec
<1>5. CASE ActOnSpec \/ LeaveSpec
  BY <1>1, <1>5 DEF ActOnSpec, LeaveSpec, FetchSpecs, PanelsInv
<1>6. CASE Generate \/ OpenDialog \/ ConfirmDialog \/ CloseDialog
  BY <1>1, <1>6 DEF Generate, OpenDialog, ConfirmDialog, CloseDialog
<1> QED
  BY <1>2, <1>3, <1>4, <1>5, <1>6, OpenOffersApproved, FillTicksApproved DEF PanelsNext

LEMMA AsksForApproved ==
    ASSUME PanelsInv, PanelsNext, asked'.op = "generate"
    PROVE  /\ asked'.specs # {}
           /\ asked'.specs \subseteq Approved(list.items)
           /\ list.of = owner
<1>1. Generate
  <2>1. asked' # NothingAsked
    BY DEF NothingAsked
  <2>2. ~ActOnSpec
    BY DEF ActOnSpec, Asks
  <2>3. ~OpenSpec
    BY DEF OpenSpec, Asks
  <2>4. ~NewSpec
    BY <2>1 DEF NewSpec, Asks
  <2>5. ~ConfirmDialog
    BY <2>1 DEF ConfirmDialog, Asks
  <2> QED
    BY <2>1, <2>2, <2>3, <2>4, <2>5
    DEF PanelsNext, MovePick, LeaveSpec, ToView, ToProject, OpenGenerate, FillGenerate,
        OpenDialog, CloseDialog
<1> QED
  BY <1>1 DEF Generate, Asks, NothingAsked, PanelsInv

\* plan.generate is asked for specs that were ticked in the dialog at hand and are
\* approved in the list of the current project, of which there is one at least: for
\* any projects, specs and filters, and lists of any length.
THEOREM PlansAreOfApproved == PanelsSpec => GeneratesApproved
<1>1. PanelsInv /\ [PanelsNext]_panelsVars =>
          [asked'.op = "generate" =>
               /\ asked'.specs # {}
               /\ asked'.specs \subseteq Approved(list.items)
               /\ list.of = owner]_panelsVars
  BY AsksForApproved DEF panelsVars
<1> QED
  BY <1>1, PanelsInvInit, PanelsInvStep, PTL DEF PanelsSpec, GeneratesApproved

-----------------------------------------------------------------------------
(* Scrolling *)

LEMMA CountersWrap == ASSUME NEW n \in Nat PROVE n % Wide \in 0..(Wide - 1)
<1>1. Wide \in Nat /\ 0 < Wide
  BY ScrollingAssumption
<1> QED
  BY <1>1

\* Heights and offsets are numbers from here on.
LEMMA NumbersAreTyped ==
    ASSUME ScrollTypeOK
    PROVE  /\ Total \in Nat /\ Total < Wide
           /\ Guess \in Nat /\ Half \in Nat /\ height \in Nat
           /\ MaxOffset \in Nat /\ MaxOffset < Wide
           /\ MaxTop \in Nat
           /\ offset \in Nat /\ Top \in Nat
<1>1. /\ Total \in Nat /\ Total < Wide
      /\ Guess \in Nat /\ Half \in Nat /\ height \in Nat
      /\ offset \in Nat
  BY ScrollingAssumption DEF ScrollTypeOK, Total, Half
<1>2. MaxOffset \in Nat /\ MaxOffset < Wide /\ MaxTop \in Nat
  BY <1>1, ScrollingAssumption DEF MaxOffset, MaxTop, Minus
<1>3. Minus(MaxTop, offset) \in Nat /\ Least(offset, MaxTop) \in Nat
  BY <1>1, <1>2 DEF Minus, Least
<1>4. Top \in Nat
  BY <1>3, Zenon DEF Top
<1> QED
  BY <1>1, <1>2, <1>4

LEMMA ScrolledInRange ==
    ASSUME ScrollTypeOK, OffsetInRange, InText, NEW key \in Keys
    PROVE  Scrolled(key) \in 0..MaxOffset
<1> DEFINE m == MaxOffset
<1>1. m \in Nat /\ offset \in 0..m /\ Half \in Nat
  BY NumbersAreTyped DEF OffsetInRange
<1> HIDE DEF m
<1>2. ASSUME NEW n \in Nat
      PROVE  /\ Minus(offset, n) \in 0..m
             /\ (IF offset < m THEN Least(offset + n, m) ELSE offset) \in 0..m
             /\ Least(offset + n, m) \in 0..m
  BY <1>1 DEF Minus, Least
<1>3. /\ Back(1) \in 0..m /\ Back(Half) \in 0..m /\ Away(1) \in 0..m
      /\ Least(offset + Half, MaxOffset) \in 0..m
      /\ 0 \in 0..m /\ MaxOffset \in 0..m
  BY <1>1, <1>2 DEF Back, Away, m
<1> QED
  BY <1>3 DEF Scrolled, m

ScrollInv == ScrollTypeOK /\ OffsetInRange

LEMMA ScrollInvInit == ScrollInit => ScrollInv
<1> SUFFICES ASSUME ScrollInit PROVE ScrollInv
  OBVIOUS
<1>1. 0 \in 0..MaxLen /\ 0 \in 0..(Wide - 1)
  BY ScrollingAssumption
<1>2. ScrollTypeOK /\ ~InText
  BY <1>1 DEF ScrollInit, ScrollTypeOK, InText
<1> QED
  BY <1>2 DEF ScrollInv, OffsetInRange

LEMMA ScrollInvStep == ScrollInv /\ [ScrollNext]_scrollVars => ScrollInv'
<1> SUFFICES ASSUME ScrollInv, [ScrollNext]_scrollVars PROVE ScrollInv'
  OBVIOUS
<1>1. ScrollTypeOK /\ OffsetInRange
  BY DEF ScrollInv
<1>2. /\ MaxLen \in Nat /\ Wide \in Nat \ {0} /\ 0 \in 0..(Wide - 1)
      /\ MaxOffset \in Nat /\ MaxOffset < Wide
  BY <1>1, NumbersAreTyped, ScrollingAssumption
<1>3. ASSUME offset' = 0, ScrollTypeOK'
      PROVE  ScrollInv'
  <2>1. length' \in Nat
    BY <1>2, <1>3 DEF ScrollTypeOK
  <2>2. PICK total \in Nat : total = length' % Wide
    BY <2>1, CountersWrap
  <2>3. 0 <= (IF total > Guess THEN total - Guess ELSE 0)
    BY ScrollingAssumption
  <2>4. MaxOffset' = IF total > Guess THEN total - Guess ELSE 0
    BY <2>2 DEF MaxOffset, Minus, Total
  <2> QED
    BY <1>3, <2>3, <2>4 DEF ScrollInv, OffsetInRange
<1>4. CASE Show
  <2>1. ScrollTypeOK'
    <3>1. 0 \in 0..MaxLen
      BY <1>2
    <3>2. CASE text' \in {"pager", "log", "pane"} /\ live' = FALSE /\ length' \in 0..MaxLen
      BY <1>1, <1>2, <1>4, <3>2 DEF Show, ScrollTypeOK
    <3>3. CASE text' \in {"log", "pane"} /\ live' = TRUE /\ length' = 0
      BY <1>1, <1>2, <1>4, <3>1, <3>3 DEF Show, ScrollTypeOK
    <3> QED
      BY <1>4, <3>2, <3>3 DEF Show
  <2> QED
    BY <1>3, <1>4, <2>1 DEF Show
<1>5. CASE Leave
  <2>1. ScrollTypeOK'
    <3>1. 0 \in 0..MaxLen
      BY <1>2
    <3> QED
      BY <1>1, <1>2, <1>5, <3>1 DEF Leave, ScrollTypeOK
  <2> QED
    BY <1>3, <1>5, <2>1 DEF Leave
<1>6. CASE Line
  <2>1. ScrollTypeOK'
    BY <1>1, <1>2, <1>6 DEF Line, AfterLine, ScrollTypeOK
  <2> QED
    BY <1>3, <1>6, <2>1 DEF Line, AfterLine
<1>7. CASE Stop \/ Resize \/ UNCHANGED scrollVars
  <2>1. text' = text /\ length' = length /\ offset' = offset
    BY <1>7 DEF Stop, Resize, scrollVars
  <2>2. ScrollTypeOK'
    <3>1. CASE Stop
      BY <1>1, <3>1 DEF Stop, ScrollTypeOK
    <3>2. CASE Resize
      BY <1>1, <3>2 DEF Resize, ScrollTypeOK
    <3>3. CASE UNCHANGED scrollVars
      BY <1>1, <3>3 DEF scrollVars, ScrollTypeOK
    <3> QED
      BY <1>7, <3>1, <3>2, <3>3
  <2>3. OffsetInRange'
    BY <1>1, <2>1 DEF OffsetInRange, InText, MaxOffset, Total
  <2> QED
    BY <2>2, <2>3 DEF ScrollInv
<1>8. CASE PressInText
  <2>1. PICK key \in Keys : pressed' = key /\ offset' = Scrolled(key)
    BY <1>8 DEF PressInText
  <2>2. offset' \in 0..MaxOffset
    BY <1>1, <1>8, <2>1, ScrolledInRange DEF PressInText
  <2>3. offset' \in 0..(Wide - 1)
    BY <1>2, <2>2
  <2>4. ScrollTypeOK'
    BY <1>1, <1>8, <2>1, <2>3 DEF PressInText, ScrollTypeOK
  <2>5. offset' <= MaxOffset' /\ MaxOffset' = MaxOffset
    BY <1>2, <1>8, <2>2 DEF PressInText, MaxOffset, Total
  <2> QED
    BY <2>4, <2>5 DEF ScrollInv, OffsetInRange
<1>9. CASE PressInPane
  <2>1. offset' \in 0..(Wide - 1)
    BY <1>1, <1>2, <1>9 DEF PressInPane, Least, Back, Minus, ScrollTypeOK
  <2>2. ScrollTypeOK'
    BY <1>1, <1>9, <2>1 DEF PressInPane, ScrollTypeOK, Keys
  <2>3. ~InText'
    BY <1>9 DEF PressInPane, InText
  <2> QED
    BY <2>2, <2>3 DEF ScrollInv, OffsetInRange
<1> QED
  BY <1>4, <1>5, <1>6, <1>7, <1>8, <1>9 DEF ScrollNext

THEOREM OffsetsInRange == ScrollSpec => []ScrollInv
<1> QED
  BY ScrollInvInit, ScrollInvStep, PTL DEF ScrollSpec

\* What a key does to the offset, and so to the text that is drawn.
LEMMA TopFollowsOffset ==
    ASSUME NEW m \in Nat, NEW a \in Nat, NEW b \in Nat, a <= b
    PROVE  Least(a, m) <= Least(b, m) /\ Minus(m, b) <= Minus(m, a)
BY DEF Least, Minus

\* At any height of the terminal a key moves the text the way it is named for,
\* also where a log grew, was finished or has more lines than u16 counts.
THEOREM KeysMoveText == ScrollSpec => KeysMoveAsNamed
<1>1. ASSUME ScrollInv, ScrollNext, InText
      PROVE  /\ pressed' \in {"up", "pageUp", "top"} => Top' <= Top
             /\ pressed' \in {"down", "pageDown", "bottom"} => Top' >= Top
             /\ pressed' = "top" => Top' = 0 \/ height < Guess
             /\ pressed' = "bottom" => Top' = MaxTop \/ height < Guess
  <2>1. CASE pressed' = "none"
    BY <2>1
  <2>2. CASE PressInText
    <3>1. PICK key \in Keys : pressed' = key /\ offset' = Scrolled(key)
      BY <2>2 DEF PressInText
    <3>2. /\ offset \in 0..MaxOffset /\ MaxOffset \in Nat /\ Half \in Nat
          /\ MaxTop \in Nat /\ offset \in Nat
      BY <1>1, NumbersAreTyped DEF ScrollInv, OffsetInRange
    <3>3. Scrolled(key) \in 0..MaxOffset
      BY <1>1, ScrolledInRange DEF ScrollInv
    <3>4. offset' \in Nat /\ offset' <= MaxOffset
      BY <3>1, <3>2, <3>3
    <3>5. Top' = IF live THEN Minus(MaxTop, offset') ELSE Least(offset', MaxTop)
      BY <2>2 DEF PressInText, Top, MaxTop, Total, Minus, Least
    <3>6. /\ Away(1) >= offset /\ Least(offset + Half, MaxOffset) >= offset
          /\ Back(1) <= offset /\ Back(Half) <= offset
          /\ 0 <= offset /\ MaxOffset >= offset
      BY <3>2 DEF Away, Back, Least, Minus
    <3>7. CASE live
      <4>1. key \in {"up", "pageUp", "top"} => offset' >= offset
        BY <3>1, <3>6, <3>7 DEF Scrolled
      <4>2. key \in {"down", "pageDown", "bottom"} => offset' <= offset
        BY <3>1, <3>6, <3>7 DEF Scrolled, Keys
      <4>3. /\ key = "top" => offset' = MaxOffset
            /\ key = "bottom" => offset' = 0
        BY <3>1, <3>7 DEF Scrolled
      <4>4. Top = Minus(MaxTop, offset) /\ Top' = Minus(MaxTop, offset')
        BY <3>5, <3>7 DEF Top
      <4>5. /\ key = "top" => Top' = 0 \/ height < Guess
            /\ key = "bottom" => Top' = MaxTop
        <5>1. height \in Nat /\ Guess \in Nat /\ Total \in Nat
          BY <1>1, NumbersAreTyped DEF ScrollInv
        <5> QED
          BY <4>3, <4>4, <5>1 DEF MaxOffset, MaxTop, Minus
      <4> QED
        BY <3>1, <3>2, <3>4, <4>1, <4>2, <4>4, <4>5, TopFollowsOffset
    <3>8. CASE ~live
      <4>1. key \in {"up", "pageUp", "top"} => offset' <= offset
        BY <3>1, <3>6, <3>8 DEF Scrolled
      <4>2. key \in {"down", "pageDown", "bottom"} => offset' >= offset
        BY <3>1, <3>6, <3>8 DEF Scrolled, Keys
      <4>3. /\ key = "top" => offset' = 0
            /\ key = "bottom" => offset' = MaxOffset
        BY <3>1, <3>8 DEF Scrolled
      <4>4. Top = Least(offset, MaxTop) /\ Top' = Least(offset', MaxTop)
        BY <3>5, <3>8 DEF Top
      <4>5. /\ key = "top" => Top' = 0
            /\ key = "bottom" => Top' = MaxTop \/ height < Guess
        <5>1. height \in Nat /\ Guess \in Nat /\ Total \in Nat
          BY <1>1, NumbersAreTyped DEF ScrollInv
        <5> QED
          BY <4>3, <4>4, <5>1 DEF MaxOffset, MaxTop, Minus, Least
      <4> QED
        BY <3>1, <3>2, <3>4, <4>1, <4>2, <4>4, <4>5, TopFollowsOffset
    <3> QED
      BY <3>7, <3>8
  <2> QED
    BY <1>1, <2>1, <2>2
    DEF ScrollNext, Show, Leave, Line, Stop, Resize, PressInPane, InText
<1>2. ScrollInv /\ [ScrollNext]_scrollVars =>
          [InText =>
              /\ pressed' \in {"up", "pageUp", "top"} => Top' <= Top
              /\ pressed' \in {"down", "pageDown", "bottom"} => Top' >= Top
              /\ pressed' = "top" => Top' = 0 \/ height < Guess
              /\ pressed' = "bottom" => Top' = MaxTop \/ height < Guess]_scrollVars
  BY <1>1
<1> QED
  BY <1>2, OffsetsInRange, PTL DEF ScrollSpec, KeysMoveAsNamed

-----------------------------------------------------------------------------
(* LiveViews: what is on its way *)

LineRow == [is : {"text", "done", "completed", "error", "reply", "event"}, of : About]

Quiet(line) == line.is \in {"reply", "event"}

TextOf(x, line) == line.is = "text" /\ line.of = x

Nobody == \A i \in 1..Len(requests) : requests[i] = None

AllQuiet == \A i \in 1..Len(lines) : Quiet(lines[i])

\* No stream is on its way.
Nothing == running = NoStream /\ Nobody /\ AllQuiet

Requested(x) ==
    /\ running = NoStream
    /\ AllQuiet
    /\ \E i \in 1..Len(requests) :
           /\ requests[i] = x
           /\ \A j \in 1..Len(requests) : j # i => requests[j] = None

Running(x) ==
    /\ running # NoStream /\ running.of = x
    /\ Nobody
    /\ \A i \in 1..Len(lines) : Quiet(lines[i]) \/ TextOf(x, lines[i])

Ended(x) ==
    /\ running = NoStream
    /\ Nobody
    /\ \E i \in 1..Len(lines) :
           /\ IsLast(lines[i]) /\ lines[i].of = x
           /\ \A j \in 1..Len(lines) :
                  \/ j = i
                  \/ Quiet(lines[j])
                  \/ j < i /\ TextOf(x, lines[j])

\* The only stream on its way is about x.
OnItsWay(x) == x # None /\ (Requested(x) \/ Running(x) \/ Ended(x))

\* As long as nothing is sent too early, at most one stream is on its way, and
\* whoever waits for lines has asked for that one, so that none of its lines
\* is read by another; while a command waits for its answer there is none.
StreamsInv ==
    ~crossed =>
        /\ Nothing \/ \E x \in SpecName \cup Task : OnItsWay(x)
        /\ doing.waits => Nothing
        /\ dialogue.state = "streaming" =>
               dialogue.spec \in SpecName /\ OnItsWay(dialogue.spec)
        /\ pane.streaming => pane.task \in Task /\ OnItsWay(pane.task)
        /\ logs.streaming => logs.task \in Task /\ OnItsWay(logs.task)
        /\ ~(pane.streaming /\ logs.streaming)

\* A log is followed only while it is on the screen.
TabInv == logs.streaming => tab = "logs"

\* The last line of a turn knows its spec.
CompletedInv ==
    \A i \in 1..Len(lines) : lines[i].is = "completed" => lines[i].of \in SpecName

LiveInv == LiveTypeOK /\ CompletedInv /\ TabInv /\ StreamsInv /\ LinesAreOwn

\* Two streams are never on their way together.
LEMMA OneStream ==
    ASSUME NEW x, OnItsWay(x)
    PROVE  ~Nothing /\ \A y : OnItsWay(y) => y = x
<1>1. ~Nothing
  BY DEF OnItsWay, Requested, Running, Ended, Nothing, Nobody, AllQuiet, IsLast, Quiet
<1>2. ASSUME NEW y, OnItsWay(y)
      PROVE  y = x
  <2>1. x # None /\ y # None
    BY <1>2 DEF OnItsWay
  <2>2. CASE Running(x) \/ Running(y)
    <3>1. Running(x) /\ Running(y)
      BY <1>2, <2>2 DEF OnItsWay, Requested, Running, Ended
    <3> QED
      BY <3>1 DEF Running
  <2>3. CASE Requested(x) \/ Requested(y)
    <3>1. Requested(x) /\ Requested(y)
      BY <1>2, <2>1, <2>3 DEF OnItsWay, Requested, Running, Ended, Nobody
    <3> QED
      BY <2>1, <3>1 DEF Requested
  <2>4. CASE Ended(x) /\ Ended(y)
    <3>1. PICK i \in 1..Len(lines) :
              /\ IsLast(lines[i]) /\ lines[i].of = x
              /\ \A j \in 1..Len(lines) :
                     \/ j = i
                     \/ Quiet(lines[j])
                     \/ j < i /\ TextOf(x, lines[j])
      BY <2>4 DEF Ended
    <3>2. PICK k \in 1..Len(lines) : IsLast(lines[k]) /\ lines[k].of = y
      BY <2>4 DEF Ended
    <3>3. k = i
      BY <3>1, <3>2 DEF IsLast, Quiet, TextOf
    <3> QED
      BY <3>1, <3>2, <3>3
  <2> QED
    BY <1>2, <2>2, <2>3, <2>4 DEF OnItsWay
<1> QED
  BY <1>1, <1>2

\* What is on its way stays so.
Kept == (Nothing => Nothing') /\ \A x : OnItsWay(x) => OnItsWay(x)'

LEMMA NothingMoves ==
    ASSUME UNCHANGED <<running, requests, lines>>
    PROVE  Kept
BY DEF Kept, Nothing, OnItsWay, Requested, Running, Ended, Nobody, AllQuiet

LEMMA BeginKeeps ==
    ASSUME LiveTypeOK, Begin
    PROVE  Kept
<1>1. /\ requests \in Seq(About) /\ lines \in Seq(LineRow)
      /\ requests # <<>> /\ running = NoStream
  BY DEF LiveTypeOK, LineRow, Begin
<1>2. /\ Len(requests) >= 1 /\ Len(requests') = Len(requests) - 1
      /\ \A i \in 1..Len(requests') : requests'[i] = requests[i + 1]
      /\ Head(requests) = requests[1]
  BY <1>1 DEF Begin
<1>3. Nobody => Nobody'
  BY <1>1, <1>2 DEF Nobody
<1>4. CASE Head(requests) = None
  <2> DEFINE reply == [is |-> "reply", of |-> None]
  <2>1. lines' = Append(lines, reply) /\ running' = running
    BY <1>4 DEF Begin, Emit
  <2>2. Quiet(reply)
    BY DEF Quiet
  <2> HIDE DEF reply
  <2>3. /\ Len(lines') = Len(lines) + 1 /\ Len(lines) \in Nat
        /\ \A i \in 1..Len(lines) : lines'[i] = lines[i]
        /\ lines'[Len(lines) + 1] = reply
    BY <1>1, <2>1
  <2>4. AllQuiet => AllQuiet'
    <3>1. ASSUME AllQuiet, NEW i \in 1..Len(lines')
          PROVE  Quiet(lines'[i])
      BY <2>2, <2>3, <3>1 DEF AllQuiet
    <3>2. \A i : Quiet(lines[i])' <=> Quiet(lines'[i])
      BY DEF Quiet
    <3> QED
      BY <3>1 DEF AllQuiet, Quiet
  <2>5. ASSUME NEW x, x # None, Requested(x)
        PROVE  Requested(x)'
    <3>1. PICK i \in 1..Len(requests) :
              /\ requests[i] = x
              /\ \A j \in 1..Len(requests) : j # i => requests[j] = None
      BY <2>5 DEF Requested
    <3>2. i # 1
      BY <1>2, <1>4, <2>5, <3>1
    <3>3. /\ i - 1 \in 1..Len(requests')
          /\ requests'[i - 1] = x
          /\ \A j \in 1..Len(requests') : j # i - 1 => requests'[j] = None
      BY <1>1, <1>2, <3>1, <3>2
    <3> QED
      BY <1>1, <2>1, <2>4, <2>5, <3>3 DEF Requested
  <2>6. ASSUME NEW x, Ended(x)
        PROVE  Ended(x)'
    <3>1. PICK i \in 1..Len(lines) :
              /\ IsLast(lines[i]) /\ lines[i].of = x
              /\ \A j \in 1..Len(lines) :
                     \/ j = i
                     \/ Quiet(lines[j])
                     \/ j < i /\ TextOf(x, lines[j])
      BY <2>6 DEF Ended
    <3>2. i \in 1..Len(lines') /\ IsLast(lines'[i]) /\ lines'[i].of = x
      BY <2>3, <3>1
    <3>3. ASSUME NEW j \in 1..Len(lines')
          PROVE  \/ j = i
                 \/ Quiet(lines'[j])
                 \/ j < i /\ TextOf(x, lines'[j])
      BY <2>2, <2>3, <3>1
    <3> QED
      BY <1>1, <1>3, <2>1, <2>6, <3>2, <3>3
      DEF Ended, IsLast, Quiet, TextOf
  <2> QED
    BY <1>1, <1>3, <2>1, <2>4, <2>5, <2>6 DEF Kept, Nothing, OnItsWay, Running
<1>5. CASE Head(requests) # None
  <2>1. /\ running' = [of |-> Head(requests), left |-> MaxText]
        /\ lines' = lines
    BY <1>5 DEF Begin
  <2>2. running' # NoStream /\ running'.of = Head(requests)
    BY <1>5, <2>1 DEF NoStream
  <2>3. ~Nobody
    BY <1>2, <1>5 DEF Nobody
  <2>4. ASSUME NEW x, x # None, Requested(x)
        PROVE  Running(x)'
    <3>1. PICK i \in 1..Len(requests) :
              /\ requests[i] = x
              /\ \A j \in 1..Len(requests) : j # i => requests[j] = None
      BY <2>4 DEF Requested
    <3>2. i = 1 /\ x = Head(requests)
      BY <1>2, <1>5, <3>1
    <3>3. Nobody'
      BY <1>1, <1>2, <3>1, <3>2 DEF Nobody
    <3>4. \A k \in 1..Len(lines') : Quiet(lines[k])
      BY <2>1, <2>4 DEF Requested, AllQuiet
    <3> QED
      BY <2>1, <2>2, <3>2, <3>3, <3>4 DEF Running, Quiet
  <2> QED
    BY <1>1, <2>3, <2>4 DEF Kept, Nothing, OnItsWay, Running, Ended
<1> QED
  BY <1>4, <1>5

LEMMA TextKeeps ==
    ASSUME LiveTypeOK, Text
    PROVE  Kept
<1> DEFINE line == [is |-> "text", of |-> running.of]
<1>1. /\ lines \in Seq(LineRow) /\ lines' = Append(lines, line)
      /\ requests' = requests
  BY DEF LiveTypeOK, LineRow, Text, Emit
<1>2. /\ running # NoStream
      /\ running' = [running EXCEPT !.left = @ - 1]
      /\ running \in [of : About, left : 0..MaxText]
  BY DEF Text, NoStream, LiveTypeOK
<1>3. running'.of = running.of
  BY <1>2
<1>4. line.is = "text" /\ line.of = running.of
  OBVIOUS
<1> HIDE DEF line
<1>5. /\ Len(lines') = Len(lines) + 1 /\ Len(lines) \in Nat
      /\ \A i \in 1..Len(lines) : lines'[i] = lines[i]
      /\ lines'[Len(lines) + 1] = line
  BY <1>1
<1>6. ASSUME NEW x, x # None, Running(x)
      PROVE  Running(x)'
  <2>1. \A i \in 1..Len(lines') : Quiet(lines'[i]) \/ TextOf(x, lines'[i])
    BY <1>4, <1>5, <1>6 DEF Running, Quiet, TextOf
  <2>2. running'.of = x /\ running' # NoStream
    BY <1>3, <1>6 DEF Running, NoStream
  <2>3. Nobody'
    BY <1>1, <1>6 DEF Running, Nobody
  <2> QED
    BY <2>1, <2>2, <2>3 DEF Running, Quiet, TextOf
<1> QED
  BY <1>2, <1>6 DEF Kept, Nothing, OnItsWay, Requested, Ended

LEMMA EndKeeps ==
    ASSUME LiveTypeOK, End
    PROVE  Kept
<1>1. PICK is \in {"done", "error", "completed"} : Emit(is, running.of)
  BY DEF End
<1> DEFINE line == [is |-> is, of |-> running.of]
<1>2. /\ lines \in Seq(LineRow) /\ lines' = Append(lines, line)
      /\ requests' = requests /\ running # NoStream /\ running' = NoStream
  BY <1>1 DEF LiveTypeOK, LineRow, End, Emit
<1>3. IsLast(line) /\ line.of = running.of
  BY DEF IsLast
<1> HIDE DEF line
<1>4. /\ Len(lines') = Len(lines) + 1 /\ Len(lines) \in Nat
      /\ \A i \in 1..Len(lines) : lines'[i] = lines[i]
      /\ lines'[Len(lines) + 1] = line
  BY <1>2
<1>5. ASSUME NEW x, Running(x)
      PROVE  Ended(x)'
  <2> DEFINE last == Len(lines) + 1
  <2>1. last \in 1..Len(lines') /\ IsLast(lines'[last]) /\ lines'[last].of = x
    BY <1>3, <1>4, <1>5 DEF Running
  <2>2. ASSUME NEW j \in 1..Len(lines')
        PROVE  \/ j = last
               \/ Quiet(lines'[j])
               \/ j < last /\ TextOf(x, lines'[j])
    BY <1>4, <1>5 DEF Running
  <2>3. Nobody'
    BY <1>2, <1>5 DEF Running, Nobody
  <2> QED
    BY <1>2, <2>1, <2>2, <2>3 DEF Ended, IsLast, Quiet, TextOf
<1> QED
  BY <1>2, <1>5 DEF Kept, Nothing, OnItsWay, Requested, Ended

LEMMA EventKeeps ==
    ASSUME LiveTypeOK, Event
    PROVE  Kept
<1> DEFINE line == [is |-> "event", of |-> None]
<1>1. /\ lines \in Seq(LineRow) /\ lines' = Append(lines, line)
      /\ requests' = requests /\ running' = running
  BY DEF LiveTypeOK, LineRow, Event, Emit
<1>2. Quiet(line)
  BY DEF Quiet
<1> HIDE DEF line
<1>3. /\ Len(lines') = Len(lines) + 1 /\ Len(lines) \in Nat
      /\ \A i \in 1..Len(lines) : lines'[i] = lines[i]
      /\ lines'[Len(lines) + 1] = line
  BY <1>1
<1>4. AllQuiet => AllQuiet'
  BY <1>2, <1>3 DEF AllQuiet, Quiet
<1>5. Nobody => Nobody'
  BY <1>1 DEF Nobody
<1>6. ASSUME NEW x, Requested(x)
      PROVE  Requested(x)'
  BY <1>1, <1>4, <1>6 DEF Requested
<1>7. ASSUME NEW x, Running(x)
      PROVE  Running(x)'
  <2>1. \A i \in 1..Len(lines') : Quiet(lines'[i]) \/ TextOf(x, lines'[i])
    BY <1>2, <1>3, <1>7 DEF Running
  <2> QED
    BY <1>1, <1>5, <1>7, <2>1 DEF Running, Quiet, TextOf
<1>8. ASSUME NEW x, Ended(x)
      PROVE  Ended(x)'
  <2>1. PICK i \in 1..Len(lines) :
            /\ IsLast(lines[i]) /\ lines[i].of = x
            /\ \A j \in 1..Len(lines) :
                   \/ j = i
                   \/ Quiet(lines[j])
                   \/ j < i /\ TextOf(x, lines[j])
    BY <1>8 DEF Ended
  <2>2. i \in 1..Len(lines') /\ IsLast(lines'[i]) /\ lines'[i].of = x
    BY <1>3, <2>1
  <2>3. ASSUME NEW j \in 1..Len(lines')
        PROVE  \/ j = i
               \/ Quiet(lines'[j])
               \/ j < i /\ TextOf(x, lines'[j])
    BY <1>2, <1>3, <2>1
  <2> QED
    BY <1>1, <1>5, <1>8, <2>2, <2>3 DEF Ended, IsLast, Quiet, TextOf
<1> QED
  BY <1>1, <1>4, <1>5, <1>6, <1>7, <1>8 DEF Kept, Nothing, OnItsWay

\* A line is read: it is of the stream that is on its way, or of none, and
\* after the last one nothing is.
LEMMA ReadKeeps ==
    ASSUME LiveTypeOK, lines # <<>>, lines' = Tail(lines),
           UNCHANGED <<running, requests>>
    PROVE  /\ Nothing => Nothing' /\ Quiet(Head(lines))
           /\ \A x : OnItsWay(x) =>
                  \/ /\ OnItsWay(x)'
                     /\ Quiet(Head(lines)) \/ TextOf(x, Head(lines))
                  \/ Nothing' /\ IsLast(Head(lines)) /\ Head(lines).of = x
<1>1. lines \in Seq(LineRow)
  BY DEF LiveTypeOK, LineRow
<1>2. /\ Len(lines) \in Nat /\ 1 \in 1..Len(lines) /\ Head(lines) = lines[1]
      /\ Len(lines') = Len(lines) - 1
      /\ \A i \in 1..Len(lines') : lines'[i] = lines[i + 1] /\ i + 1 \in 1..Len(lines)
  BY <1>1
<1>3. AllQuiet => AllQuiet' /\ Quiet(Head(lines))
  BY <1>2 DEF AllQuiet, Quiet
<1>4. Nobody <=> Nobody'
  BY DEF Nobody
<1>5. ASSUME NEW x, Requested(x)
      PROVE  Requested(x)' /\ Quiet(Head(lines))
  <2>1. AllQuiet' /\ Quiet(Head(lines))
    BY <1>3, <1>5 DEF Requested
  <2> QED
    BY <1>5, <2>1 DEF Requested
<1>6. ASSUME NEW x, Running(x)
      PROVE  Running(x)' /\ (Quiet(Head(lines)) \/ TextOf(x, Head(lines)))
  <2>1. \A i \in 1..Len(lines') : Quiet(lines'[i]) \/ TextOf(x, lines'[i])
    BY <1>2, <1>6 DEF Running
  <2>2. Quiet(Head(lines)) \/ TextOf(x, Head(lines))
    BY <1>2, <1>6 DEF Running
  <2> QED
    BY <1>4, <1>6, <2>1, <2>2 DEF Running, Quiet, TextOf
<1>7. ASSUME NEW x, Ended(x)
      PROVE  \/ Ended(x)' /\ (Quiet(Head(lines)) \/ TextOf(x, Head(lines)))
             \/ Nothing' /\ IsLast(Head(lines)) /\ Head(lines).of = x
  <2>1. PICK i \in 1..Len(lines) :
            /\ IsLast(lines[i]) /\ lines[i].of = x
            /\ \A j \in 1..Len(lines) :
                   \/ j = i
                   \/ Quiet(lines[j])
                   \/ j < i /\ TextOf(x, lines[j])
    BY <1>7 DEF Ended
  <2>2. CASE i = 1
    <3>1. ASSUME NEW j \in 1..Len(lines')
          PROVE  Quiet(lines'[j])
      <4>1. j + 1 # i /\ ~(j + 1 < i)
        BY <1>2, <2>2
      <4> QED
        BY <1>2, <2>1, <4>1
    <3>2. AllQuiet'
      BY <3>1 DEF AllQuiet, Quiet
    <3> QED
      BY <1>2, <1>4, <1>7, <2>1, <2>2, <3>2 DEF Nothing, Ended
  <2>3. CASE i # 1
    <3>1. Quiet(Head(lines)) \/ TextOf(x, Head(lines))
      BY <1>2, <2>1, <2>3
    <3>2. /\ i - 1 \in 1..Len(lines')
          /\ IsLast(lines'[i - 1]) /\ lines'[i - 1].of = x
      BY <1>2, <2>1, <2>3
    <3>3. ASSUME NEW j \in 1..Len(lines')
          PROVE  \/ j = i - 1
                 \/ Quiet(lines'[j])
                 \/ j < i - 1 /\ TextOf(x, lines'[j])
      <4>1. \/ j + 1 = i
            \/ Quiet(lines[j + 1])
            \/ j + 1 < i /\ TextOf(x, lines[j + 1])
        BY <1>2, <2>1
      <4> QED
        BY <1>2, <4>1
    <3> QED
      BY <1>4, <1>7, <3>1, <3>2, <3>3 DEF Ended, IsLast, Quiet, TextOf
  <2> QED
    BY <2>2, <2>3
<1> QED
  BY <1>3, <1>4, <1>5, <1>6, <1>7 DEF Nothing, OnItsWay

\* Where sending crosses nothing, nothing was on its way.
LEMMA AskOpens ==
    ASSUME LiveTypeOK, StreamsInv, NEW of \in About, Ask(of),
           UNCHANGED <<running, lines>>, ~crossed'
    PROVE  /\ ~crossed /\ Nothing
           /\ of = None => Nothing'
           /\ of # None => OnItsWay(of)'
<1>1. ~crossed /\ ~StreamOpen /\ requests' = Append(requests, of)
  BY DEF Ask
<1>2. requests \in Seq(About) /\ lines \in Seq(LineRow)
  BY DEF LiveTypeOK, LineRow
<1>3. ASSUME NEW x, OnItsWay(x)
      PROVE  FALSE
  BY <1>1, <1>2, <1>3 DEF StreamOpen, OnItsWay, Requested, Running, Ended
<1>4. Nothing
  BY <1>1, <1>3 DEF StreamsInv
<1>5. AllQuiet' /\ running' = NoStream
  BY <1>4 DEF Nothing, AllQuiet
<1>6. /\ Len(requests') = Len(requests) + 1 /\ Len(requests) \in Nat
      /\ \A i \in 1..Len(requests) : requests'[i] = requests[i]
      /\ requests'[Len(requests) + 1] = of
  BY <1>1, <1>2
<1>7. \A i \in 1..Len(requests) : requests[i] = None
  BY <1>4 DEF Nothing, Nobody
<1>8. of = None => Nobody'
  BY <1>6, <1>7 DEF Nobody
<1>9. Requested(of)'
  <2>1. /\ Len(requests) + 1 \in 1..Len(requests')
        /\ \A j \in 1..Len(requests') :
               j # Len(requests) + 1 => requests'[j] = None
    BY <1>6, <1>7
  <2> QED
    BY <1>5, <1>6, <2>1 DEF Requested
<1> QED
  BY <1>1, <1>4, <1>5, <1>8, <1>9 DEF Nothing, OnItsWay

-----------------------------------------------------------------------------
(* LiveViews: types *)

DialogueRow == [spec : SpecName \cup {None}, id : SpecName \cup {None}, foreign : BOOLEAN,
                state : {"closed", "streaming", "waiting", "completed"}]

DoingRow == [op : {"none", "exit", "end", "pane", "logs", "other"},
             task : Task \cup {None}, waits : BOOLEAN]

StreamRow == [of : About, left : 0..MaxText]

ViewsTyped ==
    /\ tab \in {"specs", "execute", "logs"}
    /\ dialogue \in DialogueRow
    /\ pane \in Viewer /\ logs \in Viewer
    /\ listening \in BOOLEAN
    /\ doing \in DoingRow

PipeTyped ==
    /\ up \in BOOLEAN /\ crossed \in BOOLEAN
    /\ keys \in 0..MaxKeys /\ events \in 0..MaxRefreshes
    /\ requests \in Seq(About)
    /\ running \in StreamRow
    /\ lines \in Seq(LineRow)

LEMMA TypesInTwo == LiveTypeOK <=> ViewsTyped /\ PipeTyped
BY DEF LiveTypeOK, ViewsTyped, PipeTyped, DialogueRow, DoingRow, StreamRow, LineRow

LEMMA EmptyRowsAreTyped ==
    /\ NoDialogue \in DialogueRow /\ NoViewer \in Viewer /\ NotDoing \in DoingRow
    /\ NoStream \in StreamRow
    /\ \A t \in Task \cup {None} : Historical(t) \in Viewer /\ Following(t) \in Viewer
    /\ \A s \in SpecName : Entered(s) \in DialogueRow
<1>1. 0 \in 0..MaxText
  BY LiveViewsAssumption
<1> QED
  BY <1>1 DEF NoDialogue, DialogueRow, NoViewer, Viewer, NotDoing, DoingRow, NoStream,
     StreamRow, About, Historical, Following, Entered

LEMMA EmitTyped ==
    ASSUME PipeTyped, CompletedInv, NEW of \in About,
           NEW is \in {"text", "done", "completed", "error", "reply", "event"},
           is = "completed" => of \in SpecName, Emit(is, of)
    PROVE  lines' \in Seq(LineRow) /\ CompletedInv'
<1> DEFINE line == [is |-> is, of |-> of]
<1>1. line \in LineRow
  BY DEF LineRow
<1>2. line.is = is /\ line.of = of
  OBVIOUS
<1>3. lines \in Seq(LineRow) /\ lines' = Append(lines, line)
  BY DEF PipeTyped, Emit
<1> HIDE DEF line
<1>4. /\ lines' \in Seq(LineRow)
      /\ Len(lines') = Len(lines) + 1 /\ Len(lines) \in Nat
      /\ \A i \in 1..Len(lines) : lines'[i] = lines[i]
      /\ lines'[Len(lines) + 1] = line
  BY <1>1, <1>3
<1> QED
  BY <1>2, <1>4 DEF CompletedInv

LEMMA AskTyped ==
    ASSUME PipeTyped, NEW of \in About, Ask(of)
    PROVE  requests' \in Seq(About) /\ crossed' \in BOOLEAN
<1>1. requests' \in Seq(About)
  BY DEF PipeTyped, Ask
<1>2. crossed' \in BOOLEAN
  BY Zenon DEF PipeTyped, Ask, StreamOpen
<1> QED
  BY <1>1, <1>2

LEMMA DoesTyped ==
    ASSUME NEW op \in {"none", "exit", "end", "pane", "logs", "other"},
           NEW t \in Task \cup {None}, Does(op, t)
    PROVE  doing' \in DoingRow
BY DEF Does, DoingRow

LEMMA FinishTyped ==
    ASSUME ViewsTyped, Finish
    PROVE  /\ dialogue' \in DialogueRow /\ pane' \in Viewer /\ logs' \in Viewer
           /\ doing' \in DoingRow
<1>1. doing.task \in Task \cup {None} /\ dialogue \in DialogueRow
      /\ pane \in Viewer /\ logs \in Viewer
  BY DEF ViewsTyped, DoingRow
<1>2. [dialogue EXCEPT !.state = "completed"] \in DialogueRow
  BY <1>1 DEF DialogueRow
<1>3. ASSUME Does("other", None)
      PROVE  doing' \in DoingRow
  BY <1>3 DEF Does, DoingRow
<1> QED
  BY <1>1, <1>2, <1>3, EmptyRowsAreTyped DEF Finish

LEMMA ServeTyped ==
    ASSUME LiveTypeOK, CompletedInv, Serve \/ Event \/ Lose
    PROVE  ViewsTyped' /\ PipeTyped' /\ CompletedInv'
<1>1. ViewsTyped /\ PipeTyped
  BY TypesInTwo
<1>2. ViewsTyped'
  <2>1. UNCHANGED viewVars
    BY DEF Serve, Begin, Text, End, Event, Lose
  <2> QED
    BY <1>1, <2>1 DEF viewVars, appVars, ViewsTyped
<1>3. None \in About /\ running.of \in About
  BY <1>1 DEF About, PipeTyped, StreamRow
<1>4. CASE Begin
  <2>1. requests' \in Seq(About) /\ Head(requests) \in About
    BY <1>1, <1>4 DEF Begin, PipeTyped
  <2>2. /\ up' = up /\ crossed' = crossed /\ keys' = keys /\ events' = events
    BY <1>4 DEF Begin
  <2>3. CASE Head(requests) = None
    <3>1. lines' \in Seq(LineRow) /\ CompletedInv'
      BY <1>1, <1>3, <1>4, <2>3, EmitTyped DEF Begin
    <3>2. running' = running
      BY <1>4, <2>3 DEF Begin
    <3> QED
      BY <1>1, <1>2, <2>1, <2>2, <3>1, <3>2 DEF PipeTyped
  <2>4. CASE Head(requests) # None
    <3>1. /\ running' = [of |-> Head(requests), left |-> MaxText] /\ lines' = lines
      BY <1>4, <2>4 DEF Begin
    <3>2. MaxText \in 0..MaxText
      BY LiveViewsAssumption
    <3>3. running' \in StreamRow
      BY <2>1, <3>1, <3>2 DEF StreamRow
    <3> QED
      BY <1>1, <1>2, <2>1, <2>2, <3>1, <3>3 DEF PipeTyped, CompletedInv
  <2> QED
    BY <2>3, <2>4
<1>5. CASE Text
  <2>1. lines' \in Seq(LineRow) /\ CompletedInv'
    BY <1>1, <1>3, <1>5, EmitTyped DEF Text
  <2>2. running' \in StreamRow
    <3>1. running.left - 1 \in 0..MaxText
      BY <1>1, <1>5, LiveViewsAssumption DEF PipeTyped, StreamRow, Text
    <3>2. running' = [running EXCEPT !.left = running.left - 1]
      BY <1>5 DEF Text
    <3> QED
      BY <1>1, <3>1, <3>2 DEF PipeTyped, StreamRow
  <2>3. UNCHANGED <<up, keys, requests, events, crossed>>
    BY <1>5 DEF Text
  <2> QED
    BY <1>1, <1>2, <2>1, <2>2, <2>3 DEF PipeTyped
<1>6. CASE End
  <2>1. PICK is \in {"done", "error", "completed"} :
            Emit(is, running.of) /\ (is = "completed" => running.of \in SpecName)
    BY <1>6 DEF End
  <2>2. lines' \in Seq(LineRow) /\ CompletedInv'
    BY <1>1, <1>3, <2>1, EmitTyped
  <2>3. UNCHANGED <<up, keys, requests, events, crossed>> /\ running' = NoStream
    BY <1>6 DEF End
  <2> QED
    BY <1>1, <1>2, <2>2, <2>3, EmptyRowsAreTyped DEF PipeTyped
<1>7. CASE Event
  <2>1. lines' \in Seq(LineRow) /\ CompletedInv'
    BY <1>1, <1>3, <1>7, EmitTyped DEF Event
  <2>2. events' \in 0..MaxRefreshes
    BY <1>1, <1>7, LiveViewsAssumption DEF Event, PipeTyped
  <2>3. UNCHANGED <<up, keys, requests, running, crossed>>
    BY <1>7 DEF Event
  <2> QED
    BY <1>1, <1>2, <2>1, <2>2, <2>3 DEF PipeTyped
<1>8. CASE Lose
  <2>1. /\ up' = FALSE
        /\ UNCHANGED <<keys, requests, running, lines, events, crossed>>
    BY <1>8 DEF Lose
  <2> QED
    BY <1>1, <1>2, <2>1 DEF PipeTyped, CompletedInv
<1> QED
  BY <1>4, <1>5, <1>6, <1>7, <1>8 DEF Serve

LEMMA ReadTyped ==
    ASSUME PipeTyped, CompletedInv, lines # <<>>, lines' = Tail(lines)
    PROVE  /\ lines' \in Seq(LineRow) /\ CompletedInv'
           /\ Head(lines) \in LineRow
           /\ Head(lines).is = "completed" => Head(lines).of \in SpecName
<1>1. /\ lines \in Seq(LineRow) /\ lines' \in Seq(LineRow)
      /\ 1 \in 1..Len(lines) /\ Head(lines) = lines[1]
      /\ \A i \in 1..Len(lines') : lines'[i] = lines[i + 1] /\ i + 1 \in 1..Len(lines)
  BY DEF PipeTyped
<1> QED
  BY <1>1 DEF CompletedInv

LEMMA AnsweredTyped ==
    ASSUME LiveTypeOK, CompletedInv, Answered
    PROVE  ViewsTyped' /\ PipeTyped' /\ CompletedInv'
<1>1. ViewsTyped /\ PipeTyped
  BY TypesInTwo
<1>2. UNCHANGED <<tab, listening, up, running, events, keys>>
  BY DEF Answered, WriteCommand, TakeLine, Unanswered, streamVars
<1>3. CASE WriteCommand
  <2>1. lines' = lines
    BY <1>3 DEF WriteCommand
  <2>2. ViewsTyped'
    <3>1. CASE Finish
      BY <1>1, <1>2, <3>1, FinishTyped DEF ViewsTyped
    <3>2. CASE /\ doing' = [doing EXCEPT !.waits = TRUE]
               /\ UNCHANGED <<dialogue, pane, logs>>
      BY <1>1, <1>2, <3>2 DEF ViewsTyped, DoingRow
    <3> QED
      BY <1>3, <3>1, <3>2 DEF WriteCommand
  <2>3. requests' \in Seq(About) /\ crossed' \in BOOLEAN
    <3>1. CASE Ask(None)
      BY <1>1, <3>1, AskTyped DEF About
    <3>2. CASE NotAsked
      BY <1>1, <3>2 DEF NotAsked, PipeTyped
    <3> QED
      BY <1>3, <3>1, <3>2 DEF WriteCommand
  <2> QED
    BY <1>1, <1>2, <2>1, <2>2, <2>3 DEF PipeTyped, CompletedInv
<1>4. CASE TakeLine \/ Unanswered
  <2>1. Finish /\ UNCHANGED <<requests, crossed>>
    BY <1>4 DEF TakeLine, Unanswered
  <2>2. ViewsTyped'
    BY <1>1, <1>2, <2>1, FinishTyped DEF ViewsTyped
  <2>3. lines' \in Seq(LineRow) /\ CompletedInv'
    <3>1. CASE lines' = lines
      BY <1>1, <3>1 DEF PipeTyped, CompletedInv
    <3>2. CASE lines # <<>> /\ lines' = Tail(lines)
      BY <1>1, <3>2, ReadTyped
    <3> QED
      BY <1>4, <3>1, <3>2 DEF TakeLine, Unanswered
  <2> QED
    BY <1>1, <1>2, <2>1, <2>2, <2>3 DEF PipeTyped
<1> QED
  BY <1>3, <1>4 DEF Answered

LEMMA ToldTyped ==
    ASSUME NEW d \in DialogueRow, NEW line \in LineRow,
           line.is = "completed" => line.of \in SpecName
    PROVE  Told(d, line) \in DialogueRow
<1>1. ASSUME NEW b \in BOOLEAN
      PROVE  [d EXCEPT !.foreign = b] \in DialogueRow
  BY <1>1 DEF DialogueRow
<1>2. (d.foreign \/ line.of # d.spec) \in BOOLEAN
  BY Zenon
<1>3. [d EXCEPT !.foreign = @ \/ line.of # d.spec] \in DialogueRow
  BY <1>1, <1>2
<1>4. ASSUME NEW n \in SpecName \cup {None}, NEW state \in {"waiting", "completed"}
      PROVE  /\ [d EXCEPT !.state = state, !.id = n] \in DialogueRow
             /\ [d EXCEPT !.state = state] \in DialogueRow
  BY DEF DialogueRow
<1>5. (IF line.of \in SpecName THEN line.of ELSE d.id) \in SpecName \cup {None}
  BY DEF DialogueRow
<1> QED
  BY <1>3, <1>4, <1>5 DEF Told

LEMMA ShowsTyped == ASSUME NEW v \in Viewer PROVE Shows(v) \in Viewer
<1>1. ASSUME NEW b \in BOOLEAN
      PROVE  /\ [v EXCEPT !.foreign = b] \in Viewer
             /\ [v EXCEPT !.streaming = b] \in Viewer
  BY <1>1 DEF Viewer
<1>2. (v.foreign \/ Head(lines).of # v.task) \in BOOLEAN
  BY Zenon
<1> QED
  BY <1>1, <1>2 DEF Shows

LEMMA PollTyped ==
    ASSUME LiveTypeOK, CompletedInv, PollAny
    PROVE  ViewsTyped' /\ PipeTyped' /\ CompletedInv'
<1>1. ViewsTyped /\ PipeTyped
  BY TypesInTwo
<1>2. Polls
  BY DEF PollAny, PollDialogue, PollPane, PollLogs, PollEvents
<1>3. UNCHANGED <<tab, up, running, events, keys, requests, crossed>>
  BY <1>2 DEF Polls, streamVars
<1>4. lines' \in Seq(LineRow) /\ CompletedInv'
  <2>1. CASE lines # <<>> /\ lines' = Tail(lines)
    BY <1>1, <2>1, ReadTyped
  <2>2. CASE lines' = lines
    BY <1>1, <2>2 DEF PipeTyped, CompletedInv
  <2> QED
    BY <1>2, <2>1, <2>2 DEF Polls
<1>5. doing' \in DoingRow
  <2>1. CASE Does("other", None)
    BY <2>1 DEF Does, DoingRow
  <2>2. CASE doing' = doing
    BY <1>1, <2>2 DEF ViewsTyped
  <2> QED
    BY <1>2, <2>1, <2>2 DEF Polls
<1>6. dialogue' \in DialogueRow /\ pane' \in Viewer /\ logs' \in Viewer
      /\ listening' \in BOOLEAN
  <2>1. CASE PollDialogue
    <3>1. dialogue' \in DialogueRow
      <4>1. CASE lines = <<>>
        BY <1>1, <2>1, <4>1 DEF PollDialogue, ViewsTyped, DialogueRow
      <4>2. CASE lines # <<>>
        <5>1. lines' = Tail(lines)
          BY <1>2, <4>2 DEF Polls
        <5> QED
          BY <1>1, <2>1, <4>2, <5>1, ReadTyped, ToldTyped DEF PollDialogue, ViewsTyped
      <4> QED
        BY <4>1, <4>2
    <3> QED
      BY <1>1, <2>1, <3>1 DEF PollDialogue, ViewsTyped
  <2>2. CASE PollPane
    BY <1>1, <2>2, ShowsTyped DEF PollPane, ViewsTyped
  <2>3. CASE PollLogs
    BY <1>1, <2>3, ShowsTyped DEF PollLogs, ViewsTyped
  <2>4. CASE PollEvents
    <3>1. (lines # <<>>) \in BOOLEAN
      BY Zenon
    <3> QED
      BY <1>1, <2>4, <3>1 DEF PollEvents, ViewsTyped
  <2> QED
    BY <2>1, <2>2, <2>3, <2>4 DEF PollAny
<1> QED
  BY <1>1, <1>3, <1>4, <1>5, <1>6 DEF ViewsTyped, PipeTyped

LEMMA KeyTyped ==
    ASSUME LiveTypeOK, CompletedInv, LiveKey
    PROVE  ViewsTyped' /\ PipeTyped' /\ CompletedInv'
<1>1. ViewsTyped /\ PipeTyped
  BY TypesInTwo
<1>2. UNCHANGED <<listening, up, running, events, lines>>
  BY DEF LiveKey, StartDialogue, SelectInPane, SelectInLogs, SendAnswer, LeaveDialogue,
     ChangeView, LeaveLogs, Command, streamVars, appVars
<1>3. keys' \in 0..MaxKeys
  <2>1. CASE keys' = keys
    BY <1>1, <2>1 DEF PipeTyped
  <2>2. CASE Ready
    BY <1>1, <2>2, LiveViewsAssumption DEF Ready, PipeTyped
  <2> QED
    BY <2>1, <2>2 DEF LiveKey, StartDialogue, SelectInPane, SelectInLogs, SendAnswer,
       LeaveDialogue, ChangeView, LeaveLogs, Command, Free
<1>4. requests' \in Seq(About) /\ crossed' \in BOOLEAN
  <2>1. ASSUME NEW of \in About, Ask(of)
        PROVE  requests' \in Seq(About) /\ crossed' \in BOOLEAN
    BY <1>1, <2>1, AskTyped
  <2>2. CASE UNCHANGED <<requests, crossed>>
    BY <1>1, <2>2 DEF PipeTyped
  <2>3. ASSUME NEW s \in SpecName, StartDialogue(s)
        PROVE  Ask(s) \/ UNCHANGED <<requests, crossed>>
    BY <2>3 DEF StartDialogue, SendsOr, NotAsked
  <2>4. CASE SendAnswer
    <3>1. dialogue.id \in About
      BY <1>1 DEF ViewsTyped, DialogueRow, About
    <3> QED
      BY <2>1, <2>2, <2>4, <3>1 DEF SendAnswer, SendsOr, NotAsked
  <2>5. ASSUME NEW t \in Task, SelectInPane(t) \/ SelectInLogs(t)
        PROVE  Ask(t) \/ UNCHANGED <<requests, crossed>>
    BY <2>5 DEF SelectInPane, SelectInLogs, SendsOr, NotAsked
  <2>6. SpecName \subseteq About /\ Task \subseteq About
    BY DEF About
  <2> QED
    BY <2>1, <2>2, <2>3, <2>4, <2>5, <2>6
    DEF LiveKey, LeaveDialogue, ChangeView, LeaveLogs, Command
<1>5. ViewsTyped'
  <2>1. ASSUME NEW s \in SpecName, StartDialogue(s)
        PROVE  ViewsTyped'
    <3>1. /\ Entered(s) \in DialogueRow
          /\ [Entered(s) EXCEPT !.state = "completed"] \in DialogueRow
      BY EmptyRowsAreTyped DEF DialogueRow
    <3> QED
      BY <1>1, <1>2, <2>1, <3>1 DEF StartDialogue, SendsOr, ViewsTyped
  <2>2. CASE SendAnswer
    <3>1. [dialogue EXCEPT !.state = "streaming"] \in DialogueRow
      BY <1>1 DEF ViewsTyped, DialogueRow
    <3> QED
      BY <1>1, <1>2, <2>2, <3>1 DEF SendAnswer, SendsOr, ViewsTyped
  <2>3. CASE LeaveDialogue \/ Command
    <3>1. doing' \in DoingRow
      <4>1. Does("exit", None) \/ Does("end", None) \/ Does("other", None)
        BY <2>3 DEF LeaveDialogue, Command
      <4> QED
        BY <4>1, DoesTyped
    <3>2. UNCHANGED appVars
      BY <2>3 DEF LeaveDialogue, Command
    <3> QED
      BY <1>1, <3>1, <3>2 DEF appVars, ViewsTyped
  <2>4. CASE ChangeView
    BY <1>1, <2>4 DEF ChangeView, ViewsTyped
  <2>5. CASE LeaveLogs
    BY <1>1, <2>5, EmptyRowsAreTyped DEF LeaveLogs, ViewsTyped
  <2>6. ASSUME NEW t \in Task, SelectInPane(t) \/ SelectInLogs(t)
        PROVE  ViewsTyped'
    <3>1. /\ Following(t) \in Viewer /\ Historical(t) \in Viewer
      BY EmptyRowsAreTyped
    <3>2. doing' \in DoingRow
      <4>1. CASE doing' = doing
        BY <1>1, <4>1 DEF ViewsTyped
      <4>2. CASE Does("pane", t) \/ Does("logs", t)
        BY <4>2, DoesTyped
      <4>3. CASE SelectInPane(t)
        BY <4>1, <4>2, <4>3 DEF SelectInPane
      <4>4. CASE SelectInLogs(t)
        BY <4>1, <4>2, <4>4 DEF SelectInLogs
      <4> QED
        BY <2>6, <4>3, <4>4
    <3> QED
      BY <1>1, <1>2, <2>6, <3>1, <3>2 DEF SelectInPane, SelectInLogs, SendsOr, ViewsTyped
  <2> QED
    BY <2>1, <2>2, <2>3, <2>4, <2>5, <2>6 DEF LiveKey
<1> QED
  BY <1>1, <1>2, <1>3, <1>4, <1>5 DEF PipeTyped, CompletedInv

-----------------------------------------------------------------------------
(* LiveViews: the inductive invariant *)

\* No view begins to wait for lines, or shows any it did not show before.
ViewsCalm ==
    /\ dialogue'.state = "streaming" =>
           dialogue.state = "streaming" /\ dialogue'.spec = dialogue.spec
    /\ pane'.streaming => pane.streaming /\ pane'.task = pane.task
    /\ logs'.streaming => logs.streaming /\ logs'.task = logs.task
    /\ dialogue'.foreign => dialogue.foreign
    /\ pane'.foreign => pane.foreign
    /\ logs'.foreign => logs.foreign
    /\ dialogue.id \in {None, dialogue.spec} => dialogue'.id \in {None, dialogue'.spec}

LEMMA CalmKeeps ==
    ASSUME StreamsInv, LinesAreOwn, ~crossed => Kept, ViewsCalm, crossed' = crossed,
           doing'.waits => doing.waits
    PROVE  StreamsInv' /\ LinesAreOwn'
<1>1. LinesAreOwn'
  BY DEF LinesAreOwn, ViewsCalm
<1>2. ASSUME ~crossed'
      PROVE  /\ Nothing' \/ \E x \in SpecName \cup Task : OnItsWay(x)'
             /\ doing'.waits => Nothing'
             /\ dialogue'.state = "streaming" =>
                    dialogue'.spec \in SpecName /\ OnItsWay(dialogue.spec)'
             /\ pane'.streaming => pane'.task \in Task /\ OnItsWay(pane.task)'
             /\ logs'.streaming => logs'.task \in Task /\ OnItsWay(logs.task)'
             /\ ~(pane'.streaming /\ logs'.streaming)
  <2>1. ~crossed /\ Kept
    BY <1>2
  <2>2. Nothing' \/ \E x \in SpecName \cup Task : OnItsWay(x)'
    BY <2>1 DEF StreamsInv, Kept
  <2>3. doing'.waits => Nothing'
    BY <2>1 DEF StreamsInv, Kept
  <2>4. ASSUME dialogue'.state = "streaming"
        PROVE  dialogue'.spec \in SpecName /\ OnItsWay(dialogue.spec)'
    <3>1. /\ dialogue'.spec = dialogue.spec /\ dialogue.spec \in SpecName
          /\ OnItsWay(dialogue.spec)
      BY <2>1, <2>4 DEF StreamsInv, ViewsCalm
    <3>2. PICK x : x = dialogue.spec
      OBVIOUS
    <3>3. OnItsWay(x)'
      BY <2>1, <3>1, <3>2 DEF Kept
    <3> QED
      BY <3>1, <3>2, <3>3 DEF OnItsWay, Requested, Running, Ended
  <2>5. ASSUME pane'.streaming
        PROVE  pane'.task \in Task /\ OnItsWay(pane.task)'
    <3>1. /\ pane'.task = pane.task /\ pane.task \in Task
          /\ OnItsWay(pane.task)
      BY <2>1, <2>5 DEF StreamsInv, ViewsCalm
    <3>2. PICK x : x = pane.task
      OBVIOUS
    <3>3. OnItsWay(x)'
      BY <2>1, <3>1, <3>2 DEF Kept
    <3> QED
      BY <3>1, <3>2, <3>3 DEF OnItsWay, Requested, Running, Ended
  <2>6. ASSUME logs'.streaming
        PROVE  logs'.task \in Task /\ OnItsWay(logs.task)'
    <3>1. /\ logs'.task = logs.task /\ logs.task \in Task
          /\ OnItsWay(logs.task)
      BY <2>1, <2>6 DEF StreamsInv, ViewsCalm
    <3>2. PICK x : x = logs.task
      OBVIOUS
    <3>3. OnItsWay(x)'
      BY <2>1, <3>1, <3>2 DEF Kept
    <3> QED
      BY <3>1, <3>2, <3>3 DEF OnItsWay, Requested, Running, Ended
  <2>7. ~(pane'.streaming /\ logs'.streaming)
    BY <2>1 DEF StreamsInv, ViewsCalm
  <2> QED
    BY <2>2, <2>3, <2>4, <2>5, <2>6, <2>7
<1> QED
  BY <1>1, <1>2 DEF StreamsInv

LEMMA ServeStep ==
    ASSUME LiveTypeOK, StreamsInv, LinesAreOwn, Serve \/ Event \/ Lose
    PROVE  StreamsInv' /\ LinesAreOwn'
<1>1. UNCHANGED <<dialogue, pane, logs, doing, crossed>>
  BY DEF Serve, Begin, Text, End, Event, Lose, viewVars, appVars
<1>2. Kept
  <2>1. CASE Lose
    BY <2>1, NothingMoves DEF Lose
  <2> QED
    BY <2>1, BeginKeeps, TextKeeps, EndKeeps, EventKeeps DEF Serve
<1>3. ViewsCalm
  BY <1>1 DEF ViewsCalm
<1> QED
  BY <1>1, <1>2, <1>3, CalmKeeps

\* Where nothing is on its way, nobody waits for lines.
LEMMA Unwatched ==
    ASSUME StreamsInv, ~crossed, Nothing
    PROVE  dialogue.state # "streaming" /\ ~pane.streaming /\ ~logs.streaming
BY OneStream DEF StreamsInv

\* After an answer nobody waits who has not waited before.
LEMMA FinishCalms ==
    ASSUME ViewsTyped, Finish
    PROVE  ViewsCalm /\ ~doing'.waits
<1>1. /\ dialogue \in DialogueRow
      /\ pane' = pane \/ pane' = Historical(doing.task)
      /\ logs' = logs \/ logs' = Historical(doing.task)
      /\ \/ dialogue' = dialogue
         \/ dialogue' = NoDialogue
         \/ dialogue' = [dialogue EXCEPT !.state = "completed"]
  BY DEF ViewsTyped, Finish
<1>2. ~doing'.waits
  BY DEF Finish, Does, NotDoing
<1>3. ~Historical(doing.task).streaming /\ ~Historical(doing.task).foreign
  BY DEF Historical, NoViewer
<1>4. /\ pane'.streaming => pane.streaming /\ pane'.task = pane.task
      /\ pane'.foreign => pane.foreign
  <2>1. CASE pane' = pane
    BY <2>1
  <2>2. CASE pane' = Historical(doing.task)
    BY <1>3, <2>2
  <2> QED
    BY <1>1, <2>1, <2>2
<1>5. /\ logs'.streaming => logs.streaming /\ logs'.task = logs.task
      /\ logs'.foreign => logs.foreign
  <2>1. CASE logs' = logs
    BY <2>1
  <2>2. CASE logs' = Historical(doing.task)
    BY <1>3, <2>2
  <2> QED
    BY <1>1, <2>1, <2>2
<1>6. CASE dialogue' = dialogue
  <2>1. /\ dialogue'.state = "streaming" =>
               dialogue.state = "streaming" /\ dialogue'.spec = dialogue.spec
        /\ dialogue'.foreign => dialogue.foreign
        /\ dialogue.id \in {None, dialogue.spec} => dialogue'.id \in {None, dialogue'.spec}
    BY <1>6
  <2> QED
    BY <1>2, <1>4, <1>5, <2>1, Zenon DEF ViewsCalm
<1>7. CASE dialogue' = NoDialogue
  <2>1. dialogue'.state # "streaming" /\ ~dialogue'.foreign /\ dialogue'.id = None
    BY <1>7 DEF NoDialogue
  <2>2. /\ dialogue'.state = "streaming" =>
               dialogue.state = "streaming" /\ dialogue'.spec = dialogue.spec
        /\ dialogue'.foreign => dialogue.foreign
        /\ dialogue.id \in {None, dialogue.spec} => dialogue'.id \in {None, dialogue'.spec}
    BY <2>1
  <2> QED
    BY <1>2, <1>4, <1>5, <2>2, Zenon DEF ViewsCalm
<1>8. CASE dialogue' = [dialogue EXCEPT !.state = "completed"]
  <2>1. /\ dialogue'.state # "streaming" /\ dialogue'.foreign = dialogue.foreign
        /\ dialogue'.id = dialogue.id /\ dialogue'.spec = dialogue.spec
    BY <1>1, <1>8 DEF DialogueRow
  <2>2. /\ dialogue'.state = "streaming" =>
               dialogue.state = "streaming" /\ dialogue'.spec = dialogue.spec
        /\ dialogue'.foreign => dialogue.foreign
        /\ dialogue.id \in {None, dialogue.spec} => dialogue'.id \in {None, dialogue'.spec}
    BY <2>1
  <2> QED
    BY <1>2, <1>4, <1>5, <2>2, Zenon DEF ViewsCalm
<1> QED
  BY <1>1, <1>2, <1>6, <1>7, <1>8

LEMMA AnsweredStep ==
    ASSUME LiveTypeOK, StreamsInv, LinesAreOwn, Answered
    PROVE  StreamsInv' /\ LinesAreOwn'
<1>1. ViewsTyped /\ PipeTyped /\ running' = running
  BY TypesInTwo DEF Answered, WriteCommand, TakeLine, Unanswered, streamVars
<1>2. CASE /\ Ask(None) /\ doing' = [doing EXCEPT !.waits = TRUE]
           /\ UNCHANGED <<dialogue, pane, logs, lines>>
  <2>1. LinesAreOwn'
    BY <1>2 DEF Ask, LinesAreOwn
  <2>2. ASSUME ~crossed'
        PROVE  StreamsInv'
    <3>1. ~crossed /\ Nothing /\ Nothing'
      BY <1>1, <1>2, <2>2, AskOpens DEF About
    <3>2. dialogue.state # "streaming" /\ ~pane.streaming /\ ~logs.streaming
      BY <3>1, Unwatched
    <3>3. dialogue'.state # "streaming" /\ ~pane'.streaming /\ ~logs'.streaming
      BY <1>2, <3>2
    <3> QED
      BY <3>1, <3>3 DEF StreamsInv
  <2> QED
    BY <2>1, <2>2 DEF StreamsInv
<1>3. CASE Finish /\ UNCHANGED <<requests, lines, crossed>>
  <2>1. Kept
    BY <1>1, <1>3, NothingMoves
  <2> QED
    BY <1>1, <1>3, <2>1, FinishCalms, CalmKeeps
<1>4. CASE TakeLine
  <2>1. lines # <<>> /\ lines' = Tail(lines) /\ UNCHANGED <<requests, crossed>>
        /\ Finish /\ doing.waits
    BY <1>4 DEF TakeLine
  <2>2. ASSUME ~crossed
        PROVE  Kept
    <3>1. Nothing
      BY <2>1, <2>2 DEF StreamsInv
    <3> QED
      BY <1>1, <2>1, <3>1, OneStream, ReadKeeps DEF Kept
  <2> QED
    BY <1>1, <2>1, <2>2, FinishCalms, CalmKeeps
<1> QED
  BY <1>2, <1>3, <1>4 DEF Answered, WriteCommand, Unanswered, NotAsked

\* A line that somebody reads who has waited for it.
LEMMA OwnLine ==
    ASSUME LiveTypeOK, NEW x \in SpecName \cup Task, OnItsWay(x),
           lines # <<>>, lines' = Tail(lines), UNCHANGED <<running, requests>>
    PROVE  \/ /\ OnItsWay(x)' /\ ~IsLast(Head(lines))
              /\ Head(lines).is = "text" => Head(lines).of = x
           \/ Nothing' /\ IsLast(Head(lines)) /\ Head(lines).of = x
BY ReadKeeps DEF Quiet, TextOf, IsLast

LEMMA PollsCalmly ==
    ASSUME ViewsTyped, Polls
    PROVE  /\ ~doing'.waits
           /\ UNCHANGED <<tab, running, requests, crossed>>
           /\ \/ lines # <<>> /\ lines' = Tail(lines)
              \/ lines = <<>> /\ lines' = lines
<1>1. ~doing'.waits
  BY DEF Polls, NotDoing, Does
<1> QED
  BY <1>1 DEF Polls, streamVars

LEMMA PollStep ==
    ASSUME LiveTypeOK, TabInv, StreamsInv, LinesAreOwn, PollAny
    PROVE  StreamsInv' /\ LinesAreOwn'
<1> SUFFICES ASSUME ~crossed' PROVE StreamsInv' /\ LinesAreOwn'
  BY DEF StreamsInv, LinesAreOwn
<1>1. ViewsTyped /\ dialogue \in DialogueRow /\ pane \in Viewer /\ logs \in Viewer
  BY TypesInTwo DEF ViewsTyped
<1>2. Polls
  BY DEF PollAny, PollDialogue, PollPane, PollLogs, PollEvents
<1>3. /\ ~doing'.waits
      /\ UNCHANGED <<running, requests, crossed>>
      /\ \/ lines # <<>> /\ lines' = Tail(lines)
         \/ lines = <<>> /\ lines' = lines
  BY <1>1, <1>2, PollsCalmly
<1>4. ~crossed
  BY <1>3
<1>5. /\ ~dialogue.foreign /\ ~pane.foreign /\ ~logs.foreign
      /\ dialogue.id \in {None, dialogue.spec}
  BY <1>4 DEF LinesAreOwn
\* Once nothing is on its way and nobody waits any longer.
<1>6. ASSUME Nothing', dialogue'.state # "streaming", ~pane'.streaming, ~logs'.streaming
      PROVE  StreamsInv'
  BY <1>3, <1>6 DEF StreamsInv
<1>7. CASE lines = <<>>
  <2>1. Kept
    BY <1>3, <1>7, NothingMoves
  <2>2. ViewsCalm
    <3>1. CASE PollDialogue
      <4>1. dialogue' = [dialogue EXCEPT !.state = "completed"] /\ UNCHANGED <<pane, logs>>
        BY <1>7, <3>1 DEF PollDialogue
      <4>2. /\ dialogue'.state # "streaming" /\ dialogue'.foreign = dialogue.foreign
            /\ dialogue'.id = dialogue.id /\ dialogue'.spec = dialogue.spec
        BY <1>1, <4>1 DEF DialogueRow
      <4> QED
        BY <4>1, <4>2 DEF ViewsCalm
    <3>2. CASE PollPane
      <4>1. pane' = [pane EXCEPT !.streaming = FALSE] /\ UNCHANGED <<dialogue, logs>>
        BY <1>7, <3>2 DEF PollPane, Shows
      <4>2. ~pane'.streaming /\ pane'.foreign = pane.foreign
        BY <1>1, <4>1 DEF Viewer
      <4> QED
        BY <4>1, <4>2 DEF ViewsCalm
    <3>3. CASE PollLogs
      <4>1. logs' = [logs EXCEPT !.streaming = FALSE] /\ UNCHANGED <<dialogue, pane>>
        BY <1>7, <3>3 DEF PollLogs, Shows
      <4>2. ~logs'.streaming /\ logs'.foreign = logs.foreign
        BY <1>1, <4>1 DEF Viewer
      <4> QED
        BY <4>1, <4>2 DEF ViewsCalm
    <3>4. CASE PollEvents
      BY <3>4 DEF PollEvents, ViewsCalm
    <3> QED
      BY <3>1, <3>2, <3>3, <3>4 DEF PollAny
  <2> QED
    BY <1>3, <2>1, <2>2, CalmKeeps
<1>8. CASE lines # <<>>
  <2>1. lines' = Tail(lines)
    BY <1>3, <1>8
  <2>2. CASE PollDialogue
    <3> DEFINE x == dialogue.spec
    <3>1. x \in SpecName /\ OnItsWay(x)
      BY <1>4, <2>2 DEF PollDialogue, StreamsInv
    <3>2. ~pane.streaming /\ ~logs.streaming
      BY <1>4, <3>1, OneStream, LiveViewsAssumption DEF StreamsInv
    <3>3. dialogue' = Told(dialogue, Head(lines)) /\ UNCHANGED <<pane, logs>>
      BY <1>8, <2>2 DEF PollDialogue
    <3>4. PICK s \in SpecName : s = x
      BY <3>1
    <3>5. \/ /\ OnItsWay(s)' /\ ~IsLast(Head(lines))
             /\ Head(lines).is = "text" => Head(lines).of = s
          \/ Nothing' /\ IsLast(Head(lines)) /\ Head(lines).of = s
      BY <1>3, <1>8, <2>1, <3>1, <3>4, OwnLine
    <3>6. CASE IsLast(Head(lines))
      <4>1. Nothing' /\ Head(lines).of = s
        BY <3>5, <3>6
      <4>2. /\ dialogue'.state # "streaming" /\ dialogue'.foreign = dialogue.foreign
            /\ dialogue'.id \in {dialogue.id, s} /\ dialogue'.spec = dialogue.spec
        BY <1>1, <3>3, <3>6, <4>1 DEF Told, IsLast, DialogueRow
      <4>3. LinesAreOwn'
        BY <1>5, <3>3, <3>4, <4>2 DEF LinesAreOwn
      <4> QED
        BY <1>6, <3>2, <3>3, <4>1, <4>2, <4>3
    <3>7. CASE ~IsLast(Head(lines))
      <4>1. OnItsWay(s)' /\ (Head(lines).is = "text" => Head(lines).of = s)
        BY <3>5, <3>7
      <4>2. /\ dialogue'.state = dialogue.state
            /\ dialogue'.id = dialogue.id /\ dialogue'.spec = dialogue.spec
        BY <1>1, <3>3, <3>7 DEF Told, IsLast, DialogueRow
      <4>3. ~dialogue'.foreign
        BY <1>1, <1>5, <3>3, <3>4, <3>7, <4>1 DEF Told, IsLast, DialogueRow
      <4>4. LinesAreOwn'
        BY <1>5, <3>3, <4>2, <4>3 DEF LinesAreOwn
      <4>5. dialogue'.spec = s
        BY <3>4, <4>2
      <4>6. OnItsWay(dialogue.spec)'
        BY <4>1, <4>5 DEF OnItsWay, Requested, Running, Ended
      <4>7. ~pane'.streaming /\ ~logs'.streaming
        BY <3>2, <3>3
      <4>8. \E y \in SpecName \cup Task : OnItsWay(y)'
        BY <4>1
      <4>9. StreamsInv'
        BY <1>3, <4>5, <4>6, <4>7, <4>8 DEF StreamsInv
      <4> QED
        BY <4>4, <4>9
    <3> QED
      BY <3>6, <3>7
  <2>3. CASE PollPane
    <3>1. pane.task \in Task /\ OnItsWay(pane.task) /\ pane.streaming
      BY <1>4, <2>3 DEF PollPane, StreamsInv
    <3>2. dialogue.state # "streaming" /\ ~logs.streaming
      BY <1>4, <3>1, OneStream, LiveViewsAssumption DEF StreamsInv
    <3>3. pane' = Shows(pane) /\ UNCHANGED <<dialogue, logs>>
      BY <2>3 DEF PollPane
    <3>4. PICK t \in Task : t = pane.task
      BY <3>1
    <3>5. \/ /\ OnItsWay(t)' /\ ~IsLast(Head(lines))
             /\ Head(lines).is = "text" => Head(lines).of = t
          \/ Nothing' /\ IsLast(Head(lines)) /\ Head(lines).of = t
      BY <1>3, <1>8, <2>1, <3>1, <3>4, OwnLine
    <3>6. CASE IsLast(Head(lines))
      <4>1. Nothing'
        BY <3>5, <3>6
      <4>2. ~pane'.streaming /\ pane'.foreign = pane.foreign
        BY <1>1, <3>3, <3>6 DEF Shows, Viewer
      <4>3. LinesAreOwn'
        BY <1>5, <3>3, <4>2 DEF LinesAreOwn
      <4> QED
        BY <1>6, <3>2, <3>3, <4>1, <4>2, <4>3
    <3>7. CASE ~IsLast(Head(lines))
      <4>1. OnItsWay(t)' /\ (Head(lines).is = "text" => Head(lines).of = t)
        BY <3>5, <3>7
      <4>2. pane'.streaming = pane.streaming /\ pane'.task = pane.task /\ ~pane'.foreign
        BY <1>1, <1>5, <1>8, <3>3, <3>4, <3>7, <4>1 DEF Shows, Viewer
      <4>3. LinesAreOwn'
        BY <1>5, <3>3, <4>2 DEF LinesAreOwn
      <4>4. pane'.task = t
        BY <3>4, <4>2
      <4>5. OnItsWay(pane.task)'
        BY <4>1, <4>4 DEF OnItsWay, Requested, Running, Ended
      <4>6. dialogue'.state # "streaming" /\ ~logs'.streaming
        BY <3>2, <3>3
      <4>7. \E y \in SpecName \cup Task : OnItsWay(y)'
        BY <4>1
      <4>8. StreamsInv'
        BY <1>3, <4>4, <4>5, <4>6, <4>7 DEF StreamsInv
      <4> QED
        BY <4>3, <4>8
    <3> QED
      BY <3>6, <3>7
  <2>4. CASE PollLogs
    <3>1. logs.task \in Task /\ OnItsWay(logs.task) /\ logs.streaming
      BY <1>4, <2>4 DEF PollLogs, StreamsInv
    <3>2. dialogue.state # "streaming" /\ ~pane.streaming
      BY <1>4, <3>1, OneStream, LiveViewsAssumption DEF StreamsInv
    <3>3. logs' = Shows(logs) /\ UNCHANGED <<dialogue, pane>>
      BY <2>4 DEF PollLogs
    <3>4. PICK t \in Task : t = logs.task
      BY <3>1
    <3>5. \/ /\ OnItsWay(t)' /\ ~IsLast(Head(lines))
             /\ Head(lines).is = "text" => Head(lines).of = t
          \/ Nothing' /\ IsLast(Head(lines)) /\ Head(lines).of = t
      BY <1>3, <1>8, <2>1, <3>1, <3>4, OwnLine
    <3>6. CASE IsLast(Head(lines))
      <4>1. Nothing'
        BY <3>5, <3>6
      <4>2. ~logs'.streaming /\ logs'.foreign = logs.foreign
        BY <1>1, <3>3, <3>6 DEF Shows, Viewer
      <4>3. LinesAreOwn'
        BY <1>5, <3>3, <4>2 DEF LinesAreOwn
      <4> QED
        BY <1>6, <3>2, <3>3, <4>1, <4>2, <4>3
    <3>7. CASE ~IsLast(Head(lines))
      <4>1. OnItsWay(t)' /\ (Head(lines).is = "text" => Head(lines).of = t)
        BY <3>5, <3>7
      <4>2. logs'.streaming = logs.streaming /\ logs'.task = logs.task /\ ~logs'.foreign
        BY <1>1, <1>5, <1>8, <3>3, <3>4, <3>7, <4>1 DEF Shows, Viewer
      <4>3. LinesAreOwn'
        BY <1>5, <3>3, <4>2 DEF LinesAreOwn
      <4>4. logs'.task = t
        BY <3>4, <4>2
      <4>5. OnItsWay(logs.task)'
        BY <4>1, <4>4 DEF OnItsWay, Requested, Running, Ended
      <4>6. dialogue'.state # "streaming" /\ ~pane'.streaming
        BY <3>2, <3>3
      <4>7. \E y \in SpecName \cup Task : OnItsWay(y)'
        BY <4>1
      <4>8. StreamsInv'
        BY <1>3, <4>4, <4>5, <4>6, <4>7 DEF StreamsInv
      <4> QED
        BY <4>3, <4>8
    <3> QED
      BY <3>6, <3>7
  <2>5. CASE PollEvents
    <3>1. dialogue.state # "streaming" /\ ~pane.streaming /\ ~logs.streaming
      BY <2>5 DEF PollEvents, ListensIn, Open, NoDialogue, TabInv
    <3>2. UNCHANGED <<dialogue, pane, logs>>
      BY <2>5 DEF PollEvents
    <3>3. LinesAreOwn'
      BY <1>5, <3>2 DEF LinesAreOwn
    <3>4. Nothing' \/ \E y \in SpecName \cup Task : OnItsWay(y)'
      BY <1>3, <1>4, <1>8, <2>1, ReadKeeps DEF StreamsInv
    <3>5. dialogue'.state # "streaming" /\ ~pane'.streaming /\ ~logs'.streaming
      BY <3>1, <3>2
    <3>6. StreamsInv'
      BY <1>3, <3>4, <3>5 DEF StreamsInv
    <3> QED
      BY <3>3, <3>6
  <2> QED
    BY <2>2, <2>3, <2>4, <2>5 DEF PollAny
<1> QED
  BY <1>7, <1>8

\* A stream that is not asked for too early is the only one on its way, and
\* nobody waits for another.
LEMMA AskedFor ==
    ASSUME LiveTypeOK, StreamsInv, LinesAreOwn, NEW of \in SpecName \cup Task, Ask(of),
           UNCHANGED <<running, lines>>, ~crossed'
    PROVE  /\ OnItsWay(of)'
           /\ dialogue.state # "streaming" /\ ~pane.streaming /\ ~logs.streaming
           /\ ~dialogue.foreign /\ ~pane.foreign /\ ~logs.foreign
           /\ dialogue.id \in {None, dialogue.spec}
<1>1. of \in About /\ of # None
  BY LiveViewsAssumption DEF About
<1>2. ~crossed /\ Nothing /\ OnItsWay(of)'
  BY <1>1, AskOpens
<1> QED
  BY <1>2, Unwatched DEF LinesAreOwn

\* A key that asks for no stream.
LEMMA CalmKey ==
    ASSUME StreamsInv, LinesAreOwn, ViewsCalm, ~doing'.waits,
           UNCHANGED <<running, requests, lines, crossed>>
    PROVE  StreamsInv' /\ LinesAreOwn'
<1>1. Kept
  BY NothingMoves
<1> QED
  BY <1>1, CalmKeeps

LEMMA StartDialogueStep ==
    ASSUME LiveTypeOK, StreamsInv, LinesAreOwn, ~crossed',
           NEW s \in SpecName, StartDialogue(s)
    PROVE  StreamsInv' /\ LinesAreOwn'
<1>1. UNCHANGED <<pane, logs, running, lines>> /\ ~doing'.waits
  BY DEF StartDialogue, streamVars, Free, Ready, NotDoing
<1>2. CASE Ask(s) /\ dialogue' = Entered(s)
  <2>1. /\ OnItsWay(s)' /\ ~pane.streaming /\ ~logs.streaming
        /\ ~pane.foreign /\ ~logs.foreign
    BY <1>1, <1>2, AskedFor
  <2>2. dialogue'.spec = s /\ dialogue'.id = None /\ ~dialogue'.foreign
    BY <1>2 DEF Entered, NoDialogue
  <2>3. OnItsWay(dialogue.spec)'
    BY <2>1, <2>2 DEF OnItsWay, Requested, Running, Ended
  <2>4. ~pane'.streaming /\ ~logs'.streaming
    BY <1>1, <2>1
  <2>5. \E x \in SpecName \cup Task : OnItsWay(x)'
    BY <2>1
  <2>6. StreamsInv'
    BY <1>1, <2>2, <2>3, <2>4, <2>5 DEF StreamsInv
  <2>7. LinesAreOwn'
    BY <1>1, <2>1, <2>2 DEF LinesAreOwn
  <2> QED
    BY <2>6, <2>7
<1>3. CASE NotAsked /\ dialogue' = [Entered(s) EXCEPT !.state = "completed"]
  <2>1. dialogue'.state # "streaming" /\ ~dialogue'.foreign /\ dialogue'.id = None
    BY <1>3 DEF Entered, NoDialogue
  <2>2. ViewsCalm
    BY <1>1, <2>1 DEF ViewsCalm
  <2> QED
    BY <1>1, <1>3, <2>2, CalmKey DEF NotAsked
<1> QED
  BY <1>2, <1>3 DEF StartDialogue, SendsOr

LEMMA SendAnswerStep ==
    ASSUME LiveTypeOK, StreamsInv, LinesAreOwn, ~crossed', SendAnswer
    PROVE  StreamsInv' /\ LinesAreOwn'
<1>1. UNCHANGED <<pane, logs, running, lines>> /\ ~doing'.waits
  BY DEF SendAnswer, streamVars, Ready, NotDoing
<1>2. /\ dialogue \in DialogueRow /\ dialogue.id # None
      /\ dialogue.id \in SpecName
  BY TypesInTwo DEF ViewsTyped, DialogueRow, SendAnswer
<1>3. CASE Ask(dialogue.id) /\ dialogue' = [dialogue EXCEPT !.state = "streaming"]
  <2>1. PICK s \in SpecName : s = dialogue.id
    BY <1>2
  <2>2. /\ OnItsWay(s)' /\ ~pane.streaming /\ ~logs.streaming
        /\ ~dialogue.foreign /\ ~pane.foreign /\ ~logs.foreign
        /\ dialogue.id \in {None, dialogue.spec}
    BY <1>1, <1>3, <2>1, AskedFor
  <2>3. /\ dialogue'.spec = dialogue.spec /\ dialogue'.id = dialogue.id
        /\ ~dialogue'.foreign
    BY <1>2, <1>3, <2>2 DEF DialogueRow
  <2>4. dialogue'.spec = s
    BY <1>2, <2>1, <2>2, <2>3
  <2>5. OnItsWay(dialogue.spec)'
    BY <2>2, <2>4 DEF OnItsWay, Requested, Running, Ended
  <2>6. ~pane'.streaming /\ ~logs'.streaming
    BY <1>1, <2>2
  <2>7. \E x \in SpecName \cup Task : OnItsWay(x)'
    BY <2>2
  <2>8. StreamsInv'
    BY <1>1, <2>4, <2>5, <2>6, <2>7 DEF StreamsInv
  <2>9. LinesAreOwn'
    BY <1>1, <2>2, <2>3 DEF LinesAreOwn
  <2> QED
    BY <2>8, <2>9
<1>4. CASE NotAsked /\ dialogue' = dialogue
  <2>1. ViewsCalm
    BY <1>1, <1>4 DEF ViewsCalm
  <2> QED
    BY <1>1, <1>4, <2>1, CalmKey DEF NotAsked
<1> QED
  BY <1>3, <1>4 DEF SendAnswer, SendsOr

LEMMA SelectInPaneStep ==
    ASSUME LiveTypeOK, StreamsInv, LinesAreOwn, ~crossed',
           NEW t \in Task, SelectInPane(t)
    PROVE  StreamsInv' /\ LinesAreOwn'
<1>1. UNCHANGED <<dialogue, logs, running, lines>> /\ ~doing'.waits
  BY DEF SelectInPane, streamVars, Free, Ready, NotDoing, Does
<1>2. CASE Ask(t) /\ pane' = Following(t)
  <2>1. /\ OnItsWay(t)' /\ dialogue.state # "streaming" /\ ~logs.streaming
        /\ ~dialogue.foreign /\ ~logs.foreign
        /\ dialogue.id \in {None, dialogue.spec}
    BY <1>1, <1>2, AskedFor
  <2>2. pane'.task = t /\ ~pane'.foreign
    BY <1>2 DEF Following, NoViewer
  <2>3. OnItsWay(pane.task)'
    BY <2>1, <2>2 DEF OnItsWay, Requested, Running, Ended
  <2>4. dialogue'.state # "streaming" /\ ~logs'.streaming
    BY <1>1, <2>1
  <2>5. \E x \in SpecName \cup Task : OnItsWay(x)'
    BY <2>1
  <2>6. StreamsInv'
    BY <1>1, <2>2, <2>3, <2>4, <2>5 DEF StreamsInv
  <2>7. LinesAreOwn'
    BY <1>1, <2>1, <2>2 DEF LinesAreOwn
  <2> QED
    BY <2>6, <2>7
<1>3. CASE NotAsked /\ (pane' = Historical(t) \/ pane' = pane)
  <2>1. ViewsCalm
    BY <1>1, <1>3 DEF ViewsCalm, Historical, NoViewer
  <2> QED
    BY <1>1, <1>3, <2>1, CalmKey DEF NotAsked
<1> QED
  BY <1>2, <1>3 DEF SelectInPane, SendsOr

LEMMA SelectInLogsStep ==
    ASSUME LiveTypeOK, StreamsInv, LinesAreOwn, ~crossed',
           NEW t \in Task, SelectInLogs(t)
    PROVE  StreamsInv' /\ LinesAreOwn'
<1>1. UNCHANGED <<dialogue, pane, running, lines>> /\ ~doing'.waits
  BY DEF SelectInLogs, streamVars, Free, Ready, NotDoing, Does
<1>2. CASE Ask(t) /\ logs' = Following(t)
  <2>1. /\ OnItsWay(t)' /\ dialogue.state # "streaming" /\ ~pane.streaming
        /\ ~dialogue.foreign /\ ~pane.foreign
        /\ dialogue.id \in {None, dialogue.spec}
    BY <1>1, <1>2, AskedFor
  <2>2. logs'.task = t /\ ~logs'.foreign
    BY <1>2 DEF Following, NoViewer
  <2>3. OnItsWay(logs.task)'
    BY <2>1, <2>2 DEF OnItsWay, Requested, Running, Ended
  <2>4. dialogue'.state # "streaming" /\ ~pane'.streaming
    BY <1>1, <2>1
  <2>5. \E x \in SpecName \cup Task : OnItsWay(x)'
    BY <2>1
  <2>6. StreamsInv'
    BY <1>1, <2>2, <2>3, <2>4, <2>5 DEF StreamsInv
  <2>7. LinesAreOwn'
    BY <1>1, <2>1, <2>2 DEF LinesAreOwn
  <2> QED
    BY <2>6, <2>7
<1>3. CASE NotAsked /\ (logs' = Historical(t) \/ logs' = logs)
  <2>1. ViewsCalm
    BY <1>1, <1>3 DEF ViewsCalm, Historical, NoViewer
  <2> QED
    BY <1>1, <1>3, <2>1, CalmKey DEF NotAsked
<1> QED
  BY <1>2, <1>3 DEF SelectInLogs, SendsOr

LEMMA KeyStep ==
    ASSUME LiveTypeOK, StreamsInv, LinesAreOwn, LiveKey
    PROVE  StreamsInv' /\ LinesAreOwn'
<1> SUFFICES ASSUME ~crossed' PROVE StreamsInv' /\ LinesAreOwn'
  BY DEF StreamsInv, LinesAreOwn
<1>1. CASE LeaveDialogue \/ Command
  <2>1. /\ UNCHANGED <<dialogue, pane, logs, running, requests, lines, crossed>>
        /\ ~doing'.waits
    BY <1>1 DEF LeaveDialogue, Command, Does, streamVars, appVars
  <2>2. ViewsCalm
    BY <2>1 DEF ViewsCalm
  <2> QED
    BY <2>1, <2>2, CalmKey
<1>2. CASE ChangeView \/ LeaveLogs
  <2>1. /\ UNCHANGED <<dialogue, pane, running, requests, lines, crossed>>
        /\ logs' = logs \/ logs' = NoViewer
        /\ ~doing'.waits
    BY <1>2 DEF ChangeView, LeaveLogs, NotDoing, streamVars
  <2>2. ViewsCalm
    BY <2>1 DEF ViewsCalm, NoViewer
  <2> QED
    BY <2>1, <2>2, CalmKey
<1> QED
  BY <1>1, <1>2, StartDialogueStep, SendAnswerStep, SelectInPaneStep, SelectInLogsStep
  DEF LiveKey

LEMMA TabStep ==
    ASSUME LiveTypeOK, TabInv, LiveNext
    PROVE  TabInv'
<1>1. ~NoViewer.streaming
  BY DEF NoViewer
<1>2. CASE Serve \/ Event \/ Lose
  <2>1. UNCHANGED <<tab, logs>>
    BY <1>2 DEF Serve, Begin, Text, End, Event, Lose, viewVars, appVars
  <2> QED
    BY <2>1 DEF TabInv
<1>3. CASE Answered
  <2>1. tab' = tab
    BY <1>3 DEF Answered, WriteCommand, TakeLine, Unanswered
  <2>2. logs' = logs \/ logs' = Historical(doing.task)
    BY <1>3 DEF Answered, WriteCommand, TakeLine, Unanswered, Finish
  <2>3. ~Historical(doing.task).streaming
    BY DEF Historical, NoViewer
  <2> QED
    BY <2>1, <2>2, <2>3 DEF TabInv
<1>4. CASE PollAny
  <2>1. tab' = tab
    BY <1>4 DEF PollAny, PollDialogue, PollPane, PollLogs, PollEvents, Polls
  <2>2. tab = "logs" \/ logs' = logs
    BY <1>4 DEF PollAny, PollDialogue, PollPane, PollLogs, PollEvents
  <2> QED
    BY <2>1, <2>2 DEF TabInv
<1>5. CASE LiveKey
  <2>1. CASE ChangeView
    BY <1>1, <2>1 DEF ChangeView, TabInv
  <2>2. CASE LeaveLogs
    BY <1>1, <2>2 DEF LeaveLogs, TabInv
  <2>3. ASSUME NEW t \in Task, SelectInLogs(t)
        PROVE  TabInv'
    BY <2>3 DEF SelectInLogs, TabInv
  <2>4. CASE UNCHANGED <<tab, logs>>
    BY <2>4 DEF TabInv
  <2> QED
    BY <1>5, <2>1, <2>2, <2>3, <2>4
    DEF LiveKey, StartDialogue, SelectInPane, SendAnswer, LeaveDialogue, Command, appVars
<1> QED
  BY <1>2, <1>3, <1>4, <1>5 DEF LiveNext

LEMMA LiveStep ==
    ASSUME LiveInv, [LiveNext]_liveVars
    PROVE  LiveInv'
<1>1. CASE UNCHANGED liveVars
  <2>1. UNCHANGED <<tab, dialogue, pane, logs, listening, doing, running, events, up,
                    keys, requests, lines, crossed>>
    BY <1>1 DEF liveVars, viewVars, appVars, streamVars
  <2>2. LiveTypeOK' /\ CompletedInv' /\ TabInv' /\ LinesAreOwn'
    BY <2>1 DEF LiveInv, LiveTypeOK, CompletedInv, TabInv, LinesAreOwn
  <2>3. ViewsCalm /\ Kept /\ crossed' = crossed /\ doing' = doing
    BY <2>1, NothingMoves DEF ViewsCalm
  <2>4. StreamsInv'
    BY <2>3, CalmKeeps DEF LiveInv
  <2> QED
    BY <2>2, <2>4 DEF LiveInv
<1>2. CASE LiveNext
  <2>1. ViewsTyped' /\ PipeTyped' /\ CompletedInv'
    BY <1>2, ServeTyped, AnsweredTyped, PollTyped, KeyTyped DEF LiveInv, LiveNext
  <2>2. LiveTypeOK'
    BY <2>1 DEF LiveTypeOK, ViewsTyped, PipeTyped, DialogueRow, DoingRow, StreamRow, LineRow
  <2>3. TabInv'
    BY <1>2, TabStep DEF LiveInv
  <2>4. StreamsInv' /\ LinesAreOwn'
    BY <1>2, ServeStep, AnsweredStep, PollStep, KeyStep DEF LiveInv, LiveNext
  <2> QED
    BY <2>1, <2>2, <2>3, <2>4 DEF LiveInv
<1> QED
  BY <1>1, <1>2

LEMMA LiveStarts ==
    ASSUME LiveInit
    PROVE  LiveInv
<1>1. LiveTypeOK
  <2>1. 0 \in 0..MaxKeys /\ 0 \in 0..MaxRefreshes
    BY LiveViewsAssumption
  <2>2. <<>> \in Seq(About) /\ <<>> \in Seq(LineRow)
    OBVIOUS
  <2> QED
    BY <2>1, <2>2, EmptyRowsAreTyped, TypesInTwo DEF LiveInit, ViewsTyped, PipeTyped
<1>2. CompletedInv /\ TabInv
  BY DEF LiveInit, CompletedInv, TabInv, NoViewer
<1>3. Nothing
  BY DEF LiveInit, Nothing, Nobody, AllQuiet
<1>4. dialogue.state # "streaming" /\ ~pane.streaming /\ ~logs.streaming /\ ~doing.waits
  BY DEF LiveInit, NoDialogue, NoViewer, NotDoing
<1>5. LinesAreOwn
  BY DEF LiveInit, LinesAreOwn, NoDialogue, NoViewer
<1> QED
  BY <1>1, <1>2, <1>3, <1>4, <1>5 DEF LiveInv, StreamsInv

\* The lines on their way, and who waits for them, stay as LiveInv says.
THEOREM LiveCorrect == LiveSpec => []LiveInv
<1>1. LiveInit => LiveInv
  BY LiveStarts
<1>2. LiveInv /\ [LiveNext]_liveVars => LiveInv'
  BY LiveStep
<1> QED
  BY <1>1, <1>2, PTL DEF LiveSpec

\* While nothing is sent before the stream that is open has been read to its
\* end, the dialogue and the two logs of nflow-tui show the lines of their own
\* spec or task only, and an answer goes to the spec it is typed for - although
\* nothing that reads a line asks whose it is.
THEOREM ViewsShowTheirOwn == LiveSpec => []LinesAreOwn
<1>1. LiveInv => LinesAreOwn
  BY DEF LiveInv
<1> QED
  BY <1>1, LiveCorrect, PTL
=============================================================================
