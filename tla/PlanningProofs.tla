--------------------------- MODULE PlanningProofs ---------------------------
(***************************************************************************)
(* What the PLAN phase promises.                                           *)
(*                                                                         *)
(* The algorithms of dag.rs (DependencyGraph), for every set of stories    *)
(* and every set of dependencies between them.                             *)
(*                                                                         *)
(* Planning, for any number of specs, waves, streams, turns and plans, and *)
(* for every set of operations and faults.                                 *)
(*                                                                         *)
(* PlanItems, for plans of any length: what is there of a wave is the      *)
(* beginning of its plan, so that a row's parent is there before it.       *)
(***************************************************************************)
EXTENDS Planning, DependencyGraph, PlanItems, FiniteSetTheorems, SequenceTheorems, TLAPS

-----------------------------------------------------------------------------
(* The graph: the inductive invariant *)

OnStack(n) == \E i \in 1..Len(stack) : stack[i] = n

\* The stack is a path through the graph, and holds the gray stories once.
StackInv ==
    /\ \A n \in Story : color[n] = "gray" <=> OnStack(n)
    /\ \A i, j \in 1..Len(stack) : stack[i] = stack[j] => i = j
    /\ \A i \in 1..Len(stack) : stack[i] \in items
    /\ \A i \in 1..(Len(stack) - 1) : <<stack[i], stack[i + 1]>> \in deps

\* What a story on the stack has looked at is black, or above it on the stack.
TodoInv ==
    /\ \A n \in Story : todo[n] \subseteq Blocked(n)
    /\ \A i \in 1..Len(stack) : \A m \in Blocked(stack[i]) \ todo[stack[i]] :
            \/ color[m] = "black"
            \/ i < Len(stack) /\ m = stack[i + 1]

\* A black story blocks black stories only, and there is no cycle among them.
BlackInv ==
    /\ \A n \in Story : color[n] = "black" => \A m \in Blocked(n) : color[m] = "black"
    /\ \A S \in SUBSET Story :
            (S # {} /\ \A n \in S : color[n] = "black") =>
                \E n \in S : \A m \in S : <<m, n>> \notin deps

SearchInv ==
    /\ pc # "build" /\ pc # "invalid" => Known
    /\ pc \in {"build", "detect"} => StackInv /\ TodoInv /\ BlackInv
    /\ pc = "cyclic" => ~ Acyclic
    /\ Accepted => Acyclic

\* What topological_sort has put in order, and what it knows of the rest.
SortInv ==
    /\ pc \in {"build", "detect"} => sorted = <<>>
    /\ \A i, j \in 1..Len(sorted) : sorted[i] = sorted[j] => i = j
    /\ \A i \in 1..Len(sorted) : sorted[i] \in items
    /\ \A i \in 1..Len(sorted) : \A m \in Blockers(sorted[i]) :
            \E j \in 1..(i - 1) : sorted[j] = m
    /\ pc = "sort" =>
        /\ queue = {n \in items \ Elements(sorted) : inDegree[n] = 0}
        /\ \A n \in items \ Elements(sorted) :
            inDegree[n] = Cardinality(Blockers(n) \ Elements(sorted))
    /\ pc # "incomplete"

GraphInv == GraphTypeOK /\ SearchInv /\ SortInv

-----------------------------------------------------------------------------
(* Lemmas *)

\* What stories block and wait for are stories, and finitely many.
LEMMA BlockersAreFinite ==
    ASSUME NEW n \in Story, NEW S
    PROVE  /\ IsFiniteSet(Blockers(n)) /\ IsFiniteSet(Blockers(n) \ S)
           /\ Cardinality(Blockers(n) \ S) \in Nat
<1>1. Blockers(n) \subseteq Story
      BY DEF Blockers
<1>2. IsFiniteSet(Blockers(n)) /\ IsFiniteSet(Blockers(n) \ S)
      BY <1>1, FS_Subset, StoryAssumption
<1>3. QED BY <1>2, FS_CardinalityType

\* The elements of a sequence after Append.
LEMMA AppendElements ==
    ASSUME NEW s \in Seq(Story), NEW n \in Story
    PROVE  Elements(Append(s, n)) = Elements(s) \cup {n}
<1>1. /\ Len(Append(s, n)) = Len(s) + 1
      /\ \A i \in 1..Len(s) : Append(s, n)[i] = s[i]
      /\ Append(s, n)[Len(s) + 1] = n
      OBVIOUS
<1>2. ASSUME NEW x \in Elements(Append(s, n))
      PROVE  x \in Elements(s) \cup {n}
  <2>1. PICK i \in 1..Len(Append(s, n)) : Append(s, n)[i] = x
        BY <1>2 DEF Elements
  <2>2. CASE i = Len(s) + 1
        BY <2>1, <2>2, <1>1
  <2>3. CASE i # Len(s) + 1
    <3>1. i \in 1..Len(s) /\ s[i] = x
          BY <2>1, <2>3, <1>1
    <3>2. QED BY <3>1 DEF Elements
  <2>4. QED BY <2>2, <2>3
<1>3. ASSUME NEW x \in Elements(s) \cup {n}
      PROVE  x \in Elements(Append(s, n))
  <2>1. CASE x = n
    <3>1. Len(s) + 1 \in 1..Len(Append(s, n))
          BY <1>1
    <3>2. QED BY <2>1, <3>1, <1>1 DEF Elements
  <2>2. CASE x # n
    <3>1. PICK i \in 1..Len(s) : s[i] = x
          BY <1>3, <2>2 DEF Elements
    <3>2. i \in 1..Len(Append(s, n)) /\ Append(s, n)[i] = x
          BY <3>1, <1>1
    <3>3. QED BY <3>2 DEF Elements
  <2>3. QED BY <2>1, <2>2
<1>4. QED BY <1>2, <1>3

-----------------------------------------------------------------------------
(* Initially *)

LEMMA InitGraphInv == GraphInit => GraphInv
<1> SUFFICES ASSUME GraphInit PROVE GraphInv
    OBVIOUS
<1>1. GraphTypeOK
      BY DEF GraphInit, GraphTypeOK
<1>2. SearchInv
  <2>1. StackInv /\ TodoInv /\ BlackInv
        BY DEF GraphInit, StackInv, TodoInv, BlackInv, OnStack
  <2>2. QED BY <2>1 DEF GraphInit, SearchInv, Accepted
<1>3. SortInv
      BY DEF GraphInit, SortInv
<1>4. QED BY <1>1, <1>2, <1>3 DEF GraphInv

-----------------------------------------------------------------------------
(* The search *)

LEMMA BuildDagKeeps ==
    ASSUME GraphInv, BuildDag
    PROVE  GraphInv'
<1>1. GraphTypeOK'
      BY DEF GraphInv, GraphTypeOK, BuildDag, Outcome, input, search, order
<1>2. SearchInv'
  <2>1. StackInv' /\ TodoInv' /\ BlackInv'
        BY DEF GraphInv, SearchInv, BuildDag, input, search, order, StackInv, TodoInv,
               BlackInv, OnStack, Blocked
  <2>2. QED BY <2>1 DEF GraphInv, SearchInv, BuildDag, input, Accepted, Known
<1>3. SortInv'
      BY DEF GraphInv, SortInv, BuildDag, input, order, Blockers
<1>4. QED BY <1>1, <1>2, <1>3 DEF GraphInv

\* A white story is put on the stack, at the bottom or above a story it waits
\* for, whose todo has lost it.
LEMMA EnterKeeps ==
    ASSUME GraphInv, pc = "detect", pc' = "detect", UNCHANGED <<input, report, order>>,
           NEW n \in items, color[n] = "white",
           NEW rest \in [Story -> SUBSET Story], Enter(n, rest),
           \/ stack = <<>> /\ rest = todo
           \/ stack # <<>> /\ n \in Blocked(Top) /\ rest = [todo EXCEPT ![Top] = @ \ {n}]
    PROVE  GraphInv'
<1> USE DEF Enter, input, order
<1>0. /\ items \subseteq Story /\ n \in Story /\ stack \in Seq(Story)
      /\ color \in [Story -> {"white", "gray", "black"}]
      /\ todo \in [Story -> SUBSET Story]
      /\ StackInv /\ TodoInv /\ BlackInv /\ Known
      BY DEF GraphInv, GraphTypeOK, SearchInv
<1>1. /\ Len(stack') = Len(stack) + 1
      /\ \A i \in 1..Len(stack) : stack'[i] = stack[i]
      /\ stack'[Len(stack) + 1] = n
      /\ Len(stack) \in Nat
      BY <1>0
<1>2. Blocked(n) \subseteq Story /\ \A m : Blocked(m)' = Blocked(m)
      BY DEF Blocked
<1>3. GraphTypeOK'
  <2>1. stack' \in Seq(Story) /\ todo' \in [Story -> SUBSET Story]
        BY <1>0, <1>2
  <2>2. QED BY <1>0, <2>1 DEF GraphInv, GraphTypeOK
<1>4. ~ OnStack(n)
      BY <1>0 DEF StackInv
<1>5. \A i \in 1..Len(stack) : stack[i] # n
      BY <1>4 DEF OnStack
<1>6. StackInv'
  <2>1. \A m \in Story : OnStack(m)' <=> OnStack(m) \/ m = n
    <3>1. ASSUME NEW m \in Story, OnStack(m) \/ m = n
          PROVE  OnStack(m)'
          BY <3>1, <1>1 DEF OnStack
    <3>2. ASSUME NEW m \in Story, OnStack(m)'
          PROVE  OnStack(m) \/ m = n
          BY <3>2, <1>1 DEF OnStack
    <3>3. QED BY <3>1, <3>2
  <2>2. \A m \in Story : color'[m] = "gray" <=> color[m] = "gray" \/ m = n
        BY <1>0
  <2>3. \A i, j \in 1..Len(stack') : stack'[i] = stack'[j] => i = j
        BY <1>0, <1>1, <1>5 DEF StackInv
  <2>4. \A i \in 1..Len(stack') : stack'[i] \in items'
        BY <1>0, <1>1 DEF StackInv
  <2>5. \A i \in 1..(Len(stack') - 1) : <<stack'[i], stack'[i + 1]>> \in deps'
    <3>1. ASSUME NEW i \in 1..Len(stack)
          PROVE  <<stack'[i], stack'[i + 1]>> \in deps
      <4>1. CASE i = Len(stack)
            BY <4>1, <1>1, <1>0 DEF Blocked, Top
      <4>2. CASE i # Len(stack)
            BY <4>2, <1>1, <1>0 DEF StackInv
      <4>3. QED BY <4>1, <4>2
    <3>2. Len(stack') - 1 = Len(stack)
          BY <1>1
    <3>3. QED BY <3>1, <3>2
  <2>6. QED BY <2>1, <2>2, <2>3, <2>4, <2>5, <1>0 DEF StackInv
<1>7. TodoInv'
  <2>1. \A m \in Story : todo'[m] \subseteq Blocked(m)'
        BY <1>0, <1>2 DEF TodoInv
  <2>2. ASSUME NEW i \in 1..Len(stack'), NEW m \in Blocked(stack'[i]) \ todo'[stack'[i]]
        PROVE  color'[m] = "black" \/ (i < Len(stack') /\ m = stack'[i + 1])
    <3>1. CASE i = Len(stack) + 1
          BY <3>1, <2>2, <1>0, <1>1
    <3>2. CASE i \in 1..Len(stack)
      <4>1. stack'[i] = stack[i] /\ stack[i] \in Story /\ stack[i] # n
            BY <3>2, <1>1, <1>5, <1>0
      <4>2. todo'[stack[i]] = rest[stack[i]]
            BY <4>1, <1>0
      <4>3. CASE m \notin todo[stack[i]]
        <5>1. color[m] = "black" \/ (i < Len(stack) /\ m = stack[i + 1])
              BY <4>1, <4>3, <3>2, <2>2, <1>0 DEF TodoInv
        <5>2. m # n \/ color[m] # "black"
              BY <1>0
        <5>3. QED BY <5>1, <5>2, <1>0, <1>1, <3>2, <2>2 DEF Blocked
      <4>4. CASE m \in todo[stack[i]]
        <5>1. stack[i] = Top /\ m = n
              BY <4>4, <4>1, <4>2, <2>2, <1>0, <3>2
        <5>2. i = Len(stack)
              BY <5>1, <3>2, <1>0 DEF StackInv, Top
        <5>3. QED BY <5>1, <5>2, <1>1
      <4>5. QED BY <4>3, <4>4
    <3>3. QED BY <3>1, <3>2, <1>1
  <2>3. QED BY <2>1, <2>2, <1>2 DEF TodoInv
<1>8. BlackInv'
  <2>1. \A m \in Story : color'[m] = "black" <=> color[m] = "black"
        BY <1>0
  <2>2. ASSUME NEW m \in Story, color[m] = "black", NEW k \in Blocked(m)
        PROVE  color[k] = "black" /\ k \in Story
        BY <2>2, <1>0 DEF BlackInv, Blocked
  <2>3. \A m \in Story : color'[m] = "black" => \A k \in Blocked(m)' : color'[k] = "black"
        BY <2>1, <2>2, <1>2
  <2>4. \A S \in SUBSET Story :
            (S # {} /\ \A m \in S : color'[m] = "black") =>
                \E m \in S : \A k \in S : <<k, m>> \notin deps'
        BY <2>1, <1>0 DEF BlackInv
  <2>5. QED BY <2>3, <2>4 DEF BlackInv
<1>9. SearchInv'
      BY <1>0, <1>6, <1>7, <1>8 DEF SearchInv, Accepted, Known
<1>10. SortInv'
      BY DEF GraphInv, SortInv, Blockers
<1>11. QED BY <1>3, <1>9, <1>10 DEF GraphInv

LEMMA EnterRootKeeps ==
    ASSUME GraphInv, EnterRoot
    PROVE  GraphInv'
<1>1. PICK n \in items : color[n] = "white" /\ Enter(n, todo)
      BY DEF EnterRoot
<1>2. todo \in [Story -> SUBSET Story]
      BY DEF GraphInv, GraphTypeOK
<1>3. /\ pc = "detect" /\ pc' = "detect" /\ stack = <<>>
      /\ UNCHANGED <<input, report, order>>
      BY DEF EnterRoot
<1>4. QED BY <1>1, <1>2, <1>3, EnterKeeps

\* A gray neighbour closes a cycle: the stack from it to the top.
LEMMA ClosingKeeps ==
    ASSUME GraphInv, pc = "detect", stack # <<>>, NEW n \in todo[Top], Closes(n)
    PROVE  ~ Acyclic
<1>0. /\ items \subseteq Story /\ stack \in Seq(Story)
      /\ todo \in [Story -> SUBSET Story]
      /\ StackInv /\ TodoInv
      BY DEF GraphInv, GraphTypeOK, SearchInv
<1>1. Len(stack) \in Nat /\ Len(stack) > 0 /\ Top \in Story /\ n \in Story
      BY <1>0 DEF Top
<1>2. <<Top, n>> \in deps
      BY <1>0, <1>1 DEF TodoInv, Blocked
<1>3. PICK k \in 1..Len(stack) : stack[k] = n
      BY <1>0, <1>1 DEF Closes, StackInv, OnStack
<1> DEFINE S == {stack[i] : i \in k..Len(stack)}
<1>4. S \subseteq items /\ S # {}
      BY <1>0, <1>1 DEF StackInv
<1>5. ASSUME NEW x \in S
      PROVE  \E m \in S : <<m, x>> \in deps
  <2>1. PICK i \in k..Len(stack) : stack[i] = x
        BY <1>5
  <2>2. CASE i = k
    <3>1. x = n /\ Top \in S
          BY <2>1, <2>2, <1>3, <1>1 DEF Top
    <3>2. QED BY <3>1, <1>2
  <2>3. CASE i # k
    <3>1. i - 1 \in k..Len(stack) /\ i - 1 \in 1..(Len(stack) - 1)
          BY <2>3, <1>1
    <3>2. <<stack[i - 1], stack[(i - 1) + 1]>> \in deps
          BY <3>1, <1>0 DEF StackInv
    <3>3. stack[i - 1] \in S
          BY <3>1
    <3>4. (i - 1) + 1 = i
          BY <3>1
    <3>5. QED BY <3>2, <3>3, <3>4, <2>1
  <2>4. QED BY <2>2, <2>3
<1> HIDE DEF S
<1>6. QED BY <1>4, <1>5 DEF Acyclic

\* The path of an error consists of stories.
LEMMA PathIsStories ==
    ASSUME NEW n \in Story, stack \in Seq(Story)
    PROVE  PathTo(n) \in Seq(Story)
<1> DEFINE i == IF Below(n) = {} THEN 0 ELSE CHOOSE j \in Below(n) : TRUE
<1>1. i \in 0..Len(stack)
      BY DEF Below
<1>2. SubSeq(stack, i + 1, Len(stack)) \in Seq(Story)
  <2>1. i + 1 \in Int /\ Len(stack) \in Int
        BY <1>1
  <2>2. \A j \in (i + 1)..Len(stack) : stack[j] \in Story
        BY <1>1
  <2>3. QED BY <2>1, <2>2, SubSeqProperties
<1>3. QED BY <1>2 DEF PathTo

\* A neighbour that is black is no news.
LEMMA PassKeeps ==
    ASSUME GraphInv, pc = "detect", pc' = "detect", stack # <<>>,
           UNCHANGED <<input, color, stack, report, order>>,
           NEW n \in todo[Top], color[n] = "black", todo' = [todo EXCEPT ![Top] = @ \ {n}]
    PROVE  GraphInv'
<1> USE DEF input, order
<1>0. /\ items \subseteq Story /\ stack \in Seq(Story)
      /\ todo \in [Story -> SUBSET Story]
      /\ StackInv /\ TodoInv /\ BlackInv /\ Known
      BY DEF GraphInv, GraphTypeOK, SearchInv
<1>1. Len(stack) \in Nat /\ Top \in Story
      BY <1>0 DEF Top
<1>2. GraphTypeOK'
      BY <1>0, <1>1 DEF GraphInv, GraphTypeOK
<1>3. StackInv' /\ BlackInv'
      BY <1>0 DEF StackInv, BlackInv, OnStack, Blocked
<1>4. \A m : Blocked(m)' = Blocked(m)
      BY DEF Blocked
<1>5. TodoInv'
  <2>1. \A m \in Story : todo'[m] \subseteq Blocked(m)'
        BY <1>0, <1>4 DEF TodoInv
  <2>2. ASSUME NEW i \in 1..Len(stack), NEW m \in Blocked(stack[i]) \ todo'[stack[i]]
        PROVE  color[m] = "black" \/ (i < Len(stack) /\ m = stack[i + 1])
    <3>1. stack[i] \in Story
          BY <1>0
    <3>2. CASE m \in todo[stack[i]]
          BY <3>1, <3>2, <2>2, <1>0
    <3>3. CASE m \notin todo[stack[i]]
          BY <3>3, <2>2, <1>0 DEF TodoInv
    <3>4. QED BY <3>2, <3>3
  <2>3. QED BY <2>1, <2>2, <1>4 DEF TodoInv
<1>6. SearchInv'
      BY <1>0, <1>3, <1>5 DEF SearchInv, Accepted, Known
<1>7. SortInv'
      BY DEF GraphInv, SortInv, Blockers
<1>8. QED BY <1>2, <1>6, <1>7 DEF GraphInv

LEMMA VisitKeeps ==
    ASSUME GraphInv, Visit
    PROVE  GraphInv'
<1> DEFINE rest(n) == [todo EXCEPT ![Top] = @ \ {n}]
<1>0. /\ items \subseteq Story /\ stack \in Seq(Story)
      /\ color \in [Story -> {"white", "gray", "black"}]
      /\ todo \in [Story -> SUBSET Story]
      /\ TodoInv /\ Known
      BY DEF GraphInv, GraphTypeOK, SearchInv, Visit
<1>1. /\ pc = "detect" /\ stack # <<>> /\ UNCHANGED <<input, order>>
      BY DEF Visit
<1>2. Top \in Story
      BY <1>0, <1>1 DEF Top
<1>3. PICK n \in todo[Top] :
        \/ /\ Closes(n)
           /\ report' = PathTo(n)
           /\ pc' = "cyclic"
           /\ UNCHANGED <<color, stack, todo>>
        \/ /\ color[n] = "white"
           /\ Enter(n, rest(n))
           /\ UNCHANGED <<pc, report>>
        \/ /\ ~ Closes(n) /\ color[n] # "white"
           /\ todo' = rest(n)
           /\ UNCHANGED <<pc, color, stack, report>>
      BY DEF Visit
<1>4. n \in Story /\ n \in Blocked(Top) /\ n \in items
      BY <1>0, <1>2, <1>3 DEF TodoInv, Blocked, Known
<1>5. rest(n) \in [Story -> SUBSET Story]
      BY <1>0, <1>2
<1>6. CASE /\ Closes(n)
           /\ report' = PathTo(n)
           /\ pc' = "cyclic"
           /\ UNCHANGED <<color, stack, todo>>
  <2>1. ~ Acyclic
        BY <1>1, <1>3, <1>6, ClosingKeeps
  <2>2. GraphTypeOK'
        BY <1>0, <1>1, <1>4, <1>6, PathIsStories
           DEF GraphInv, GraphTypeOK, input, order, Outcome
  <2>3. SearchInv'
        BY <1>1, <1>6, <1>0, <2>1 DEF SearchInv, Accepted, Acyclic, Known, input
  <2>4. SortInv'
        BY <1>1, <1>6 DEF GraphInv, SortInv, Blockers, input, order
  <2>5. QED BY <2>2, <2>3, <2>4 DEF GraphInv
<1>7. CASE /\ color[n] = "white"
           /\ Enter(n, rest(n))
           /\ UNCHANGED <<pc, report>>
      BY <1>1, <1>4, <1>5, <1>7, EnterKeeps
<1>8. CASE /\ ~ Closes(n) /\ color[n] # "white"
           /\ todo' = rest(n)
           /\ UNCHANGED <<pc, color, stack, report>>
  <2>1. color[n] = "black"
        BY <1>0, <1>4, <1>8 DEF Closes
  <2>2. QED BY <1>1, <1>3, <1>8, <2>1, PassKeeps
<1>9. QED BY <1>3, <1>6, <1>7, <1>8

\* The story on top becomes black: what it blocks is black, and it is not.
LEMMA ReturnKeeps ==
    ASSUME GraphInv, Return
    PROVE  GraphInv'
<1> USE DEF input, order
<1> DEFINE n == Top
           L == Len(stack)
<1>0. /\ items \subseteq Story /\ stack \in Seq(Story)
      /\ color \in [Story -> {"white", "gray", "black"}]
      /\ todo \in [Story -> SUBSET Story]
      /\ StackInv /\ TodoInv /\ BlackInv /\ Known
      BY DEF GraphInv, GraphTypeOK, SearchInv, Return
<1>1. /\ L \in Nat /\ L > 0 /\ n \in Story /\ n = stack[L]
      /\ color[n] = "gray" /\ todo[n] = {}
      BY <1>0 DEF Return, Top, StackInv, OnStack
<1>2. /\ stack' \in Seq(Story) /\ Len(stack') = L - 1
      /\ \A i \in 1..(L - 1) : stack'[i] = stack[i]
  <2>1. \A i \in 1..(L - 1) : stack[i] \in Story
        BY <1>0
  <2>2. 1 \in Int /\ L - 1 \in Int /\ (L - 1) - 1 + 1 = L - 1
        BY <1>1
  <2>3. /\ SubSeq(stack, 1, L - 1) \in Seq(Story)
        /\ Len(SubSeq(stack, 1, L - 1)) = IF 1 <= L - 1 THEN (L - 1) - 1 + 1 ELSE 0
        /\ \A i \in 1..((L - 1) - 1 + 1) : SubSeq(stack, 1, L - 1)[i] = stack[1 + i - 1]
        BY <2>1, <2>2, SubSeqProperties
  <2>4. stack' = SubSeq(stack, 1, L - 1)
        BY DEF Return
  <2>5. QED BY <1>1, <2>2, <2>3, <2>4
<1>3. color' = [color EXCEPT ![n] = "black"]
      BY DEF Return, Returned
<1>4. \A m : Blocked(m)' = Blocked(m)
      BY DEF Return, Blocked
<1>5. \A m \in Blocked(n) : color[m] = "black" /\ m \in Story /\ m # n
      BY <1>0, <1>1 DEF TodoInv, Blocked
<1>6. GraphTypeOK'
      BY <1>0, <1>2, <1>3 DEF Return, GraphInv, GraphTypeOK
<1>7. StackInv'
  <2>1. \A m \in Story : OnStack(m)' <=> OnStack(m) /\ m # n
    <3>1. ASSUME NEW m \in Story, OnStack(m), m # n
          PROVE  OnStack(m)'
      <4>1. PICK i \in 1..L : stack[i] = m
            BY <3>1 DEF OnStack
      <4>2. i \in 1..(L - 1)
            BY <4>1, <3>1, <1>1
      <4>3. QED BY <4>1, <4>2, <1>2 DEF OnStack
    <3>2. ASSUME NEW m \in Story, OnStack(m)'
          PROVE  OnStack(m) /\ m # n
      <4>1. PICK i \in 1..(L - 1) : stack[i] = m
            BY <3>2, <1>2 DEF OnStack
      <4>2. i \in 1..L /\ L \in 1..L /\ i # L
            BY <4>1, <1>1
      <4>3. QED BY <4>1, <4>2, <1>0, <1>1 DEF OnStack, StackInv
    <3>3. QED BY <3>1, <3>2
  <2>2. \A m \in Story : color'[m] = "gray" <=> color[m] = "gray" /\ m # n
        BY <1>0, <1>1, <1>3
  <2>3. /\ \A i, j \in 1..Len(stack') : stack'[i] = stack'[j] => i = j
        /\ \A i \in 1..Len(stack') : stack'[i] \in items
        BY <1>0, <1>1, <1>2 DEF StackInv
  <2>4. \A i \in 1..(Len(stack') - 1) : <<stack'[i], stack'[i + 1]>> \in deps
    <3>1. ASSUME NEW i \in 1..(L - 2)
          PROVE  <<stack'[i], stack'[i + 1]>> \in deps
      <4>1. i \in 1..(L - 1) /\ i + 1 \in 1..(L - 1)
            BY <1>1
      <4>2. QED BY <4>1, <1>0, <1>2 DEF StackInv
    <3>2. Len(stack') - 1 = L - 2
          BY <1>1, <1>2
    <3>3. QED BY <3>1, <3>2
  <2>5. QED BY <2>1, <2>2, <2>3, <2>4, <1>0 DEF StackInv, Return
<1>8. TodoInv'
  <2>1. ASSUME NEW i \in 1..(L - 1), NEW m \in Blocked(stack[i]) \ todo[stack[i]]
        PROVE  color'[m] = "black" \/ (i < L - 1 /\ m = stack[i + 1])
    <3>1. i \in 1..L /\ m \in Story
          BY <1>1 DEF Blocked
    <3>2. color[m] = "black" \/ (i < L /\ m = stack[i + 1])
          BY <3>1, <2>1, <1>0 DEF TodoInv
    <3>3. CASE color[m] = "black"
          BY <3>1, <3>3, <1>0, <1>3
    <3>4. CASE i = L - 1 /\ m = stack[i + 1]
          BY <3>4, <1>0, <1>1, <1>3
    <3>5. CASE i < L - 1 /\ m = stack[i + 1]
          BY <3>5
    <3>6. QED BY <3>2, <3>3, <3>4, <3>5, <1>1
  <2>2. \A m \in Story : todo'[m] \subseteq Blocked(m)'
        BY <1>0, <1>4 DEF TodoInv, Return
  <2>3. \A i \in 1..(L - 1) : i < L - 1 => stack'[i + 1] = stack[i + 1]
        BY <1>1, <1>2
  <2>4. todo' = todo
        BY DEF Return
  <2>5. QED BY <2>1, <2>2, <2>3, <2>4, <1>2, <1>4 DEF TodoInv
<1>9. BlackInv'
  <2>1. \A m \in Story : color'[m] = "black" <=> color[m] = "black" \/ m = n
        BY <1>0, <1>1, <1>3
  <2>2. \A m \in Story : color'[m] = "black" => \A k \in Blocked(m)' : color'[k] = "black"
    <3>1. ASSUME NEW m \in Story, color'[m] = "black", NEW k \in Blocked(m)
          PROVE  color'[k] = "black"
      <4>1. k \in Story
            BY DEF Blocked
      <4>2. color[k] = "black"
            BY <3>1, <2>1, <1>0, <1>5 DEF BlackInv
      <4>3. QED BY <4>1, <4>2, <2>1
    <3>2. QED BY <3>1, <1>4
  <2>3. ASSUME NEW S \in SUBSET Story, S # {}, \A m \in S : color'[m] = "black"
        PROVE  \E m \in S : \A k \in S : <<k, m>> \notin deps
    <3>1. CASE n \notin S
      <4>1. \A m \in S : color[m] = "black"
            BY <3>1, <2>3, <2>1
      <4>2. QED BY <4>1, <2>3, <1>0 DEF BlackInv
    <3>2. CASE n \in S
      <4>1. ASSUME NEW k \in S, <<k, n>> \in deps
            PROVE  FALSE
        <5>1. k \in Story /\ n \in Blocked(k)
              BY <4>1, <1>1 DEF Blocked
        <5>2. k # n
              BY <5>1, <1>5
        <5>3. color[k] = "black"
              BY <5>1, <5>2, <2>3, <2>1
        <5>4. color[n] = "black"
              BY <5>1, <5>3, <1>0 DEF BlackInv
        <5>5. QED BY <5>4, <1>1
      <4>2. QED BY <4>1, <3>2
    <3>3. QED BY <3>1, <3>2
  <2>4. deps' = deps
        BY DEF Return
  <2>5. QED BY <2>2, <2>3, <2>4 DEF BlackInv
<1>10. SearchInv'
      BY <1>0, <1>7, <1>8, <1>9 DEF SearchInv, Accepted, Known, Return
<1>11. SortInv'
      BY DEF GraphInv, SortInv, Blockers, Return
<1>12. QED BY <1>6, <1>10, <1>11 DEF GraphInv
-----------------------------------------------------------------------------
(* The order *)

LEMMA AcceptKeeps ==
    ASSUME GraphInv, Accept
    PROVE  GraphInv'
<1> USE DEF input
<1>0. /\ items \subseteq Story /\ stack = <<>> /\ sorted = <<>> /\ sorted' = <<>>
      /\ color \in [Story -> {"white", "gray", "black"}]
      /\ StackInv /\ BlackInv /\ Known
      BY DEF GraphInv, GraphTypeOK, SearchInv, SortInv, Accept
<1>1. Acyclic
  <2>1. \A n \in items : color[n] = "black"
        BY <1>0 DEF Accept, StackInv, OnStack
  <2>2. QED BY <2>1, <1>0 DEF Acyclic, BlackInv
<1>2. \A n \in Story : InDegree(n) \in Nat /\ InDegree(n) = Cardinality(Blockers(n) \ {})
  <2>1. \A n \in Story : Blockers(n) \ {} = Blockers(n)
        OBVIOUS
  <2>2. QED BY <2>1, BlockersAreFinite DEF InDegree
<1>3. GraphTypeOK'
      BY <1>0, <1>2 DEF GraphInv, GraphTypeOK, Accept, search
<1>4. SearchInv'
      BY <1>0, <1>1 DEF SearchInv, Accepted, Accept, Acyclic, Known
<1>5. SortInv'
  <2>1. Elements(sorted') = {} /\ items \ {} = items
        BY <1>0 DEF Elements
  <2>2. \A n \in items : inDegree'[n] = Cardinality(Blockers(n) \ {})
        BY <1>0, <1>2 DEF Accept
  <2>3. \A n \in items : inDegree'[n] = 0 <=> Blockers(n) = {}
        BY <1>0, <1>2, BlockersAreFinite, FS_EmptySet DEF Accept, InDegree
  <2>4. queue' = {n \in items' \ Elements(sorted') : inDegree'[n] = 0}
        BY <2>1, <2>3 DEF Accept
  <2>5. \A n : Blockers(n)' = Blockers(n)
        BY DEF Blockers, Accept
  <2>6. \A n \in items' \ Elements(sorted') :
            inDegree'[n] = Cardinality(Blockers(n)' \ Elements(sorted'))
        BY <2>1, <2>2, <2>5 DEF Accept
  <2>7. pc' = "sort"
        BY DEF Accept
  <2>8. QED BY <1>0, <2>4, <2>6, <2>7 DEF SortInv
<1>6. QED BY <1>3, <1>4, <1>5 DEF GraphInv

LEMMA SortNextKeeps ==
    ASSUME GraphInv, SortNext
    PROVE  GraphInv'
<1> USE DEF input
<1> DEFINE E == Elements(sorted)
           L == Len(sorted)
<1>0. /\ items \subseteq Story /\ sorted \in Seq(Story) /\ L \in Nat
      /\ inDegree \in [Story -> Nat]
      /\ SortInv /\ Acyclic /\ Known /\ pc = "sort" /\ pc' = "sort"
      /\ UNCHANGED <<input, search>>
      BY DEF GraphInv, GraphTypeOK, SearchInv, Accepted, SortNext
<1>1. PICK n \in queue :
        /\ sorted' = Append(sorted, n)
        /\ inDegree' = [m \in Story |-> IF m \in Blocked(n) THEN inDegree[m] - 1
                                                            ELSE inDegree[m]]
        /\ queue' = (queue \ {n}) \cup Freed(n)
      BY DEF SortNext
<1>2. /\ queue = {m \in items \ E : inDegree[m] = 0}
      /\ \A m \in items \ E : inDegree[m] = Cardinality(Blockers(m) \ E)
      BY <1>0 DEF SortInv
<1>3. n \in items /\ n \in Story /\ n \notin E /\ inDegree[n] = 0
      BY <1>0, <1>2
<1>4. \A m : Blockers(m)' = Blockers(m)
      BY <1>0 DEF Blockers
<1>5. /\ Len(sorted') = L + 1 /\ sorted'[L + 1] = n
      /\ \A i \in 1..L : sorted'[i] = sorted[i]
      /\ Elements(sorted') = E \cup {n}
      BY <1>0, <1>1, <1>3, AppendElements
<1>6. Blockers(n) \subseteq E
  <2>1. Cardinality(Blockers(n) \ E) = 0
        BY <1>2, <1>3
  <2>2. Blockers(n) \ E = {}
        BY <2>1, <1>3, BlockersAreFinite, FS_EmptySet
  <2>3. QED BY <2>2
<1>7. \A m \in Blocked(n) : m \in items /\ m \in Story /\ m \notin E /\ m # n
  <2>1. ASSUME NEW m \in Blocked(n)
        PROVE  m \in items /\ m \in Story /\ n \in Blockers(m)
        BY <1>0, <1>3 DEF Blocked, Blockers, Known
  <2>2. ASSUME NEW m \in Blocked(n), m \in E
        PROVE  FALSE
    <3>1. PICK i \in 1..L : sorted[i] = m
          BY <2>2 DEF Elements
    <3>2. PICK j \in 1..(i - 1) : sorted[j] = n
          BY <3>1, <2>1, <1>0 DEF SortInv
    <3>3. j \in 1..L
          BY <3>2, <3>1, <1>0
    <3>4. QED BY <3>2, <3>3, <1>3 DEF Elements
  <2>3. n \notin Blocked(n)
        BY <1>6, <1>3, <2>1
  <2>4. QED BY <2>1, <2>2, <2>3
<1>8. \A m \in items \ (E \cup {n}) :
        /\ inDegree'[m] \in Nat
        /\ inDegree'[m] = Cardinality(Blockers(m) \ (E \cup {n}))
  <2>1. ASSUME NEW m \in items \ (E \cup {n}), m \in Blocked(n)
        PROVE  /\ inDegree'[m] \in Nat
               /\ inDegree'[m] = Cardinality(Blockers(m) \ (E \cup {n}))
    <3>1. m \in Story /\ n \in Blockers(m) \ E
          BY <2>1, <1>3, <1>0 DEF Blocked, Blockers
    <3>2. Blockers(m) \ (E \cup {n}) = (Blockers(m) \ E) \ {n}
          OBVIOUS
    <3>3. IsFiniteSet(Blockers(m) \ E) /\ Cardinality(Blockers(m) \ E) \in Nat
          BY <3>1, BlockersAreFinite
    <3>4. Cardinality((Blockers(m) \ E) \ {n}) = Cardinality(Blockers(m) \ E) - 1
          BY <3>1, <3>3, FS_RemoveElement
    <3>5. Cardinality(Blockers(m) \ (E \cup {n})) \in Nat
          BY <3>1, BlockersAreFinite
    <3>6. inDegree'[m] = inDegree[m] - 1 /\ inDegree[m] = Cardinality(Blockers(m) \ E)
          BY <2>1, <3>1, <1>1, <1>2
    <3>7. QED BY <3>2, <3>4, <3>5, <3>6
  <2>2. ASSUME NEW m \in items \ (E \cup {n}), m \notin Blocked(n)
        PROVE  /\ inDegree'[m] \in Nat
               /\ inDegree'[m] = Cardinality(Blockers(m) \ (E \cup {n}))
    <3>1. m \in Story /\ n \notin Blockers(m)
          BY <2>2, <1>3, <1>0 DEF Blocked, Blockers
    <3>2. Blockers(m) \ (E \cup {n}) = Blockers(m) \ E
          BY <3>1
    <3>3. inDegree'[m] = inDegree[m] /\ inDegree[m] = Cardinality(Blockers(m) \ E)
          BY <2>2, <3>1, <1>1, <1>2
    <3>4. QED BY <3>1, <3>2, <3>3, <1>0
  <2>3. QED BY <2>1, <2>2
<1>9. GraphTypeOK'
  <2>1. inDegree' \in [Story -> Nat]
    <3>1. ASSUME NEW m \in Story
          PROVE  inDegree'[m] \in Nat
      <4>1. CASE m \in Blocked(n)
            BY <4>1, <1>7, <1>8
      <4>2. CASE m \notin Blocked(n)
            BY <4>2, <1>0, <1>1
      <4>3. QED BY <4>1, <4>2
    <3>2. QED BY <3>1, <1>1
  <2>2. sorted' \in Seq(Story)
        BY <1>0, <1>1, <1>3
  <2>3. queue' \subseteq Story
        BY <1>0, <1>1, <1>2 DEF Freed, Blocked
  <2>4. QED BY <2>1, <2>2, <2>3, <1>0 DEF GraphInv, GraphTypeOK, search
<1>10. SearchInv'
      BY <1>0 DEF GraphInv, SearchInv, Accepted, Acyclic, Known
<1>11. SortInv'
  <2>1. \A i, j \in 1..Len(sorted') : sorted'[i] = sorted'[j] => i = j
    <3>1. \A i \in 1..L : sorted[i] # n
          BY <1>3 DEF Elements
    <3>2. QED BY <3>1, <1>0, <1>5 DEF SortInv
  <2>2. \A i \in 1..Len(sorted') : sorted'[i] \in items
        BY <1>0, <1>3, <1>5 DEF SortInv
  <2>3. ASSUME NEW i \in 1..Len(sorted'), NEW m \in Blockers(sorted'[i])
        PROVE  \E j \in 1..(i - 1) : sorted'[j] = m
    <3>1. CASE i = L + 1
      <4>1. m \in E
            BY <3>1, <2>3, <1>5, <1>6
      <4>2. PICK j \in 1..L : sorted[j] = m
            BY <4>1 DEF Elements
      <4>3. j \in 1..(i - 1) /\ sorted'[j] = m
            BY <4>2, <3>1, <1>0, <1>5
      <4>4. QED BY <4>3
    <3>2. CASE i # L + 1
      <4>1. i \in 1..L /\ m \in Blockers(sorted[i])
            BY <3>2, <2>3, <1>0, <1>5
      <4>2. PICK j \in 1..(i - 1) : sorted[j] = m
            BY <4>1, <1>0 DEF SortInv
      <4>3. j \in 1..L
            BY <4>1, <4>2, <1>0
      <4>4. QED BY <4>2, <4>3, <1>5
    <3>3. QED BY <3>1, <3>2
  <2>4. queue' = {m \in items \ (E \cup {n}) : inDegree'[m] = 0}
    <3>1. ASSUME NEW m \in queue'
          PROVE  m \in items \ (E \cup {n}) /\ inDegree'[m] = 0
      <4>1. CASE m \in Freed(n)
            BY <4>1, <1>1, <1>7 DEF Freed
      <4>2. CASE m \in queue \ {n}
        <5>1. m \in items \ (E \cup {n}) /\ inDegree[m] = 0 /\ m \in Story
              BY <4>2, <1>2, <1>0
        <5>2. inDegree'[m] \in Nat
              BY <5>1, <1>8
        <5>3. QED BY <5>1, <5>2, <1>1
      <4>3. QED BY <3>1, <4>1, <4>2, <1>1
    <3>2. ASSUME NEW m \in items \ (E \cup {n}), inDegree'[m] = 0
          PROVE  m \in queue'
      <4>1. CASE m \in Blocked(n)
        <5>1. inDegree[m] - 1 = 0 /\ inDegree[m] \in Nat
              BY <4>1, <3>2, <1>0, <1>1
        <5>2. QED BY <5>1, <4>1, <1>1 DEF Freed
      <4>2. CASE m \notin Blocked(n)
            BY <4>2, <3>2, <1>0, <1>1, <1>2
      <4>3. QED BY <4>1, <4>2
    <3>3. QED BY <3>1, <3>2
  <2>5. \A i \in 1..Len(sorted') : \A m \in Blockers(sorted[i])' :
            \E j \in 1..(i - 1) : sorted'[j] = m
    <3>1. SUFFICES ASSUME NEW i \in 1..Len(sorted'), NEW m \in Blockers(sorted[i])'
                   PROVE  \E j \in 1..(i - 1) : sorted'[j] = m
          OBVIOUS
    <3>2. m \in Blockers(sorted'[i])
          BY <1>0 DEF Blockers
    <3>3. QED BY <2>3, <3>2
  <2>6. \A m \in items \ (E \cup {n}) :
            inDegree'[m] = Cardinality(Blockers(m)' \ (E \cup {n}))
        BY <1>4, <1>8
  <2>7. QED BY <2>1, <2>2, <2>4, <2>5, <2>6, <1>0, <1>5 DEF SortInv
<1>12. QED BY <1>9, <1>10, <1>11 DEF GraphInv

\* When the queue is empty, no story is left: of the stories left one would
\* have no blocker among them.
LEMMA SortEndKeeps ==
    ASSUME GraphInv, SortEnd
    PROVE  GraphInv'
<1> DEFINE E == Elements(sorted)
           L == Len(sorted)
<1>0. /\ items \subseteq Story /\ sorted \in Seq(Story) /\ L \in Nat
      /\ SortInv /\ Acyclic /\ Known /\ pc = "sort" /\ queue = {}
      /\ UNCHANGED <<input, search, order>>
      BY DEF GraphInv, GraphTypeOK, SearchInv, Accepted, SortEnd
<1>1. items \ E = {}
  <2>1. ASSUME items \ E # {}
        PROVE  FALSE
    <3>1. PICK n \in items \ E : \A m \in items \ E : <<m, n>> \notin deps
          BY <2>1, <1>0 DEF Acyclic
    <3>2. Blockers(n) \ E = {}
          BY <3>1, <1>0 DEF Blockers, Known
    <3>3. inDegree[n] = 0
          BY <3>1, <3>2, <1>0, FS_EmptySet DEF SortInv
    <3>4. QED BY <3>1, <3>3, <1>0 DEF SortInv
  <2>2. QED BY <2>1
<1>2. E = items
      BY <1>0, <1>1 DEF Elements, SortInv
<1>3. Cardinality(items) = L
  <2>1. DOMAIN sorted = 1..L /\ sorted \in [1..L -> items]
        BY <1>0 DEF SortInv
  <2>2. sorted \in Surjection(1..L, items)
        BY <2>1, <1>2 DEF Surjection, Elements
  <2>3. sorted \in Injection(1..L, items)
        BY <2>1, <1>0 DEF SortInv, Injection, IsInjective
  <2>4. ExistsBijection(1..L, items)
        BY <2>2, <2>3 DEF ExistsBijection, Bijection
  <2>5. IsFiniteSet(1..L) /\ Cardinality(1..L) = L
        BY SMTT(30), <1>0, FS_Interval
  <2>6. QED BY <2>4, <2>5, FS_Bijection
<1>4. pc' = "sorted"
      BY <1>3 DEF SortEnd
<1>5. GraphTypeOK'
      BY <1>0, <1>4 DEF GraphInv, GraphTypeOK, Outcome, input, search, order
<1>6. SearchInv'
      BY <1>0, <1>4 DEF SearchInv, Accepted, Acyclic, Known, input
<1>7. SortInv'
      BY <1>0, <1>4 DEF SortInv, Blockers, input, order
<1>8. QED BY <1>5, <1>6, <1>7 DEF GraphInv

-----------------------------------------------------------------------------
(* Theorems *)

LEMMA NextKeepsGraphInv == GraphInv /\ [GraphNext]_graphVars => GraphInv'
<1> SUFFICES ASSUME GraphInv, [GraphNext]_graphVars
             PROVE  GraphInv'
    OBVIOUS
<1>1. CASE UNCHANGED graphVars
  <2>1. GraphTypeOK' /\ SortInv'
        BY <1>1 DEF GraphInv, GraphTypeOK, SortInv, Blockers, graphVars, input, search, order
  <2>2. SearchInv'
        BY <1>1 DEF GraphInv, SearchInv, StackInv, TodoInv, BlackInv, OnStack, Blocked,
           Accepted, Acyclic, Known, graphVars, input, search, order
  <2>3. QED BY <2>1, <2>2 DEF GraphInv
<1>2. QED BY <1>1, BuildDagKeeps, EnterRootKeeps, VisitKeeps, ReturnKeeps, AcceptKeeps,
         SortNextKeeps, SortEndKeeps DEF GraphNext

THEOREM GraphInvariant == GraphSpec => []GraphInv
<1>1. QED BY InitGraphInv, NextKeepsGraphInv, PTL DEF GraphSpec

\* A plan that build_dag accepts has no circular dependency.
THEOREM AcceptedPlansAreAcyclic == GraphSpec => []AcceptedIsAcyclic
<1>1. GraphInv => AcceptedIsAcyclic
      BY DEF GraphInv, SearchInv, AcceptedIsAcyclic
<1>2. QED BY <1>1, GraphInvariant, PTL

\* A plan that is turned down for a cycle has one.
THEOREM RejectedPlansAreCyclic == GraphSpec => []RejectedIsCyclic
<1>1. GraphInv => RejectedIsCyclic
      BY DEF GraphInv, SearchInv, RejectedIsCyclic
<1>2. QED BY <1>1, GraphInvariant, PTL

\* The two algorithms agree: what detect_cycle accepts, topological_sort sorts.
THEOREM AcceptedPlansAreSorted == GraphSpec => []SortSucceeds
<1>1. GraphInv => SortSucceeds
      BY DEF GraphInv, SortInv, SortSucceeds
<1>2. QED BY <1>1, GraphInvariant, PTL

\* Blockers come first.
THEOREM SortedAfterBlockers == GraphSpec => []SortRespectsDependencies
<1>1. ASSUME GraphInv
      PROVE  SortRespectsDependencies
  <2>1. ASSUME NEW i \in 1..Len(sorted), NEW m \in Blockers(sorted[i])
        PROVE  m \in Elements(SubSeq(sorted, 1, i - 1))
    <3>1. sorted \in Seq(Story) /\ Len(sorted) \in Nat
          BY <1>1 DEF GraphInv, GraphTypeOK
    <3>2. PICK j \in 1..(i - 1) : sorted[j] = m
          BY <1>1 DEF GraphInv, SortInv
    <3>3. \A k \in 1..(i - 1) : sorted[k] \in Story
          BY <3>1
    <3>4. /\ Len(SubSeq(sorted, 1, i - 1)) = i - 1
          /\ \A k \in 1..(i - 1) : SubSeq(sorted, 1, i - 1)[k] = sorted[k]
      <4>1. /\ Len(SubSeq(sorted, 1, i - 1)) = IF 1 <= i - 1 THEN (i - 1) - 1 + 1 ELSE 0
            /\ \A k \in 1..((i - 1) - 1 + 1) :
                    SubSeq(sorted, 1, i - 1)[k] = sorted[1 + k - 1]
            BY <3>1, <3>3, SubSeqProperties
      <4>2. QED BY <4>1, <3>1
    <3>5. QED BY <3>2, <3>4 DEF Elements
  <2>2. QED BY <2>1 DEF SortRespectsDependencies
<1>2. QED BY <1>1, GraphInvariant, PTL

\* As long as a story of an accepted wave is open, an open one is ready.
THEOREM WavesNeverStall == GraphSpec => []WaveNeverStalls
<1>1. ASSUME GraphInv
      PROVE  WaveNeverStalls
  <2>1. ASSUME Accepted, NEW status \in [Story -> {"pending", "done", "cancelled"}],
               NEW o \in items, status[o] = "pending"
        PROVE  \E n \in FindReady(status) \ FindBlocked(status) : status[n] = "pending"
    <3>1. Acyclic /\ items \subseteq Story /\ Known
          BY <1>1, <2>1 DEF GraphInv, GraphTypeOK, SearchInv, Accepted
    <3> DEFINE S == {n \in items : status[n] = "pending"}
    <3>2. S \subseteq items /\ o \in S
          BY <2>1
    <3>3. PICK n \in S : \A m \in S : <<m, n>> \notin deps
          BY <3>1, <3>2 DEF Acyclic
    <3>4. \A m \in Blockers(n) : Resolved(status, m)
          BY <3>1, <3>3 DEF Blockers, Known, Resolved
    <3>5. n \in FindReady(status) /\ n \notin FindBlocked(status)
          BY <3>3, <3>4 DEF FindReady, FindBlocked
    <3>6. QED BY <3>3, <3>5
  <2>2. QED BY <2>1 DEF WaveNeverStalls
<1>2. QED BY <1>1, GraphInvariant, PTL

\* build_dag and topological_sort do what they promise, as a caller sees it.
THEOREM CyclesAreFoundExactly == GraphSpec => []CyclesAreFound
<1>1. QED BY AcceptedPlansAreAcyclic, RejectedPlansAreCyclic, PTL DEF CyclesAreFound

THEOREM PlansAreSorted == GraphSpec => []SortIsTopological
<1>1. QED BY AcceptedPlansAreSorted, SortedAfterBlockers, PTL DEF SortIsTopological

\* The search keeps its stack, its colours and its path in order.
THEOREM GraphTypeCorrect == GraphSpec => []GraphTypeOK
<1>1. GraphInv => GraphTypeOK
      BY DEF GraphInv
<1>2. QED BY <1>1, GraphInvariant, PTL
---------------------------------------------------------------------------
(* Planning. *)

USE MaxSpecsAssumption, MaxWavesAssumption, MaxPlansAssumption DEF SpecId, WaveId

---------------------------------------------------------------------------
(* Types. *)

LEMMA RowsAreTyped ==
    /\ AbsentSpec \in SpecRow
    /\ FreeTurn \in TurnRow
    /\ NoSpecCall \in SpecCall
    /\ NoWave \in WaveRow
    /\ FreeStream \in StreamRow
    /\ NoPlanCall \in PlanCall
<1>1. AnyName \in Name
  BY NameAssumption DEF AnyName
<1>2. 1 \in 1 .. MaxSpecs /\ 1 \in 1 .. MaxWaves
  OBVIOUS
<1> QED
  BY <1>1, <1>2 DEF AbsentSpec, SpecRow, SpecStatus, FreeTurn, TurnRow,
     NoSpecCall, SpecCall, NoWave, WaveRow, FreeStream, StreamRow, NoPlanCall,
     PlanCall

THEOREM InitTyped == Init => TypeOK
<1>1. /\ TRUE \in BOOLEAN /\ FALSE \in BOOLEAN /\ <<>> \in Seq(Plan)
  OBVIOUS
<1> QED
  BY <1>1, RowsAreTyped DEF Init, SpecsInit, TypeOK, SpecsTypeOK

\* The commands and turns of spec rows.
LEMMA SpecStepTyped == SpecsTypeOK /\ SpecStep => SpecsTypeOK'
<1> SUFFICES ASSUME SpecsTypeOK, SpecStep PROVE SpecsTypeOK'
  OBVIOUS
<1> USE DEF SpecsTypeOK
<1>1. ASSUME NEW c \in Client, NEW n \in Name, BeginNew(c, n)
      PROVE  SpecsTypeOK'
  BY <1>1, RowsAreTyped DEF BeginNew, SpecCall, SpecRow
<1>2. ASSUME NEW t \in Turn, NEW i \in SpecId, StartTurn(t, i)
      PROVE  turn' \in [Turn -> TurnRow]
  BY <1>2, RowsAreTyped DEF StartTurn, TurnRow
<1>3. ASSUME NEW i \in SpecId, StartOrFail(i)
      PROVE  turn' \in [Turn -> TurnRow]
  BY <1>2, <1>3 DEF StartOrFail
<1>4. ASSUME NEW c \in Client, Answered(c)
      PROVE  call' \in [Client -> SpecCall]
  BY <1>4, RowsAreTyped DEF Answered
<1>5. ASSUME NEW c \in Client, FinishNew(c)
      PROVE  SpecsTypeOK'
  <2>1. PICK i \in NextSpec :
            /\ spec' = [spec EXCEPT ![i] =
                           [name |-> call[c].seen.name, status |-> "draft",
                            active |-> TRUE, claude |-> FALSE]]
            /\ StartOrFail(i)
    BY <1>5 DEF FinishNew
  <2>2. i \in SpecId
    BY DEF NextSpec
  <2>3. call[c].seen.name \in Name
    BY DEF SpecCall, SpecRow
  <2>4. spec' \in [SpecId -> SpecRow]
    BY <2>1, <2>2, <2>3 DEF SpecRow, SpecStatus
  <2> QED
    BY <2>1, <2>2, <2>4, <1>3, <1>4, <1>5 DEF FinishNew
<1>6. ASSUME NEW c \in Client, NEW i \in SpecId, Answer(c, i)
      PROVE  SpecsTypeOK'
  BY <1>6, <1>2 DEF Answer
<1>7. ASSUME NEW c \in Client, NEW op \in SpecOps, BeginSpecCommand(c, op)
      PROVE  SpecsTypeOK'
  <2>1. PICK i \in Targets(op) :
            call' = [call EXCEPT ![c] =
                        [op |-> op, spec |-> i, seen |-> spec[i]]]
    BY <1>7 DEF BeginSpecCommand
  <2>2. i \in SpecId
    BY DEF Targets, Named, Present
  <2> QED
    BY <2>1, <2>2, <1>7 DEF BeginSpecCommand, SpecCall
<1>8. ASSUME NEW c \in Client, FinishResume(c)
      PROVE  SpecsTypeOK'
  <2>1. call[c].spec \in SpecId
    BY DEF SpecCall
  <2> QED
    BY <2>1, <1>3, <1>4, <1>8 DEF FinishResume, SpecRow
<1>9. ASSUME NEW c \in Client, FinishSpecCommand(c)
      PROVE  SpecsTypeOK'
  <2>1. call[c].spec \in SpecId /\ call[c].seen \in SpecRow
    BY DEF SpecCall
  <2>2. ASSUME NEW now \in SpecRow, NEW op, NEW seen \in SpecRow
        PROVE  Ended(now, op, seen) \in SpecRow
    <3>1. Moved(op, seen.status) \in SpecStatus
      BY DEF Moved, SpecRow, SpecStatus
    <3> QED
      BY <3>1 DEF Ended, SpecRow
  <2> QED
    BY <2>1, <2>2, <1>4, <1>9 DEF FinishSpecCommand
<1>10. ASSUME NEW t \in Turn, TurnStep(t)
       PROVE  SpecsTypeOK'
  <2>1. turn[t] \in TurnRow /\ turn[t].spec \in SpecId
    BY DEF TurnRow
  <2>2. CASE TurnFailsToSpawn(t)
    BY <2>1, <2>2, RowsAreTyped DEF TurnFailsToSpawn, SpecRow
  <2>3. CASE TurnSpawns(t)
    BY <2>1, <2>3 DEF TurnSpawns, TurnRow
  <2>4. CASE WriteSpecFile(t)
    BY <2>1, <2>4 DEF WriteSpecFile, SpecRow
  <2>5. CASE TurnEnds(t)
    <3>1. PICK id \in BOOLEAN :
              turn' = [turn EXCEPT ![t].pc = "ended", ![t].id = id,
                                   ![t].file = file[spec[turn[t].spec].name]]
      BY <2>5 DEF TurnEnds
    <3>2. file[spec[turn[t].spec].name] \in BOOLEAN
      BY <2>1 DEF SpecRow
    <3>3. ASSUME NEW f \in BOOLEAN, NEW r \in TurnRow
          PROVE  [r EXCEPT !.pc = "ended", !.id = id, !.file = f] \in TurnRow
      <4>1. CASE id = TRUE
        BY <4>1 DEF TurnRow
      <4>2. CASE id = FALSE
        BY <4>2 DEF TurnRow
      <4> QED
        BY <4>1, <4>2
    <3>4. turn' \in [Turn -> TurnRow]
      BY <2>1, <3>1, <3>2, <3>3
    <3> QED
      BY <2>5, <3>4 DEF TurnEnds
  <2>6. CASE StoreTurn(t)
    <3>1. ASSUME NEW r \in SpecRow, NEW k \in TurnRow
          PROVE  AfterTurn(r, k) \in SpecRow
      <4>1. /\ k.id \in BOOLEAN /\ r.claude \in BOOLEAN
            /\ (k.id \/ r.claude) \in BOOLEAN
        BY Zenon DEF TurnRow, SpecRow
      <4>2. r \in SpecRow
        OBVIOUS
      <4> DEFINE went == k.id \/ r.claude
      <4>3. went \in BOOLEAN
        BY <4>1
      <4> HIDE DEF went
      <4>4. /\ [r EXCEPT !.active = FALSE, !.claude = k.id] \in SpecRow
            /\ [r EXCEPT !.active = TRUE, !.claude = went] \in SpecRow
        BY <4>1, <4>2, <4>3 DEF SpecRow
      <4> QED
        BY <4>4 DEF AfterTurn, went
    <3> QED
      BY <2>1, <2>6, <3>1, RowsAreTyped DEF StoreTurn
  <2> QED
    BY <1>10, <2>2, <2>3, <2>4, <2>5, <2>6 DEF TurnStep
<1> QED
  BY <1>1, <1>5, <1>6, <1>7, <1>8, <1>9, <1>10 DEF SpecStep, SpecCommand

\* What the commands and streams of waves do to spec rows.
LEMMA StatusTyped ==
    ASSUME SpecsTypeOK, NEW S, NEW status \in SpecStatus,
           spec' = [i \in SpecId |->
                       IF i \in S THEN [spec[i] EXCEPT !.status = status]
                       ELSE spec[i]]
    PROVE  spec' \in [SpecId -> SpecRow]
BY DEF SpecsTypeOK, SpecRow

LEMMA PlanCommandTyped ==
    ASSUME TypeOK, NEW c \in Client, PlanCommand(c)
    PROVE  TypeOK'
<1> USE DEF TypeOK
<1>1. ASSUME Reply(c)
      PROVE  planCall' \in [Client -> PlanCall]
  BY <1>1, RowsAreTyped DEF Reply
<1>2. ASSUME NEW w \in WaveId, NEW S \in SUBSET SpecId, StartStream(w, S)
      PROVE  stream' \in [Stream -> StreamRow]
  BY <1>2 DEF StartStream, StreamRow
<1>3. ASSUME NEW w \in WaveId, PlanDeleted(w)
      PROVE  plans' \in [WaveId -> Seq(Plan)]
  <2>1. <<>> \in Seq(Plan)
    OBVIOUS
  <2> QED
    BY <1>3, <2>1 DEF PlanDeleted
<1>4. ASSUME NEW w \in WaveId, SpecsFreed(w), UNCHANGED <<file, turn, call>>
      PROVE  SpecsTypeOK'
  BY <1>4, StatusTyped DEF SpecsFreed, SpecStatus, SpecsTypeOK
<1>5. ASSUME UNCHANGED specVars
      PROVE  SpecsTypeOK'
  BY <1>5 DEF specVars, SpecsTypeOK
<1>6. /\ planCall[c] \in PlanCall
      /\ planCall[c].wave \in WaveId
      /\ planCall[c].specs \in SUBSET SpecId
      /\ planCall[c].number \in Nat
  BY DEF PlanCall
<1>7. \A w : SpecsOf(w) \in SUBSET SpecId
  BY DEF SpecsOf
<1>8. CASE BeginGenerate(c) /\ UNCHANGED specVars
  <2>1. PICK S \in Chosen, n \in 1 .. MaxWaves, twice \in BOOLEAN :
            Ask(c, [op |-> "generate", wave |-> 1, number |-> n,
                    specs |-> S, twice |-> twice])
    BY <1>8 DEF BeginGenerate
  <2>2. S \in SUBSET SpecId
    BY DEF Chosen, Unassigned, Approved, Present
  <2>3. 1 \in WaveId /\ n \in Nat
    OBVIOUS
  <2> HIDE DEF WaveId, SpecId
  <2>5. [op |-> "generate", wave |-> 1, number |-> n, specs |-> S,
         twice |-> twice] \in PlanCall
    BY <2>2, <2>3, Zenon DEF PlanCall
  <2>4. planCall' \in [Client -> PlanCall]
    BY <2>1, <2>5, Zenon DEF Ask
  <2> QED
    BY <1>5, <1>8, <2>4 DEF BeginGenerate
<1>9. ASSUME NEW op \in PlanOps, BeginPlanCommand(c, op), UNCHANGED specVars
      PROVE  TypeOK'
  <2>1. PICK w \in WaveId :
            Ask(c, [NoPlanCall EXCEPT !.op = op, !.wave = w])
    BY <1>9 DEF BeginPlanCommand
  <2>2. planCall' \in [Client -> PlanCall]
    BY <2>1, RowsAreTyped, PlanOpsAssumption DEF Ask, PlanCall
  <2> QED
    BY <1>5, <1>9, <2>2 DEF BeginPlanCommand
<1>10. CASE FinishGenerate(c) /\ UNCHANGED specVars
  <2> DEFINE k == planCall[c]
  <2>1. PICK w \in NextWave :
            /\ wave' = [wave EXCEPT ![w] =
                           [status |-> "in_progress", number |-> k.number,
                            claude |-> FALSE]]
            /\ \/ /\ link' = link \cup ({w} \X k.specs)
                  /\ StartStream(w, k.specs) \/ UNCHANGED stream
               \/ /\ \E S \in SUBSET k.specs : link' = link \cup ({w} \X S)
                  /\ UNCHANGED stream
    BY <1>10 DEF FinishGenerate
  <2>2. w \in WaveId
    BY DEF NextWave
  <2>3. wave' \in [WaveId -> WaveRow]
    BY <2>1, <2>2, <1>6 DEF WaveRow
  <2>4. link' \subseteq WaveId \X SpecId
    BY <2>1, <2>2, <1>6
  <2>5. stream' \in [Stream -> StreamRow]
    BY <2>1, <2>2, <1>2, <1>6
  <2> QED
    BY <1>1, <1>5, <1>10, <2>3, <2>4, <2>5 DEF FinishGenerate
<1>11. CASE FinishFeedback(c) /\ UNCHANGED <<file, turn, call>>
  BY <1>1, <1>2, <1>3, <1>4, <1>6, <1>7, <1>11 DEF FinishFeedback
<1>12. CASE FinishApprove(c) /\ UNCHANGED specVars
  <2>1. wave' \in [WaveId -> WaveRow]
    BY <1>6, <1>12 DEF FinishApprove, WaveRow
  <2> QED
    BY <1>1, <1>5, <1>12, <2>1 DEF FinishApprove
<1>13. CASE FinishDiscard(c) /\ UNCHANGED <<file, turn, call>>
  <2>1. wave' \in [WaveId -> WaveRow]
    BY <1>6, <1>13 DEF FinishDiscard, WaveRow
  <2> QED
    BY <1>1, <1>3, <1>4, <1>6, <1>13, <2>1 DEF FinishDiscard
<1> QED
  BY <1>8, <1>9, <1>10, <1>11, <1>12, <1>13 DEF PlanCommand

LEMMA StreamStepTyped ==
    ASSUME TypeOK, NEW s \in Stream, StreamStep(s)
    PROVE  TypeOK'
<1> USE DEF TypeOK
<1>1. ASSUME UNCHANGED specVars
      PROVE  SpecsTypeOK'
  BY <1>1 DEF specVars, SpecsTypeOK
<1>2. stream[s] \in StreamRow /\ stream[s].wave \in WaveId
  BY DEF StreamRow
<1>3. planCall' = planCall
  BY DEF StreamStep
<1>4. ASSUME NEW at \in {"free", "asked", "talking", "answered", "stored"},
             stream' = [stream EXCEPT ![s].pc = at]
      PROVE  stream' \in [Stream -> StreamRow]
  BY <1>2, <1>4 DEF StreamRow
<1>5. ASSUME stream' = [stream EXCEPT ![s] = FreeStream]
       PROVE  stream' \in [Stream -> StreamRow]
  BY <1>5, RowsAreTyped
<1>6. CASE StreamFailsToSpawn(s) /\ UNCHANGED specVars
  BY <1>1, <1>3, <1>6, RowsAreTyped DEF StreamFailsToSpawn
<1>7. CASE StreamSpawns(s) /\ UNCHANGED specVars
  <2>1. stream' \in [Stream -> StreamRow]
    BY <1>7, <1>4 DEF StreamSpawns
  <2> QED
    BY <1>1, <1>3, <1>7, <2>1 DEF StreamSpawns
<1>8. CASE StreamEnds(s) /\ UNCHANGED specVars
  <2>1. wave' \in [WaveId -> WaveRow]
    <3>1. CASE wave' = [wave EXCEPT ![stream[s].wave].claude = TRUE]
      BY <1>2, <3>1 DEF WaveRow
    <3> QED
      BY <1>8, <3>1 DEF StreamEnds
  <2>2. stream' \in [Stream -> StreamRow]
    BY <1>8, <1>4, <1>5 DEF StreamEnds
  <2> QED
    BY <1>1, <1>3, <1>8, <2>1, <2>2 DEF StreamEnds
<1>9. CASE InsertPlan(s) /\ UNCHANGED specVars
  <2> DEFINE w == stream[s].wave
  <2>1. ASSUME NEW whole \in BOOLEAN, Insert(w, whole)
        PROVE  plans' \in [WaveId -> Seq(Plan)]
    <3> DEFINE p == [whole |-> whole, work |-> "new"]
    <3>1. p \in Plan
      BY Zenon DEF Plan
    <3> HIDE DEF p
    <3>2. Append(plans[w], p) \in Seq(Plan)
      BY <1>2, <3>1
    <3>3. plans' = [plans EXCEPT ![w] = Append(plans[w], p)]
      BY <2>1 DEF Insert, p
    <3> QED
      BY <1>2, <3>2, <3>3
  <2>2. TRUE \in BOOLEAN /\ FALSE \in BOOLEAN
    OBVIOUS
  <2>3. plans' \in [WaveId -> Seq(Plan)]
    BY <1>9, <2>1, <2>2, Zenon DEF InsertPlan
  <2>4. stream' \in [Stream -> StreamRow]
    BY <1>9, <1>4, <1>5 DEF InsertPlan
  <2> QED
    BY <1>1, <1>3, <1>9, <2>3, <2>4 DEF InsertPlan
<1>10. CASE MarkSpecs(s) /\ UNCHANGED <<file, turn, call>>
  <2>1. SpecsTypeOK'
    BY <1>10, StatusTyped DEF MarkSpecs, SpecStatus, SpecsTypeOK
  <2> QED
    BY <1>3, <1>10, <2>1, RowsAreTyped DEF MarkSpecs
<1> QED
  BY <1>6, <1>7, <1>8, <1>9, <1>10 DEF StreamStep

LEMMA ExecuteTyped ==
    ASSUME TypeOK, NEW w \in WaveId, Execute(w)
    PROVE  TypeOK'
<1> USE DEF TypeOK
<1>1. ASSUME NEW k \in DOMAIN plans[w], NEW work \in {"busy", "paused"},
             SetWork(w, k, work)
      PROVE  plans' \in [WaveId -> Seq(Plan)]
  <2>1. plans[w] \in Seq(Plan) /\ plans[w][k] \in Plan
    BY <1>1
  <2> DEFINE p == [plans[w][k] EXCEPT !.work = work]
  <2>2. p \in Plan
    BY <2>1 DEF Plan
  <2>3. plans' = [plans EXCEPT ![w] = [plans[w] EXCEPT ![k] = p]]
    BY <1>1 DEF SetWork
  <2> HIDE DEF p
  <2>4. [plans[w] EXCEPT ![k] = p] \in Seq(Plan)
    BY <2>1, <2>2
  <2> QED
    BY <2>3, <2>4
<1>2. plans' \in [WaveId -> Seq(Plan)]
  BY <1>1 DEF Execute
<1> QED
  BY <1>2 DEF Execute, specVars, SpecsTypeOK

LEMMA RestartTyped == TypeOK /\ Restart => TypeOK'
<1> SUFFICES ASSUME TypeOK, Restart PROVE TypeOK'
  OBVIOUS
<1> USE DEF TypeOK, SpecsTypeOK, Restart, RestartSpecs
<1>1. spec' \in [SpecId -> SpecRow]
  BY ZenonT(60) DEF SpecRow
<1>2. file' \in [Name -> BOOLEAN]
  <2>1. PICK written \in SUBSET Talking :
            file' = [n \in Name |-> file[n] \/ n \in written]
    BY Zenon
  <2>2. \A n \in Name : (file[n] \/ n \in written) \in BOOLEAN
    BY Zenon
  <2> QED
    BY <2>1, <2>2, Zenon
<1> QED
  BY <1>1, <1>2, RowsAreTyped

LEMMA StepTyped == TypeOK /\ [Next]_vars => TypeOK'
<1> SUFFICES ASSUME TypeOK, [Next]_vars PROVE TypeOK'
  OBVIOUS
<1>1. CASE SpecStep
  BY <1>1, SpecStepTyped DEF SpecStep, TypeOK, planVars
<1>2. CASE UNCHANGED vars
  BY <1>2 DEF vars, specVars, planVars, TypeOK, SpecsTypeOK
<1> QED
  BY <1>1, <1>2, PlanCommandTyped, StreamStepTyped, ExecuteTyped, RestartTyped
  DEF Next

\* Every row the daemon stores about specs, waves and plans has the shape the
\* code reads back, whatever happens in between.
THEOREM TypeCorrect == Spec => []TypeOK
<1> QED
  BY InitTyped, StepTyped, PTL DEF Spec

---------------------------------------------------------------------------
(* Waves.  The handlers run on threads of their own: what plan.generate    *)
(* has read may be over when it writes.  But it takes part in a count from *)
(* the reads on, and the wave it opens takes its place there.              *)

\* The waves of W become those of V and the commands of G those of H: there are no
\* more of either, or a command is answered by a wave, or there is no wave.
Moves(W, V, G, H) ==
    \/ V = {}
    \/ V \subseteq W /\ H \subseteq G
    \/ \E w \in WaveId, c \in G : V \subseteq W \cup {w} /\ H \subseteq G \ {c}

\* Then there are no more of them together than there are clients.
LEMMA MovesKeepCount ==
    ASSUME NEW W \in SUBSET WaveId, NEW V \in SUBSET WaveId,
           NEW G \in SUBSET Client, NEW H \in SUBSET Client,
           Cardinality(W) + Cardinality(G) <= Cardinality(Client),
           Moves(W, V, G, H)
    PROVE  Cardinality(V) + Cardinality(H) <= Cardinality(Client)
<1>1. IsFiniteSet(W) /\ IsFiniteSet(V) /\ IsFiniteSet(G) /\ IsFiniteSet(H)
  <2>1. IsFiniteSet(WaveId) /\ IsFiniteSet(Client)
    BY FS_Interval, MaxWavesAssumption, ClientAssumption DEF WaveId
  <2> QED
    BY <2>1, FS_Subset
<1>2. /\ Cardinality(W) \in Nat /\ Cardinality(V) \in Nat
      /\ Cardinality(G) \in Nat /\ Cardinality(H) \in Nat
      /\ Cardinality(Client) \in Nat
  BY <1>1, FS_CardinalityType, ClientAssumption
<1>3. CASE V = {}
  <2>1. Cardinality(V) = 0
    BY <1>3, FS_EmptySet
  <2>2. Cardinality(H) <= Cardinality(Client)
    BY FS_Subset, ClientAssumption
  <2> QED
    BY <1>2, <2>1, <2>2
<1>4. CASE V \subseteq W /\ H \subseteq G
  <2>1. Cardinality(V) <= Cardinality(W) /\ Cardinality(H) <= Cardinality(G)
    BY <1>1, <1>4, FS_Subset
  <2> QED
    BY <1>2, <2>1
<1>5. ASSUME NEW w \in WaveId, NEW c \in G,
             V \subseteq W \cup {w}, H \subseteq G \ {c}
      PROVE  Cardinality(V) + Cardinality(H) <= Cardinality(Client)
  <2>1. /\ IsFiniteSet(W \cup {w}) /\ Cardinality(W \cup {w}) \in Nat
        /\ Cardinality(W \cup {w}) <= Cardinality(W) + 1
    <3>1. /\ IsFiniteSet(W \cup {w})
          /\ Cardinality(W \cup {w}) = IF w \in W THEN Cardinality(W)
                                       ELSE Cardinality(W) + 1
      BY <1>1, FS_AddElement
    <3> QED
      BY <1>2, <3>1
  <2>2. /\ IsFiniteSet(G \ {c}) /\ Cardinality(G \ {c}) \in Nat
        /\ Cardinality(G \ {c}) = Cardinality(G) - 1
    <3>1. /\ IsFiniteSet(G \ {c})
          /\ Cardinality(G \ {c}) = Cardinality(G) - 1
      BY <1>1, <1>5, FS_RemoveElement
    <3>2. Cardinality(G \ {c}) \in Nat
      BY <3>1, FS_CardinalityType
    <3> QED
      BY <3>1, <3>2
  <2>3. /\ Cardinality(V) <= Cardinality(W \cup {w})
        /\ Cardinality(H) <= Cardinality(G \ {c})
    BY <1>5, <2>1, <2>2, FS_Subset
  <2> QED
    BY <1>2, <2>1, <2>2, <2>3
<1> QED
  BY <1>3, <1>4, <1>5 DEF Moves

NumberedWaves(n) == {w \in Waves : wave[w].number = n}

GeneratingNumber(n) == {c \in Generating : planCall[c].number = n}

\* What a step does to drafts, numbers and what commands have read.
WavesMove ==
    /\ Moves(Drafts, Drafts', Generating, Generating')
    /\ \A n \in 1 .. MaxWaves :
           Moves(NumberedWaves(n), NumberedWaves(n)', GeneratingNumber(n),
                 GeneratingNumber(n)')
    /\ \A c \in Client : planCall'[c].op \in {"approve", "discard"}
                            => planCall'[c].wave \in Waves'

LEMMA WavesInit == Init => WavesInv
<1> SUFFICES ASSUME Init PROVE WavesInv
  OBVIOUS
<1>1. /\ Drafts = {} /\ Waves = {} /\ Generating = {}
      /\ \A c \in Client : planCall[c].op = "none"
  BY DEF Init, Drafts, Waves, Generating, NoWave, NoPlanCall
<1>2. Cardinality(Client) \in Nat /\ Cardinality({}) = 0
  BY FS_CardinalityType, FS_EmptySet, ClientAssumption
<1>3. DraftsPerClient
  BY <1>1, <1>2 DEF DraftsPerClient
<1>4. ASSUME NEW n \in 1 .. MaxWaves
      PROVE  Cardinality({w \in Waves : wave[w].number = n})
                + Cardinality({c \in Generating : planCall[c].number = n})
                <= Cardinality(Client)
  <2>1. /\ {w \in Waves : wave[w].number = n} = {}
        /\ {c \in Generating : planCall[c].number = n} = {}
    BY <1>1
  <2>2. /\ Cardinality({w \in Waves : wave[w].number = n}) = 0
        /\ Cardinality({c \in Generating : planCall[c].number = n}) = 0
    BY <2>1, FS_EmptySet, Zenon
  <2> QED
    BY <1>2, <2>2
<1>5. NumbersPerClient
  BY <1>4 DEF NumbersPerClient
<1> QED
  BY <1>1, <1>3, <1>5 DEF WavesInv

\* Steps that open no wave and start no plan.generate.
LEMMA QuietMoves ==
    ASSUME WavesInv,
           \A w \in WaveId :
              /\ wave'[w].number = wave[w].number
              /\ \/ wave'[w].status = wave[w].status
                 \/ w \in Waves /\ wave'[w].status \in {"approved", "discarded"},
           \A c \in Client :
              \/ planCall'[c] = planCall[c]
              \/ planCall'[c].op = "none"
              \/ planCall'[c].op # "generate" /\ planCall'[c].wave \in Waves
              \/ planCall'[c].op \notin {"generate", "approve", "discard"}
    PROVE  WavesMove
<1>1. Waves' = Waves /\ Drafts' \subseteq Drafts /\ Generating' \subseteq Generating
  BY DEF Waves, Drafts, Generating
<1>2. ASSUME NEW n \in 1 .. MaxWaves
      PROVE  /\ NumberedWaves(n)' \subseteq NumberedWaves(n)
             /\ GeneratingNumber(n)' \subseteq GeneratingNumber(n)
  BY <1>1 DEF NumberedWaves, GeneratingNumber, Generating, Waves
<1>3. \A c \in Client : planCall'[c].op \in {"approve", "discard"}
                           => planCall'[c].wave \in Waves'
  BY <1>1 DEF WavesInv
<1> QED
  BY <1>1, <1>2, <1>3 DEF WavesMove, Moves

\* plan.generate has looked for a draft and for the greatest number.
LEMMA BeginGenerateMoves ==
    ASSUME TypeOK, WavesInv, NEW c \in Client, BeginGenerate(c)
    PROVE  WavesMove
<1>1. PICK n \in 1 .. MaxWaves :
          /\ FollowsAll(n)
          /\ planCall'[c].number = n
  BY DEF BeginGenerate, Ask, TypeOK
<1>2. /\ Drafts = {} /\ wave' = wave /\ planCall'[c].op = "generate"
      /\ \A d \in Client : d # c => planCall'[d] = planCall[d]
  BY DEF BeginGenerate, ReadsNoDraft, Ask, TypeOK
<1>3. Drafts' = {} /\ Waves' = Waves
  BY <1>2 DEF Drafts, Waves
<1>4. ASSUME NEW m \in 1 .. MaxWaves
      PROVE  Moves(NumberedWaves(m), NumberedWaves(m)', GeneratingNumber(m),
                   GeneratingNumber(m)')
  <2>1. CASE m = n
    <3>1. \A w \in Waves : wave[w].number < n /\ wave[w].number \in Nat
      BY <1>1 DEF FollowsAll, TypeOK, Waves, WaveRow
    <3>2. NumberedWaves(m)' = {}
      BY <1>2, <1>3, <2>1, <3>1 DEF NumberedWaves
    <3> QED
      BY <3>2 DEF Moves
  <2>2. CASE m # n
    <3>1. NumberedWaves(m)' \subseteq NumberedWaves(m)
      BY <1>2, <1>3 DEF NumberedWaves
    <3>2. GeneratingNumber(m)' \subseteq GeneratingNumber(m)
      BY <1>1, <1>2, <2>2 DEF GeneratingNumber, Generating
    <3> QED
      BY <3>1, <3>2 DEF Moves
  <2> QED
    BY <2>1, <2>2
<1>5. \A d \in Client : planCall'[d].op \in {"approve", "discard"}
                           => planCall'[d].wave \in Waves'
  BY <1>2, <1>3 DEF WavesInv
<1> QED
  BY <1>3, <1>4, <1>5 DEF WavesMove, Moves

\* The wave takes the place of the command that opened it.
LEMMA FinishGenerateMoves ==
    ASSUME TypeOK, WavesInv, NEW c \in Client, FinishGenerate(c)
    PROVE  WavesMove
<1>1. PICK w \in NextWave :
          wave' = [wave EXCEPT ![w] =
                      [status |-> "in_progress", number |-> planCall[c].number,
                       claude |-> FALSE]]
  BY DEF FinishGenerate
<1>2. /\ w \in WaveId \ Waves /\ wave'[w].status = "in_progress"
      /\ wave'[w].number = planCall[c].number
      /\ \A v \in WaveId : v # w => wave'[v] = wave[v]
  BY <1>1 DEF NextWave, TypeOK
<1>3. /\ planCall[c].op = "generate" /\ planCall'[c].op = "none"
      /\ \A d \in Client : d # c => planCall'[d] = planCall[d]
  BY DEF FinishGenerate, Reply, NoPlanCall, TypeOK
<1>4. /\ c \in Generating /\ Generating' \subseteq Generating \ {c}
      /\ Drafts' \subseteq Drafts \cup {w} /\ Waves' = Waves \cup {w}
  BY <1>2, <1>3 DEF Generating, Drafts, Waves
<1>5. ASSUME NEW n \in 1 .. MaxWaves
      PROVE  Moves(NumberedWaves(n), NumberedWaves(n)', GeneratingNumber(n),
                   GeneratingNumber(n)')
  <2>1. GeneratingNumber(n)' \subseteq GeneratingNumber(n) \ {c}
    BY <1>3, <1>4 DEF GeneratingNumber, Generating
  <2>2. CASE planCall[c].number = n
    <3>1. c \in GeneratingNumber(n)
      BY <1>4, <2>2 DEF GeneratingNumber
    <3>2. NumberedWaves(n)' \subseteq NumberedWaves(n) \cup {w}
      BY <1>2, <1>4 DEF NumberedWaves, Waves
    <3> QED
      BY <1>2, <2>1, <3>1, <3>2 DEF Moves
  <2>3. CASE planCall[c].number # n
    <3>1. NumberedWaves(n)' \subseteq NumberedWaves(n)
      BY <1>2, <1>4, <2>3 DEF NumberedWaves, Waves
    <3> QED
      BY <2>1, <3>1 DEF Moves
  <2> QED
    BY <2>2, <2>3
<1>6. \A d \in Client : planCall'[d].op \in {"approve", "discard"}
                           => planCall'[d].wave \in Waves'
  BY <1>3, <1>4 DEF WavesInv
<1> QED
  BY <1>2, <1>4, <1>5, <1>6 DEF WavesMove, Moves

\* The other commands.
LEMMA CommandMoves ==
    ASSUME TypeOK, WavesInv, NEW c \in Client, PlanCommand(c)
    PROVE  WavesMove
<1>1. planCall[c] \in PlanCall /\ planCall[c].wave \in WaveId
  BY DEF TypeOK, PlanCall
<1>2. ASSUME Reply(c)
      PROVE  \A d \in Client : planCall'[d] = planCall[d] \/ planCall'[d].op = "none"
  BY <1>2 DEF Reply, NoPlanCall, TypeOK
<1>3. ASSUME NEW op \in PlanOps \ {"generate"}, BeginPlanCommand(c, op)
      PROVE  WavesMove
  <2>1. PICK w \in WaveId : MayFollow(op, w) /\
            Ask(c, [NoPlanCall EXCEPT !.op = op, !.wave = w])
    BY <1>3 DEF BeginPlanCommand
  <2>2. /\ planCall'[c].op = op /\ planCall'[c].wave = w
        /\ \A d \in Client : d # c => planCall'[d] = planCall[d]
    BY <2>1 DEF Ask, NoPlanCall, TypeOK
  <2>3. wave' = wave /\ w \in Waves
    BY <1>3, <2>1 DEF BeginPlanCommand, MayFollow, Drafts, Waves
  <2> QED
    BY <2>2, <2>3, QuietMoves
<1>4. CASE FinishFeedback(c)
  <2>1. wave' = wave
    BY <1>4 DEF FinishFeedback
  <2> QED
    BY <1>2, <1>4, <2>1, QuietMoves DEF FinishFeedback
<1>5. ASSUME NEW status \in {"approved", "discarded"},
             wave' = [wave EXCEPT ![planCall[c].wave].status = status],
             planCall[c].op \in {"approve", "discard"}, Reply(c)
      PROVE  WavesMove
  <2>1. planCall[c].wave \in Waves
    BY <1>5 DEF WavesInv
  <2>2. \A w \in WaveId :
            /\ wave'[w].number = wave[w].number
            /\ \/ wave'[w].status = wave[w].status
               \/ w \in Waves /\ wave'[w].status \in {"approved", "discarded"}
    BY <1>1, <1>5, <2>1 DEF TypeOK, WaveRow
  <2> QED
    BY <1>2, <1>5, <2>2, QuietMoves
<1>6. CASE FinishApprove(c) \/ FinishDiscard(c)
  BY <1>5, <1>6 DEF FinishApprove, FinishDiscard
<1> QED
  BY <1>3, <1>4, <1>6, BeginGenerateMoves, FinishGenerateMoves DEF PlanCommand

LEMMA StepMoves ==
    ASSUME TypeOK, WavesInv, [Next]_vars
    PROVE  WavesMove
<1>1. ASSUME NEW s \in Stream, StreamStep(s)
      PROVE  WavesMove
  <2>1. stream[s].wave \in WaveId /\ wave \in [WaveId -> WaveRow]
    BY DEF TypeOK, StreamRow
  <2>2. wave' = wave \/ wave' = [wave EXCEPT ![stream[s].wave].claude = TRUE]
    BY <1>1 DEF StreamStep, StreamFailsToSpawn, StreamSpawns, StreamEnds,
       InsertPlan, MarkSpecs
  <2>3. ASSUME NEW w \in WaveId
        PROVE  /\ wave'[w].status = wave[w].status
               /\ wave'[w].number = wave[w].number
    <3>1. wave[w] \in WaveRow
      BY <2>1
    <3>2. wave'[w] = wave[w] \/ wave'[w] = [wave[w] EXCEPT !.claude = TRUE]
      BY <2>1, <2>2
    <3> QED
      BY <3>1, <3>2 DEF WaveRow
  <2>4. planCall' = planCall
    BY <1>1 DEF StreamStep
  <2> QED
    BY <2>3, <2>4, QuietMoves
<1>2. CASE Restart
  <2>1. wave' = wave /\ \A c \in Client : planCall'[c].op = "none"
    BY <1>2 DEF Restart, NoPlanCall
  <2> QED
    BY <2>1, QuietMoves
<1>3. CASE SpecStep \/ (\E w \in WaveId : Execute(w)) \/ UNCHANGED vars
  <2>1. planCall' = planCall /\ wave' = wave
    BY <1>3 DEF SpecStep, Execute, vars, planVars
  <2> QED
    BY <2>1, QuietMoves
<1> QED
  BY <1>1, <1>2, <1>3, CommandMoves DEF Next

LEMMA WavesStep ==
    ASSUME TypeOK, WavesInv, [Next]_vars
    PROVE  WavesInv'
<1>1. WavesMove
  BY StepMoves
<1>2. /\ Drafts \subseteq WaveId /\ Drafts' \subseteq WaveId
      /\ Generating \subseteq Client /\ Generating' \subseteq Client
  BY DEF Drafts, Generating
<1>3. DraftsPerClient'
  <2>1. Cardinality(Drafts') + Cardinality(Generating') <= Cardinality(Client)
    BY <1>1, <1>2, MovesKeepCount DEF WavesMove, WavesInv, DraftsPerClient
  <2> QED
    BY <2>1 DEF DraftsPerClient
<1>4. ASSUME NEW n \in 1 .. MaxWaves
      PROVE  Cardinality(NumberedWaves(n)') + Cardinality(GeneratingNumber(n)')
                <= Cardinality(Client)
  <2>1. /\ NumberedWaves(n) \subseteq WaveId /\ NumberedWaves(n)' \subseteq WaveId
        /\ GeneratingNumber(n) \subseteq Client /\ GeneratingNumber(n)' \subseteq Client
    BY <1>2 DEF NumberedWaves, GeneratingNumber, Waves
  <2>2. Cardinality(NumberedWaves(n)) + Cardinality(GeneratingNumber(n))
           <= Cardinality(Client)
    BY DEF WavesInv, NumbersPerClient, NumberedWaves, GeneratingNumber
  <2> QED
    BY <1>1, <2>1, <2>2, MovesKeepCount DEF WavesMove
<1>5. NumbersPerClient'
  BY <1>4 DEF NumbersPerClient, NumberedWaves, GeneratingNumber
<1> QED
  BY <1>1, <1>3, <1>5 DEF WavesMove, WavesInv

LEMMA WavesCorrect == Spec => []WavesInv
<1>1. Init => TypeOK /\ WavesInv
  BY InitTyped, WavesInit
<1>2. TypeOK /\ WavesInv /\ [Next]_vars => (TypeOK /\ WavesInv)'
  BY StepTyped, WavesStep
<1> QED
  BY <1>1, <1>2, PTL DEF Spec

\* A project has no more draft waves than clients commanded the daemon at a time,
\* however commands, streams, restarts and the scheduler interleave: one client
\* finds the draft it has opened (plan.generate).
THEOREM DraftsAreBounded == Spec => []DraftsPerClient
<1>1. WavesInv => DraftsPerClient
  BY DEF WavesInv
<1> QED
  BY <1>1, WavesCorrect, PTL

\* Nor does a number name more waves than that, discarded ones included
\* (next_wave_number).
THEOREM NumbersAreBounded == Spec => []NumbersPerClient
<1>1. WavesInv => NumbersPerClient
  BY DEF WavesInv
<1> QED
  BY <1>1, WavesCorrect, PTL

\* No step of any actor brings a discarded wave back, unless a plan.approve had
\* read it as a draft.
THEOREM DiscardIsFinal == Spec => DiscardedIsFinal
<1>1. ASSUME TypeOK, [Next]_vars, NEW w \in WaveId, Buried(w)
      PROVE  Buried(w)'
  <2> USE DEF TypeOK
  <2>1. wave[w].status = "discarded"
        /\ \A c \in Client : ~(planCall[c].op = "approve" /\ planCall[c].wave = w)
    BY <1>1 DEF Buried
  <2>2. CASE wave'[w].status = wave[w].status
             /\ \A c \in Client : planCall'[c] = planCall[c] \/ planCall'[c].op # "approve"
    BY <2>1, <2>2 DEF Buried
  <2>3. ASSUME NEW s \in Stream, StreamStep(s)
        PROVE  Buried(w)'
    <3>1. wave' = wave
          \/ wave' = [wave EXCEPT ![stream[s].wave].claude = TRUE]
      BY <2>3 DEF StreamStep, StreamFailsToSpawn, StreamSpawns, StreamEnds,
         InsertPlan, MarkSpecs
    <3>2. stream[s].wave \in WaveId /\ wave \in [WaveId -> WaveRow]
      BY <1>1 DEF StreamRow
    <3>3. wave'[w].status = wave[w].status /\ planCall' = planCall
      BY <2>3, <3>1, <3>2 DEF WaveRow, StreamStep
    <3> QED
      BY <2>2, <3>3
  <2>4. ASSUME NEW c \in Client, PlanCommand(c)
        PROVE  Buried(w)'
    <3>1. planCall[c].wave \in WaveId
      BY <1>1 DEF PlanCall
    <3>2. Reply(c) => \A d \in Client :
                         planCall'[d] = planCall[d] \/ planCall'[d].op # "approve"
      BY <1>1 DEF Reply, NoPlanCall
    <3>3. CASE FinishGenerate(c) \/ FinishFeedback(c)
      <4>1. wave'[w] = wave[w]
        <5>1. CASE FinishGenerate(c)
          <6>1. PICK v \in NextWave :
                    wave' = [wave EXCEPT ![v] =
                                [status |-> "in_progress",
                                 number |-> planCall[c].number, claude |-> FALSE]]
            BY <5>1 DEF FinishGenerate
          <6>2. v # w
            BY <2>1 DEF NextWave, Waves
          <6> QED
            BY <1>1, <6>1, <6>2
        <5>2. CASE FinishFeedback(c)
          BY <5>2 DEF FinishFeedback
        <5> QED
          BY <3>3, <5>1, <5>2
      <4> QED
        BY <2>2, <3>2, <3>3, <4>1 DEF FinishGenerate, FinishFeedback
    <3>4. CASE FinishApprove(c)
      <4>1. planCall[c].wave # w
        BY <2>1, <3>4 DEF FinishApprove
      <4> QED
        BY <2>2, <3>2, <3>4, <4>1 DEF FinishApprove
    <3>5. CASE FinishDiscard(c)
      <4>1. wave' = [wave EXCEPT ![planCall[c].wave].status = "discarded"]
        BY <3>5 DEF FinishDiscard
      <4>2. wave'[w].status = wave[w].status
        BY <1>1, <2>1, <3>1, <4>1 DEF WaveRow
      <4> QED
        BY <2>2, <3>2, <3>5, <4>2 DEF FinishDiscard
    <3>6. CASE BeginGenerate(c)
      <4>1. /\ wave' = wave /\ planCall'[c].op = "generate"
            /\ \A d \in Client : d # c => planCall'[d] = planCall[d]
        BY <1>1, <3>6 DEF BeginGenerate, Ask
      <4> QED
        BY <2>2, <4>1
    <3>7. ASSUME NEW op \in PlanOps \ {"generate"}, BeginPlanCommand(c, op)
          PROVE  Buried(w)'
      <4>1. PICK v \in WaveId : MayFollow(op, v) /\
                Ask(c, [NoPlanCall EXCEPT !.op = op, !.wave = v])
        BY <3>7 DEF BeginPlanCommand
      <4>2. /\ wave' = wave /\ planCall'[c].op = op /\ planCall'[c].wave = v
            /\ \A d \in Client : d # c => planCall'[d] = planCall[d]
        BY <1>1, <3>7, <4>1 DEF BeginPlanCommand, Ask, NoPlanCall
      <4>3. op = "approve" => v # w
        BY <2>1, <4>1 DEF MayFollow, Drafts
      <4> QED
        BY <2>1, <4>2, <4>3 DEF Buried
    <3> QED
      BY <2>4, <3>3, <3>4, <3>5, <3>6, <3>7 DEF PlanCommand
  <2>5. CASE SpecStep \/ (\E v \in WaveId : Execute(v)) \/ UNCHANGED vars \/ Restart
    <3>1. wave' = wave
      BY <2>5 DEF SpecStep, Execute, Restart, vars, planVars
    <3>2. \A c \in Client : planCall'[c] = planCall[c] \/ planCall'[c].op # "approve"
      BY <2>5 DEF SpecStep, Execute, Restart, vars, planVars, NoPlanCall
    <3> QED
      BY <2>2, <3>1, <3>2
  <2> QED
    BY <1>1, <2>3, <2>4, <2>5 DEF Next
<1>2. TypeOK /\ [Next]_vars => [\A w \in WaveId : Buried(w) => Buried(w)']_vars
  BY <1>1
<1> QED
  BY <1>2, TypeCorrect, PTL DEF Spec, DiscardedIsFinal
---------------------------------------------------------------------------
(* Specs outside all waves, about commands that are given one at a time.   *)

OneClient == \A c, d \in Client : c = d

\* What becomes of the links, the streams and the spec commands, whoever
\* takes the step.

LEMMA LinksStay == TypeOK /\ [Next]_vars => link \subseteq link'
<1> SUFFICES ASSUME TypeOK, [Next]_vars PROVE link \subseteq link'
  OBVIOUS
<1>1. ASSUME NEW c \in Client, PlanCommand(c)
      PROVE  link \subseteq link'
  BY <1>1 DEF PlanCommand, BeginGenerate, BeginPlanCommand, FinishGenerate,
     FinishFeedback, FinishApprove, FinishDiscard
<1>2. ASSUME NEW s \in Stream, StreamStep(s)
      PROVE  link' = link
  BY <1>2 DEF StreamStep, StreamFailsToSpawn, StreamSpawns, StreamEnds,
     InsertPlan, MarkSpecs
<1>3. CASE SpecStep \/ (\E w \in WaveId : Execute(w)) \/ Restart \/ UNCHANGED vars
  BY <1>3 DEF SpecStep, Execute, Restart, vars, planVars
<1> QED
  BY <1>1, <1>2, <1>3 DEF Next

LEMMA LinkedStay == TypeOK /\ [Next]_vars => Linked \subseteq Linked'
<1> SUFFICES ASSUME link \subseteq link' PROVE Linked \subseteq Linked'
  BY LinksStay
<1> QED
  BY DEF Linked

\* A stream starts with specs that its wave has, and keeps them.
LEMMA StreamsKnowLinked ==
    ASSUME TypeOK, LooseInv, [Next]_vars
    PROVE  \A s \in Stream : stream'[s].specs \subseteq Linked'
<1> USE DEF TypeOK
<1>1. Linked \subseteq Linked'
  BY LinkedStay
<1>2. \A s \in Stream : stream[s].specs \subseteq Linked
  BY DEF LooseInv
<1>3. CASE stream' = stream
  BY <1>1, <1>2, <1>3
<1>4. ASSUME NEW w \in WaveId, NEW S, StartStream(w, S), S \subseteq Linked'
      PROVE  \A s \in Stream : stream'[s].specs \subseteq Linked'
  BY <1>1, <1>2, <1>4 DEF StartStream
<1>5. ASSUME NEW c \in Client, PlanCommand(c)
      PROVE  \A s \in Stream : stream'[s].specs \subseteq Linked'
  <2>1. planCall[c].wave \in WaveId /\ planCall[c].specs \subseteq SpecId
    BY DEF PlanCall
  <2>2. CASE FinishGenerate(c)
    <3>1. CASE stream' = stream
      BY <1>3, <3>1
    <3>2. CASE stream' # stream
      <4>1. PICK w \in NextWave :
                /\ link' = link \cup ({w} \X planCall[c].specs)
                /\ StartStream(w, planCall[c].specs)
        BY <2>2, <3>2 DEF FinishGenerate
      <4>2. w \in WaveId
        BY DEF NextWave
      <4>3. planCall[c].specs \subseteq Linked'
        BY <2>1, <4>1, <4>2 DEF Linked
      <4> QED
        BY <1>4, <4>1, <4>2, <4>3
    <3> QED
      BY <3>1, <3>2
  <2>3. CASE FinishFeedback(c)
    <3>1. SpecsOf(planCall[c].wave) \subseteq Linked
      BY <2>1 DEF SpecsOf, Linked
    <3>2. SpecsOf(planCall[c].wave) \subseteq Linked'
      BY <1>1, <3>1
    <3>3. StartStream(planCall[c].wave, SpecsOf(planCall[c].wave))
      BY <2>3 DEF FinishFeedback
    <3> QED
      BY <1>4, <2>1, <3>2, <3>3
  <2> QED
    BY <1>3, <1>5, <2>2, <2>3
    DEF PlanCommand, BeginGenerate, BeginPlanCommand, FinishApprove, FinishDiscard
<1>6. ASSUME NEW s \in Stream, StreamStep(s)
      PROVE  \A r \in Stream : stream'[r].specs \subseteq Linked'
  <2>1. \/ stream' = [stream EXCEPT ![s] = FreeStream]
        \/ \E at : stream' = [stream EXCEPT ![s].pc = at]
    BY <1>6 DEF StreamStep, StreamFailsToSpawn, StreamSpawns, StreamEnds,
       InsertPlan, MarkSpecs
  <2>2. \A r \in Stream : stream[r] \in StreamRow
    OBVIOUS
  <2>3. \A r \in Stream : stream'[r].specs \in {stream[r].specs, {}}
    <3>1. CASE stream' = [stream EXCEPT ![s] = FreeStream]
      BY <3>1 DEF FreeStream
    <3>2. ASSUME NEW at, stream' = [stream EXCEPT ![s].pc = at]
          PROVE  \A r \in Stream : stream'[r].specs = stream[r].specs
      BY <2>2, <3>2 DEF StreamRow
    <3> QED
      BY <2>1, <3>1, <3>2
  <2> QED
    BY <1>1, <1>2, <2>3
<1>7. CASE Restart
  BY <1>7 DEF Restart, FreeStream
<1>8. CASE SpecStep \/ (\E w \in WaveId : Execute(w)) \/ UNCHANGED vars
  BY <1>3, <1>8 DEF SpecStep, Execute, vars, planVars
<1> QED
  BY <1>5, <1>6, <1>7, <1>8 DEF Next

\* How a step leaves the statuses of the specs outside all waves: as they are,
\* or moved along the lifecycle.
Settled == \A i \in SpecId \ Linked : spec'[i].status = spec[i].status

Advanced ==
    \A i \in SpecId \ Linked :
        \/ spec'[i].status = spec[i].status
        \/ <<spec[i].status, spec'[i].status>> \in Lifecycle

LEMMA TurnsSettle ==
    ASSUME TypeOK, NEW t \in Turn, TurnStep(t)
    PROVE  Settled
<1>1. spec \in [SpecId -> SpecRow] /\ turn[t].spec \in SpecId
  BY DEF TypeOK, SpecsTypeOK, TurnRow
<1>2. CASE TurnFailsToSpawn(t)
  BY <1>1, <1>2 DEF TurnFailsToSpawn, SpecRow, Settled
<1>3. CASE StoreTurn(t)
  <2>1. AfterTurn(spec[turn[t].spec], turn[t]).status = spec[turn[t].spec].status
    BY <1>1 DEF AfterTurn, SpecRow
  <2> QED
    BY <1>1, <1>3, <2>1 DEF StoreTurn, Settled
<1>4. CASE spec' = spec
  BY <1>4 DEF Settled
<1> QED
  BY <1>2, <1>3, <1>4 DEF TurnStep, TurnSpawns, WriteSpecFile, TurnEnds

LEMMA FreeingSettles ==
    ASSUME TypeOK, NEW S, NEW status, S \subseteq Linked,
           spec' = [i \in SpecId |->
                       IF i \in S THEN [spec[i] EXCEPT !.status = status]
                       ELSE spec[i]]
    PROVE  Settled
BY DEF Settled

LEMMA StreamsSettle ==
    ASSUME TypeOK, LooseInv, NEW s \in Stream, StreamStep(s)
    PROVE  Settled
<1>1. CASE UNCHANGED specVars
  BY <1>1 DEF specVars, Settled
<1>2. CASE MarkSpecs(s)
  <2>1. stream[s].specs \subseteq Linked
    BY DEF LooseInv
  <2> QED
    BY <1>2, <2>1, FreeingSettles DEF MarkSpecs
<1> QED
  BY <1>1, <1>2 DEF StreamStep

LEMMA PlanCommandsSettle ==
    ASSUME TypeOK, NEW c \in Client, PlanCommand(c)
    PROVE  Settled
<1>1. CASE UNCHANGED specVars
  BY <1>1 DEF specVars, Settled
<1>2. CASE SpecsFreed(planCall[c].wave)
  <2>1. planCall[c].wave \in WaveId
    BY DEF TypeOK, PlanCall
  <2>2. SpecsOf(planCall[c].wave) \subseteq Linked
    BY <2>1 DEF SpecsOf, Linked
  <2> QED
    BY <1>2, <2>2, FreeingSettles DEF SpecsFreed
<1> QED
  BY <1>1, <1>2 DEF PlanCommand, FinishFeedback, FinishDiscard

LEMMA RestartSettles == ASSUME TypeOK, Restart PROVE Settled
<1>1. spec \in [SpecId -> SpecRow]
  BY DEF TypeOK, SpecsTypeOK
<1> QED
  BY <1>1 DEF Restart, RestartSpecs, SpecRow, Settled

LEMMA MovesAlong ==
    ASSUME NEW op \in {"approve", "reopen", "deactivate", "delete"}, NEW status
    PROVE  \/ Moved(op, status) = status
           \/ <<status, Moved(op, status)>> \in Lifecycle
BY DEF Moved, Lifecycle

\* A spec command ends with a step of the lifecycle, or moves no status.
LEMMA SpecCommandsAdvance ==
    ASSUME TypeOK, LooseInv, NEW c \in Client, SpecCommand(c)
    PROVE  Settled \/ (Advanced /\ call'[c].op = "none")
<1>1. /\ spec \in [SpecId -> SpecRow]
      /\ call \in [Client -> SpecCall]
      /\ call[c].spec \in SpecId
  BY DEF TypeOK, SpecsTypeOK, SpecCall
<1>2. ASSUME Answered(c)
      PROVE  call'[c].op = "none"
  BY <1>1, <1>2 DEF Answered, NoSpecCall
<1>3. CASE spec' = spec
  BY <1>3 DEF Settled
<1>4. CASE FinishNew(c)
  <2>1. PICK i \in NextSpec :
            spec' = [spec EXCEPT ![i] =
                        [name |-> call[c].seen.name, status |-> "draft",
                         active |-> TRUE, claude |-> FALSE]]
    BY <1>4 DEF FinishNew
  <2>2. i \in SpecId /\ spec[i].status = "absent"
    BY DEF NextSpec, Present
  <2>3. spec'[i].status = "draft"
    BY <1>1, <2>1, <2>2
  <2>4. \A j \in SpecId : j # i => spec'[j] = spec[j]
    BY <1>1, <2>1
  <2>5. Advanced
    BY <2>2, <2>3, <2>4 DEF Advanced, Lifecycle
  <2> QED
    BY <1>2, <1>4, <2>5 DEF FinishNew
<1>5. CASE FinishResume(c)
  BY <1>1, <1>5 DEF FinishResume, SpecRow, Settled
<1>6. CASE FinishSpecCommand(c)
  <2> DEFINE op == call[c].op
             i  == call[c].spec
             seen == call[c].seen
  <2>1. /\ op \in {"approve", "reopen", "deactivate", "delete"}
        /\ spec' = [spec EXCEPT ![i] = Ended(spec[i], op, seen)]
    BY <1>6 DEF FinishSpecCommand
  <2>2. Ended(spec[i], op, seen).status \in {spec[i].status, Moved(op, seen.status)}
    BY <1>1 DEF Ended, SpecRow
  <2>3. spec'[i].status \in {spec[i].status, Moved(op, seen.status)}
    BY <1>1, <2>1, <2>2
  <2>4. \A j \in SpecId : j # i => spec'[j] = spec[j]
    BY <1>1, <2>1
  <2>5. i \in Linked \/ seen.status = spec[i].status
    BY <2>1 DEF LooseInv
  <2>6. \/ Moved(op, seen.status) = seen.status
        \/ <<seen.status, Moved(op, seen.status)>> \in Lifecycle
    BY <2>1, MovesAlong
  <2> HIDE DEF op, i, seen
  <2>7. Advanced
    BY <2>3, <2>4, <2>5, <2>6 DEF Advanced
  <2> QED
    BY <1>2, <1>6, <2>7 DEF FinishSpecCommand
<1> QED
  BY <1>3, <1>4, <1>5, <1>6
  DEF SpecCommand, BeginNew, Answer, BeginSpecCommand

LEMMA StepsAdvance ==
    ASSUME TypeOK, LooseInv, [Next]_vars
    PROVE  Settled \/ (Advanced /\ \E c \in Client : call'[c].op = "none")
<1>1. CASE SpecStep
  BY <1>1, TurnsSettle, SpecCommandsAdvance DEF SpecStep
<1>2. CASE (\E w \in WaveId : Execute(w)) \/ UNCHANGED vars
  BY <1>2 DEF Execute, vars, specVars, Settled
<1> QED
  BY <1>1, <1>2, PlanCommandsSettle, StreamsSettle, RestartSettles DEF Next

\* What becomes of the reads of a spec command.
LEMMA ReadsStay ==
    ASSUME TypeOK, [Next]_vars, NEW c \in Client
    PROVE  \/ call'[c] = call[c]
           \/ call'[c].op \in {"none", "new"}
           \/ call'[c].seen = spec[call'[c].spec] /\ spec' = spec
<1>1. call \in [Client -> SpecCall]
  BY DEF TypeOK, SpecsTypeOK
<1>2. CASE call' = call
  BY <1>2
<1>3. ASSUME NEW d \in Client, Answered(d)
      PROVE  call'[c] = call[c] \/ call'[c].op = "none"
  BY <1>1, <1>3 DEF Answered, NoSpecCall
<1>4. ASSUME NEW d \in Client, SpecCommand(d)
      PROVE  \/ call'[c] = call[c]
             \/ call'[c].op \in {"none", "new"}
             \/ call'[c].seen = spec[call'[c].spec] /\ spec' = spec
  <2>1. ASSUME NEW n \in Name, BeginNew(d, n)
        PROVE  call'[c] = call[c] \/ call'[c].op = "new"
    BY <1>1, <2>1 DEF BeginNew, NoSpecCall
  <2>2. ASSUME NEW op \in SpecOps, BeginSpecCommand(d, op)
        PROVE  \/ call'[c] = call[c]
               \/ call'[c].seen = spec[call'[c].spec] /\ spec' = spec
    BY <1>1, <2>2 DEF BeginSpecCommand
  <2> QED
    BY <1>2, <1>3, <1>4, <2>1, <2>2
    DEF SpecCommand, FinishNew, Answer, FinishResume, FinishSpecCommand
<1>5. CASE SpecStep
  BY <1>2, <1>4, <1>5 DEF SpecStep, TurnStep, TurnFailsToSpawn, TurnSpawns,
     WriteSpecFile, TurnEnds, StoreTurn
<1>6. CASE Restart
  BY <1>6 DEF Restart, RestartSpecs, NoSpecCall
<1>7. ASSUME NEW d \in Client, PlanCommand(d)
      PROVE  call' = call
  BY <1>7 DEF PlanCommand, specVars
<1>8. ASSUME NEW s \in Stream, StreamStep(s)
      PROVE  call' = call
  BY <1>8 DEF StreamStep, specVars
<1>9. CASE (\E w \in WaveId : Execute(w)) \/ UNCHANGED vars
  BY <1>2, <1>9 DEF Execute, vars, specVars
<1> QED
  BY <1>2, <1>5, <1>6, <1>7, <1>8, <1>9 DEF Next

LEMMA LooseInit == Init => LooseInv
BY DEF Init, SpecsInit, LooseInv, FreeStream, NoSpecCall

LEMMA LooseStep ==
    ASSUME OneClient, TypeOK, LooseInv, [Next]_vars
    PROVE  LooseInv'
<1> DEFINE writes == {"approve", "reopen", "deactivate", "delete"}
<1>1. Linked \subseteq Linked'
  BY LinkedStay
<1>2. ASSUME NEW c \in Client, call'[c].op \in writes
      PROVE  \/ call'[c].spec \in Linked'
             \/ spec'[call'[c].spec].status = call'[c].seen.status
  <2>1. CASE call'[c] = call[c]
    <3>1. call[c].spec \in SpecId
      BY DEF TypeOK, SpecsTypeOK, SpecCall
    <3>2. \/ call[c].spec \in Linked
          \/ spec[call[c].spec].status = call[c].seen.status
      BY <1>2, <2>1 DEF LooseInv
    <3>3. Settled
      <4>1. ASSUME NEW d \in Client, call'[d].op = "none"
            PROVE  FALSE
        BY <1>2, <4>1 DEF OneClient
      <4> QED
        BY <4>1, StepsAdvance
    <3> QED
      BY <1>1, <2>1, <3>1, <3>2, <3>3 DEF Settled
  <2>2. CASE call'[c].seen = spec[call'[c].spec] /\ spec' = spec
    BY <2>2
  <2> QED
    BY <1>2, <2>1, <2>2, ReadsStay
<1>3. \A s \in Stream : stream'[s].specs \subseteq Linked'
  BY StreamsKnowLinked
<1> HIDE DEF writes
<1>4. \A c \in Client :
          call'[c].op \in writes =>
              \/ call'[c].spec \in Linked'
              \/ spec'[call'[c].spec].status = call'[c].seen.status
  BY <1>2
<1> QED
  BY <1>3, <1>4 DEF LooseInv, writes

THEOREM LooseCorrect == ASSUME OneClient PROVE Spec => []LooseInv
<1>1. Init => TypeOK /\ LooseInv
  BY InitTyped, LooseInit
<1>2. TypeOK /\ LooseInv /\ [Next]_vars => (TypeOK /\ LooseInv)'
  BY StepTyped, LooseStep
<1> QED
  BY <1>1, <1>2, PTL DEF Spec

\* A spec that no wave has had is moved by the commands of its author only,
\* along the lifecycle, whatever the turns and the streams of other specs do:
\* a deleted one stays deleted and none of them becomes decomposed.
THEOREM LooseSpecsKeepToLifecycle ==
    ASSUME OneClient PROVE Spec => LooseSpecsFollowLifecycle
<1>1. TypeOK /\ LooseInv /\ [Next]_vars =>
          [\A i \in SpecId \ Linked :
              \/ spec'[i].status = spec[i].status
              \/ <<spec[i].status, spec'[i].status>> \in Lifecycle]_vars
  BY StepsAdvance DEF Settled, Advanced
<1> QED
  BY <1>1, TypeCorrect, LooseCorrect, PTL DEF Spec, LooseSpecsFollowLifecycle

-----------------------------------------------------------------------------
(* PlanItems *)

LEMMA ListIsSeq ==
    ASSUME NEW s, IsList(s)
    PROVE  s \in Seq({s[k] : k \in 1..Len(s)}) /\ DOMAIN s = 1..Len(s)
BY DEF IsList

\* The ids of a plan's rows are sequences of a token at least.
IsId(id) == \E S : id \in Seq(S) /\ Len(id) >= 1

LEMMA PlanIsList ==
    ASSUME NEW plan \in Plans
    PROVE  /\ \A e \in DOMAIN plan.epics : IsList(plan.epics[e]) /\ e \in Nat
           /\ \A i \in Stories(plan) :
                  /\ i \in Nat
                  /\ plan.stories[i].epic \in DOMAIN plan.epics
                  /\ IsList(plan.stories[i].id)
                  /\ \A t \in DOMAIN plan.stories[i].tasks :
                         t \in Nat /\ IsList(plan.stories[i].tasks[t])
<1>1. IsList(plan.epics) /\ IsList(plan.stories)
  BY PlansAssumption
<1>2. DOMAIN plan.epics \subseteq Nat /\ Stories(plan) \subseteq Nat
  BY <1>1, ListIsSeq DEF IsList, Stories
<1>3. \A i \in Stories(plan) : DOMAIN plan.stories[i].tasks \subseteq Nat
  <2> SUFFICES ASSUME NEW i \in Stories(plan)
               PROVE  DOMAIN plan.stories[i].tasks \subseteq Nat
    OBVIOUS
  <2>1. IsList(plan.stories[i].tasks)
    BY PlansAssumption DEF Stories
  <2> QED
    BY <2>1, ListIsSeq DEF IsList
<1> QED
  BY <1>2, <1>3, PlansAssumption DEF Stories

LEMMA OrDefaultIsId ==
    ASSUME NEW id, IsList(id), NEW letter, NEW n
    PROVE  IsId(OrDefault(id, letter, n))
<1>1. CASE id = <<>>
  <2>1. <<letter, n>> \in Seq({letter, n}) /\ Len(<<letter, n>>) >= 1
    OBVIOUS
  <2> QED
    BY <1>1, <2>1 DEF OrDefault, IsId
<1>2. CASE id # <<>>
  <2>1. PICK S : id \in Seq(S)
    BY ListIsSeq
  <2>2. Len(id) >= 1
    BY <1>2, <2>1, EmptySeq
  <2> QED
    BY <1>2, <2>1, <2>2 DEF OrDefault, IsId
<1> QED
  BY <1>1, <1>2

LEMMA LongerIsId ==
    ASSUME NEW id, IsId(id), NEW w, NEW x
    PROVE  IsId(WithPrefix(w, id)) /\ IsId(Append(id, x))
<1>1. PICK S : id \in Seq(S) /\ Len(id) >= 1
  BY DEF IsId
<1> DEFINE T == S \cup {"W", w[2], "-", x}
<1>2. id \in Seq(T) /\ <<"W", w[2], "-">> \in Seq(T)
  BY <1>1, SeqMonotonic
<1> HIDE DEF T
<1>3. WithPrefix(w, id) \in Seq(T) /\ Len(WithPrefix(w, id)) >= 1
  <2>1. Len(<<"W", w[2], "-">>) = 3
    OBVIOUS
  <2> DEFINE p == <<"W", w[2], "-">>
  <2> HIDE DEF p
  <2>2. p \o id \in Seq(T) /\ Len(p \o id) = Len(p) + Len(id)
    BY <1>2, ConcatProperties DEF p
  <2> QED
    BY <1>1, <1>2, <2>1, <2>2, LenProperties DEF WithPrefix, p
<1>4. Append(id, x) \in Seq(T) /\ Len(Append(id, x)) >= 1
  <2>1. x \in T
    BY DEF T
  <2> QED
    BY <1>1, <1>2, <2>1, AppendProperties, LenProperties
<1> QED
  BY <1>3, <1>4 DEF IsId

LEMMA RowsOfWave ==
    ASSUME NEW w, NEW plan \in Plans, NEW r \in Rows(w, plan)
    PROVE  r.wave = w /\ IsId(r.id)
<1>1. ASSUME NEW q \in TaskRows(w, plan)
      PROVE  q.wave = w /\ IsId(q.id) /\ VerifyRow(q).wave = w /\ IsId(VerifyRow(q).id)
  <2>1. PICK i \in Stories(plan) : \E t \in DOMAIN plan.stories[i].tasks : q = TaskRow(w, plan, i, t)
    BY DEF TaskRows
  <2>2. PICK t \in DOMAIN plan.stories[i].tasks : q = TaskRow(w, plan, i, t)
    BY <2>1
  <2>3. q.wave = w /\ q.id = OrDefault(plan.stories[i].tasks[t], "T", t)
    BY <2>2 DEF TaskRow, Row
  <2>4. IsId(q.id)
    BY <2>3, PlanIsList, OrDefaultIsId
  <2>5. VerifyRow(q).wave = w /\ VerifyRow(q).id = Append(q.id, "v")
    BY <2>2 DEF VerifyRow, TaskRow, Row
  <2> QED
    BY <2>3, <2>4, <2>5, LongerIsId
<1>2. ASSUME NEW e \in DOMAIN plan.epics, r = EpicRow(w, plan, e)
      PROVE  r.wave = w /\ IsId(r.id)
  <2>1. r.wave = w /\ r.id = OrDefault(plan.epics[e], "E", e)
    BY <1>2 DEF EpicRow, Row
  <2> QED
    BY <2>1, PlanIsList, OrDefaultIsId
<1>3. ASSUME NEW i \in Stories(plan), r = StoryRow(w, plan, i)
      PROVE  r.wave = w /\ IsId(r.id)
  <2>1. r.wave = w /\ r.id = WithPrefix(w, StoryId(plan, i))
    BY <1>3 DEF StoryRow, Row
  <2>2. IsId(StoryId(plan, i))
    BY PlanIsList, OrDefaultIsId DEF StoryId
  <2> QED
    BY <2>1, <2>2, LongerIsId
<1> QED
  BY <1>1, <1>2, <1>3 DEF Rows

\* The row that r is a part of.
PartOf(r, q) ==
    /\ q.wave = r.wave
    /\ Len(r.path) = Len(q.path) + 1 /\ SubSeq(r.path, 1, Len(q.path)) = q.path

LEMMA BeginIsEqual ==
    ASSUME NEW S, NEW s \in Seq(S), NEW b \in Seq(S), Len(b) <= Len(s),
           \A k \in 1..Len(b) : s[k] = b[k]
    PROVE  SubSeq(s, 1, Len(b)) = b
<1> DEFINE begin == SubSeq(s, 1, Len(b))
<1>1. Len(b) \in Nat /\ Len(s) \in Nat
  OBVIOUS
<1>2. /\ begin \in Seq(S) /\ Len(begin) = Len(b)
      /\ \A k \in 1..Len(b) : begin[k] = s[k]
  BY <1>1
<1> HIDE DEF begin
<1>3. begin = b
  BY <1>1, <1>2, SeqEqual
<1> QED
  BY <1>3 DEF begin

LEMMA PathsNest ==
    ASSUME NEW e \in Nat, NEW i \in Nat, NEW t \in Nat
    PROVE  /\ Len(<<e, i>>) = Len(<<e>>) + 1 /\ SubSeq(<<e, i>>, 1, Len(<<e>>)) = <<e>>
           /\ Len(<<e, i, t>>) = Len(<<e, i>>) + 1
           /\ SubSeq(<<e, i, t>>, 1, Len(<<e, i>>)) = <<e, i>>
           /\ Precedes(<<e>>, <<e, i>>) /\ Precedes(<<e, i>>, <<e, i, t>>)
<1>1. Precedes(<<e>>, <<e, i>>)
  <2>1. /\ 2 \in DOMAIN <<e, i>> /\ 2 <= Len(<<e>>) + 1 /\ ~(2 \in DOMAIN <<e>>)
        /\ \A m \in 1..(2 - 1) : <<e>>[m] = <<e, i>>[m]
    OBVIOUS
  <2> QED
    BY <2>1 DEF Precedes
<1>2. Precedes(<<e, i>>, <<e, i, t>>)
  <2>1. /\ 3 \in DOMAIN <<e, i, t>> /\ 3 <= Len(<<e, i>>) + 1 /\ ~(3 \in DOMAIN <<e, i>>)
        /\ \A m \in 1..(3 - 1) : <<e, i>>[m] = <<e, i, t>>[m]
    OBVIOUS
  <2> QED
    BY <2>1 DEF Precedes
<1>3. Len(<<e, i>>) = Len(<<e>>) + 1 /\ SubSeq(<<e, i>>, 1, Len(<<e>>)) = <<e>>
  <2> DEFINE s == <<e, i>>
             b == <<e>>
  <2>1. /\ s \in Seq(Nat) /\ b \in Seq(Nat) /\ Len(s) = 2 /\ Len(b) = 1
        /\ \A k \in 1..1 : s[k] = b[k]
    OBVIOUS
  <2> HIDE DEF s, b
  <2>2. SubSeq(s, 1, Len(b)) = b
    BY <2>1, BeginIsEqual
  <2> QED
    BY <2>1, <2>2 DEF s, b
<1>4. Len(<<e, i, t>>) = Len(<<e, i>>) + 1 /\ SubSeq(<<e, i, t>>, 1, Len(<<e, i>>)) = <<e, i>>
  <2> DEFINE s == <<e, i, t>>
             b == <<e, i>>
  <2>1. /\ s \in Seq(Nat) /\ b \in Seq(Nat) /\ Len(s) = 3 /\ Len(b) = 2
        /\ \A k \in 1..2 : s[k] = b[k]
    OBVIOUS
  <2> HIDE DEF s, b
  <2>2. SubSeq(s, 1, Len(b)) = b
    BY <2>1, BeginIsEqual
  <2> QED
    BY <2>1, <2>2 DEF s, b
<1> QED
  BY <1>1, <1>2, <1>3, <1>4

\* Each story of a plan is below one of its epics and each task below one of its
\* stories, which are inserted before.
LEMMA RowsHavePlaces ==
    ASSUME NEW w, NEW plan \in Plans, NEW r \in Rows(w, plan)
    PROVE  \/ r.kind = "epic"
           \/ r.kind = "story" /\ \E q \in Rows(w, plan) :
                  q.kind = "epic" /\ Before(q, r) /\ PartOf(r, q)
           \/ r.kind \in {"impl", "verify"} /\ \E q \in Rows(w, plan) :
                  q.kind = "story" /\ Before(q, r) /\ PartOf(r, q)
<1>1. ASSUME NEW e \in DOMAIN plan.epics, r = EpicRow(w, plan, e)
      PROVE  r.kind = "epic"
  BY <1>1 DEF EpicRow, Row
<1>2. ASSUME NEW i \in Stories(plan), r = StoryRow(w, plan, i)
      PROVE  r.kind = "story" /\ \E q \in Rows(w, plan) :
                 q.kind = "epic" /\ Before(q, r) /\ PartOf(r, q)
  <2> DEFINE e == plan.stories[i].epic
             q == EpicRow(w, plan, e)
  <2>1. e \in DOMAIN plan.epics /\ e \in Nat /\ i \in Nat
    BY PlanIsList
  <2>2. q \in Rows(w, plan)
    BY <2>1 DEF Rows
  <2>3. /\ q.kind = "epic" /\ q.wave = w /\ q.path = <<e>>
        /\ r.kind = "story" /\ r.wave = w /\ r.path = <<e, i>>
    BY <1>2 DEF EpicRow, StoryRow, Row
  <2> HIDE DEF e, q
  <2>4. /\ Len(r.path) = Len(q.path) + 1 /\ SubSeq(r.path, 1, Len(q.path)) = q.path
        /\ Precedes(q.path, r.path)
    <3>1. /\ Len(<<e, i>>) = Len(<<e>>) + 1 /\ SubSeq(<<e, i>>, 1, Len(<<e>>)) = <<e>>
          /\ Precedes(<<e>>, <<e, i>>)
      BY <2>1, PathsNest
    <3>2. q.path = <<e>> /\ r.path = <<e, i>>
      BY <2>3
    <3> QED
      BY <3>1, <3>2, Zenon
  <2>5. PartOf(r, q)
    BY <2>3, <2>4 DEF PartOf
  <2>6. Before(q, r)
    BY <2>3, <2>4 DEF Before
  <2> QED
    BY <2>2, <2>3, <2>5, <2>6
<1>3. ASSUME NEW i \in Stories(plan), NEW t \in DOMAIN plan.stories[i].tasks,
             r = TaskRow(w, plan, i, t) \/ r = VerifyRow(TaskRow(w, plan, i, t))
      PROVE  r.kind \in {"impl", "verify"} /\ \E q \in Rows(w, plan) :
                 q.kind = "story" /\ Before(q, r) /\ PartOf(r, q)
  <2> DEFINE e == plan.stories[i].epic
             q == StoryRow(w, plan, i)
  <2>1. e \in Nat /\ i \in Nat /\ t \in Nat
    BY PlanIsList
  <2>2. q \in Rows(w, plan)
    BY DEF Rows
  <2>3. /\ q.kind = "story" /\ q.wave = w /\ q.path = <<e, i>>
        /\ r.kind \in {"impl", "verify"} /\ r.wave = w /\ r.path = <<e, i, t>>
    <3>1. q.kind = "story" /\ q.wave = w /\ q.path = <<e, i>>
      BY DEF StoryRow, Row
    <3>2. CASE r = TaskRow(w, plan, i, t)
      BY <3>1, <3>2 DEF TaskRow, Row
    <3>3. CASE r = VerifyRow(TaskRow(w, plan, i, t))
      BY <3>1, <3>3 DEF VerifyRow, TaskRow, Row
    <3> QED
      BY <1>3, <3>2, <3>3
  <2> HIDE DEF e, q
  <2>4. /\ Len(r.path) = Len(q.path) + 1 /\ SubSeq(r.path, 1, Len(q.path)) = q.path
        /\ Precedes(q.path, r.path)
    <3>1. /\ Len(<<e, i, t>>) = Len(<<e, i>>) + 1 /\ SubSeq(<<e, i, t>>, 1, Len(<<e, i>>)) = <<e, i>>
          /\ Precedes(<<e, i>>, <<e, i, t>>)
      BY <2>1, PathsNest
    <3>2. q.path = <<e, i>> /\ r.path = <<e, i, t>>
      BY <2>3
    <3> QED
      BY <3>1, <3>2, Zenon
  <2>5. PartOf(r, q)
    BY <2>3, <2>4 DEF PartOf
  <2>6. Before(q, r)
    BY <2>3, <2>4 DEF Before
  <2> QED
    BY <2>2, <2>3, <2>5, <2>6
<1> QED
  BY <1>1, <1>2, <1>3 DEF Rows, TaskRows

\* What is there of a plan can be seen.
LEMMA RowsAreSeen == ItemsInv => NothingIsHidden
<1> SUFFICES ASSUME ItemsInv, NEW r \in rows PROVE r \in Tree(r.wave)
  BY DEF NothingIsHidden
<1> DEFINE w == r.wave
           epics == {q \in rows : q.wave = w /\ q.kind = "epic"}
           stories == UNION {ChildrenOf(q) : q \in epics}
<1>1. w \in Wave /\ r \in RowsOf(w) /\ writer[w].plan \in Plans
  BY DEF ItemsInv
<1>2. \A q \in rows, p \in RowsOf(w) : q.wave = w /\ Before(p, q) => p \in rows
  BY DEF ItemsInv
<1>3. ASSUME NEW q \in rows, NEW p \in rows, PartOf(q, p)
      PROVE  q \in ChildrenOf(p)
  BY <1>3 DEF ChildrenOf, PartOf
<1>4. ASSUME NEW q \in rows, q.wave = w, q.kind = "story"
      PROVE  q \in stories
  <2>1. q \in RowsOf(w)
    BY <1>4 DEF ItemsInv
  <2>2. PICK p \in RowsOf(w) : p.kind = "epic" /\ Before(p, q) /\ PartOf(q, p)
    BY <1>1, <1>4, <2>1, RowsHavePlaces DEF RowsOf
  <2>3. p \in rows
    BY <1>2, <1>4, <2>2
  <2>4. p \in epics
    BY <1>4, <2>2, <2>3 DEF PartOf
  <2> QED
    BY <1>3, <2>2, <2>3, <2>4
<1>5. r \in epics \/ r \in stories \/ \E p \in stories : r \in ChildrenOf(p)
  <2>1. CASE r.kind = "epic"
    BY <2>1
  <2>2. CASE r.kind = "story"
    BY <1>4, <2>2
  <2>3. CASE r.kind \in {"impl", "verify"}
    <3>1. PICK p \in RowsOf(w) : p.kind = "story" /\ Before(p, r) /\ PartOf(r, p)
      BY <1>1, <2>3, RowsHavePlaces DEF RowsOf
    <3>2. p \in rows /\ p.wave = w
      BY <1>2, <3>1 DEF PartOf
    <3> QED
      BY <1>3, <1>4, <3>1, <3>2
  <2> QED
    BY <1>1, <2>1, <2>2, <2>3, RowsHavePlaces DEF RowsOf
<1> QED
  BY <1>5 DEF Tree

-----------------------------------------------------------------------------
Streams == [pc : {"none", "writing"} \cup Written, plan : Plans, at : Nat]

LEMMA ItemsInvInit == ItemsInit => ItemsInv
<1>1. NoStream \in [pc : {"none", "writing"} \cup Written, plan : Plans, at : Nat]
  BY PlansAssumption DEF NoStream
<1> QED
  BY <1>1 DEF ItemsInit, ItemsInv

\* A stream that goes on leaves its plan alone.
LEMMA AdvanceKeepsPlans ==
    ASSUME ItemsInv, NEW w \in Wave, NEW next \in {"writing"} \cup Written, Advance(w, next)
    PROVE  /\ writer' \in [Wave -> Streams]
           /\ \A v \in Wave : writer[v].pc # "none" =>
                  writer'[v].pc # "none" /\ writer'[v].plan = writer[v].plan
<1>1. /\ writer \in [Wave -> Streams]
      /\ writer' = [writer EXCEPT ![w] = [writer[w] EXCEPT !.at = @ + 1, !.pc = next]]
  BY DEF ItemsInv, Advance, Streams
<1>2. [writer[w] EXCEPT !.at = @ + 1, !.pc = next] \in Streams
  <2>1. PICK row \in Streams : row = writer[w]
    BY <1>1
  <2>2. row.at + 1 \in Nat
    BY <2>1 DEF Streams
  <2> QED
    BY <2>1, <2>2 DEF Streams
<1>3. next # "none"
  BY DEF Written
<1> QED
  BY <1>1, <1>2, <1>3 DEF Streams

\* Where rows and their plans stay, so does what they mean.
LEMMA RowsStay ==
    ASSUME ItemsInv, rows' = rows, writer' \in [Wave -> Streams],
           \A v \in Wave : writer[v].pc # "none" =>
               writer'[v].pc # "none" /\ writer'[v].plan = writer[v].plan
    PROVE  ItemsInv'
<1>1. ASSUME NEW r \in rows
      PROVE  /\ r.wave \in Wave /\ writer'[r.wave].pc # "none"
             /\ RowsOf(r.wave)' = RowsOf(r.wave)
  <2>1. r.wave \in Wave /\ writer[r.wave].pc # "none"
    BY DEF ItemsInv
  <2> QED
    BY <2>1 DEF RowsOf
<1> QED
  BY <1>1 DEF ItemsInv, Streams

LEMMA InsertItemKeeps ==
    ASSUME ItemsInv, NEW w \in Wave, InsertItem(w)
    PROVE  ItemsInv'
<1>1. PICK r \in RowsOf(w) :
          /\ \A q \in RowsOf(w) : Before(q, r) => q \in rows
          /\ rows' = rows \cup {r}
  BY DEF InsertItem
<1>2. writer' = writer /\ writer[w].pc = "writing" /\ writer[w].plan \in Plans
  BY DEF InsertItem, ItemsInv
<1>3. r.wave = w
  BY <1>2, RowsOfWave DEF RowsOf
<1>4. \A v : RowsOf(v)' = RowsOf(v)
  BY <1>2 DEF RowsOf
<1>5. ASSUME NEW q \in rows'
      PROVE  /\ q.wave \in Wave /\ writer[q.wave].pc # "none" /\ q \in RowsOf(q.wave)
             /\ \A p \in RowsOf(q.wave) : Before(p, q) => p \in rows'
  <2>1. CASE q \in rows
    BY <1>1, <2>1 DEF ItemsInv
  <2>2. CASE q = r
    BY <1>1, <1>2, <1>3, <2>2
  <2> QED
    BY <1>1, <2>1, <2>2
<1> QED
  BY <1>2, <1>4, <1>5 DEF ItemsInv

LEMMA FeedbackKeeps ==
    ASSUME ItemsInv, NEW w \in Wave, Feedback(w)
    PROVE  ItemsInv'
<1>1. /\ rows' = {r \in rows : r.wave # w}
      /\ writer' = [writer EXCEPT ![w] = NoStream]
  BY DEF Feedback, Kept
<1>2. writer' \in [Wave -> Streams]
  <2>1. NoStream \in Streams
    BY PlansAssumption DEF NoStream, Streams
  <2> QED
    BY <1>1, <2>1 DEF ItemsInv, Streams
<1>3. ASSUME NEW r \in rows'
      PROVE  /\ r.wave \in Wave /\ writer'[r.wave].pc # "none" /\ r \in RowsOf(r.wave)'
             /\ \A q \in RowsOf(r.wave)' : Before(q, r) => q \in rows'
  <2>1. /\ r \in rows /\ r.wave \in Wave /\ r.wave # w
        /\ writer[r.wave].pc # "none" /\ r \in RowsOf(r.wave)
        /\ \A q \in RowsOf(r.wave) : Before(q, r) => q \in rows
        /\ writer[r.wave].plan \in Plans
    BY <1>1 DEF ItemsInv
  <2>2. writer'[r.wave] = writer[r.wave]
    BY <1>1, <2>1 DEF ItemsInv
  <2>3. RowsOf(r.wave)' = RowsOf(r.wave)
    BY <2>2 DEF RowsOf
  <2>4. \A q \in RowsOf(r.wave) : q.wave = r.wave
    BY <2>1, RowsOfWave DEF RowsOf
  <2> QED
    BY <1>1, <2>1, <2>2, <2>3, <2>4
<1> QED
  BY <1>2, <1>3 DEF ItemsInv, Streams

LEMMA ItemsInvStep == ItemsInv /\ [ItemsNext]_itemsVars => ItemsInv'
<1> SUFFICES ASSUME ItemsInv, [ItemsNext]_itemsVars PROVE ItemsInv'
  OBVIOUS
<1>1. ASSUME NEW w \in Wave, NEW plan \in Plans, Decompose(w, plan)
      PROVE  ItemsInv'
  <2>1. /\ rows' = rows /\ writer[w].pc = "none"
        /\ writer' = [writer EXCEPT ![w] = [pc |-> "writing", plan |-> plan, at |-> 1]]
    BY <1>1 DEF Decompose
  <2>2. [pc |-> "writing", plan |-> plan, at |-> 1] \in Streams
    BY DEF Streams
  <2>3. /\ writer' \in [Wave -> Streams]
        /\ \A v \in Wave : v # w => writer'[v] = writer[v]
    BY <2>1, <2>2 DEF ItemsInv, Streams
  <2> QED
    BY <2>1, <2>3, RowsStay
<1>2. ASSUME NEW w \in Wave, InsertDependency(w) \/ Validate(w)
      PROVE  ItemsInv'
  <2>1. rows' = rows
    BY <1>2 DEF InsertDependency, Validate
  <2>2. PICK next \in {"writing"} \cup Written : Advance(w, next)
    BY <1>2 DEF InsertDependency, Validate, Written
  <2>3. /\ writer' \in [Wave -> Streams]
        /\ \A v \in Wave : writer[v].pc # "none" =>
               writer'[v].pc # "none" /\ writer'[v].plan = writer[v].plan
    BY <2>2, AdvanceKeepsPlans
  <2> QED
    BY <2>1, <2>3, RowsStay
<1>3. CASE Crash
  <2>1. /\ rows' = rows
        /\ writer' = [w \in Wave |-> IF writer[w].pc = "writing"
                                     THEN [writer[w] EXCEPT !.pc = "failed"]
                                     ELSE writer[w]]
    BY <1>3 DEF Crash
  <2>2. ASSUME NEW w \in Wave
        PROVE  /\ writer'[w] \in Streams /\ writer'[w].plan = writer[w].plan
               /\ writer[w].pc # "none" => writer'[w].pc # "none"
    <3>1. writer[w] \in Streams
      BY DEF ItemsInv, Streams
    <3>2. [writer[w] EXCEPT !.pc = "failed"] \in Streams
      BY <3>1 DEF Streams, Written
    <3> QED
      BY <2>1, <3>1, <3>2 DEF Streams
  <2>3. writer' \in [Wave -> Streams]
    BY <2>1, <2>2
  <2> QED
    BY <2>1, <2>2, <2>3, RowsStay
<1>4. CASE UNCHANGED itemsVars
  <2>1. rows' = rows /\ writer' = writer
    BY <1>4 DEF itemsVars
  <2>2. writer' \in [Wave -> Streams]
    BY <2>1 DEF ItemsInv, Streams
  <2> QED
    BY <2>1, <2>2, RowsStay
<1> QED
  BY <1>1, <1>2, <1>3, <1>4, InsertItemKeeps, FeedbackKeeps DEF ItemsNext

\* Every row is below a row of the tree that plan.show and exec.status print, at every
\* moment of every stream and whatever failed: for any plans and waves.
THEOREM NothingIsOutOfSight == ItemsSpec => []NothingIsHidden
BY ItemsInvInit, ItemsInvStep, RowsAreSeen, PTL DEF ItemsSpec
=============================================================================
