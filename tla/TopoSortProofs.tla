--------------------------- MODULE TopoSortProofs ---------------------------
(***************************************************************************)
(* The search over the job graph is right for every graph of any size: the *)
(* order has dependencies first, and the verdict tells cyclic graphs and   *)
(* unknown dependencies from the others.                                   *)
(***************************************************************************)
EXTENDS TopoSort, SequenceTheorems, TLAPS

Frames  == [job : Jobs, at : Nat \ {0}]
Visited == {i \in Jobs : mark[i] = "visited"}

(* The stack is a path: each frame's loop is at the job of the next frame,   *)
(* and it holds exactly the jobs marked as visiting, each once.              *)
OnPath ==
  /\ \A p \in 1..Len(stack) : mark[stack[p].job] = "visiting"
  /\ \A p, q \in 1..Len(stack) : stack[p].job = stack[q].job => p = q
  /\ \A i \in Jobs : mark[i] = "visiting" => \E p \in 1..Len(stack) : stack[p].job = i
  /\ \A p \in 1..(Len(stack) - 1) :
       /\ stack[p].at <= Len(deps[stack[p].job])
       /\ deps[stack[p].job][stack[p].at] = stack[p + 1].job

(* What the loop of a frame has passed was visited. *)
PassedVisited ==
  \A p \in 1..Len(stack) : \A k \in 1..Len(deps[stack[p].job]) :
    k < stack[p].at => deps[stack[p].job][k] \in Visited

(* What the outer loop has passed was visited, or is being visited. *)
RootsReached == \A i \in Jobs \ left : mark[i] # "unvisited"

(* The order lists the visited jobs; they are closed under dependencies and   *)
(* hold no cycle.  The last conjunct is what makes the verdict inductive:     *)
(* acyclicity grows with the order, one job at a time.                        *)
Ordered ==
  /\ \A i \in Jobs : i \in Visited <=> \E p \in 1..Len(order) : order[p] = i
  /\ DepsFirst
  /\ \A i \in Visited : DepSet(i) \subseteq Visited
  /\ \A S \in SUBSET Visited : S # {} => \E i \in S : DepSet(i) \cap S = {}

SearchInv == TypeOK /\ OnPath /\ PassedVisited /\ RootsReached /\ Ordered /\ Verdict

-----------------------------------------------------------------------------
LEMMA DepsType ==
  ASSUME TypeOK, NEW i \in Jobs
  PROVE  /\ deps[i] \in Seq(Jobs \cup {Unknown})
         /\ Len(deps[i]) \in Nat
         /\ \A k \in 1..Len(deps[i]) : deps[i][k] \in Jobs \cup {Unknown}
         /\ \A d : d \in DepSet(i) <=> \E k \in 1..Len(deps[i]) : deps[i][k] = d
<1>1. deps[i] \in Seq(Jobs \cup {Unknown})
  BY TopoAssumption DEF TypeOK
<1> QED BY <1>1 DEF DepSet, Range

(* A frame's loop goes on behind the dependency it was at. *)
LEMMA AdvanceFacts ==
  ASSUME NEW s \in Seq(Frames), s # << >>
  PROVE  /\ Advance(s) \in Seq(Frames)
         /\ Len(Advance(s)) = Len(s)
         /\ \A p \in 1..Len(s) : Advance(s)[p].job = s[p].job
         /\ \A p \in 1..(Len(s) - 1) : Advance(s)[p] = s[p]
         /\ Advance(s)[Len(s)].at = s[Len(s)].at + 1
<1> DEFINE n == Len(s)
           f == s[n]
           e == [f EXCEPT !.at = @ + 1]
<1>1. n \in 1..Len(s) /\ n \in Nat /\ n = Len(s) OBVIOUS
<1>2. f \in Frames BY <1>1
<1>3. Advance(s) = [s EXCEPT ![n] = e]
  BY DEF Advance
<1>4. f = s[n] OBVIOUS
<1> HIDE DEF f, n
<1>5. e \in Frames /\ e.job = f.job /\ e.at = f.at + 1
  BY ONLY <1>2 DEF Frames
<1> HIDE DEF e
<1>6. /\ [s EXCEPT ![n] = e] \in Seq(Frames)
      /\ Len([s EXCEPT ![n] = e]) = Len(s)
      /\ \A p \in 1..Len(s) : [s EXCEPT ![n] = e][p] = IF p = n THEN e ELSE s[p]
  BY ONLY <1>1, <1>5, s \in Seq(Frames), ExceptSeq
<1>7. \A p \in 1..(n - 1) : p \in 1..n /\ p # n BY <1>1
<1> QED BY ONLY <1>1, <1>3, <1>4, <1>5, <1>6, <1>7

LEMMA PopFacts ==
  ASSUME NEW s \in Seq(Frames), s # << >>, NEW t, t = SubSeq(s, 1, Len(s) - 1)
  PROVE  /\ t \in Seq(Frames)
         /\ Len(t) = Len(s) - 1
         /\ \A p \in 1..(Len(s) - 1) : t[p] = s[p]
<1> DEFINE m == Len(s) - 1
<1>1. m \in Nat /\ 1 \in Int /\ m \in Int OBVIOUS
<1>2. \A p \in 1..m : s[p] \in Frames OBVIOUS
<1>3. t = SubSeq(s, 1, m) OBVIOUS
<1> HIDE DEF m
<1>4. /\ t \in Seq(Frames)
      /\ Len(t) = IF 1 <= m THEN m - 1 + 1 ELSE 0
      /\ \A p \in 1..(m - 1 + 1) : t[p] = s[1 + p - 1]
  BY ONLY <1>1, <1>2, <1>3, SubSeqProperties
<1>5. t \in Seq(Frames) /\ Len(t) = m /\ \A p \in 1..m : t[p] = s[p]
  BY ONLY <1>1, <1>4
<1> QED BY <1>5 DEF m

LEMMA TopFacts ==
  ASSUME TypeOK, stack # << >>
  PROVE  /\ stack \in Seq(Frames)
         /\ Len(stack) \in Nat \ {0}
         /\ Top = stack[Len(stack)]
         /\ Top \in Frames /\ Top.job \in Jobs /\ Top.at \in Nat \ {0}
<1>1. stack \in Seq(Frames) BY DEF TypeOK, Frames
<1>2. Len(stack) \in Nat \ {0} BY <1>1
<1>3. Top \in Frames BY <1>1, <1>2 DEF Top
<1> QED BY <1>1, <1>2, <1>3 DEF Top, Frames

(* In a loop, the dependency it is at is an entry of the top job's list. *)
LEMMA DepFacts ==
  ASSUME TypeOK, Looping
  PROVE  /\ stack # << >>
         /\ Top.at \in 1..Len(deps[Top.job])
         /\ Dep = deps[Top.job][Top.at]
         /\ Dep \in Jobs \cup {Unknown}
         /\ Dep \in DepSet(Top.job)
<1>1. stack # << >> BY DEF Looping
<1>2. Top.job \in Jobs /\ Top.at \in Nat \ {0} BY <1>1, TopFacts
<1>3. Top.at \in 1..Len(deps[Top.job]) BY <1>2, DepsType DEF Looping, TopDeps
<1> QED BY <1>1, <1>2, <1>3, DepsType DEF Dep, TopDeps

(* A step that visits no job to its end leaves the order and its facts.     *)
LEMMA OrderedKept ==
  ASSUME Ordered, UNCHANGED <<deps, order>>, Visited' = Visited
  PROVE  Ordered'
<1>1. \A i : DepSet(i)' = DepSet(i) BY DEF DepSet
<1>2. DepsFirst' BY <1>1 DEF Ordered, DepsFirst, DepSet
<1> QED BY <1>1, <1>2 DEF Ordered

LEMMA SearchInit == Init => SearchInv
<1> SUFFICES ASSUME Init PROVE SearchInv OBVIOUS
<1>1. TypeOK BY DEF Init, TypeOK, Marks
<1>2. Visited = {} BY DEF Init, Visited
<1>3. OnPath /\ PassedVisited /\ RootsReached
  BY DEF Init, OnPath, PassedVisited, RootsReached
<1>4. Ordered
  <2>1. order = << >> /\ Len(order) = 0 BY DEF Init
  <2>2. \A i \in Jobs : ~\E p \in 1..Len(order) : order[p] = i BY <2>1
  <2>3. DepsFirst BY <2>1 DEF DepsFirst
  <2>4. \A S \in SUBSET Visited : S = {} BY <1>2
  <2> QED BY <1>2, <2>2, <2>3, <2>4 DEF Ordered
<1>5. Verdict BY DEF Init, Verdict
<1> QED BY <1>1, <1>3, <1>4, <1>5 DEF SearchInv

LEMMA RootStep ==
  ASSUME SearchInv, NEW i \in Jobs, Root(i)
  PROVE  SearchInv'
<1> USE DEF SearchInv
<1>1. Verdict' BY DEF Root, Searching, Verdict
<1>2. CASE mark[i] = "visited"
  <2>1. UNCHANGED <<mark, stack, deps, order, caller, result>> /\ left' = left \ {i}
    BY <1>2 DEF Root
  <2>2. Visited' = Visited BY <2>1 DEF Visited
  <2>3. TypeOK' BY <2>1 DEF TypeOK
  <2>4. OnPath' BY <2>1 DEF OnPath
  <2>5. PassedVisited' BY <2>1, <2>2 DEF PassedVisited
  <2>6. RootsReached' BY <2>1, <1>2 DEF RootsReached
  <2>7. Ordered' BY <2>1, <2>2, OrderedKept
  <2> QED BY <1>1, <2>3, <2>4, <2>5, <2>6, <2>7
<1>3. CASE mark[i] # "visited"
  <2>1. /\ UNCHANGED <<deps, order, caller, result>> /\ left' = left \ {i}
        /\ mark' = [mark EXCEPT ![i] = "visiting"] /\ stack' = <<Frame(i)>> /\ stack = << >>
    BY <1>3 DEF Root
  <2>2. mark \in [Jobs -> Marks] BY DEF TypeOK
  <2>3. \A k \in Jobs : mark[k] # "visiting" BY <2>1 DEF OnPath
  <2>4. Visited' = Visited BY <2>1, <2>2, <1>3 DEF Visited
  <2>5. Len(stack') = 1 /\ stack'[1].job = i /\ stack'[1].at = 1 BY <2>1 DEF Frame
  <2>6. TypeOK'
    <3>1. stack' \in Seq([job : Jobs, at : Nat \ {0}]) BY <2>1 DEF Frame
    <3>2. mark' \in [Jobs -> Marks] BY <2>1, <2>2 DEF Marks
    <3> QED BY <2>1, <3>1, <3>2 DEF TypeOK
  <2>7. OnPath' BY <2>1, <2>2, <2>3, <2>5 DEF OnPath
  <2>8. PassedVisited' BY <2>5 DEF PassedVisited
  <2>9. RootsReached' BY <2>1, <2>2 DEF RootsReached
  <2>10. Ordered' BY <2>1, <2>4, OrderedKept
  <2> QED BY <1>1, <2>6, <2>7, <2>8, <2>9, <2>10
<1> QED BY <1>2, <1>3

LEMMA DescendStep ==
  ASSUME SearchInv, Descend
  PROVE  SearchInv'
<1> USE DEF SearchInv
<1> DEFINE n == Len(stack)
<1>1. /\ UNCHANGED <<caller, deps, left, order, result>>
      /\ mark' = [mark EXCEPT ![Dep] = "visiting"] /\ stack' = Append(stack, Frame(Dep))
      /\ Looping /\ Dep # Unknown /\ mark[Dep] = "unvisited"
  BY DEF Descend
<1>2. Dep \in Jobs /\ Top.at \in 1..Len(deps[Top.job]) /\ Dep = deps[Top.job][Top.at]
  BY <1>1, DepFacts
<1>3. stack \in Seq(Frames) /\ n \in Nat \ {0} /\ Top = stack[n]
  BY <1>1, DepFacts, TopFacts
<1>4. Frame(Dep) \in Frames /\ Frame(Dep).job = Dep /\ Frame(Dep).at = 1
  BY <1>2 DEF Frame, Frames
<1>5. /\ stack' \in Seq(Frames) /\ Len(stack') = n + 1
      /\ \A p \in 1..n : stack'[p] = stack[p]
      /\ stack'[n + 1] = Frame(Dep)
  BY ONLY <1>1, <1>3, <1>4, AppendProperties
<1>6. mark \in [Jobs -> Marks] BY DEF TypeOK
<1>7. Visited' = Visited BY <1>1, <1>2, <1>6 DEF Visited
<1>8. TypeOK'
  <2>1. stack' \in Seq([job : Jobs, at : Nat \ {0}]) BY <1>5 DEF Frames
  <2>2. mark' \in [Jobs -> Marks] BY <1>1, <1>6 DEF Marks
  <2> QED BY <1>1, <2>1, <2>2 DEF TypeOK
<1> HIDE DEF n
<1>9. \A p \in 1..(n + 1) : p \in 1..n \/ p = n + 1 BY <1>3
<1>10. \A p \in 1..n : stack[p].job \in Jobs /\ stack[p].job # Dep
  <2>1. \A p \in 1..n : stack[p] \in Frames BY <1>3 DEF n
  <2>2. \A p \in 1..n : stack[p].job \in Jobs BY <2>1 DEF Frames
  <2>3. \A p \in 1..n : mark[stack[p].job] = "visiting" BY DEF OnPath, n
  <2> QED BY <1>1, <2>2, <2>3
<1>11. OnPath'
  <2>1. \A p \in 1..Len(stack') : mark'[stack'[p].job] = "visiting"
    BY <1>1, <1>2, <1>4, <1>5, <1>6, <1>9, <1>10 DEF OnPath, n
  <2>2. \A p, q \in 1..Len(stack') : stack'[p].job = stack'[q].job => p = q
    BY <1>4, <1>5, <1>9, <1>10 DEF OnPath, n
  <2>3. \A i \in Jobs : mark'[i] = "visiting" => \E p \in 1..Len(stack') : stack'[p].job = i
    <3> SUFFICES ASSUME NEW i \in Jobs, mark'[i] = "visiting"
                 PROVE  \E p \in 1..Len(stack') : stack'[p].job = i
      OBVIOUS
    <3>1. CASE i = Dep BY <3>1, <1>3, <1>4, <1>5
    <3>2. CASE i # Dep
      <4>1. mark[i] = "visiting" BY <3>2, <1>1, <1>6
      <4>2. PICK p \in 1..n : stack[p].job = i BY <4>1 DEF OnPath, n
      <4> QED BY <4>2, <1>3, <1>5
    <3> QED BY <3>1, <3>2
  <2>4. \A p \in 1..(Len(stack') - 1) :
          /\ stack'[p].at <= Len(deps'[stack'[p].job])
          /\ deps'[stack'[p].job][stack'[p].at] = stack'[p + 1].job
    <3> SUFFICES ASSUME NEW p \in 1..n
                 PROVE  /\ stack[p].at <= Len(deps[stack[p].job])
                        /\ deps[stack[p].job][stack[p].at] = stack'[p + 1].job
      BY <1>1, <1>3, <1>5
    <3>1. CASE p = n
      BY <3>1, <1>2, <1>3, <1>4, <1>5
    <3>2. CASE p # n
      <4>1. p \in 1..(n - 1) /\ p + 1 \in 1..n BY <3>2, <1>3
      <4> QED BY <4>1, <1>5 DEF OnPath, n
    <3> QED BY <3>1, <3>2
  <2> QED BY <2>1, <2>2, <2>3, <2>4 DEF OnPath
<1>12. PassedVisited'
  <2> SUFFICES ASSUME NEW p \in 1..(n + 1), NEW k \in 1..Len(deps[stack'[p].job]), k < stack'[p].at
               PROVE  deps[stack'[p].job][k] \in Visited
    BY <1>1, <1>5, <1>7 DEF PassedVisited
  <2>1. CASE p = n + 1
    <3>1. stack'[p].at = 1 BY <2>1, <1>4, <1>5
    <3> QED BY <3>1
  <2>2. CASE p \in 1..n BY <2>2, <1>5 DEF PassedVisited, n
  <2> QED BY <2>1, <2>2, <1>9
<1>13. RootsReached' BY <1>1, <1>6 DEF RootsReached
<1>14. Ordered' BY <1>1, <1>7, OrderedKept
<1>15. Verdict' BY <1>1 DEF Verdict, Looping, Searching
<1> QED BY <1>8, <1>11, <1>12, <1>13, <1>14, <1>15

LEMMA AlreadyVisitedStep ==
  ASSUME SearchInv, AlreadyVisited
  PROVE  SearchInv'
<1> USE DEF SearchInv
<1> DEFINE n == Len(stack)
<1>1. /\ UNCHANGED <<caller, deps, mark, left, order, result>>
      /\ stack' = Advance(stack) /\ Looping /\ Dep # Unknown /\ mark[Dep] = "visited"
  BY DEF AlreadyVisited
<1>2. Dep \in Jobs /\ Dep = deps[Top.job][Top.at]
  BY <1>1, DepFacts
<1>3. stack \in Seq(Frames) /\ n \in Nat \ {0} /\ Top = stack[n] /\ Top.at \in Nat
  BY <1>1, DepFacts, TopFacts
<1>4. /\ stack' \in Seq(Frames) /\ Len(stack') = n
      /\ \A p \in 1..n : stack'[p].job = stack[p].job
      /\ \A p \in 1..(n - 1) : stack'[p] = stack[p]
      /\ stack'[n].at = stack[n].at + 1
  BY <1>1, <1>3, DepFacts, AdvanceFacts
<1>5. Visited' = Visited /\ Dep \in Visited BY <1>1, <1>2 DEF Visited
<1>6. TypeOK'
  <2>1. stack' \in Seq([job : Jobs, at : Nat \ {0}]) BY <1>4 DEF Frames
  <2> QED BY <1>1, <2>1 DEF TypeOK
<1>7. OnPath'
  <2>1. \A p \in 1..Len(stack') : mark'[stack'[p].job] = "visiting"
    BY <1>1, <1>4 DEF OnPath
  <2>2. \A p, q \in 1..Len(stack') : stack'[p].job = stack'[q].job => p = q
    BY <1>4 DEF OnPath
  <2>3. \A i \in Jobs : mark'[i] = "visiting" => \E p \in 1..Len(stack') : stack'[p].job = i
    BY <1>1, <1>4 DEF OnPath
  <2>4. ASSUME NEW p \in 1..(n - 1)
        PROVE  /\ stack'[p].at <= Len(deps'[stack'[p].job])
               /\ deps'[stack'[p].job][stack'[p].at] = stack'[p + 1].job
    <3>1. p \in 1..n /\ p + 1 \in 1..n BY <1>3
    <3>2. stack'[p] = stack[p] /\ stack'[p + 1].job = stack[p + 1].job BY <3>1, <1>4
    <3> QED BY <1>1, <3>2 DEF OnPath
  <2> QED BY <1>4, <2>1, <2>2, <2>3, <2>4 DEF OnPath
<1>8. PassedVisited'
  <2> SUFFICES ASSUME NEW p \in 1..n, NEW k \in 1..Len(deps[stack[p].job]), k < stack'[p].at
               PROVE  deps[stack[p].job][k] \in Visited
    BY <1>1, <1>4, <1>5 DEF PassedVisited
  <2>1. CASE p # n
    <3>1. p \in 1..(n - 1) BY <2>1, <1>3
    <3> QED BY <3>1, <1>4 DEF PassedVisited
  <2>2. CASE p = n
    <3>1. k \in Int /\ k < Top.at + 1 BY <2>2, <1>3, <1>4
    <3>2. k < Top.at \/ k = Top.at BY ONLY <3>1, <1>3
    <3>3. CASE k < Top.at BY <3>3, <2>2, <1>3 DEF PassedVisited
    <3>4. CASE k = Top.at BY <3>4, <2>2, <1>2, <1>3, <1>5
    <3> QED BY <3>2, <3>3, <3>4
  <2> QED BY <2>1, <2>2
<1>9. RootsReached' BY <1>1 DEF RootsReached
<1>10. Ordered' BY <1>1, <1>5, OrderedKept
<1>11. Verdict' BY <1>1 DEF Verdict, Looping, Searching
<1> QED BY <1>6, <1>7, <1>8, <1>9, <1>10, <1>11

(* The jobs on the stack from the one found again depend on each other. *)
LEMMA CycleStep ==
  ASSUME SearchInv, CycleDetected
  PROVE  SearchInv'
<1> USE DEF SearchInv
<1> DEFINE n == Len(stack)
<1>1. /\ UNCHANGED <<caller, deps, mark, stack, left, order>> /\ result' = "cycle"
      /\ Looping /\ Dep # Unknown /\ mark[Dep] = "visiting"
  BY DEF CycleDetected
<1>2. Dep \in Jobs /\ Dep \in DepSet(Top.job)
  BY <1>1, DepFacts
<1>3. stack \in Seq(Frames) /\ n \in Nat \ {0} /\ Top = stack[n]
  BY <1>1, DepFacts, TopFacts
<1>4. PICK r \in 1..n : stack[r].job = Dep BY <1>1, <1>2 DEF OnPath
<1> DEFINE S == {stack[p].job : p \in r..n}
<1>5. \A p \in r..n : stack[p].job \in Jobs
  <2>1. \A p \in r..n : stack[p] \in Frames BY <1>3, <1>4
  <2> QED BY <2>1 DEF Frames
<1>6. S \in SUBSET Jobs /\ S # {} /\ Dep \in S
  <2>1. r \in r..n BY <1>3, <1>4
  <2> QED BY <2>1, <1>4, <1>5
<1>7. ASSUME NEW i \in S PROVE DepSet(i) \cap S # {}
  <2>1. PICK p \in r..n : i = stack[p].job BY <1>7
  <2>2. CASE p = n BY <2>1, <2>2, <1>2, <1>3, <1>6
  <2>3. CASE p # n
    <3>1. p \in 1..(n - 1) /\ p + 1 \in r..n BY <2>3, <1>3, <1>4
    <3>2. stack[p].at <= Len(deps[i]) /\ deps[i][stack[p].at] = stack[p + 1].job
      BY <3>1, <2>1 DEF OnPath
    <3>3. stack[p].at \in Nat \ {0}
      <4>1. stack[p] \in Frames BY <1>3, <3>1
      <4> QED BY <4>1 DEF Frames
    <3>4. i \in Jobs BY <2>1, <1>5
    <3>5. stack[p].at \in 1..Len(deps[i]) BY <3>2, <3>3, <3>4, DepsType
    <3>6. stack[p + 1].job \in DepSet(i) BY <3>2, <3>4, <3>5, DepsType
    <3>7. stack[p + 1].job \in S BY <3>1
    <3> QED BY <3>6, <3>7
  <2> QED BY <2>2, <2>3
<1>8. Cyclic BY <1>6, <1>7 DEF Cyclic
<1>9. Cyclic' BY <1>1, <1>8 DEF Cyclic, DepSet
<1>10. Visited' = Visited BY <1>1 DEF Visited
<1>11. TypeOK' BY <1>1 DEF TypeOK
<1>12. OnPath' /\ RootsReached' BY <1>1 DEF OnPath, RootsReached
<1>13. PassedVisited' BY <1>1, <1>10 DEF PassedVisited
<1>14. Ordered' BY <1>1, <1>10, OrderedKept
<1>15. Verdict' BY <1>1, <1>9 DEF Verdict
<1> QED BY <1>11, <1>12, <1>13, <1>14, <1>15

LEMMA UnknownStep ==
  ASSUME SearchInv, UnknownDep
  PROVE  SearchInv'
<1> USE DEF SearchInv
<1>1. UNCHANGED <<caller, deps, mark, stack, left, order>> /\ result' = "unknown"
  BY DEF UnknownDep
<1>2. Unknown \in DepSet(Top.job) /\ Top.job \in Jobs
  BY DepFacts, TopFacts DEF UnknownDep
<1>3. \E i \in Jobs : Unknown \in DepSet(i)' BY <1>1, <1>2 DEF DepSet
<1>4. Visited' = Visited BY <1>1 DEF Visited
<1>5. TypeOK' BY <1>1 DEF TypeOK
<1>6. OnPath' /\ RootsReached' BY <1>1 DEF OnPath, RootsReached
<1>7. PassedVisited' BY <1>1, <1>4 DEF PassedVisited
<1>8. Ordered' BY <1>1, <1>4, OrderedKept
<1>9. Verdict' BY <1>1, <1>3 DEF Verdict
<1> QED BY <1>5, <1>6, <1>7, <1>8, <1>9

(* A job whose loop is through joins the order behind its dependencies. *)
LEMMA ReturnStep ==
  ASSUME SearchInv, Return
  PROVE  SearchInv'
<1> USE DEF SearchInv
<1> DEFINE n == Len(stack)
           j == Top.job
<1>1. /\ UNCHANGED <<caller, deps, left, result>> /\ result = "none"
      /\ stack # << >> /\ Top.at > Len(deps[Top.job])
      /\ mark' = [mark EXCEPT ![Top.job] = "visited"]
      /\ order' = Append(order, Top.job)
      /\ stack' = IF Len(stack) = 1 THEN << >> ELSE Advance(Pop)
  BY DEF Return, TopDeps, Searching
<1>2. /\ stack \in Seq(Frames) /\ n \in Nat \ {0} /\ Top = stack[n]
      /\ j \in Jobs /\ Top.at \in Nat \ {0} /\ n \in 1..n /\ stack[n].job = j
  BY <1>1, TopFacts
<1>3. mark \in [Jobs -> Marks] /\ order \in Seq(Jobs) BY DEF TypeOK
<1>4. mark[j] = "visiting" BY <1>2 DEF OnPath
<1>5. Visited' = Visited \cup {j} /\ j \notin Visited BY <1>1, <1>2, <1>3, <1>4 DEF Visited
<1>6. DepSet(j) \subseteq Visited
  <2> SUFFICES ASSUME NEW d \in DepSet(j) PROVE d \in Visited OBVIOUS
  <2>1. PICK k \in 1..Len(deps[j]) : deps[j][k] = d BY <1>2, DepsType
  <2>2. k < Top.at BY <1>1, <1>2, <2>1, DepsType
  <2> QED BY <2>1, <2>2, <1>2 DEF PassedVisited
<1>7. /\ stack' \in Seq(Frames) /\ Len(stack') = n - 1
      /\ \A p \in 1..(n - 1) : stack'[p].job = stack[p].job
      /\ \A p \in 1..(n - 2) : stack'[p] = stack[p]
      /\ n > 1 => stack'[n - 1].at = stack[n - 1].at + 1
  <2>1. CASE n = 1
    <3>1. stack' = << >> BY <2>1, <1>1
    <3> QED BY <3>1, <2>1
  <2>2. CASE n # 1
    <3>1. Pop \in Seq(Frames) /\ Len(Pop) = n - 1 /\ \A p \in 1..(n - 1) : Pop[p] = stack[p]
      BY <1>1, <1>2, PopFacts DEF Pop
    <3>2. Pop # << >> /\ stack' = Advance(Pop) BY <3>1, <2>2, <1>1, <1>2
    <3>3. /\ Advance(Pop) \in Seq(Frames) /\ Len(Advance(Pop)) = n - 1
          /\ \A p \in 1..(n - 1) : Advance(Pop)[p].job = Pop[p].job
          /\ \A p \in 1..((n - 1) - 1) : Advance(Pop)[p] = Pop[p]
          /\ Advance(Pop)[n - 1].at = Pop[n - 1].at + 1
      BY <3>1, <3>2, AdvanceFacts
    <3>a. n \in Nat /\ n # 0 /\ n # 1 BY <1>2, <2>2
    <3> HIDE DEF n
    <3>4. \A p \in 1..(n - 2) : p \in 1..((n - 1) - 1) /\ p \in 1..(n - 1) BY ONLY <3>a
    <3>5. n - 1 \in 1..(n - 1) BY ONLY <3>a
    <3> QED BY ONLY <3>1, <3>2, <3>3, <3>4, <3>5
  <2> QED BY <2>1, <2>2
<1>8. /\ order' \in Seq(Jobs) /\ Len(order') = Len(order) + 1 /\ Len(order) \in Nat
      /\ \A p \in 1..Len(order) : order'[p] = order[p]
      /\ order'[Len(order) + 1] = j
  BY <1>1, <1>2, <1>3, AppendProperties
<1>9. TypeOK'
  <2>1. stack' \in Seq([job : Jobs, at : Nat \ {0}]) BY <1>7 DEF Frames
  <2>2. mark' \in [Jobs -> Marks] BY <1>1, <1>3 DEF Marks
  <2> QED BY <1>1, <1>8, <2>1, <2>2 DEF TypeOK
<1>10. \A p \in 1..(n - 1) : p \in 1..n /\ p # n /\ stack[p].job \in Jobs /\ stack[p].job # j
  <2>1. \A p \in 1..(n - 1) : p \in 1..n /\ p # n BY <1>2
  <2>2. \A p \in 1..(n - 1) : stack[p] \in Frames BY <2>1, <1>2
  <2>3. \A p \in 1..(n - 1) : stack[p].job \in Jobs BY <2>2 DEF Frames
  <2> QED BY <2>1, <2>3, <1>2 DEF OnPath
<1>11. OnPath'
  <2>1. ASSUME NEW p \in 1..(n - 1) PROVE mark'[stack'[p].job] = "visiting"
    <3>1. stack'[p].job = stack[p].job /\ stack[p].job \in Jobs /\ stack[p].job # j
      BY <1>7, <1>10
    <3>2. mark[stack[p].job] = "visiting" BY <1>10 DEF OnPath
    <3> QED BY <1>1, <1>3, <3>1, <3>2
  <2>2. ASSUME NEW p \in 1..(n - 1), NEW q \in 1..(n - 1), stack'[p].job = stack'[q].job
        PROVE  p = q
    <3>1. stack[p].job = stack[q].job /\ p \in 1..n /\ q \in 1..n BY <2>2, <1>7, <1>10
    <3> QED BY <3>1 DEF OnPath
  <2>3. \A i \in Jobs : mark'[i] = "visiting" => \E p \in 1..Len(stack') : stack'[p].job = i
    <3> SUFFICES ASSUME NEW i \in Jobs, mark'[i] = "visiting"
                 PROVE  \E p \in 1..(n - 1) : stack[p].job = i
      BY <1>7
    <3>1. i # j /\ mark[i] = "visiting" BY <1>1, <1>2, <1>3
    <3>2. PICK p \in 1..n : stack[p].job = i BY <3>1 DEF OnPath
    <3>3. p \in 1..(n - 1) BY <3>1, <3>2, <1>2
    <3> QED BY <3>2, <3>3
  <2>4. \A p \in 1..(Len(stack') - 1) :
          /\ stack'[p].at <= Len(deps'[stack'[p].job])
          /\ deps'[stack'[p].job][stack'[p].at] = stack'[p + 1].job
    <3> SUFFICES ASSUME NEW p \in 1..(n - 2)
                 PROVE  /\ stack'[p].at <= Len(deps[stack'[p].job])
                        /\ deps[stack'[p].job][stack'[p].at] = stack'[p + 1].job
      BY <1>1, <1>2, <1>7
    <3>1. p \in 1..(n - 1) /\ p + 1 \in 1..(n - 1) BY <1>2
    <3>2. stack'[p] = stack[p] /\ stack'[p + 1].job = stack[p + 1].job BY <3>1, <1>7
    <3> QED BY <3>1, <3>2 DEF OnPath
  <2> QED BY <1>7, <2>1, <2>2, <2>3, <2>4 DEF OnPath
<1>12. PassedVisited'
  <2>a. ASSUME \A p \in 1..(n - 1) : \A k \in 1..Len(deps[stack[p].job]) :
                 k < stack'[p].at => deps[stack[p].job][k] \in Visited'
        PROVE  PassedVisited'
    <3>1. \A p \in 1..(n - 1) : deps'[stack'[p].job] = deps[stack[p].job] BY <1>1, <1>7
    <3> QED BY <2>a, <3>1, <1>7 DEF PassedVisited
  <2> SUFFICES ASSUME NEW p \in 1..(n - 1), NEW k \in 1..Len(deps[stack[p].job]), k < stack'[p].at
               PROVE  deps[stack[p].job][k] \in Visited \cup {j}
    BY <2>a, <1>5
  <2>1. CASE p # n - 1
    <3>1. p \in 1..(n - 2) /\ p \in 1..n BY <2>1, <1>2
    <3> QED BY <3>1, <1>7 DEF PassedVisited
  <2>2. CASE p = n - 1
    <3>1. n > 1 /\ p \in 1..n /\ p + 1 = n BY <2>2, <1>2
    <3>2. stack[p].at \in Nat
      <4>1. stack[p] \in Frames BY <3>1, <1>2
      <4> QED BY <4>1 DEF Frames
    <3>3. k \in Int /\ k < stack[p].at + 1 BY <2>2, <3>1, <1>7
    <3>4. k < stack[p].at \/ k = stack[p].at BY ONLY <3>2, <3>3
    <3>5. CASE k < stack[p].at BY <3>5, <3>1 DEF PassedVisited
    <3>6. CASE k = stack[p].at
      <4>1. deps[stack[p].job][stack[p].at] = stack[p + 1].job BY DEF OnPath
      <4> QED BY <4>1, <3>1, <3>6, <1>2
    <3> QED BY <3>4, <3>5, <3>6
  <2> QED BY <2>1, <2>2
<1>13. RootsReached' BY <1>1, <1>3 DEF RootsReached
<1>14. \A i : DepSet(i)' = DepSet(i) BY <1>1 DEF DepSet
<1> HIDE DEF j
<1>15. Ordered'
  <2> DEFINE m == Len(order)
  <2>1. \A p \in 1..(m + 1) : p \in 1..m \/ p = m + 1 BY <1>8
  <2>2. \A i \in Jobs : i \in Visited' <=> \E p \in 1..Len(order') : order'[p] = i
    <3> SUFFICES ASSUME NEW i \in Jobs
                 PROVE  i \in Visited \cup {j} <=> \E p \in 1..(m + 1) : order'[p] = i
      BY <1>5, <1>8
    <3>1. i \in Visited <=> \E p \in 1..m : order[p] = i BY DEF Ordered
    <3>2. m + 1 \in 1..(m + 1) /\ \A p \in 1..m : p \in 1..(m + 1) BY <1>8
    <3> QED BY <3>1, <3>2, <2>1, <1>8
  <2>3. DepsFirst'
    <3> SUFFICES ASSUME NEW p \in 1..(m + 1)
                 PROVE  /\ \A d \in DepSet(order'[p]) : \E q \in 1..(p - 1) : order'[q] = d
                        /\ \A q \in 1..(p - 1) : order'[q] # order'[p]
      BY <1>8, <1>14 DEF DepsFirst
    <3>1. CASE p \in 1..m
      <4>1. \A q \in 1..(p - 1) : q \in 1..m BY <3>1, <1>8
      <4>2. order'[p] = order[p] /\ \A q \in 1..(p - 1) : order'[q] = order[q]
        BY <3>1, <4>1, <1>8
      <4>3. /\ \A d \in DepSet(order[p]) : \E q \in 1..(p - 1) : order[q] = d
            /\ \A q \in 1..(p - 1) : order[q] # order[p]
        BY <3>1 DEF Ordered, DepsFirst
      <4> QED BY <4>2, <4>3
    <3>2. CASE p = m + 1
      <4>1. order'[p] = j /\ 1..(p - 1) = 1..m BY <3>2, <1>8
      <4>2. \A d \in DepSet(j) : \E q \in 1..m : order[q] = d BY <1>6 DEF Ordered, Visited
      <4>3. \A q \in 1..m : order[q] # j BY <1>2, <1>5 DEF Ordered, j
      <4> QED BY <4>1, <4>2, <4>3, <1>8
    <3> QED BY <2>1, <3>1, <3>2
  <2>4. \A i \in Visited' : DepSet(i)' \subseteq Visited'
    BY <1>5, <1>6, <1>14 DEF Ordered
  <2>5. ASSUME NEW S \in SUBSET (Visited \cup {j}), S # {}
        PROVE  \E i \in S : DepSet(i) \cap S = {}
    <3>1. CASE S \subseteq {j}
      <4>1. S = {j} BY <3>1, <2>5
      <4>2. DepSet(j) \cap S = {} BY <4>1, <1>5, <1>6
      <4> QED BY <4>1, <4>2
    <3>2. CASE ~(S \subseteq {j})
      <4> DEFINE T == S \ {j}
      <4>1. T \in SUBSET Visited /\ T # {} BY <3>2
      <4>2. PICK i \in T : DepSet(i) \cap T = {} BY <4>1 DEF Ordered
      <4>3. i \in Visited /\ DepSet(i) \subseteq Visited BY <4>1, <4>2 DEF Ordered
      <4>4. DepSet(i) \cap S = {} BY <4>2, <4>3, <1>5
      <4> QED BY <4>2, <4>4
    <3> QED BY <3>1, <3>2
  <2> HIDE DEF m
  <2>6. \A S \in SUBSET Visited' : S # {} => \E i \in S : DepSet(i)' \cap S = {}
    BY <1>5, <1>14, <2>5
  <2> QED BY <2>2, <2>3, <2>4, <2>6 DEF Ordered
<1>16. Verdict' BY <1>1 DEF Verdict
<1> QED BY <1>9, <1>11, <1>12, <1>13, <1>15, <1>16

LEMMA SortedStep ==
  ASSUME SearchInv, Sorted
  PROVE  SearchInv'
<1> USE DEF SearchInv
<1>1. /\ UNCHANGED <<caller, deps, mark, stack, left, order>> /\ result' = "ok"
      /\ stack = << >> /\ left = {}
  BY DEF Sorted
<1>2. Visited' = Visited /\ \A i : DepSet(i)' = DepSet(i) BY <1>1 DEF Visited, DepSet
<1>3. Visited = Jobs
  <2>1. mark \in [Jobs -> Marks] BY DEF TypeOK
  <2>2. \A i \in Jobs : mark[i] # "visiting" BY <1>1 DEF OnPath
  <2>3. \A i \in Jobs : mark[i] # "unvisited" BY <1>1 DEF RootsReached
  <2> QED BY <2>1, <2>2, <2>3 DEF Visited, Marks
<1>4. \A i \in Jobs : Unknown \notin DepSet(i)
  <2>1. Unknown \notin Jobs BY TopoAssumption DEF Unknown, Jobs
  <2> QED BY <2>1, <1>3 DEF Ordered
<1>5. ~Cyclic BY <1>3 DEF Ordered, Cyclic
<1>6. Range(order) = Jobs
  <2>1. order \in Seq(Jobs) BY DEF TypeOK
  <2>2. DOMAIN order = 1..Len(order) BY <2>1
  <2>3. \A p \in 1..Len(order) : order[p] \in Jobs BY <2>1
  <2> QED BY <2>2, <2>3, <1>3 DEF Ordered, Range
<1>7. Verdict' BY <1>1, <1>2, <1>4, <1>5, <1>6 DEF Verdict, Cyclic
<1>8. TypeOK' BY <1>1 DEF TypeOK
<1>9. OnPath' /\ RootsReached' BY <1>1 DEF OnPath, RootsReached
<1>10. PassedVisited' BY <1>1, <1>2 DEF PassedVisited
<1>11. Ordered' BY <1>1, <1>2, OrderedKept
<1> QED BY <1>7, <1>8, <1>9, <1>10, <1>11

LEMMA SearchStep == SearchInv /\ [Next]_vars => SearchInv'
<1> SUFFICES ASSUME SearchInv, [Next]_vars PROVE SearchInv' OBVIOUS
<1>1. ASSUME NEW i \in Jobs, Root(i) PROVE SearchInv' BY <1>1, RootStep
<1>2. CASE Descend BY <1>2, DescendStep
<1>3. CASE AlreadyVisited BY <1>3, AlreadyVisitedStep
<1>4. CASE CycleDetected BY <1>4, CycleStep
<1>5. CASE UnknownDep BY <1>5, UnknownStep
<1>6. CASE Return BY <1>6, ReturnStep
<1>7. CASE Sorted BY <1>7, SortedStep
<1>8. CASE UNCHANGED vars
  <2>1. UNCHANGED <<caller, deps, mark, stack, left, order, result>> BY <1>8 DEF vars
  <2>2. Visited' = Visited /\ \A i : DepSet(i)' = DepSet(i) BY <2>1 DEF Visited, DepSet
  <2>3. TypeOK' BY <2>1 DEF SearchInv, TypeOK
  <2>4. OnPath' /\ RootsReached' BY <2>1 DEF SearchInv, OnPath, RootsReached
  <2>5. PassedVisited' BY <2>1, <2>2 DEF SearchInv, PassedVisited
  <2>6. Ordered' BY <2>1, <2>2, OrderedKept DEF SearchInv
  <2>7. Verdict' BY <2>1, <2>2 DEF SearchInv, Verdict, Cyclic
  <2> QED BY <2>3, <2>4, <2>5, <2>6, <2>7 DEF SearchInv
<1> QED BY <1>1, <1>2, <1>3, <1>4, <1>5, <1>6, <1>7, <1>8 DEF Next

(* Validate's order has every dependency before its dependents, and no job   *)
(* twice, for every job graph.                                               *)
THEOREM DependenciesFirst == Spec => []DepsFirst
<1>1. SearchInv => DepsFirst BY DEF SearchInv, Ordered
<1> QED BY <1>1, SearchInit, SearchStep, PTL DEF Spec

(* topoSort and detectCycles reject exactly for the reason they report, and  *)
(* what they accept is acyclic, complete and closed, for every job graph.    *)
THEOREM VerdictIsRight == Spec => []Verdict
<1>1. SearchInv => Verdict BY DEF SearchInv
<1> QED BY <1>1, SearchInit, SearchStep, PTL DEF Spec
=============================================================================
