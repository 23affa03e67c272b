------------------------------ MODULE TopoSort ------------------------------
(***************************************************************************)
(* The depth-first search that validates the job graph.  It exists twice   *)
(* in the code: jobGraph.topoSort (pkg/pipeline/validate.go) starts from   *)
(* the jobs in declaration order, rejects unknown dependencies and returns *)
(* the order; detectCycles (internal/runner/runner.go) starts from the     *)
(* jobs in the random order of a Go map, after buildDAG has rejected       *)
(* unknown dependencies, and only looks for cycles.                        *)
(*                                                                         *)
(* The recursive closure `visit' is an explicit stack: a frame is a job    *)
(* and the position of the dependency its loop is at.                      *)
(***************************************************************************)
EXTENDS Naturals, Sequences, Functions

CONSTANTS
  NumJobs,   \* how many jobs there are
  DepLists   \* the lists DependsOn may be

Jobs    == 1..NumJobs
Unknown == 0              \* a name no job has

ASSUME TopoAssumption ==
  /\ NumJobs \in Nat
  /\ DepLists \subseteq Seq(Jobs \cup {Unknown})

VARIABLES
  caller,  \* which of the two searches this is
  deps,    \* DependsOn of every job
  mark,    \* the 3-state map `state'
  stack,   \* the calls of visit that have not returned, outermost first
  left,    \* jobs the outer loop has not reached
  order,   \* jobs whose visit has returned, in that order
  result   \* what the search returned

vars == <<caller, deps, mark, stack, left, order, result>>

DepSet(i)  == Range(deps[i])
Top        == stack[Len(stack)]
TopDeps    == deps[Top.job]
Pop        == SubSeq(stack, 1, Len(stack) - 1)
Frame(i)   == [job |-> i, at |-> 1]
(* The caller's loop goes on behind the dependency it was at. *)
Advance(s) == [s EXCEPT ![Len(s)].at = @ + 1]

Init ==
  /\ caller \in {"topoSort", "detectCycles"}
  /\ deps \in [Jobs -> DepLists]
  /\ caller = "detectCycles" => \A i \in Jobs : Unknown \notin DepSet(i)
  /\ mark = [i \in Jobs |-> "unvisited"]
  /\ stack = << >>
  /\ left = Jobs
  /\ order = << >>
  /\ result = "none"

Searching == result = "none"
Looping   == Searching /\ stack # << >> /\ Top.at <= Len(TopDeps)
Dep       == TopDeps[Top.at]

(* The outer loop: declaration order, or the order of a map. *)
NextRoot(i) ==
  /\ i \in left
  /\ caller = "topoSort" => \A k \in left : i <= k

(* The call of visit on an unvisited job, and on a visited one. *)
Root(i) ==
  /\ Searching /\ stack = << >>
  /\ NextRoot(i)
  /\ left' = left \ {i}
  /\ IF mark[i] = "visited"
     THEN UNCHANGED <<mark, stack>>
     ELSE /\ mark' = [mark EXCEPT ![i] = "visiting"]
          /\ stack' = <<Frame(i)>>
  /\ UNCHANGED <<caller, deps, order, result>>

(* Mutant: a dependency is put into the order before its own are visited. *)
DescendPreorder ==
  /\ Looping /\ Dep # Unknown /\ mark[Dep] = "unvisited"
  /\ mark' = [mark EXCEPT ![Dep] = "visited"]
  /\ order' = Append(order, Dep)
  /\ stack' = Advance(stack)
  /\ UNCHANGED <<caller, deps, left, result>>

Descend ==
  /\ Looping /\ Dep # Unknown /\ mark[Dep] = "unvisited"
  /\ mark' = [mark EXCEPT ![Dep] = "visiting"]
  /\ stack' = Append(stack, Frame(Dep))
  /\ UNCHANGED <<caller, deps, left, order, result>>

(* Mutant: the loop stays at a dependency that was visited before. *)
AlreadyVisitedStays ==
  /\ Looping /\ Dep # Unknown /\ mark[Dep] = "visited"
  /\ UNCHANGED vars

AlreadyVisited ==
  /\ Looping /\ Dep # Unknown /\ mark[Dep] = "visited"
  /\ stack' = Advance(stack)
  /\ UNCHANGED <<caller, deps, mark, left, order, result>>

(* Mutant: a job that is being visited counts as visited. *)
CycleOverlooked ==
  /\ Looping /\ Dep # Unknown /\ mark[Dep] = "visiting"
  /\ stack' = Advance(stack)
  /\ UNCHANGED <<caller, deps, mark, left, order, result>>

CycleDetected ==
  /\ Looping /\ Dep # Unknown /\ mark[Dep] = "visiting"
  /\ result' = "cycle"
  /\ UNCHANGED <<caller, deps, mark, stack, left, order>>

(* resolveDep finds no job of that name. *)
UnknownDep ==
  /\ Looping /\ Dep = Unknown
  /\ result' = "unknown"
  /\ UNCHANGED <<caller, deps, mark, stack, left, order>>

(* visit returns nil to the loop of its caller. *)
Return ==
  /\ Searching /\ stack # << >> /\ Top.at > Len(TopDeps)
  /\ mark' = [mark EXCEPT ![Top.job] = "visited"]
  /\ order' = Append(order, Top.job)
  /\ stack' = IF Len(stack) = 1 THEN << >> ELSE Advance(Pop)
  /\ UNCHANGED <<caller, deps, left, result>>

Sorted ==
  /\ Searching /\ stack = << >> /\ left = {}
  /\ result' = "ok"
  /\ UNCHANGED <<caller, deps, mark, stack, left, order>>

Next ==
  \/ \E i \in Jobs : Root(i)
  \/ Descend \/ AlreadyVisited \/ CycleDetected \/ UnknownDep \/ Return
  \/ Sorted

Spec == Init /\ [][Next]_vars

(* The search is one sequential function: it goes on while it can. *)
FairSpec == Spec /\ WF_vars(Next)

-----------------------------------------------------------------------------
Marks == {"unvisited", "visiting", "visited"}

TypeOK ==
  /\ caller \in {"topoSort", "detectCycles"}
  /\ deps \in [Jobs -> DepLists]
  /\ mark \in [Jobs -> Marks]
  /\ stack \in Seq([job : Jobs, at : Nat \ {0}])
  /\ left \subseteq Jobs
  /\ order \in Seq(Jobs)
  /\ result \in {"none", "ok", "cycle", "unknown"}

(* A job has a place in the order only behind all of its dependencies, and *)
(* only one: the builder and the runner rely on it (Validate's promise     *)
(* "dependencies first").                                                  *)
DepsFirst ==
  \A p \in 1..Len(order) :
    /\ \A d \in DepSet(order[p]) : \E q \in 1..(p - 1) : order[q] = d
    /\ \A q \in 1..(p - 1) : order[q] # order[p]

(* Jobs that wait for each other: from each, a dependency leads back. *)
Cyclic ==
  \E S \in SUBSET Jobs : S # {} /\ \A i \in S : DepSet(i) \cap S # {}

(* The search reports a cycle or an unknown dependency only when there is  *)
(* one, and accepts only a graph that has neither, with every job in the   *)
(* order: an accepted cycle would leave all of its jobs waiting for ever.  *)
Verdict ==
  /\ result = "cycle" => Cyclic
  /\ result = "unknown" => \E i \in Jobs : Unknown \in DepSet(i)
  /\ result = "ok" =>
       /\ \A i \in Jobs : Unknown \notin DepSet(i)
       /\ ~Cyclic
       /\ Range(order) = Jobs

(* The search ends on every graph, cyclic ones included: visit never       *)
(* follows the same path twice.                                            *)
SearchEnds == <>(result # "none")
=============================================================================
