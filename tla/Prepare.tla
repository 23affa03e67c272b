------------------------------ MODULE Prepare -------------------------------
(***************************************************************************)
(* What becomes of a parsed pipeline before the runner sees it: aliases    *)
(* and matrices are expanded and the pipeline validated (pkg/parser        *)
(* finalizePipeline), jobs are filtered by --start-at and --stop-after,    *)
(* static conditions are evaluated (cmd/cicada runAction), the builder     *)
(* makes definitions in topological order, and the runner checks the graph *)
(* once more.  Each of these stages rewrites the job list on its own, and  *)
(* each relies on what the earlier ones left.                              *)
(*                                                                         *)
(* A job is a record of the fields those stages read.  DependsOn and       *)
(* artifacts are sets: the order of a list matters to none of the stages.  *)
(* ApplyDefaults only fills in fields that no stage looks at.              *)
(* A step's position in the input is its name.  What a condition evaluates *)
(* to is not known before the stage, so the stage chooses it.              *)
(***************************************************************************)
EXTENDS Expand

CONSTANTS
  Inputs,      \* pipelines as the parser reads them: matrix and merged jobs
  AliasMaps,   \* alias -> set of terminal jobs
  Targets      \* values of --start-at and --stop-after

(* The flag is not given.  Step 0 of a target: the job as a whole. *)
NoTarget == [job |-> Plain(""), step |-> 0]

VARIABLES
  stage,     \* which stage the pipeline has passed, or "failed"
  at,        \* the stage it failed at
  aliases,   \* includeState.aliases
  matrix,    \* Pipeline.Matrix
  jobs,      \* Pipeline.Jobs
  topo,      \* Pipeline.TopoOrder, positions in jobs; << >>: nil
  built,     \* builder.Result: job names in the order they were built
  exports,   \* builder.Result.Exports: job and step (0: job-level)
  publishes, \* builder.Result.ImageExports: job
  written,   \* matrix and jobs as Expand finds them (history)
  parsed,    \* the jobs as validated after parsing (history)
  leads,     \* the pairs of them with a path from one to the other (history)
  start,     \* --start-at (history)
  stop,      \* --stop-after (history)
  unmet      \* conditions that were false: job and step (0: the job's; history)

history == <<written, parsed, leads, start, stop, unmet>>
vars == <<stage, at, aliases, matrix, jobs, topo, built, exports, publishes, history>>

-----------------------------------------------------------------------------
Named(js, n) == js[CHOOSE i \in DOMAIN js : js[i].name = n]

Init ==
  /\ stage = "read" /\ at = "none"
  /\ \E in \in Inputs : matrix = in.matrix /\ jobs = in.jobs
  /\ aliases \in AliasMaps
  /\ topo = << >> /\ built = << >> /\ exports = {} /\ publishes = {}
  /\ written = << >> /\ parsed = << >> /\ leads = {} /\ start = NoTarget /\ stop = NoTarget /\ unmet = {}

Fail(s) ==
  /\ stage' = "failed" /\ at' = s
  /\ UNCHANGED <<aliases, matrix, jobs, topo, built, exports, publishes, history>>

-----------------------------------------------------------------------------
(* parseMatrix checks every matrix as soon as it is read. *)
ParseMatrix ==
  /\ stage = "read"
  /\ IF \A m \in Range(matrix) \cup UNION {Range(j.matrix) : j \in Range(jobs)} : ValidateMatrix(m)
     THEN /\ stage' = "parsed"
          /\ UNCHANGED <<at, aliases, matrix, jobs, topo, built, exports, publishes, history>>
     ELSE Fail("matrix")

(* ExpandAliases.  An alias that is also a job must stand for just that job. *)
Collision == \E x \in DOMAIN aliases \cap Names(jobs) : aliases[x] # {x}

(* An alias of a fragment without jobs is left as it is. *)
expandDeps(ds) ==
  UNION {IF d \in DOMAIN aliases /\ aliases[d] # {} THEN aliases[d] ELSE {d} : d \in ds}

ExpandAliases ==
  /\ stage = "parsed"
  /\ IF Collision
     THEN Fail("aliases")
     ELSE /\ jobs' = Map(jobs, LAMBDA j : [j EXCEPT !.deps = expandDeps(@)])
          /\ stage' = "aliased"
          /\ aliases' = << >>
          /\ UNCHANGED <<at, matrix, topo, built, exports, publishes, history>>

(* Expand. *)
ExpandMatrices ==
  /\ stage = "aliased"
  /\ IF ExpandAccepts(matrix, jobs)
     THEN /\ jobs' = Expanded(matrix, jobs)
          /\ matrix' = << >>
          /\ written' = <<matrix, jobs>>
          /\ stage' = "expanded"
          /\ UNCHANGED <<at, aliases, topo, built, exports, publishes, parsed, leads, start, stop, unmet>>
     ELSE Fail("expand")

-----------------------------------------------------------------------------
(* Validate.  validateJob and validateArtifacts look at one job (of a name,   *)
(* what matrices put into it is checked; the checks of images, variables,     *)
(* exports, durations, shells and secrets are left out), checkSelfDeps and    *)
(* topoSort at the graph; module TopoSort shows that the sort finds an order  *)
(* exactly when there is one.                                                 *)
validName(n) == \A kv \in n.suffix : Range(kv[2]) \subseteq NameParts

StepsNamedApart(j) == IsInjective(Map(j.steps, LAMBDA s : s.name))

ArtifactsFromDeps(j) ==
  /\ j.arts \subseteq j.deps
  /\ \A k \in DOMAIN j.steps : j.steps[k].arts \subseteq j.deps

WellFormed(js) ==
  /\ js # << >>
  /\ IsInjective(Map(js, LAMBDA j : j.name))
  /\ \A i \in DOMAIN js :
       /\ validName(js[i].name)
       /\ js[i].steps # << >>
       /\ StepsNamedApart(js[i])
       /\ ArtifactsFromDeps(js[i])

(* The orders of the jobs with dependencies first, a job at a time. *)
Orders(js) ==
  LET Ready(o) == {i \in DOMAIN js \ Range(o) : js[i].deps \subseteq {js[k].name : k \in Range(o)}}
      upto[n \in Nat] == IF n = 0 THEN {<< >>}
                         ELSE UNION {{Append(o, i) : i \in Ready(o)} : o \in upto[n - 1]}
  IN  upto[Len(js)]

(* For the history: the ends of the paths of at most n edges, n the number   *)
(* of jobs.                                                                  *)
Connected(js) ==
  LET upto[n \in Nat] ==
        IF n = 0 THEN {<<x, x>> : x \in Names(js)}
        ELSE LET r == upto[n - 1]
             IN  r \cup UNION {{<<d, p[2]>> : d \in Named(js, p[1]).deps} : p \in r}
  IN  upto[Len(js)]

ValidOrders(js) == IF WellFormed(js) THEN Orders(js) ELSE {}

Validate ==
  /\ stage = "expanded"
  /\ \/ /\ ValidOrders(jobs) = {}
        /\ Fail("validate")
     \/ /\ topo' \in ValidOrders(jobs)
        /\ stage' = "validated"
        /\ parsed' = jobs
        /\ leads' = Connected(jobs)
        /\ UNCHANGED <<at, aliases, matrix, jobs, built, exports, publishes, written, start, stop, unmet>>

-----------------------------------------------------------------------------
(* FilterJobs. *)

(* Names reachable from S, S included: the rounds of a breadth-first search. *)
bfsReachable(S, next) ==
  LET round[n \in Nat] ==
        IF n = 0 THEN S ELSE round[n - 1] \cup UNION {next[x] : x \in round[n - 1]}
  IN  round[Len(jobs)]

Dependencies == [n \in Names(jobs) |-> Named(jobs, n).deps]
Dependents   == [n \in Names(jobs) |-> {m \in Names(jobs) : n \in Dependencies[m]}]

stepIndex(j, s) == {k \in DOMAIN j.steps : j.steps[k].name = s}

ValidTarget(t) ==
  IF t.job = Plain("") THEN t.step = 0
  ELSE /\ t.job \in Names(jobs)
       /\ t.step # 0 => stepIndex(Named(jobs, t.job), t.step) # {}

(* A missing flag stands for all jobs. *)
ExecutionWindow(s, e) ==
  (IF s.job = Plain("") THEN Names(jobs) ELSE bfsReachable({s.job}, Dependents))
    \cap (IF e.job = Plain("") THEN Names(jobs) ELSE bfsReachable({e.job}, Dependencies))

StripSteps(ss) == [k \in DOMAIN ss |-> [ss[k] EXCEPT !.exports = FALSE]]
Strip(j) == [j EXCEPT !.exports = FALSE, !.publish = FALSE, !.steps = StripSteps(@)]

HasStep(t, j) == t.step # 0 /\ t.job = j.name
Index(t, j)   == CHOOSE k \in stepIndex(j, t.step) : TRUE

EmptyStepWindow(s, e) ==
  \E i \in DOMAIN jobs :
    HasStep(s, jobs[i]) /\ HasStep(e, jobs[i]) /\ Index(s, jobs[i]) > Index(e, jobs[i])

(* applyStepTrimming: cut behind the stop step, no exports before the start step. *)
TrimSteps(j, s, e) ==
  LET last == IF HasStep(e, j) THEN Index(e, j) ELSE Len(j.steps)
      cut  == SubSeq(j.steps, 1, last)
  IN  [k \in DOMAIN cut |->
         [cut[k] EXCEPT !.exports = @ /\ ~(HasStep(s, j) /\ k < Index(s, j))]]

Filtered(s, e) ==
  LET window == ExecutionWindow(s, e)
      full   == bfsReachable(window, Dependencies)
  IN  Map(SelectSeq(jobs, LAMBDA j : j.name \in full),
          LAMBDA j : LET t == IF j.name \in window THEN j ELSE Strip(j)
                     IN  [t EXCEPT !.steps = TrimSteps(t, s, e)])

FilterAccepts(s, e) ==
  /\ ValidTarget(s) /\ ValidTarget(e)
  /\ ExecutionWindow(s, e) # {}
  /\ ~EmptyStepWindow(s, e)

(* Mutant: the order of the unfiltered jobs is kept. *)
FilterJobsKeepsOrder(s, e) ==
  /\ stage = "validated"
  /\ IF (s # NoTarget \/ e # NoTarget) /\ ~FilterAccepts(s, e)
     THEN Fail("filter")
     ELSE /\ jobs' = IF s = NoTarget /\ e = NoTarget THEN jobs ELSE Filtered(s, e)
          /\ stage' = "filtered"
          /\ start' = s /\ stop' = e
          /\ UNCHANGED <<at, aliases, matrix, topo, built, exports, publishes, written, parsed, leads, unmet>>

(* runAction resets TopoOrder behind the filter. *)
FilterJobs(s, e) ==
  /\ stage = "validated"
  /\ IF (s # NoTarget \/ e # NoTarget) /\ ~FilterAccepts(s, e)
     THEN Fail("filter")
     ELSE /\ jobs' = IF s = NoTarget /\ e = NoTarget THEN jobs ELSE Filtered(s, e)
          /\ stage' = "filtered"
          /\ topo' = << >>
          /\ start' = s /\ stop' = e
          /\ UNCHANGED <<at, aliases, matrix, built, exports, publishes, written, parsed, leads, unmet>>

-----------------------------------------------------------------------------
(* EvaluateConditions. *)

cleanJobRefs(j, skipped) ==
  [j EXCEPT !.deps = @ \ skipped, !.arts = @ \ skipped,
            !.steps = [k \in DOMAIN @ |-> [@[k] EXCEPT !.arts = @ \ skipped]]]

(* The jobs left and cleaned when those in skipped are taken out. *)
Without(js, skipped) ==
  Map(SelectSeq(js, LAMBDA j : j.name \notin skipped), LAMBDA j : cleanJobRefs(j, skipped))

(* Static conditions: jobs may have deferred ones instead, steps may not. *)
StaticConditions ==
  {<<j.name, 0>> : j \in {j \in Range(jobs) : j.when = "static"}}
    \cup UNION {{<<j.name, s.name>> : s \in {s \in Range(j.steps) : s.when}} : j \in Range(jobs)}

EvaluateConditions(no) ==
  LET kept  == Without(jobs, {j \in Names(jobs) : <<j, 0>> \in no})
      steps == Map(kept, LAMBDA j : [j EXCEPT !.steps =
                     SelectSeq(@, LAMBDA s : <<j.name, s.name>> \notin no)])
      empty == {j.name : j \in {j \in Range(steps) : j.steps = << >>}}
  IN  /\ stage = "filtered"
      /\ jobs' = Without(steps, empty)
      /\ topo' = << >>
      /\ unmet' = no
      /\ stage' = "evaluated"
      /\ UNCHANGED <<at, aliases, matrix, built, exports, publishes, written, parsed, leads, start, stop>>

(* CEL reports an error. *)
ConditionError == stage = "filtered" /\ StaticConditions # {} /\ Fail("conditions")

-----------------------------------------------------------------------------
(* builder.Build, which validates again unless it is given a full order.     *)
validOrder(o) == Len(o) = Len(jobs) /\ Range(o) = DOMAIN jobs

(* depMountOpts wants the state of every dependency, which appendJob stored. *)
MissingDepState(o) ==
  \E p \in DOMAIN o : \E d \in jobs[o[p]].deps : d \notin {jobs[o[q]].name : q \in 1..(p - 1)}

(* Mutant: the order is trusted whatever its length. *)
BuildOrdersTrusted == {topo}

BuildOrders == IF validOrder(topo) THEN {topo} ELSE ValidOrders(jobs)

collectExports(j) ==
  {<<j.name, s>> : s \in {s \in {0} : j.exports}
                     \cup {s.name : s \in {s \in Range(j.steps) : s.exports}}}

Build ==
  /\ stage = "evaluated"
  /\ \/ /\ \/ BuildOrders = {}
           \/ \E o \in BuildOrders : MissingDepState(o)
        /\ Fail("build")
     \/ \E o \in BuildOrders :
          /\ ~MissingDepState(o)
          /\ built' = [p \in DOMAIN o |-> jobs[o[p]].name]
          /\ exports' = UNION {collectExports(jobs[i]) : i \in Range(o)}
          /\ publishes' = {j.name : j \in {j \in {jobs[i] : i \in Range(o)} : j.publish}}
          /\ stage' = "built"
          /\ UNCHANGED <<at, aliases, matrix, jobs, topo, history>>

-----------------------------------------------------------------------------
(* buildRunnerJobs takes each built job's dependencies from the pipeline;    *)
(* Run returns at once when there is no job, and buildDAG and detectCycles   *)
(* look at the graph again.                                                  *)
GraphAccepted ==
  LET js == [p \in DOMAIN built |-> Named(jobs, built[p])]
  IN  IsInjective(built) /\ Orders(js) # {}

StartRun ==
  /\ stage = "built"
  /\ IF Range(built) \subseteq Names(jobs) /\ GraphAccepted
     THEN /\ stage' = "running"
          /\ UNCHANGED <<at, aliases, matrix, jobs, topo, built, exports, publishes, history>>
     ELSE Fail("run")

Next ==
  \/ ParseMatrix
  \/ ExpandAliases
  \/ ExpandMatrices
  \/ Validate
  \/ \E s, e \in Targets : FilterJobs(s, e)
  \/ \E no \in SUBSET StaticConditions : EvaluateConditions(no)
  \/ ConditionError
  \/ Build
  \/ StartRun

Spec == Init /\ [][Next]_vars

-----------------------------------------------------------------------------
(* The reference: what the documentation says of the validated pipeline,     *)
(* the two flags and the conditions, in terms of paths in the input graph.   *)

Leads(x, y) == <<x, y>> \in leads

InWindow(j) == /\ start.job # Plain("") => Leads(start.job, j)
               /\ stop.job # Plain("") => Leads(j, stop.job)
Needed(j)   == \E w \in Names(parsed) : InWindow(w) /\ Leads(j, w)

PositionOf(t) == Index(t, Named(parsed, t.job))
StepRuns(j, s) == /\ <<j, s>> \notin unmet
                  /\ stop.step # 0 /\ stop.job = j =>
                       \E k \in 1..PositionOf(stop) : Named(parsed, j).steps[k].name = s
AllSteps(j) == {s.name : s \in Range(Named(parsed, j).steps)}
Skipped(j)  == <<j, 0>> \in unmet \/ \A s \in AllSteps(j) : ~StepRuns(j, s)
Runs(j)     == Needed(j) /\ ~Skipped(j)

(* The matrices as the documentation has them: every combination of the      *)
(* pipeline's and the job's values is a variant, which depends on the        *)
(* variants of its dependencies in its own combination of the pipeline's     *)
(* values, on one of them if it is named.                                    *)
AllCombos(ms) ==
  {c \in SUBSET UNION {{<<d.name, v>> : v \in Range(d.values)} : d \in UNION {Range(m) : m \in ms}} :
     \A m \in ms : \A d \in Range(m) : Cardinality({kv \in c : kv[1] = d.name}) = 1}

(* The values of a variant of w, whose own values may name the pipeline's. *)
PipelineCombos == AllCombos(Range(written[1]))
OwnMatrices(w, combo) == {substituteMatrixValues(m, combo) : m \in Range(w.matrix)}
VariantValues(w) ==
  UNION {{combo \cup own : own \in AllCombos(OwnMatrices(w, combo))} : combo \in PipelineCombos}

Written(v)    == Named(written[2], Plain(v.name.base))
PipelineDims  == {d.name : d \in UNION {Range(m) : m \in Range(written[1])}}
SameReplica(v, u) ==
  \A kv \in v.values : kv[1] \in PipelineDims => kv \in u.values
Meant(v, names) ==
  {u.name : u \in {u \in Range(parsed) :
     SameReplica(v, u) /\ \E n \in names : n.base = u.name.base /\ n.suffix \subseteq u.values}}
Caches(j) == j.caches \cup UNION {s.caches : s \in Range(j.steps)}

(* Why a pipeline that is valid without its matrices may be rejected with    *)
(* them: an artifact from a job of several variants; a name or value that    *)
(* expandedName does not tell apart; a dimension that lists a value twice;   *)
(* a value that no name can contain.                                         *)
Froms(j) == j.arts \cup UNION {s.arts : s \in Range(j.steps)}
AllDims ==
  UNION ({Range(m) : m \in Range(written[1])}
           \cup {Range(m) : m \in UNION {OwnMatrices(w, combo) : w \in Range(written[2]),
                                                                 combo \in PipelineCombos}})
AmbiguousArtifact ==
  \E w \in Range(written[2]) : \E n \in Froms(w) :
    Cardinality(AllCombos(Range(Named(written[2], n).matrix))) > 1
UnreadableName ==
  \/ \E n \in Names(written[2]) : n.suffix # {}
  \/ \E m \in Range(written[1]) : \E d \in Range(m) : \E v \in Range(d.values) : Len(v) > 1
RepeatedValue    == \E d \in AllDims : ~IsInjective(d.values)
UnprintableValue == \E d \in AllDims : \E v \in Range(d.values) : ~(Range(v) \subseteq NameParts)

(* docs/schema.md, "matrix": the variants are those of the cartesian         *)
(* products, each once; dependencies stay within the pipeline's combination  *)
(* and fan in to all variants of a job; an artifact comes from the one       *)
(* variant there is; in the fields that substituteJobVars rewrites no        *)
(* placeholder of a variant's dimensions is left; and no two variants share  *)
(* a cache.  The checks of Validate that are modelled reject no expansion of *)
(* a valid pipeline but for the reasons above, and a repeated value always.  *)
ExpandsAsDocumented ==
  /\ at = "validate" /\ ValidOrders(written[2]) # {} =>
       AmbiguousArtifact \/ UnreadableName \/ RepeatedValue \/ UnprintableValue
  /\ stage = "validated" =>
       /\ ~RepeatedValue
       /\ {<<v.name.base, v.values>> : v \in Range(parsed)} =
            UNION {{<<w.name.base, c>> : c \in VariantValues(w)} : w \in Range(written[2])}
       /\ \A i, k \in DOMAIN parsed : i # k =>
            LET u == parsed[i] v == parsed[k]
            IN  /\ <<u.name.base, u.values>> # <<v.name.base, v.values>>
                /\ u.values # {} => Caches(u) \cap Caches(v) = {}
       /\ \A v \in Range(parsed) :
            LET w == Written(v)
            IN  /\ v.deps = Meant(v, w.deps)
                /\ v.arts = Meant(v, w.arts) /\ Cardinality(v.arts) = Cardinality(w.arts)
                /\ \A s \in DOMAIN v.steps : v.steps[s].arts = Meant(v, w.steps[s].arts)
                /\ v.text = w.text \ Dims(v.values)

(* What parsing accepted is never rejected for its structure later on: the   *)
(* filter and the conditions leave a graph that Build's second validation,   *)
(* the builder's dependency mounts and the runner's buildDAG accept.  And    *)
(* Pipeline.TopoOrder is nil or an order of the jobs as they are now: a      *)
(* builder that trusts it never builds by the positions of another list.     *)
StagesAgree ==
  /\ at \notin {"build", "run"}
  /\ topo # << >> => topo \in Orders(jobs)

(* An export or publish is asked for. *)
Asked(j, s) ==
  /\ Runs(j) /\ InWindow(j)
  /\ s # 0 =>
       /\ StepRuns(j, s)
       /\ start.step # 0 /\ start.job = j =>
            ~\E k \in 1..(PositionOf(start) - 1) : Named(parsed, j).steps[k].name = s

(* docs/schema.md, "Filtering" and "Semantics": the jobs that run are those  *)
(* between start and stop and all they depend on, less the skipped ones; a   *)
(* static skip takes away the edges and does not cascade.  Exports and       *)
(* publishes come from the jobs in the window only, all of them and no       *)
(* other; with --start-at job:step from that step on.                        *)
RunsWhatWasAsked ==
  stage = "running" =>
    /\ Range(built) = {j \in Names(parsed) : Runs(j)}
    /\ \A j \in Range(built) :
         Named(jobs, j).deps = {d \in Named(parsed, j).deps : ~Skipped(d)}
    /\ exports = {<<j, s>> \in UNION {{j} \X ({0} \cup AllSteps(j)) : j \in Names(parsed)} :
                    Asked(j, s) /\ IF s = 0 THEN Named(parsed, j).exports
                                   ELSE \E t \in Range(Named(parsed, j).steps) : t.name = s /\ t.exports}
    /\ publishes = {j \in Names(parsed) : Asked(j, 0) /\ Named(parsed, j).publish}
=============================================================================
