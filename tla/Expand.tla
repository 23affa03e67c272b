------------------------------- MODULE Expand -------------------------------
(***************************************************************************)
(* Matrix expansion (pkg/pipeline Expand): the pipeline's matrix replicates *)
(* all jobs and keeps the dependencies within a replica; then the matrix of *)
(* a job makes variants of it, and its dependents depend on all of them.   *)
(* Both phases work on names only: a variant is found by the name that      *)
(* expandedName gives it, and the second phase reads the suffix that the    *)
(* first one wrote.                                                        *)
(*                                                                         *)
(* A job name is its base and the key=value pairs in its brackets, and a   *)
(* value is the sequence of its comma-separated parts, as printed names     *)
(* are read back by splitting at commas; no part behind a comma has a "=". *)
(* A part is a text without placeholders or one placeholder, which only     *)
(* the values of a job's matrix contain.                                   *)
(* A matrix is a sequence of dimensions; a job or a pipeline has a sequence *)
(* of at most one matrix.  A combination is a set of pairs.  A cache ID is  *)
(* the ID written followed by the names put behind it.                     *)
(***************************************************************************)
EXTENDS Naturals, Sequences, FiniteSets, SequencesExt

CONSTANTS
  MaxCombinations,   \* _maxMatrixCombinations
  DimNames,          \* the dimension names that _validDimName matches
  NameParts          \* the parts of a value that _validName allows in a name

Map(js, F(_)) == [i \in DOMAIN js |-> F(js[i])]
Names(js)     == {js[i].name : i \in DOMAIN js}
Plain(base)   == [base |-> base, suffix |-> {}]

-----------------------------------------------------------------------------
(* Matrices. *)
Dims(combo) == {kv[1] : kv \in combo}

ValidateMatrix(m) ==
  /\ m # << >>
  /\ IsInjective(Map(m, LAMBDA d : d.name))
  /\ \A i \in DOMAIN m : m[i].name \in DimNames /\ m[i].values # << >>
  /\ FoldLeft(LAMBDA n, d : n * Len(d.values), 1, m) <= MaxCombinations

checkDimCollisions(m, js) ==
  \E i \in DOMAIN js : \E jm \in Range(js[i].matrix) :
    {d.name : d \in Range(m)} \cap {d.name : d \in Range(jm)} # {}

(* The cartesian product, the last dimension varying fastest. *)
Combinations(m) ==
  LET upto[n \in 0..Len(m)] ==
        IF n = 0 THEN <<{}>>
        ELSE FlattenSeq(Map(upto[n - 1], LAMBDA c :
               Map(m[n].values, LAMBDA v : c \cup {<<m[n].name, v>>})))
  IN  upto[Len(m)]

mergeMatrixValues(old, combo) == {kv \in old : kv[1] \notin Dims(combo)} \cup combo

-----------------------------------------------------------------------------
(* Names and the fields that hold them. *)

(* A suffix read back: what follows a comma inside a value has no "=" and    *)
(* is dropped.                                                               *)
ReadSuffix(suffix) == {<<kv[1], <<Head(kv[2])>>>> : kv \in suffix}

expandedName(n, combo) == [n EXCEPT !.suffix = mergeMatrixValues(ReadSuffix(@), combo)]

matrixCacheID(id, n) == Append(id, n)

(* ${matrix.<dim>} and what it is replaced with in a value. *)
Placeholder(dim) == "${matrix." \o dim \o "}"

substituteVars(v, combo) ==
  LET With(p) == {kv \in combo : p = Placeholder(kv[1])}
  IN  FlattenSeq(Map(v, LAMBDA p : IF With(p) = {} THEN <<p>> ELSE (CHOOSE kv \in With(p) : TRUE)[2]))

substituteMatrixValues(m, combo) ==
  Map(m, LAMBDA d : [d EXCEPT !.values = Map(@, LAMBDA v : substituteVars(v, combo))])

(* text: the placeholders in the fields that substituteJobVars rewrites      *)
(* (all of a job's and its steps' but names, depends-on and shell).          *)
replicateJob(j, combo) ==
  [j EXCEPT !.text = @ \ Dims(combo),
            !.matrix = Map(@, LAMBDA m : substituteMatrixValues(m, combo))]

(* A job or one of its steps with its caches put under the name. *)
Namespaced(x, n) == [x EXCEPT !.caches = {matrixCacheID(id, n) : id \in @}]

(* A job or one of its steps whose artifacts come from the same replica. *)
correlateArtifactFroms(x, combo) == [x EXCEPT !.arts = {expandedName(n, combo) : n \in @}]

-----------------------------------------------------------------------------
(* Phase 1: one replica of the job list per combination. *)
Replica(j, combo) ==
  LET In(n) == expandedName(n, combo)
      one   == Namespaced(correlateArtifactFroms(replicateJob(j, combo), combo), In(j.name))
  IN  [one EXCEPT !.name = In(@), !.values = combo, !.deps = {In(d) : d \in @},
                  !.steps = Map(@, LAMBDA s :
                               Namespaced(correlateArtifactFroms(s, combo), In(j.name)))]

expandPipeline(matrix, js) ==
  IF matrix = << >> THEN js
  ELSE FlattenSeq(Map(Combinations(matrix[1]), LAMBDA c : Map(js, LAMBDA j : Replica(j, c))))

-----------------------------------------------------------------------------
(* Phase 2: the variants of one job, then the references to it. *)
Variant(j, combo) ==
  LET n   == expandedName(j.name, combo)
      one == Namespaced(replicateJob(j, combo), n)
  IN  [one EXCEPT !.name = n, !.matrix = << >>, !.values = mergeMatrixValues(@, combo),
                  !.steps = Map(@, LAMBDA s : Namespaced(s, n))]

VariantsOf(j) ==
  IF j.matrix = << >> THEN <<j>>
  ELSE Map(Combinations(j.matrix[1]), LAMBDA c : Variant(j, c))

(* expansionMap: the variants a name stands for; the last job of a name      *)
(* wins.  A name that no job has stands for itself.                          *)
ExpansionMap(js, n) ==
  LET same == SelectSeq(js, LAMBDA j : j.name = n)
  IN  IF same = << >> THEN << >> ELSE Map(VariantsOf(Last(same)), LAMBDA v : v.name)

\* Mutant of rewriteDeps: a dependent follows the first variant only.
rewriteDepsFirst(deps, js) ==
  {IF ExpansionMap(js, d) = << >> THEN d ELSE ExpansionMap(js, d)[1] : d \in deps}

rewriteDeps(deps, js) ==
  UNION {IF ExpansionMap(js, d) = << >> THEN {d} ELSE Range(ExpansionMap(js, d)) : d \in deps}

(* A name with one variant is replaced, one with several is left alone. *)
rewriteArtifactFroms(x, js) ==
  LET From(n) == IF Len(ExpansionMap(js, n)) = 1 THEN ExpansionMap(js, n)[1] ELSE n
  IN  [x EXCEPT !.arts = {From(n) : n \in @}]

expandJobs(js) ==
  Map(FlattenSeq(Map(js, VariantsOf)), LAMBDA j :
        [rewriteArtifactFroms(j, js) EXCEPT !.deps = rewriteDeps(@, js),
           !.steps = Map(@, LAMBDA s : rewriteArtifactFroms(s, js))])

-----------------------------------------------------------------------------
(* Expand: the matrices accepted, and the jobs that come out. *)
ExpandAccepts(matrix, js) ==
  /\ \A m \in Range(matrix) : ValidateMatrix(m) /\ ~checkDimCollisions(m, js)
  /\ \A i \in DOMAIN js : \A m \in Range(js[i].matrix) : ValidateMatrix(m)

Expanded(matrix, js) == expandJobs(expandPipeline(matrix, js))
=============================================================================
