------------------------------ MODULE Includes ------------------------------
(***************************************************************************)
(* The resolution of include directives in pkg/parser/include.go: a        *)
(* recursive descent over files that keeps the path of files being read    *)
(* (cycle detection), a cache of files already read with the same          *)
(* parameters, and one table of aliases for the whole pipeline.            *)
(*                                                                         *)
(* The calls resolveInclude -> parseIncludedFile -> resolveInclude are an  *)
(* explicit stack; a frame is a file, the argument it was included with    *)
(* and the node its loop is at.  A fragment declares at most one parameter *)
(* and an include passes at most one argument; a job's text is plain, a    *)
(* value, or the placeholder that substitution replaces.  Job names and    *)
(* dependencies are never substituted.                                     *)
(***************************************************************************)
EXTENDS Naturals, Sequences, FiniteSets

CONSTANTS
  Root,        \* the pipeline file given on the command line
  Documents,   \* the file systems to choose from: file -> its content
  MaxDepth     \* _maxIncludeDepth, 64 in the code

NoArg       == "no argument"
Placeholder == "${param}"
Default     == "default"

(* What a file holds: jobs and includes, in document order. *)
JobNode     == [type : {"job"}, name : STRING, deps : SUBSET STRING, text : STRING]
IncludeNode == [type : {"include"}, file : STRING, alias : STRING, skip : BOOLEAN, arg : STRING]
Content     == [name  : STRING,
                kind  : {"fragment", "pipeline", "empty", "ambiguous"},
                param : {"none", "default", "required"},
                nodes : Seq(JobNode \cup IncludeNode)]

ASSUME IncludesAssumption ==
  /\ MaxDepth \in Nat \ {0}
  /\ \A d \in Documents :
       /\ IsFiniteSet(DOMAIN d)
       /\ \A f \in DOMAIN d : f \in STRING /\ d[f] \in Content
       /\ Root \in DOMAIN d /\ d[Root].param = "none"

VARIABLES
  files,    \* the file system
  stack,    \* files being read, the root file at the bottom
  cache,    \* includeState.cache: file and argument -> name and jobs
  aliases,  \* includeState.aliases: alias -> terminal jobs
  jobs,     \* the merged jobs of the pipeline
  result,   \* "none", "ok" or what went wrong
  origin    \* alias -> the file and argument included under it (history)

vars == <<files, stack, cache, aliases, jobs, result, origin>>

Put(f, k, v) == [x \in DOMAIN f \cup {k} |-> IF x = k THEN v ELSE f[x]]

Frame(f, arg) == [file |-> f, arg |-> arg, at |-> 1, entries |-> << >>]
Top           == stack[Len(stack)]
Nodes         == files[Top.file].nodes
Node          == Nodes[Top.at]
AtJob         == result = "none" /\ Top.at <= Len(Nodes) /\ Node.type = "job"
AtInclude     == result = "none" /\ Top.at <= Len(Nodes) /\ Node.type = "include"
AtEnd         == result = "none" /\ Top.at > Len(Nodes)

(* includeState.ancestors: the root file is not pushed. *)
Ancestors == {stack[p].file : p \in 2..Len(stack)}
Depth     == Len(stack) - 1

(* groupCollector: the jobs in document order, each with the conflict strategy *)
(* of its group.  The loop goes on behind the node.                            *)
Collect(frame, js, skip) ==
  [frame EXCEPT !.at = @ + 1,
                !.entries = @ \o [i \in DOMAIN js |-> [job |-> js[i], skip |-> skip]]]

Init ==
  /\ files \in Documents
  /\ stack = <<Frame(Root, NoArg)>>
  /\ cache = << >> /\ aliases = << >> /\ origin = << >>
  /\ jobs = << >>
  /\ result = "none"

Stop(why) == result' = why /\ UNCHANGED <<files, stack, cache, aliases, jobs, origin>>

-----------------------------------------------------------------------------
(* MergeJobs: the first job of a name wins, if the later ones may be skipped. *)
Repeated(es, q) == \E p \in 1..(q - 1) : es[p].job.name = es[q].job.name

MergeConflict(es) == \E q \in DOMAIN es : Repeated(es, q) /\ ~es[q].skip

(* Mutant: of a group with a conflict, nothing is kept. *)
MergeJobsWholeGroups(es) ==
  LET keep == SelectSeq([q \in DOMAIN es |-> q],
                        LAMBDA q : ~es[q].skip \/ ~\E p \in DOMAIN es : es[p].skip /\ Repeated(es, p))
  IN  [i \in DOMAIN keep |-> es[keep[i]].job]

Kept(es)   == {q \in DOMAIN es : ~Repeated(es, q)}
Rank(K, q) == Cardinality({p \in K : p <= q})

MergeJobs(es) ==
  [i \in 1..Cardinality(Kept(es)) |->
     es[CHOOSE q \in Kept(es) : Rank(Kept(es), q) = i].job]

TerminalJobs(js) ==
  {js[i].name : i \in DOMAIN js} \ UNION {js[i].deps : i \in DOMAIN js}

(* ValidateParams, ResolveParams and SubstituteParams.  A pipeline file has no *)
(* parameters.                                                                 *)
ParamsAccepted(f, arg) ==
  /\ files[f].param = "none" => arg = NoArg
  /\ files[f].param = "required" => arg # NoArg

ParamValue(arg) == IF arg = NoArg THEN Default ELSE arg

SubstituteParams(js, f, arg) ==
  IF files[f].param = "none" THEN js
  ELSE [i \in DOMAIN js |->
          [js[i] EXCEPT !.text = IF @ = Placeholder THEN ParamValue(arg) ELSE @]]

-----------------------------------------------------------------------------
(* A job or bare step. *)
ReadJob ==
  /\ AtJob
  /\ stack' = [stack EXCEPT ![Len(stack)] =
                 Collect(@, <<[name |-> Node.name, deps |-> Node.deps, text |-> Node.text]>>, FALSE)]
  /\ UNCHANGED <<files, cache, aliases, jobs, result, origin>>

(* An alias is the include's own, or the name of what it includes. *)
AliasFor(inc, name) == IF inc.alias = "" THEN name ELSE inc.alias

(* resolveInclude ends: register the alias, pop, hand the jobs to the includer. *)
Deliver(below, inc, arg, name, js) ==
  LET alias == AliasFor(inc, name) IN
  /\ aliases' = Put(aliases, alias, TerminalJobs(js))
  /\ origin' = Put(origin, alias, [file |-> inc.file, arg |-> arg])
  /\ stack' = [below EXCEPT ![Len(below)] = Collect(@, js, inc.skip)]
  /\ UNCHANGED <<files, jobs, result>>

(* Mutant: the key is the path without the parameters. *)
cacheKeyPath(f, arg) == <<f, NoArg>>

cacheKey(f, arg) == <<f, arg>>

Cached(inc)    == cacheKey(inc.file, inc.arg) \in DOMAIN cache
CachedFor(inc) == cache[cacheKey(inc.file, inc.arg)]

(* Mutant: a file once read stays among the ancestors. *)
CircularUnpopped(f) == f \in Ancestors \cup {k[1] : k \in DOMAIN cache}

Circular(f) == f \in Ancestors

(* Resolve and push. *)
PushFails ==
  /\ AtInclude
  /\ LET f == Node.file IN
     \/ f \notin DOMAIN files /\ Stop("missing")
     \/ f \in DOMAIN files /\ Circular(f) /\ Stop("circular")
     \/ f \in DOMAIN files /\ ~Circular(f) /\ Depth >= MaxDepth /\ Stop("depth")

CanPush == AtInclude /\ Node.file \in DOMAIN files /\ ~Circular(Node.file) /\ Depth < MaxDepth

(* The same file with the same parameters was read before. *)
FromCache ==
  /\ CanPush /\ Cached(Node)
  /\ IF AliasFor(Node, CachedFor(Node).name) \in DOMAIN aliases
     THEN Stop("alias")
     ELSE /\ Deliver(stack, Node, Node.arg, CachedFor(Node).name, CachedFor(Node).jobs)
          /\ UNCHANGED cache

(* parseIncludedFile: neither or both kinds of nodes; a pipeline file does not *)
(* take parameters.                                                            *)
Unusable ==
  /\ CanPush /\ ~Cached(Node)
  /\ \/ files[Node.file].kind \in {"empty", "ambiguous"}
     \/ files[Node.file].kind = "pipeline" /\ Node.arg # NoArg
  /\ Stop("unusable")

Enter ==
  /\ CanPush /\ ~Cached(Node)
  /\ \/ files[Node.file].kind = "fragment"
     \/ files[Node.file].kind = "pipeline" /\ Node.arg = NoArg
  /\ stack' = Append(stack, Frame(Node.file, Node.arg))
  /\ UNCHANGED <<files, cache, aliases, jobs, result, origin>>

(* The end of an included file: merge, then parameters, then the alias. *)
Leave ==
  /\ AtEnd /\ Len(stack) > 1
  /\ LET f     == Top.file
         below == SubSeq(stack, 1, Len(stack) - 1)
         inc   == files[below[Len(below)].file].nodes[below[Len(below)].at]
         js    == SubstituteParams(MergeJobs(Top.entries), f, Top.arg)
     IN  \/ MergeConflict(Top.entries) /\ Stop("conflict")
         \/ ~MergeConflict(Top.entries) /\ ~ParamsAccepted(f, Top.arg) /\ Stop("params")
         \/ /\ ~MergeConflict(Top.entries) /\ ParamsAccepted(f, Top.arg)
            /\ IF AliasFor(inc, files[f].name) \in DOMAIN aliases
               THEN Stop("alias")
               ELSE /\ Deliver(below, inc, Top.arg, files[f].name, js)
                    /\ cache' = Put(cache, cacheKey(f, Top.arg), [name |-> files[f].name, jobs |-> js])

(* parse: the end of the root file. *)
Finish ==
  /\ AtEnd /\ Len(stack) = 1
  /\ \/ MergeConflict(Top.entries) /\ Stop("conflict")
     \/ /\ ~MergeConflict(Top.entries)
        /\ jobs' = MergeJobs(Top.entries)
        /\ result' = "ok"
        /\ UNCHANGED <<files, stack, cache, aliases, origin>>

Next == ReadJob \/ PushFails \/ FromCache \/ Unusable \/ Enter \/ Leave \/ Finish

Spec == Init /\ [][Next]_vars

-----------------------------------------------------------------------------
(* The reference: an include stands for the jobs of the file, with its       *)
(* parameter replaced, at the place of the include; no cache, no stack.      *)

(* The include graph: which files are read on behalf of f. *)
IncludesIn(f) == {x \in {files[f].nodes[i] : i \in DOMAIN files[f].nodes} : x.type = "include"}
IncludesOf(f) == {x.file : x \in IncludesIn(f)}
Mentioned     == DOMAIN files \cup UNION {IncludesOf(f) : f \in DOMAIN files}
Closed(C)     == \A f \in C \cap DOMAIN files : IncludesOf(f) \subseteq C
Reaches(S) ==
  {f \in Mentioned : \A C \in SUBSET Mentioned : S \subseteq C /\ Closed(C) => f \in C}

Loop(f) == f \in DOMAIN files /\ f \in Reaches(IncludesOf(f))

Args == {NoArg} \cup {x.arg : x \in UNION {IncludesIn(f) : f \in DOMAIN files}}

Keys == (DOMAIN files) \X Args

(* The jobs of a node, if what a file and argument stand for is in den. *)
NodeJobs(x, den) ==
  IF x.type = "job" THEN <<[name |-> x.name, deps |-> x.deps, text |-> x.text]>>
  ELSE IF <<x.file, x.arg>> \in DOMAIN den THEN den[<<x.file, x.arg>>] ELSE << >>

(* Those of all nodes of a file, one behind the other. *)
Flat(nodes, den) ==
  LET upto[i \in Nat] ==
        IF i = 0 THEN << >>
        ELSE upto[i - 1] \o (IF i \in DOMAIN nodes THEN NodeJobs(nodes[i], den) ELSE << >>)
  IN  upto[Len(nodes)]

(* The jobs of a file and argument, includes followed less than n levels deep. *)
Written[n \in Nat] ==
  [k \in Keys |-> IF n = 0 THEN << >>
                  ELSE SubstituteParams(Flat(files[k[1]].nodes, Written[n - 1]), k[1], k[2])]

Firsts(js) == {q \in DOMAIN js : \A p \in 1..(q - 1) : js[p].name # js[q].name}

FirstWins(js) ==
  [i \in 1..Cardinality(Firsts(js)) |-> js[CHOOSE q \in Firsts(js) : Rank(Firsts(js), q) = i]]

(* An acyclic path of includes comes to each file once. *)
Meaning(f, arg) == FirstWins(Written[Cardinality(DOMAIN files) + 1][<<f, arg>>])

(* Every include the pipeline comes to names a file that is there and passes *)
(* what that file asks for.                                                  *)
ArgumentsAccepted ==
  \A f \in Reaches({Root}) : \A x \in IncludesIn(f) :
    x.file \in DOMAIN files /\ ParamsAccepted(x.file, x.arg)

(* A pipeline with includes is the pipeline one gets by writing the included *)
(* jobs in place of the includes, the first of a name winning, and every     *)
(* include passes what its file asks for: neither the cache nor the order of *)
(* merging and substituting shows.                                           *)
ResolvesAsWritten ==
  result = "ok" =>
    /\ jobs = Meaning(Root, NoArg)
    /\ ArgumentsAccepted

AliasesDefined == \A a \in DOMAIN aliases : aliases[a] \subseteq {jobs[i].name : i \in DOMAIN jobs}

(* ExpandAliases accepts it: an alias that is also a job stands for that job. *)
NoCollision ==
  \A a \in DOMAIN aliases : a \in {jobs[i].name : i \in DOMAIN jobs} => aliases[a] = {a}

(* Every alias stands for jobs the pipeline has, whatever conflicts were     *)
(* skipped on the way, so that a depends-on of an alias never dangles; and   *)
(* in a pipeline that ExpandAliases accepts it leaves out no terminal job of *)
(* what it was made for (docs/schema.md: "resolves to the terminal jobs of   *)
(* the included fragment"), so that a dependent of the alias runs after all  *)
(* of the fragment.                                                          *)
AliasesLand ==
  result = "ok" =>
    /\ AliasesDefined
    /\ NoCollision =>
         \A a \in DOMAIN aliases :
           LET js == Meaning(origin[a].file, origin[a].arg)
               expand(ds) ==
                 UNION {IF d \in DOMAIN aliases /\ aliases[d] # {} THEN aliases[d] ELSE {d} : d \in ds}
           IN  {js[i].name : i \in DOMAIN js} \ UNION {expand(js[i].deps) : i \in DOMAIN js}
                 \subseteq aliases[a]

(* "circular include" is reported only if files include each other, and a    *)
(* pipeline that is accepted has no such files: a diamond is not a cycle.    *)
CircularVerdict ==
  /\ result = "circular" => \E f \in Reaches({Root}) : Loop(f)
  /\ result = "ok" => ~\E f \in Reaches({Root}) : Loop(f)

=============================================================================
