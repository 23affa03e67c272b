--------------------------- MODULE IncludesProofs ---------------------------
(***************************************************************************)
(* Theorems about the resolution of includes, for every set of files: a    *)
(* cycle is reported exactly when there is one; an accepted pipeline has   *)
(* read every include it comes to, and its jobs are those one gets by      *)
(* writing the included jobs in place of the includes; its aliases stand   *)
(* for jobs it has and leave out no terminal job.                          *)
(***************************************************************************)
EXTENDS Includes, FiniteSetTheorems, FunctionTheorems, SequenceTheorems,
        NaturalsInduction, WellFoundedInduction, TLAPS

Arg       == STRING \cup {NoArg}
ParsedJob == [name : STRING, deps : SUBSET STRING, text : STRING \cup {Default}]
Entry     == [job : ParsedJob, skip : BOOLEAN]
Frames    == [file : DOMAIN files, arg : Arg, at : Nat \ {0}, entries : Seq(Entry)]

NamesIn(es) == {es[i].job.name : i \in DOMAIN es}
JobNames(js) == {js[i].name : i \in DOMAIN js}

-----------------------------------------------------------------------------
(* What MergeJobs returns.                                                   *)

(* The elements of a finite set of numbers have ranks of their own. *)
LEMMA RankInjective ==
  ASSUME NEW K \in SUBSET Nat, IsFiniteSet(K), NEW p \in K, NEW q \in K, Rank(K, p) = Rank(K, q)
  PROVE  p = q
<1> DEFINE Upto(x) == {y \in K : y <= x}
<1>1. \A x : Upto(x) \in SUBSET K /\ IsFiniteSet(Upto(x)) BY FS_Subset
<1>2. ASSUME NEW x \in K, NEW y \in K, x < y PROVE Rank(K, x) # Rank(K, y)
  <2>1. Upto(x) \subseteq Upto(y)
    <3>1. \A z \in K : z \in Nat OBVIOUS
    <3>2. \A z \in K : z <= x => z <= y BY <1>2, <3>1
    <3> QED BY <3>2
  <2>2. y \in Upto(y) /\ y \notin Upto(x) BY <1>2
  <2>3. Upto(x) # Upto(y) BY <2>2
  <2>4. Cardinality(Upto(x)) # Cardinality(Upto(y)) BY <1>1, <2>1, <2>3, FS_Subset
  <2> QED BY <2>4 DEF Rank
<1> QED BY <1>2

(* The ranks are the numbers from 1 to the size of the set. *)
LEMMA RankOnto ==
  ASSUME NEW K \in SUBSET Nat, IsFiniteSet(K)
  PROVE  /\ Cardinality(K) \in Nat
         /\ \A q \in K : Rank(K, q) \in 1..Cardinality(K)
         /\ \A i \in 1..Cardinality(K) : \E q \in K : Rank(K, q) = i
<1> DEFINE Upto(x) == {y \in K : y <= x}
           n       == Cardinality(K)
           rank    == [q \in K |-> Rank(K, q)]
<1>1. n \in Nat BY FS_CardinalityType
<1>2. ASSUME NEW q \in K PROVE Rank(K, q) \in 1..n
  <2>1. Upto(q) \in SUBSET K /\ IsFiniteSet(Upto(q)) /\ Cardinality(Upto(q)) <= n BY FS_Subset
  <2>2. Cardinality(Upto(q)) \in Nat BY <2>1, FS_CardinalityType
  <2>3. q \in Upto(q) OBVIOUS
  <2>4. Cardinality(Upto(q)) # 0 BY <2>1, <2>3, FS_EmptySet
  <2> QED BY <1>1, <2>1, <2>2, <2>4 DEF Rank
<1>3. rank \in [K -> 1..n] BY <1>2
<1>4. \A p, q \in K : rank[p] = rank[q] => p = q BY RankInjective
<1>5. rank \in Injection(K, 1..n) BY <1>3, <1>4, Fun_IsInj
<1>6. IsFiniteSet(1..n) /\ Cardinality(1..n) = n BY <1>1, FS_Interval
<1>7. rank \in Surjection(K, 1..n) BY <1>5, <1>6, FS_Injection
<1>8. \A i \in 1..n : \E q \in K : rank[q] = i
  <2> HIDE DEF n, rank
  <2> QED BY <1>7, Fun_SurjectionProperties
<1> QED BY <1>1, <1>2, <1>8

(* Of every name the first job is kept, so the merged jobs have the names of  *)
(* the collected ones, each once.                                             *)
LEMMA MergeFacts ==
  ASSUME NEW es \in Seq(Entry)
  PROVE  /\ MergeJobs(es) \in Seq(ParsedJob)
         /\ JobNames(MergeJobs(es)) = NamesIn(es)
         /\ \A i, k \in DOMAIN MergeJobs(es) :
              MergeJobs(es)[i].name = MergeJobs(es)[k].name => i = k
<1> DEFINE K      == Kept(es)
           nth(i) == CHOOSE q \in K : Rank(K, q) = i
           js     == MergeJobs(es)
<1>1. K \in SUBSET Nat /\ K \subseteq 1..Len(es) BY DEF Kept
<1>2. IsFiniteSet(K)
  <2>1. IsFiniteSet(1..Len(es)) BY FS_Interval
  <2> QED BY <1>1, <2>1, FS_Subset
<1>3. Cardinality(K) \in Nat /\ \A i \in 1..Cardinality(K) : nth(i) \in K /\ Rank(K, nth(i)) = i
  BY <1>1, <1>2, RankOnto
<1>4. js = [i \in 1..Cardinality(K) |-> es[nth(i)].job] BY DEF MergeJobs
<1>5. \A q \in 1..Len(es) : es[q].job \in ParsedJob
  <2>1. \A q \in 1..Len(es) : es[q] \in Entry OBVIOUS
  <2> QED BY <2>1 DEF Entry
<1>6. js \in Seq(ParsedJob) /\ DOMAIN js = 1..Cardinality(K)
  <2>1. \A i \in 1..Cardinality(K) : es[nth(i)].job \in ParsedJob BY <1>1, <1>3, <1>5
  <2>2. js \in [1..Cardinality(K) -> ParsedJob] BY <1>4, <2>1
  <2> QED BY <1>3, <2>2
<1>7. JobNames(js) \subseteq NamesIn(es)
  BY <1>1, <1>3, <1>4, <1>6, SMTT(30) DEF JobNames, NamesIn
<1>8. NamesIn(es) \subseteq JobNames(js)
  <2> SUFFICES ASSUME NEW x \in 1..Len(es) PROVE \E i \in DOMAIN js : js[i].name = es[x].job.name
    BY DEF JobNames, NamesIn
  <2> DEFINE Same == {q \in 1..Len(es) : es[q].job.name = es[x].job.name}
  <2>1. Same \in SUBSET Nat /\ x \in Same OBVIOUS
  <2>2. PICK q \in Same : \A p \in Same : q <= p
    <3>1. \E q \in Same : \A p \in Same : ~ (<<p, q>> \in OpToRel(<, Nat))
      <4> HIDE DEF Same
      <4>1. Same \subseteq Nat /\ Same # {} BY <2>1
      <4> QED BY <4>1, WFMin, NatLessThanWellFounded
    <3>2. \A p, q \in Nat : p < q => <<p, q>> \in OpToRel(<, Nat) BY DEF OpToRel
    <3>3. \A p \in Same : p \in Nat BY <2>1
    <3>4. \E q \in Same : \A p \in Same : ~(p < q)
      <4> HIDE DEF Same
      <4> QED BY <3>1, <3>2, <3>3, Zenon
    <3> QED BY <3>3, <3>4
  <2>3. q \in K BY <2>2 DEF Kept, Repeated
  <2>4. Rank(K, q) \in 1..Cardinality(K) BY <1>1, <1>2, <2>3, RankOnto
  <2>5. nth(Rank(K, q)) = q BY <1>1, <1>2, <1>3, <2>3, <2>4, RankInjective
  <2>6. js[Rank(K, q)].name = es[q].job.name BY <1>4, <2>4, <2>5
  <2>7. es[q].job.name = es[x].job.name BY <2>2
  <2> QED BY <1>6, <2>4, <2>6, <2>7
<1>9. ASSUME NEW i \in DOMAIN js, NEW k \in DOMAIN js, js[i].name = js[k].name PROVE i = k
  <2>1. es[nth(i)].job.name = es[nth(k)].job.name BY <1>4, <1>6, <1>9
  <2>2. nth(i) \in K /\ nth(k) \in K BY <1>3, <1>6
  <2>3. ASSUME NEW p \in K, NEW q \in K, es[p].job.name = es[q].job.name PROVE ~(p < q)
    <3>1. p \in Nat /\ q \in Nat /\ 1 <= p BY <1>1
    <3>2. ~Repeated(es, q) BY DEF Kept
    <3> QED BY <2>3, <3>1, <3>2 DEF Repeated
  <2>4. nth(i) \in Nat /\ nth(k) \in Nat BY <1>1, <2>2
  <2>5. nth(i) = nth(k)
    <3> HIDE DEF nth, K
    <3>1. ~(nth(i) < nth(k)) /\ ~(nth(k) < nth(i)) BY <2>1, <2>2, <2>3
    <3> QED BY <2>4, <3>1
  <2> QED BY <1>3, <1>6, <2>5
<1> QED BY <1>6, <1>7, <1>8, <1>9
-----------------------------------------------------------------------------
(* The include graph, as values that only depend on the file system.         *)

FromRoot == Reaches({Root})
Reach    == [f \in DOMAIN files |-> Reaches(IncludesOf(f))]
Loops    == {f \in DOMAIN files : Loop(f)}
Accepted == {k \in (DOMAIN files) \X Arg : ParamsAccepted(k[1], k[2])}

LEMMA FilesFixed ==
  ASSUME UNCHANGED files
  PROVE  /\ Frames' = Frames /\ FromRoot' = FromRoot /\ Reach' = Reach
         /\ Loops' = Loops /\ Accepted' = Accepted
BY DEF Frames, FromRoot, Reach, Loops, Accepted, Reaches, Mentioned, Closed, Loop, IncludesOf,
       IncludesIn, ParamsAccepted

(* What a file that is reached includes is reached. *)
LEMMA ReachesStep ==
  ASSUME NEW S, NEW f \in DOMAIN files, f \in Reaches(S), NEW g \in IncludesOf(f)
  PROVE  g \in Reaches(S)
<1>1. g \in Mentioned BY DEF Mentioned
<1>2. ASSUME NEW C \in SUBSET Mentioned, S \subseteq C, Closed(C) PROVE g \in C
  <2>1. f \in C BY <1>2 DEF Reaches
  <2> QED BY <1>2, <2>1 DEF Closed
<1> QED BY <1>1, <1>2 DEF Reaches

LEMMA ReachesSelf ==
  ASSUME NEW S \in SUBSET Mentioned
  PROVE  S \subseteq Reaches(S)
BY DEF Reaches

(* A set that is closed under includes holds all that is reached from it. *)
LEMMA ReachesWithin ==
  ASSUME NEW S, NEW C \in SUBSET Mentioned, S \subseteq C, Closed(C)
  PROVE  Reaches(S) \subseteq C
BY DEF Reaches

-----------------------------------------------------------------------------
(* The inductive invariant, in parts.                                        *)

(* Frame a waits at the include that frame b reads. *)
WaitsFor(a, b) ==
  /\ a.at \in DOMAIN files[a.file].nodes
  /\ files[a.file].nodes[a.at].type = "include"
  /\ files[a.file].nodes[a.at].file = b.file
  /\ files[a.file].nodes[a.at].arg = b.arg

(* The stack is a path of includes from the root file to the top. *)
PathInv ==
  /\ files \in Documents
  /\ stack \in Seq(Frames) /\ stack # << >> /\ stack[1].file = Root
  /\ \A p \in 1..(Len(stack) - 1) : WaitsFor(stack[p], stack[p + 1])

(* So everything on it is reached from the root, and from all below it. *)
ReachedInv ==
  /\ \A p \in 1..Len(stack) : stack[p].file \in FromRoot
  /\ \A p, q \in 1..Len(stack) : p < q => stack[q].file \in Reach[stack[p].file]

Resolved(x, keys) == x.type = "include" => <<x.file, x.arg>> \in keys

(* A file in the cache was read to its end: so were its includes, it was      *)
(* given what it asks for, and it does not include itself.  The includes that *)
(* an open file has passed are in the cache too.                              *)
CacheInv ==
  /\ DOMAIN cache \subseteq Accepted
  /\ \A k \in DOMAIN cache : cache[k].name \in STRING /\ cache[k].jobs \in Seq(ParsedJob)
  /\ \A k \in DOMAIN cache : k[1] \notin Loops
  /\ \A k \in DOMAIN cache : \A i \in DOMAIN files[k[1]].nodes :
       Resolved(files[k[1]].nodes[i], DOMAIN cache)
  /\ \A p \in 1..Len(stack) : \A i \in DOMAIN files[stack[p].file].nodes :
       i < stack[p].at => Resolved(files[stack[p].file].nodes[i], DOMAIN cache)

(* The jobs an alias stands for are among those some open file has collected. *)
AliasInv ==
  \A a \in DOMAIN aliases : \E p \in 1..Len(stack) : aliases[a] \subseteq NamesIn(stack[p].entries)

VerdictInv ==
  /\ result = "circular" => Loops \cap FromRoot # {}
  /\ result = "ok" =>
       /\ Len(stack) = 1
       /\ stack[1].at > Len(files[Root].nodes)
       /\ jobs = MergeJobs(stack[1].entries)

IncludesInv == PathInv /\ ReachedInv /\ CacheInv /\ AliasInv /\ VerdictInv
-----------------------------------------------------------------------------
(* The parts of a file, a frame and a list of jobs.                          *)

LEMMA NodeFacts ==
  ASSUME PathInv, NEW f \in DOMAIN files
  PROVE  /\ files[f].nodes \in Seq(JobNode \cup IncludeNode) /\ files[f].name \in STRING
         /\ \A i \in DOMAIN files[f].nodes :
              /\ files[f].nodes[i].type = "job" => files[f].nodes[i] \in JobNode
              /\ files[f].nodes[i].type = "include" =>
                   /\ files[f].nodes[i] \in IncludeNode
                   /\ files[f].nodes[i] \in IncludesIn(f)
                   /\ files[f].nodes[i].file \in IncludesOf(f)
<1>1. files[f] \in Content BY IncludesAssumption DEF PathInv
<1>2. files[f].nodes \in Seq(JobNode \cup IncludeNode) /\ files[f].name \in STRING
  BY <1>1 DEF Content
<1>3. ASSUME NEW i \in DOMAIN files[f].nodes PROVE files[f].nodes[i] \in JobNode \cup IncludeNode
  BY <1>2
<1>4. ASSUME NEW i \in DOMAIN files[f].nodes, files[f].nodes[i].type = "job"
      PROVE  files[f].nodes[i] \in JobNode
  BY <1>3, <1>4 DEF JobNode, IncludeNode
<1>5. ASSUME NEW i \in DOMAIN files[f].nodes, files[f].nodes[i].type = "include"
      PROVE  files[f].nodes[i] \in IncludeNode
  BY <1>3, <1>5 DEF JobNode, IncludeNode
<1>6. ASSUME NEW i \in DOMAIN files[f].nodes, files[f].nodes[i].type = "include"
      PROVE  files[f].nodes[i] \in IncludesIn(f) /\ files[f].nodes[i].file \in IncludesOf(f)
  BY <1>6 DEF IncludesIn, IncludesOf
<1> QED BY <1>2, <1>4, <1>5, <1>6

(* Conversely, an include of a file is one of its nodes. *)
LEMMA IncludeFacts ==
  ASSUME NEW f, NEW x \in IncludesIn(f)
  PROVE  x.type = "include" /\ \E i \in DOMAIN files[f].nodes : files[f].nodes[i] = x
BY DEF IncludesIn

LEMMA CollectFacts ==
  ASSUME NEW fr \in Frames, NEW js \in Seq(ParsedJob), NEW skip \in BOOLEAN,
         NEW c, c = Collect(fr, js, skip)
  PROVE  /\ c \in Frames /\ c.file = fr.file /\ c.arg = fr.arg /\ c.at = fr.at + 1
         /\ NamesIn(c.entries) = NamesIn(fr.entries) \cup JobNames(js)
<1> DEFINE es == [i \in DOMAIN js |-> [job |-> js[i], skip |-> skip]]
<1>1. es \in Seq(Entry) /\ Len(es) = Len(js)
  <2>1. \A i \in 1..Len(js) : [job |-> js[i], skip |-> skip] \in Entry BY DEF Entry
  <2>2. es \in [1..Len(js) -> Entry] BY <2>1
  <2> QED BY <2>2
<1>2. fr.entries \in Seq(Entry) /\ fr.at \in Nat \ {0} BY DEF Frames
<1>3. fr.entries \o es \in Seq(Entry) BY <1>1, <1>2
<1>4. /\ c.file = fr.file /\ c.arg = fr.arg /\ c.at = fr.at + 1 /\ c.entries = fr.entries \o es
      /\ c = [file |-> fr.file, arg |-> fr.arg, at |-> fr.at + 1, entries |-> fr.entries \o es]
  BY DEF Collect, Frames
<1>5. c \in Frames
  <2>1. fr.file \in DOMAIN files /\ fr.arg \in Arg /\ fr.at + 1 \in Nat \ {0} BY DEF Frames
  <2> QED BY <1>3, <1>4, <2>1 DEF Frames
<1>6. NamesIn(fr.entries \o es) = NamesIn(fr.entries) \cup JobNames(js)
  <2> DEFINE n == Len(fr.entries)
  <2>1. n \in Nat /\ Len(js) \in Nat /\ DOMAIN (fr.entries \o es) = 1..(n + Len(js))
    <3> HIDE DEF es
    <3> QED BY <1>1, <1>2
  <2>2. ASSUME NEW i \in 1..n PROVE i \in 1..(n + Len(js)) /\ (fr.entries \o es)[i] = fr.entries[i]
    BY <1>1, <1>2, <2>1
  <2>3. ASSUME NEW i \in 1..Len(js)
        PROVE  n + i \in 1..(n + Len(js)) /\ (fr.entries \o es)[n + i].job = js[i]
    BY <1>1, <1>2, <2>1
  <2>4. ASSUME NEW i \in 1..(n + Len(js)), i > n PROVE \E k \in 1..Len(js) : i = n + k
    <3>1. i - n \in 1..Len(js) /\ i = n + (i - n) BY <2>1, <2>4
    <3> QED BY <3>1
  <2>5. DOMAIN fr.entries = 1..n /\ DOMAIN js = 1..Len(js) BY <1>2
  <2> HIDE DEF n, es
  <2>6. NamesIn(fr.entries \o es) \subseteq NamesIn(fr.entries) \cup JobNames(js)
    <3> SUFFICES ASSUME NEW i \in 1..(n + Len(js))
                 PROVE  (fr.entries \o es)[i].job.name \in NamesIn(fr.entries) \cup JobNames(js)
      BY <2>1 DEF NamesIn
    <3>1. CASE i <= n BY <2>1, <2>2, <2>5, <3>1 DEF NamesIn
    <3>2. CASE i > n BY <2>3, <2>4, <2>5, <3>2 DEF JobNames
    <3> QED BY <2>1, <3>1, <3>2
  <2>7. NamesIn(fr.entries) \subseteq NamesIn(fr.entries \o es) BY <2>1, <2>2, <2>5 DEF NamesIn
  <2>8. JobNames(js) \subseteq NamesIn(fr.entries \o es) BY <2>1, <2>3, <2>5 DEF NamesIn, JobNames
  <2> QED BY <2>6, <2>7, <2>8
<1> QED BY <1>4, <1>5, <1>6

(* Substitution of parameters changes no name. *)
LEMMA SubstituteFacts ==
  ASSUME NEW js \in Seq(ParsedJob), NEW f, NEW arg \in Arg
  PROVE  /\ SubstituteParams(js, f, arg) \in Seq(ParsedJob)
         /\ JobNames(SubstituteParams(js, f, arg)) = JobNames(js)
<1> DEFINE new(i) == [js[i] EXCEPT !.text = IF @ = Placeholder THEN ParamValue(arg) ELSE @]
           ns == [i \in DOMAIN js |-> new(i)]
<1>1. ParamValue(arg) \in STRING \cup {Default} BY DEF ParamValue, Arg
<1>2. ASSUME NEW i \in 1..Len(js) PROVE new(i) \in ParsedJob /\ new(i).name = js[i].name
  <2>1. js[i] \in ParsedJob OBVIOUS
  <2> QED BY <1>1, <2>1 DEF ParsedJob
<1>3. ns \in Seq(ParsedJob)
  <2>1. ns \in [1..Len(js) -> ParsedJob] BY <1>2
  <2> QED BY <2>1
<1>4. JobNames(ns) = JobNames(js) BY <1>2 DEF JobNames
<1>5. SubstituteParams(js, f, arg) = js \/ SubstituteParams(js, f, arg) = ns
  BY DEF SubstituteParams
<1> QED BY <1>3, <1>4, <1>5

LEMMA TerminalNames == \A js : TerminalJobs(js) \subseteq JobNames(js)
BY DEF TerminalJobs, JobNames
-----------------------------------------------------------------------------
(* The stack when the loop of a file goes on: what is above the file is      *)
(* gone, what is below it as before.                                         *)
LEMMA Advance ==
  ASSUME IncludesInv, UNCHANGED files, DOMAIN cache \subseteq DOMAIN cache',
         NEW n \in 1..Len(stack), NEW s \in Seq(Frames), Len(s) = n,
         \A p \in 1..n : s[p] = stack[p],
         NEW js \in Seq(ParsedJob), NEW skip \in BOOLEAN,
         stack' = [s EXCEPT ![n] = Collect(@, js, skip)],
         stack[n].at \in DOMAIN files[stack[n].file].nodes =>
           Resolved(files[stack[n].file].nodes[stack[n].at], DOMAIN cache')
  PROVE  /\ PathInv' /\ ReachedInv'
         /\ \A p \in 1..Len(stack') : \A i \in DOMAIN files[stack'[p].file].nodes :
              i < stack'[p].at => Resolved(files[stack'[p].file].nodes[i], DOMAIN cache')
         /\ Len(stack') = n
         /\ \A p \in 1..n : NamesIn(stack[p].entries) \subseteq NamesIn(stack'[p].entries)
         /\ JobNames(js) \subseteq NamesIn(stack'[n].entries)
<1> DEFINE c == Collect(s[n], js, skip)
<1>1. PathInv /\ ReachedInv /\ CacheInv BY DEF IncludesInv
<1>2. n \in Nat \ {0} /\ n <= Len(stack) /\ Len(stack) \in Nat /\ s[n] \in Frames /\ s[n] = stack[n]
  BY <1>1 DEF PathInv
<1>3. /\ c \in Frames /\ c.file = stack[n].file /\ c.arg = stack[n].arg /\ c.at = stack[n].at + 1
      /\ NamesIn(c.entries) = NamesIn(stack[n].entries) \cup JobNames(js)
  <2> HIDE DEF c
  <2>1. c = Collect(s[n], js, skip) BY DEF c
  <2> QED BY <1>2, <2>1, CollectFacts, SMTT(30)
<1>4. /\ stack' \in Seq(Frames) /\ Len(stack') = n /\ stack'[n] = c
      /\ \A p \in 1..(n - 1) : stack'[p] = stack[p]
  <2> HIDE DEF c
  <2>1. stack' = [s EXCEPT ![n] = c] BY DEF c
  <2>2. s \in [1..n -> Frames] OBVIOUS
  <2>3. stack' \in [1..n -> Frames] BY <1>2, <1>3, <2>1, <2>2
  <2>4. stack' \in Seq(Frames) /\ Len(stack') = n BY <1>2, <2>3
  <2> QED BY <1>2, <2>1, <2>2, <2>4
<1>5. \A p \in 1..n : stack'[p].file = stack[p].file /\ stack'[p].arg = stack[p].arg
  BY <1>2, <1>3, <1>4
<1>6. PathInv'
  <2>1. stack' # << >> /\ stack'[1].file = Root BY <1>1, <1>2, <1>4, <1>5 DEF PathInv
  <2>2. ASSUME NEW p \in 1..(n - 1) PROVE WaitsFor(stack[p], stack[p + 1])'
    <3>1. p \in 1..(Len(stack) - 1) /\ p \in 1..n /\ p + 1 \in 1..n BY <1>2
    <3>2. WaitsFor(stack[p], stack[p + 1]) BY <1>1, <3>1 DEF PathInv
    <3>3. stack'[p] = stack[p] BY <1>4
    <3>4. stack'[p + 1].file = stack[p + 1].file /\ stack'[p + 1].arg = stack[p + 1].arg
      BY <1>5, <3>1
    <3> QED BY <3>2, <3>3, <3>4 DEF WaitsFor
  <2> QED BY <1>1, <1>4, <2>1, <2>2, FilesFixed DEF PathInv
<1>7. ReachedInv'
  BY <1>1, <1>2, <1>4, <1>5, FilesFixed, SMTT(30) DEF ReachedInv
<1>8. ASSUME NEW p \in 1..n, NEW i \in DOMAIN files[stack'[p].file].nodes, i < stack'[p].at
      PROVE  Resolved(files[stack'[p].file].nodes[i], DOMAIN cache')
  <2>0. stack[p] \in Frames BY <1>1, <1>2 DEF PathInv
  <2>1. stack'[p].file = stack[p].file BY <1>5
  <2>2. CASE i < stack[p].at
    <3>1. Resolved(files[stack[p].file].nodes[i], DOMAIN cache) BY <1>1, <1>2, <2>1, <2>2 DEF CacheInv
    <3> QED BY <2>1, <3>1 DEF Resolved
  <2>3. CASE ~(i < stack[p].at)
    <3>1. i \in Nat
      <4>1. stack[p].file \in DOMAIN files BY <2>0 DEF Frames
      <4> QED BY <1>1, <2>1, <4>1, NodeFacts
    <3>2. stack[p].at \in Nat BY <2>0 DEF Frames
    <3>3. p = n BY <1>2, <1>4, <1>8, <2>3
    <3>4. stack'[p].at = stack[p].at + 1 BY <1>3, <1>4, <3>3
    <3>5. i = stack[n].at BY <1>8, <2>3, <3>1, <3>2, <3>3, <3>4
    <3> QED BY <2>1, <3>3, <3>5 DEF Resolved
  <2> QED BY <2>2, <2>3
<1>9. \A p \in 1..n : NamesIn(stack[p].entries) \subseteq NamesIn(stack'[p].entries)
  <2>1. ASSUME NEW p \in 1..n PROVE NamesIn(stack[p].entries) \subseteq NamesIn(stack'[p].entries)
    <3>1. CASE p = n BY <1>3, <1>4, <3>1
    <3>2. CASE p # n
      <4>1. p \in 1..(n - 1) BY <1>2, <3>2
      <4> QED BY <1>4, <4>1
    <3> QED BY <3>1, <3>2
  <2> QED BY <2>1
<1>10. JobNames(js) \subseteq NamesIn(stack'[n].entries) BY <1>3, <1>4
<1> QED BY <1>4, <1>6, <1>7, <1>8, <1>9, <1>10
-----------------------------------------------------------------------------
(* Each action keeps the invariant.                                          *)

LEMMA FrameType ==
  ASSUME NEW f \in DOMAIN files, NEW arg \in Arg
  PROVE  Frame(f, arg) \in Frames
<1>1. << >> \in Seq(Entry) OBVIOUS
<1> QED BY <1>1 DEF Frame, Frames

LEMMA IncludesInit == Init => IncludesInv
<1> SUFFICES ASSUME Init PROVE IncludesInv OBVIOUS
<1>1. files \in Documents /\ Root \in DOMAIN files BY IncludesAssumption DEF Init
<1>2. Frame(Root, NoArg) \in Frames BY <1>1, FrameType DEF Arg
<1>3. /\ stack \in Seq(Frames) /\ Len(stack) = 1 /\ stack[1] = Frame(Root, NoArg)
      /\ stack[1].file = Root /\ stack[1].at = 1
  BY <1>2 DEF Init, Frame
<1>4. PathInv
  <2>1. stack # << >>
    <3>1. Len(stack) # 0 BY <1>3
    <3>2. Len(<< >>) = 0 OBVIOUS
    <3> QED BY <3>1, <3>2, Zenon
  <2>2. \A p \in 1..(Len(stack) - 1) : FALSE BY <1>3
  <2> QED BY <1>1, <1>3, <2>1, <2>2 DEF PathInv
<1>5. Root \in FromRoot
  <2>1. {Root} \in SUBSET Mentioned BY <1>1 DEF Mentioned
  <2> QED BY <2>1, ReachesSelf DEF FromRoot
<1>6. ReachedInv BY <1>3, <1>5 DEF ReachedInv
<1>7. CacheInv
  <2>1. DOMAIN cache = {} BY DEF Init
  <2>2. \A i \in DOMAIN files[Root].nodes : ~(i < 1) BY <1>1, <1>4, NodeFacts
  <2> QED BY <1>3, <2>1, <2>2 DEF CacheInv
<1>8. AliasInv BY DEF Init, AliasInv
<1>9. VerdictInv BY DEF Init, VerdictInv
<1> QED BY <1>4, <1>6, <1>7, <1>8, <1>9 DEF IncludesInv

(* What the frame on top is reading. *)
LEMMA TopFacts ==
  ASSUME IncludesInv
  PROVE  /\ Len(stack) \in Nat \ {0} /\ Top \in Frames /\ Top.file \in DOMAIN files /\ Top.arg \in Arg
         /\ Top.at \in Nat \ {0} /\ Top.entries \in Seq(Entry)
         /\ Nodes \in Seq(JobNode \cup IncludeNode)
         /\ AtJob => Node \in JobNode
         /\ AtInclude => /\ Node \in IncludeNode /\ Node.file \in IncludesOf(Top.file)
                         /\ Top.at \in DOMAIN files[Top.file].nodes
<1>1. PathInv BY DEF IncludesInv
<1>2. Len(stack) \in Nat \ {0} BY <1>1 DEF PathInv
<1>3. Top \in Frames BY <1>1, <1>2 DEF PathInv, Top
<1>4. /\ Top.file \in DOMAIN files /\ Top.arg \in Arg /\ Top.at \in Nat \ {0}
      /\ Top.entries \in Seq(Entry)
  BY <1>3 DEF Frames
<1>5. Nodes \in Seq(JobNode \cup IncludeNode) BY <1>1, <1>4, NodeFacts DEF Nodes
<1>6. Top.at <= Len(Nodes) => Top.at \in DOMAIN files[Top.file].nodes
  BY <1>4, <1>5 DEF Nodes
<1>7. AtJob => Node \in JobNode
  BY <1>1, <1>4, <1>6, NodeFacts DEF AtJob, Node, Nodes
<1>8. AtInclude => /\ Node \in IncludeNode /\ Node.file \in IncludesOf(Top.file)
                   /\ Top.at \in DOMAIN files[Top.file].nodes
  BY <1>1, <1>4, <1>6, NodeFacts DEF AtInclude, Node, Nodes
<1> QED BY <1>2, <1>3, <1>4, <1>5, <1>7, <1>8

LEMMA StopKeeps ==
  ASSUME IncludesInv, NEW why, Stop(why), why # "ok",
         why = "circular" => Loops \cap FromRoot # {}
  PROVE  IncludesInv'
<1>1. /\ UNCHANGED <<files, stack, cache, aliases, jobs, origin>> /\ result' = why BY DEF Stop
<1>2. PathInv' BY <1>1, FilesFixed DEF IncludesInv, PathInv, WaitsFor
<1>3. ReachedInv' BY <1>1, FilesFixed DEF IncludesInv, ReachedInv
<1>4. CacheInv' BY <1>1, FilesFixed DEF IncludesInv, CacheInv
<1>5. AliasInv' BY <1>1 DEF IncludesInv, AliasInv
<1>6. VerdictInv' BY <1>1, FilesFixed DEF IncludesInv, VerdictInv
<1> QED BY <1>2, <1>3, <1>4, <1>5, <1>6 DEF IncludesInv

(* An ancestor that is included again lies on a cycle. *)
LEMMA CircularIsLoop ==
  ASSUME IncludesInv, AtInclude, Circular(Node.file)
  PROVE  Loops \cap FromRoot # {}
<1>1. PathInv /\ ReachedInv BY DEF IncludesInv
<1>2. PICK p \in 2..Len(stack) : stack[p].file = Node.file BY DEF Circular, Ancestors
<1>3. Len(stack) \in Nat /\ p \in 1..Len(stack) /\ Len(stack) \in 1..Len(stack) BY TopFacts
<1> DEFINE f == stack[p].file
<1>4. f \in DOMAIN files
  <2>1. stack[p] \in Frames BY <1>1, <1>3 DEF PathInv
  <2> QED BY <2>1 DEF Frames
<1>5. f \in FromRoot BY <1>1, <1>3 DEF ReachedInv
<1>6. f \in IncludesOf(Top.file) /\ Top.file \in DOMAIN files BY <1>2, TopFacts
<1>7. f \in Reaches(IncludesOf(f))
  <2>1. CASE p = Len(stack)
    <3>1. f \in IncludesOf(f) BY <1>6, <2>1 DEF Top
    <3>2. IncludesOf(f) \in SUBSET Mentioned BY <1>4 DEF Mentioned
    <3> QED BY <3>1, <3>2, ReachesSelf
  <2>2. CASE p # Len(stack)
    <3>1. p < Len(stack) BY <1>3, <2>2
    <3>2. Top.file \in Reach[f] BY <1>1, <1>3, <3>1 DEF ReachedInv, Top
    <3>3. Top.file \in Reaches(IncludesOf(f)) BY <1>4, <3>2 DEF Reach
    <3> QED BY <1>6, <3>3, ReachesStep
  <2> QED BY <2>1, <2>2
<1>8. f \in Loops BY <1>4, <1>7 DEF Loops, Loop
<1> QED BY <1>5, <1>8

LEMMA PushFailsKeeps == ASSUME IncludesInv, PushFails PROVE IncludesInv'
<1>1. CASE Stop("missing") BY <1>1, StopKeeps
<1>2. CASE Stop("depth") BY <1>2, StopKeeps
<1>3. CASE AtInclude /\ Circular(Node.file) /\ Stop("circular")
  BY <1>3, CircularIsLoop, StopKeeps
<1> QED BY <1>1, <1>2, <1>3 DEF PushFails

LEMMA UnusableKeeps == ASSUME IncludesInv, Unusable PROVE IncludesInv'
BY StopKeeps DEF Unusable

LEMMA ReadJobKeeps == ASSUME IncludesInv, ReadJob PROVE IncludesInv'
<1> DEFINE j  == [name |-> Node.name, deps |-> Node.deps, text |-> Node.text]
           js == <<j>>
           n  == Len(stack)
<1>1. js \in Seq(ParsedJob)
  <2>1. Node \in JobNode BY TopFacts DEF ReadJob
  <2>2. Node.name \in STRING /\ Node.deps \in SUBSET STRING /\ Node.text \in STRING
    BY <2>1 DEF JobNode
  <2>3. j \in ParsedJob BY <2>2 DEF ParsedJob
  <2> HIDE DEF j
  <2> QED BY <2>3
<1>2. /\ UNCHANGED <<files, cache, aliases, jobs, result, origin>> /\ result = "none"
      /\ stack' = [stack EXCEPT ![n] = Collect(@, js, FALSE)]
  BY DEF ReadJob, AtJob
<1>3. n \in 1..Len(stack) /\ stack \in Seq(Frames) BY TopFacts DEF IncludesInv, PathInv
<1>4. stack[n].at \in DOMAIN files[stack[n].file].nodes =>
        Resolved(files[stack[n].file].nodes[stack[n].at], DOMAIN cache')
  BY DEF ReadJob, AtJob, Node, Nodes, Top, Resolved
<1> HIDE DEF js
<1>5. /\ PathInv' /\ ReachedInv' /\ Len(stack') = n
      /\ \A p \in 1..Len(stack') : \A i \in DOMAIN files[stack'[p].file].nodes :
           i < stack'[p].at => Resolved(files[stack'[p].file].nodes[i], DOMAIN cache')
      /\ \A p \in 1..n : NamesIn(stack[p].entries) \subseteq NamesIn(stack'[p].entries)
  BY <1>1, <1>2, <1>3, <1>4, Advance
<1>6. CacheInv' BY <1>2, <1>5, FilesFixed DEF IncludesInv, CacheInv
<1>7. AliasInv' BY <1>2, <1>5 DEF IncludesInv, AliasInv
<1>8. VerdictInv' BY <1>2 DEF VerdictInv
<1> QED BY <1>5, <1>6, <1>7, <1>8 DEF IncludesInv
LEMMA EnterKeeps == ASSUME IncludesInv, Enter PROVE IncludesInv'
<1> DEFINE n == Len(stack)
           g == Node.file
           fr == Frame(g, Node.arg)
<1>1. PathInv /\ ReachedInv /\ CacheInv BY DEF IncludesInv
<1>2. /\ UNCHANGED <<files, cache, aliases, jobs, result, origin>> /\ result = "none"
      /\ stack' = Append(stack, fr) /\ AtInclude /\ g \in DOMAIN files
  BY DEF Enter, CanPush, AtInclude
<1>3. /\ n \in Nat \ {0} /\ Node \in IncludeNode /\ g \in IncludesOf(Top.file)
      /\ Top.file \in DOMAIN files /\ Top.at \in DOMAIN files[Top.file].nodes
  BY <1>2, TopFacts
<1>4. fr \in Frames /\ fr.file = g /\ fr.arg = Node.arg /\ fr.at = 1 /\ fr.entries = << >>
  <2>1. Node.arg \in Arg BY <1>3 DEF IncludeNode, Arg
  <2> QED BY <1>2, <2>1, FrameType DEF Frame
<1>5. /\ stack' \in Seq(Frames) /\ Len(stack') = n + 1 /\ stack'[n + 1] = fr
      /\ \A p \in 1..n : stack'[p] = stack[p]
  <2> HIDE DEF fr
  <2> QED BY <1>1, <1>2, <1>3, <1>4 DEF PathInv
<1>6. PathInv'
  <2>1. ASSUME NEW p \in 1..n PROVE WaitsFor(stack[p], stack[p + 1])'
    <3>1. CASE p = n
      <4>1. stack'[p] = Top /\ stack'[p + 1] = fr BY <1>5, <3>1 DEF Top
      <4> QED BY <1>2, <1>3, <1>4, <4>1 DEF WaitsFor, AtInclude, Node, Nodes
    <3>2. CASE p # n
      <4>1. p \in 1..(n - 1) /\ p + 1 \in 1..n BY <1>3, <3>2
      <4>2. WaitsFor(stack[p], stack[p + 1]) BY <1>1, <4>1 DEF PathInv
      <4>3. stack'[p] = stack[p] /\ stack'[p + 1] = stack[p + 1] BY <1>5, <4>1
      <4> QED BY <1>2, <4>2, <4>3 DEF WaitsFor
    <3> QED BY <3>1, <3>2
  <2>2. stack' # << >> /\ stack'[1].file = Root BY <1>1, <1>3, <1>5 DEF PathInv
  <2>3. Len(stack') - 1 = n BY <1>3, <1>5
  <2>4. \A p \in 1..(Len(stack') - 1) : WaitsFor(stack[p], stack[p + 1])' BY <2>1, <2>3
  <2> QED BY <1>1, <1>2, <1>5, <2>2, <2>4, FilesFixed DEF PathInv
<1>7. g \in FromRoot
  <2>1. Top.file \in FromRoot BY <1>1, <1>3 DEF ReachedInv, Top
  <2> QED BY <1>3, <2>1, ReachesStep DEF FromRoot
<1>8. ASSUME NEW p \in 1..n PROVE g \in Reach[stack[p].file]
  <2>1. stack[p].file \in DOMAIN files
    <3>1. stack[p] \in Frames BY <1>1 DEF PathInv
    <3> QED BY <3>1 DEF Frames
  <2>2. CASE p = n
    <3>1. IncludesOf(Top.file) \in SUBSET Mentioned BY <1>3 DEF Mentioned
    <3>2. g \in Reaches(IncludesOf(Top.file)) BY <1>3, <3>1, ReachesSelf
    <3> QED BY <1>3, <2>2, <3>2 DEF Reach, Top
  <2>3. CASE p # n
    <3>1. p < n /\ n \in 1..n BY <1>3, <2>3
    <3>2. Top.file \in Reach[stack[p].file] BY <1>1, <3>1 DEF ReachedInv, Top
    <3>3. Top.file \in Reaches(IncludesOf(stack[p].file)) BY <2>1, <3>2 DEF Reach
    <3>4. g \in Reaches(IncludesOf(stack[p].file)) BY <1>3, <3>3, ReachesStep
    <3> QED BY <2>1, <3>4 DEF Reach
  <2> QED BY <2>2, <2>3
<1>9. ReachedInv'
  <2>1. ASSUME NEW p \in 1..(n + 1) PROVE stack'[p].file \in FromRoot
    <3>1. CASE p = n + 1 BY <1>4, <1>5, <1>7, <3>1
    <3>2. CASE p # n + 1
      <4>1. p \in 1..n BY <1>3, <3>2
      <4> QED BY <1>1, <1>5, <4>1 DEF ReachedInv
    <3> QED BY <3>1, <3>2
  <2>2. ASSUME NEW p \in 1..(n + 1), NEW q \in 1..(n + 1), p < q
        PROVE  stack'[q].file \in Reach[stack'[p].file]
    <3>1. p \in 1..n /\ stack'[p] = stack[p] BY <1>3, <1>5, <2>2
    <3>2. CASE q = n + 1 BY <1>4, <1>5, <1>8, <3>1, <3>2
    <3>3. CASE q # n + 1
      <4>1. q \in 1..n BY <1>3, <3>3
      <4> QED BY <1>1, <1>5, <2>2, <3>1, <4>1 DEF ReachedInv
    <3> QED BY <3>2, <3>3
  <2> QED BY <1>2, <1>5, <2>1, <2>2, FilesFixed DEF ReachedInv
<1>10. CacheInv'
  <2>1. ASSUME NEW p \in 1..(n + 1), NEW i \in DOMAIN files[stack'[p].file].nodes, i < stack'[p].at
        PROVE  Resolved(files[stack'[p].file].nodes[i], DOMAIN cache)
    <3>1. CASE p = n + 1
      <4>1. i \in Nat \ {0} BY <1>1, <1>2, <1>4, <1>5, <3>1, NodeFacts
      <4> QED BY <1>4, <1>5, <2>1, <3>1, <4>1
    <3>2. CASE p # n + 1
      <4>1. p \in 1..n BY <1>3, <3>2
      <4> QED BY <1>1, <1>5, <2>1, <4>1 DEF CacheInv
    <3> QED BY <3>1, <3>2
  <2> QED BY <1>1, <1>2, <1>5, <2>1, FilesFixed DEF CacheInv
<1>11. AliasInv'
  <2>1. \A p \in 1..n : p \in 1..(n + 1) /\ stack'[p] = stack[p] BY <1>3, <1>5
  <2> QED BY <1>2, <1>5, <2>1 DEF IncludesInv, AliasInv
<1>12. VerdictInv' BY <1>2 DEF VerdictInv
<1> QED BY <1>6, <1>9, <1>10, <1>11, <1>12 DEF IncludesInv

(* The alias of an include that is delivered stands for jobs that the         *)
(* includer has collected by then.                                            *)
LEMMA AliasKeeps ==
  ASSUME NEW n, n \in 1..Len(stack'), NEW js, NEW alias,
         aliases' = Put(aliases, alias, TerminalJobs(js)),
         JobNames(js) \subseteq NamesIn(stack'[n].entries),
         \A a \in DOMAIN aliases : \E p \in 1..Len(stack') :
           aliases[a] \subseteq NamesIn(stack'[p].entries)
  PROVE  AliasInv'
<1>1. ASSUME NEW a \in DOMAIN aliases' PROVE a = alias \/ (a \in DOMAIN aliases /\ aliases'[a] = aliases[a])
  BY <1>1 DEF Put
<1>2. aliases'[alias] = TerminalJobs(js) BY DEF Put
<1> QED BY <1>1, <1>2, TerminalNames DEF AliasInv

LEMMA FromCacheKeeps == ASSUME IncludesInv, FromCache PROVE IncludesInv'
<1>1. CASE Stop("alias") BY <1>1, StopKeeps
<1>2. CASE ~Stop("alias")
  <2> DEFINE n   == Len(stack)
             key == cacheKey(Node.file, Node.arg)
             js  == cache[key].jobs
             alias == AliasFor(Node, CachedFor(Node).name)
  <2>1. /\ UNCHANGED <<files, cache, jobs, result>> /\ result = "none" /\ AtInclude
        /\ key \in DOMAIN cache
        /\ aliases' = Put(aliases, alias, TerminalJobs(js))
        /\ stack' = [stack EXCEPT ![n] = Collect(@, js, Node.skip)]
    BY <1>2 DEF FromCache, CanPush, AtInclude, Cached, CachedFor, Deliver
  <2>2. n \in 1..Len(stack) /\ stack \in Seq(Frames) BY TopFacts DEF IncludesInv, PathInv
  <2>3. js \in Seq(ParsedJob) BY <2>1 DEF IncludesInv, CacheInv
  <2>4. Node.skip \in BOOLEAN BY <2>1, TopFacts DEF IncludeNode
  <2>5. Resolved(files[stack[n].file].nodes[stack[n].at], DOMAIN cache')
    BY <2>1 DEF cacheKey, Node, Nodes, Top, Resolved
  <2> HIDE DEF js, alias
  <2>6. /\ PathInv' /\ ReachedInv' /\ Len(stack') = n
        /\ \A p \in 1..Len(stack') : \A i \in DOMAIN files[stack'[p].file].nodes :
             i < stack'[p].at => Resolved(files[stack'[p].file].nodes[i], DOMAIN cache')
        /\ \A p \in 1..n : NamesIn(stack[p].entries) \subseteq NamesIn(stack'[p].entries)
        /\ JobNames(js) \subseteq NamesIn(stack'[n].entries)
    BY <2>1, <2>2, <2>3, <2>4, <2>5, Advance
  <2>7. CacheInv' BY <2>1, <2>6, FilesFixed DEF IncludesInv, CacheInv
  <2>8. AliasInv'
    <3>1. \A a \in DOMAIN aliases : \E p \in 1..Len(stack') :
            aliases[a] \subseteq NamesIn(stack'[p].entries)
      BY <2>6 DEF IncludesInv, AliasInv
    <3> QED BY <2>1, <2>2, <2>6, <3>1, AliasKeeps
  <2>9. VerdictInv' BY <2>1 DEF VerdictInv
  <2> QED BY <2>6, <2>7, <2>8, <2>9 DEF IncludesInv
<1> QED BY <1>1, <1>2
LEMMA ResolvedIncludes ==
  ASSUME NEW g, \A i \in DOMAIN files[g].nodes : Resolved(files[g].nodes[i], DOMAIN cache)
  PROVE  IncludesOf(g) \subseteq {k[1] : k \in DOMAIN cache}
<1> SUFFICES ASSUME NEW x \in IncludesIn(g) PROVE \E k \in DOMAIN cache : k[1] = x.file
  BY DEF IncludesOf
<1>1. x.type = "include" /\ \E i \in DOMAIN files[g].nodes : files[g].nodes[i] = x
  BY IncludeFacts
<1>2. <<x.file, x.arg>> \in DOMAIN cache BY <1>1 DEF Resolved
<1> QED BY <1>2

(* A file whose includes were all read before it is on no cycle: what it     *)
(* reaches was read before it.                                               *)
LEMMA NoLoop ==
  ASSUME IncludesInv, NEW f \in DOMAIN files,
         \A i \in DOMAIN files[f].nodes : Resolved(files[f].nodes[i], DOMAIN cache)
  PROVE  f \notin Loops
<1> DEFINE D == {k[1] : k \in DOMAIN cache}
<1>1. PathInv /\ CacheInv BY DEF IncludesInv
<1>2. ASSUME NEW k \in DOMAIN cache PROVE k[1] \in DOMAIN files
  BY <1>1 DEF CacheInv, Accepted
<1>3. D \in SUBSET DOMAIN files BY <1>2
<1>4. ASSUME NEW g, \A i \in DOMAIN files[g].nodes : Resolved(files[g].nodes[i], DOMAIN cache)
      PROVE  IncludesOf(g) \subseteq D
  BY <1>4, ResolvedIncludes
<1>5. ASSUME NEW k \in DOMAIN cache PROVE IncludesOf(k[1]) \subseteq D
  BY <1>1, <1>4 DEF CacheInv
<1>6. IncludesOf(f) \subseteq D BY <1>4
<1>7. Closed(D) BY <1>5 DEF Closed
<1>8. D \in SUBSET Mentioned BY <1>3 DEF Mentioned
<1>9. Reaches(IncludesOf(f)) \subseteq D
  <2> HIDE DEF D
  <2> QED BY <1>6, <1>7, <1>8, ReachesWithin
<1>10. CASE f \in D BY <1>1, <1>10 DEF CacheInv
<1>11. CASE f \notin D BY <1>9, <1>11 DEF Loops, Loop
<1> QED BY <1>10, <1>11

LEMMA LeaveKeeps == ASSUME IncludesInv, Leave PROVE IncludesInv'
<1> DEFINE n     == Len(stack) - 1
           f     == Top.file
           below == SubSeq(stack, 1, n)
           inc   == files[below[n].file].nodes[below[n].at]
           js    == SubstituteParams(MergeJobs(Top.entries), f, Top.arg)
           alias == AliasFor(inc, files[f].name)
           key   == <<f, Top.arg>>
           entry == [name |-> files[f].name, jobs |-> js]
<1>1. CASE Stop("conflict") \/ Stop("params") \/ Stop("alias") BY <1>1, StopKeeps
<1>2. CASE ~(Stop("conflict") \/ Stop("params") \/ Stop("alias"))
  <2>1. PathInv /\ ReachedInv /\ CacheInv /\ AliasInv BY DEF IncludesInv
  <2>2. AtEnd /\ Len(stack) > 1 /\ result = "none" BY DEF Leave, AtEnd
  <2>3. /\ Len(stack) \in Nat \ {0} /\ Top \in Frames /\ f \in DOMAIN files /\ Top.arg \in Arg
        /\ Top.at \in Nat \ {0} /\ Top.entries \in Seq(Entry) /\ Nodes \in Seq(JobNode \cup IncludeNode)
    BY TopFacts
  <2>4. n \in 1..Len(stack) /\ n \in Nat \ {0} /\ n + 1 = Len(stack)
    <3>1. Len(stack) \in Nat BY <2>3
    <3>2. Len(stack) > 1 BY <2>2
    <3>3. \A l \in Nat : l > 1 => l - 1 \in 1..l /\ l - 1 \in Nat \ {0} /\ l - 1 + 1 = l
      OBVIOUS
    <3> QED BY <3>1, <3>2, <3>3
  <2>5. /\ below \in Seq(Frames) /\ Len(below) = n /\ \A p \in 1..n : below[p] = stack[p]
    BY <2>1, <2>4 DEF PathInv
  <2>6. /\ ParamsAccepted(f, Top.arg)
        /\ Deliver(below, inc, Top.arg, files[f].name, js)
        /\ cache' = Put(cache, key, entry)
    BY <1>2, <2>5 DEF Leave, cacheKey
  <2>7. /\ UNCHANGED <<files, jobs, result>>
        /\ aliases' = Put(aliases, alias, TerminalJobs(js))
        /\ stack' = [below EXCEPT ![n] = Collect(@, js, inc.skip)]
    BY <2>5, <2>6 DEF Deliver
  <2>8. js \in Seq(ParsedJob) /\ JobNames(js) = NamesIn(Top.entries)
    BY <2>3, MergeFacts, SubstituteFacts
  <2>9. WaitsFor(stack[n], Top)
    <3>1. n \in 1..(Len(stack) - 1) BY <2>4
    <3> QED BY <2>1, <2>4, <3>1 DEF PathInv, Top
  <2>10. below[n] = stack[n] /\ stack[n].file \in DOMAIN files
    <3>1. below[n] = stack[n] /\ below[n] \in Frames BY <2>4, <2>5
    <3> QED BY <3>1 DEF Frames
  <2>11. inc.skip \in BOOLEAN /\ inc.file = f /\ inc.arg = Top.arg
    <3>1. inc \in IncludeNode BY <2>1, <2>9, <2>10, NodeFacts DEF WaitsFor
    <3> QED BY <2>9, <2>10, <3>1 DEF WaitsFor, IncludeNode
  <2>12. DOMAIN cache' = DOMAIN cache \cup {key} BY <2>6 DEF Put
  <2>13. Resolved(files[stack[n].file].nodes[stack[n].at], DOMAIN cache')
    BY <2>10, <2>11, <2>12 DEF Resolved
  <2> HIDE DEF n, below, inc, js, alias, entry
  <2>14. /\ PathInv' /\ ReachedInv' /\ Len(stack') = n
         /\ \A p \in 1..Len(stack') : \A i \in DOMAIN files[stack'[p].file].nodes :
              i < stack'[p].at => Resolved(files[stack'[p].file].nodes[i], DOMAIN cache')
         /\ \A p \in 1..n : NamesIn(stack[p].entries) \subseteq NamesIn(stack'[p].entries)
         /\ JobNames(js) \subseteq NamesIn(stack'[n].entries)
    BY <2>4, <2>5, <2>7, <2>8, <2>11, <2>12, <2>13, Advance
  <2>15. \A i \in DOMAIN files[f].nodes : Resolved(files[f].nodes[i], DOMAIN cache)
    <3>1. \A i \in DOMAIN files[f].nodes : i < Top.at
      BY <2>2, <2>3 DEF AtEnd, Nodes
    <3> QED BY <2>1, <2>3, <3>1 DEF CacheInv, Top
  <2>16. CacheInv'
    <3>1. DOMAIN cache' \subseteq Accepted BY <2>1, <2>3, <2>6, <2>12 DEF CacheInv, Accepted
    <3>2. /\ cache'[key] = entry
          /\ \A k \in DOMAIN cache : k = key \/ cache'[k] = cache[k]
      BY <2>6 DEF Put
    <3>3. files[f].name \in STRING BY <2>1, <2>3, NodeFacts
    <3>4. entry.name \in STRING /\ entry.jobs \in Seq(ParsedJob) BY <2>8, <3>3 DEF entry
    <3>5. \A k \in DOMAIN cache' : cache'[k].name \in STRING /\ cache'[k].jobs \in Seq(ParsedJob)
      BY <2>1, <2>12, <3>2, <3>4 DEF CacheInv
    <3>6. f \notin Loops BY <2>3, <2>15, NoLoop
    <3>7. \A k \in DOMAIN cache' : k[1] \notin Loops
      BY <2>1, <2>12, <3>6 DEF CacheInv
    <3>8. \A k \in DOMAIN cache' : \A i \in DOMAIN files[k[1]].nodes :
            Resolved(files[k[1]].nodes[i], DOMAIN cache')
      BY <2>1, <2>12, <2>15 DEF CacheInv, Resolved
    <3> QED BY <2>7, <2>14, <3>1, <3>5, <3>7, <3>8, FilesFixed DEF CacheInv
  <2>17. AliasInv'
    <3>1. ASSUME NEW a \in DOMAIN aliases
          PROVE  \E p \in 1..n : aliases[a] \subseteq NamesIn(stack'[p].entries)
      <4>1. PICK p \in 1..Len(stack) : aliases[a] \subseteq NamesIn(stack[p].entries)
        BY <2>1 DEF AliasInv
      <4>2. CASE p \in 1..n BY <2>14, <4>1, <4>2
      <4>3. CASE p \notin 1..n
        <5>1. p = Len(stack) BY <2>3, <2>4, <4>3
        <5>2. aliases[a] \subseteq JobNames(js) BY <2>8, <4>1, <5>1 DEF Top
        <5>3. n \in 1..n BY <2>4
        <5> QED BY <2>14, <5>2, <5>3
      <4> QED BY <4>2, <4>3
    <3>2. n \in 1..Len(stack') BY <2>4, <2>14
    <3> QED BY <2>7, <2>14, <3>1, <3>2, AliasKeeps
  <2>18. VerdictInv' BY <2>2, <2>7 DEF VerdictInv
  <2> QED BY <2>14, <2>16, <2>17, <2>18 DEF IncludesInv
<1> QED BY <1>1, <1>2

LEMMA FinishKeeps == ASSUME IncludesInv, Finish PROVE IncludesInv'
<1>1. CASE Stop("conflict") BY <1>1, StopKeeps
<1>2. CASE ~Stop("conflict")
  <2>1. /\ AtEnd /\ Len(stack) = 1 /\ jobs' = MergeJobs(Top.entries)
        /\ UNCHANGED <<files, stack, cache, aliases, origin>> /\ result' = "ok"
    BY <1>2 DEF Finish
  <2>2. PathInv' BY <2>1, FilesFixed DEF IncludesInv, PathInv, WaitsFor
  <2>3. ReachedInv' BY <2>1, FilesFixed DEF IncludesInv, ReachedInv
  <2>4. CacheInv' BY <2>1, FilesFixed DEF IncludesInv, CacheInv
  <2>5. AliasInv' BY <2>1 DEF IncludesInv, AliasInv
  <2>6. stack[1] = Top /\ Top.file = Root BY <2>1 DEF Top, IncludesInv, PathInv
  <2>7. VerdictInv' BY <2>1, <2>6 DEF VerdictInv, AtEnd, Nodes
  <2> QED BY <2>2, <2>3, <2>4, <2>5, <2>7 DEF IncludesInv
<1> QED BY <1>1, <1>2

LEMMA IncludesStep == IncludesInv /\ [Next]_vars => IncludesInv'
<1> SUFFICES ASSUME IncludesInv, [Next]_vars PROVE IncludesInv' OBVIOUS
<1>1. CASE UNCHANGED vars
  <2>1. UNCHANGED <<files, stack, cache, aliases, jobs, result>> BY <1>1 DEF vars
  <2>2. PathInv' BY <2>1, FilesFixed DEF IncludesInv, PathInv, WaitsFor
  <2>3. ReachedInv' BY <2>1, FilesFixed DEF IncludesInv, ReachedInv
  <2>4. CacheInv' BY <2>1, FilesFixed DEF IncludesInv, CacheInv
  <2>5. AliasInv' BY <2>1 DEF IncludesInv, AliasInv
  <2>6. VerdictInv' BY <2>1, FilesFixed DEF IncludesInv, VerdictInv
  <2> QED BY <2>2, <2>3, <2>4, <2>5, <2>6 DEF IncludesInv
<1>2. CASE Next
  BY <1>2, ReadJobKeeps, PushFailsKeeps, FromCacheKeeps, UnusableKeeps, EnterKeeps, LeaveKeeps,
     FinishKeeps DEF Next
<1> QED BY <1>1, <1>2

LEMMA Invariance == Spec => []IncludesInv
BY IncludesInit, IncludesStep, PTL DEF Spec
-----------------------------------------------------------------------------
(* The theorems.                                                             *)

(* What an accepted pipeline comes to is the root file and files in the cache. *)
LEMMA AcceptedGraph ==
  ASSUME IncludesInv, result = "ok"
  PROVE  /\ \A i \in DOMAIN files[Root].nodes : Resolved(files[Root].nodes[i], DOMAIN cache)
         /\ Root \in DOMAIN files
         /\ FromRoot \subseteq {Root} \cup {k[1] : k \in DOMAIN cache}
<1> DEFINE D == {k[1] : k \in DOMAIN cache}
           C == {Root} \cup D
<1>1. PathInv /\ CacheInv /\ VerdictInv BY DEF IncludesInv
<1>2. Len(stack) = 1 /\ stack[1].file = Root /\ stack[1].at > Len(files[Root].nodes)
  BY <1>1 DEF VerdictInv, PathInv
<1>3. Root \in DOMAIN files BY <1>1, IncludesAssumption DEF PathInv
<1>4. \A i \in DOMAIN files[Root].nodes : Resolved(files[Root].nodes[i], DOMAIN cache)
  <2>1. stack[1].at \in Nat
    <3>1. stack[1] \in Frames BY <1>1, <1>2 DEF PathInv
    <3> QED BY <3>1 DEF Frames
  <2>2. \A i \in DOMAIN files[Root].nodes : i < stack[1].at
    BY <1>1, <1>2, <1>3, <2>1, NodeFacts
  <2> QED BY <1>1, <1>2, <2>2 DEF CacheInv
<1>5. ASSUME NEW g, \A i \in DOMAIN files[g].nodes : Resolved(files[g].nodes[i], DOMAIN cache)
      PROVE  IncludesOf(g) \subseteq D
  BY <1>5, ResolvedIncludes
<1>6. ASSUME NEW g \in C PROVE IncludesOf(g) \subseteq C
  BY <1>1, <1>4, <1>5 DEF CacheInv
<1>7. Closed(C) BY <1>6 DEF Closed
<1>8. C \in SUBSET Mentioned
  <2>1. ASSUME NEW k \in DOMAIN cache PROVE k[1] \in DOMAIN files BY <1>1 DEF CacheInv, Accepted
  <2> QED BY <1>3, <2>1 DEF Mentioned
<1>9. FromRoot \subseteq C
  <2>1. {Root} \subseteq C OBVIOUS
  <2> HIDE DEF C
  <2> QED BY <1>7, <1>8, <2>1, ReachesWithin DEF FromRoot
<1> QED BY <1>3, <1>4, <1>9

(* push and pop tell a cycle from a diamond, whatever files there are and    *)
(* whatever the cache answers: "circular include" is reported only for files *)
(* that include each other and that the pipeline comes to, and no pipeline   *)
(* that comes to such files is accepted.                                     *)
THEOREM CyclesFound == Spec => []CircularVerdict
<1>1. ASSUME IncludesInv, result = "circular" PROVE \E f \in Reaches({Root}) : Loop(f)
  BY <1>1 DEF IncludesInv, VerdictInv, Loops, FromRoot
<1>2. ASSUME IncludesInv, result = "ok", NEW f \in Reaches({Root}) PROVE ~Loop(f)
  <2>1. f \in {Root} \cup {k[1] : k \in DOMAIN cache} BY <1>2, AcceptedGraph DEF FromRoot
  <2>2. CASE f = Root
    <3>1. Root \notin Loops BY <1>2, AcceptedGraph, NoLoop
    <3> QED BY <1>2, <2>2, <3>1, AcceptedGraph DEF Loops
  <2>3. CASE f \in {k[1] : k \in DOMAIN cache}
    <3>1. f \notin Loops BY <1>2, <2>3 DEF IncludesInv, CacheInv
    <3> QED BY <3>1 DEF Loops, Loop
  <2> QED BY <2>1, <2>2, <2>3
<1>3. IncludesInv => CircularVerdict BY <1>1, <1>2 DEF CircularVerdict
<1> QED BY <1>3, Invariance, PTL

(* A pipeline is accepted only if every include it comes to, on whatever     *)
(* path and whether the cache answered it or not, names a file that is there *)
(* and passes the parameters that ValidateParams asks for.                   *)
THEOREM IncludesAccepted == Spec => [](result = "ok" => ArgumentsAccepted)
<1>1. ASSUME IncludesInv, result = "ok", NEW f \in Reaches({Root}), NEW x \in IncludesIn(f)
      PROVE  x.file \in DOMAIN files /\ ParamsAccepted(x.file, x.arg)
  <2>1. f \in {Root} \cup {k[1] : k \in DOMAIN cache} BY <1>1, AcceptedGraph DEF FromRoot
  <2>2. \A i \in DOMAIN files[f].nodes : Resolved(files[f].nodes[i], DOMAIN cache)
    BY <1>1, <2>1, AcceptedGraph DEF IncludesInv, CacheInv
  <2>3. x.type = "include" /\ \E i \in DOMAIN files[f].nodes : files[f].nodes[i] = x
    BY IncludeFacts
  <2>4. <<x.file, x.arg>> \in DOMAIN cache BY <2>2, <2>3 DEF Resolved
  <2>5. <<x.file, x.arg>> \in Accepted BY <1>1, <2>4 DEF IncludesInv, CacheInv
  <2> QED BY <2>5 DEF Accepted
<1>2. IncludesInv => (result = "ok" => ArgumentsAccepted) BY <1>1 DEF ArgumentsAccepted
<1> QED BY <1>2, Invariance, PTL

LEMMA AcceptedNames ==
  ASSUME IncludesInv, result = "ok"
  PROVE  /\ \A i, k \in DOMAIN jobs : jobs[i].name = jobs[k].name => i = k
         /\ AliasesDefined
<1> DEFINE es == stack[1].entries
<1>1. Len(stack) = 1 /\ jobs = MergeJobs(es) BY DEF IncludesInv, VerdictInv
<1>2. es \in Seq(Entry)
  <2>1. stack[1] \in Frames BY <1>1 DEF IncludesInv, PathInv
  <2> QED BY <2>1 DEF Frames
<1>3. \A i, k \in DOMAIN jobs : jobs[i].name = jobs[k].name => i = k BY <1>1, <1>2, MergeFacts
<1>4. JobNames(jobs) = NamesIn(es) BY <1>1, <1>2, MergeFacts
<1>5. \A a \in DOMAIN aliases : aliases[a] \subseteq NamesIn(es) BY <1>1 DEF IncludesInv, AliasInv
<1> QED BY <1>3, <1>4, <1>5 DEF JobNames, AliasesDefined

(* In an accepted pipeline no two jobs have the same name, and every alias    *)
(* stands for names of jobs that are there, however many conflicts MergeJobs  *)
(* resolved on the way: expandDeps never makes a dependency that dangles.     *)
THEOREM AliasesNameJobs ==
  Spec => [](result = "ok" =>
               /\ \A i, k \in DOMAIN jobs : jobs[i].name = jobs[k].name => i = k
               /\ AliasesDefined)
<1> DEFINE NamesDiffer == \A i, k \in DOMAIN jobs : jobs[i].name = jobs[k].name => i = k
<1>1. IncludesInv => (result = "ok" => NamesDiffer /\ AliasesDefined) BY AcceptedNames
<1> QED BY <1>1, Invariance, PTL
-----------------------------------------------------------------------------
(* What a file stands for, as an equation: the jobs of its nodes in document *)
(* order, merged, with its parameter replaced, where an include stands for   *)
(* the jobs of the file it names.  `den' gives those of a file and argument. *)

PartJobs(x, den) ==
  IF x.type = "job" THEN <<[name |-> x.name, deps |-> x.deps, text |-> x.text]>>
  ELSE den[<<x.file, x.arg>>].jobs

Part(x, den) ==
  [i \in DOMAIN PartJobs(x, den) |->
     [job |-> PartJobs(x, den)[i], skip |-> x.type = "include" /\ x.skip]]

(* es is the parts of the first n nodes one behind the other, the ith ending  *)
(* at ends[i].                                                                *)
PartsEnd(es, n, nodes, den, ends) ==
  /\ ends \in [0..n -> 0..Len(es)] /\ ends[0] = 0 /\ ends[n] = Len(es)
  /\ \A i \in 1..n :
       /\ Part(nodes[i], den) \in Seq(Entry)
       /\ ends[i] = ends[i - 1] + Len(Part(nodes[i], den))
       /\ \A m \in 1..Len(Part(nodes[i], den)) : es[ends[i - 1] + m] = Part(nodes[i], den)[m]

Joined(es, n, nodes, den) == \E ends \in [0..n -> 0..Len(es)] : PartsEnd(es, n, nodes, den, ends)

(* js is what file f stands for when it is included with arg. *)
StandsFor(f, arg, js, den) ==
  \E es \in Seq(Entry) :
    /\ Joined(es, Len(files[f].nodes), files[f].nodes, den)
    /\ js = SubstituteParams(MergeJobs(es), f, arg)

(* The jobs a frame has collected are those of the nodes behind it, and the   *)
(* cache solves the equation.  A file that is being read is not in the cache  *)
(* and is not read a second time meanwhile, so no entry is ever replaced.     *)
MeaningInv ==
  /\ \A p, q \in 2..Len(stack) : stack[p].file = stack[q].file => p = q
  /\ \A p \in 2..Len(stack) : <<stack[p].file, stack[p].arg>> \notin DOMAIN cache
  /\ \A p \in 1..Len(stack) :
       /\ stack[p].at - 1 <= Len(files[stack[p].file].nodes)
       /\ Joined(stack[p].entries, stack[p].at - 1, files[stack[p].file].nodes, cache)
  /\ \A k \in DOMAIN cache : StandsFor(k[1], k[2], cache[k].jobs, cache)
LEMMA JoinEmpty == \A nodes, den : Joined(<< >>, 0, nodes, den)
<1> TAKE nodes, den
<1> DEFINE ends == [i \in 0..0 |-> 0]
<1>1. Len(<< >>) = 0 OBVIOUS
<1>2. ends \in [0..0 -> 0..0] /\ ends[0] = 0 OBVIOUS
<1>3. \A i \in 1..0 : FALSE OBVIOUS
<1> HIDE DEF ends
<1>4. PartsEnd(<< >>, 0, nodes, den, ends) BY <1>1, <1>2, <1>3 DEF PartsEnd
<1> QED BY <1>1, <1>2, <1>4 DEF Joined

(* One node more. *)
LEMMA JoinStep ==
  ASSUME NEW es \in Seq(Entry), NEW n \in Nat, NEW nodes, NEW den, Joined(es, n, nodes, den),
         NEW part \in Seq(Entry), part = Part(nodes[n + 1], den)
  PROVE  Joined(es \o part, n + 1, nodes, den)
<1> DEFINE l    == Len(es)
           m    == Len(part)
           all  == es \o part
<1>1. PICK ends \in [0..n -> 0..l] : PartsEnd(es, n, nodes, den, ends) BY DEF Joined
<1> DEFINE new == [i \in 0..(n + 1) |-> IF i = n + 1 THEN l + m ELSE ends[i]]
<1>2. l \in Nat /\ m \in Nat /\ all \in Seq(Entry) /\ Len(all) = l + m OBVIOUS
<1>3. \A i \in 0..n : i \in 0..(n + 1) /\ new[i] = ends[i] /\ ends[i] \in 0..(l + m)
  BY <1>1, <1>2
<1>4. new[n + 1] = l + m BY <1>2
<1>5. new \in [0..(n + 1) -> 0..(l + m)] BY <1>1, <1>2, <1>3
<1>6. new[0] = 0 BY <1>1, <1>3 DEF PartsEnd
<1>7. ASSUME NEW i \in 1..(n + 1)
      PROVE  /\ Part(nodes[i], den) \in Seq(Entry)
             /\ new[i] = new[i - 1] + Len(Part(nodes[i], den))
             /\ \A k \in 1..Len(Part(nodes[i], den)) : all[new[i - 1] + k] = Part(nodes[i], den)[k]
  <2>1. CASE i = n + 1
    <3>1. i - 1 = n /\ n \in 0..n BY <2>1
    <3>2. new[i - 1] = l BY <1>1, <1>3, <3>1 DEF PartsEnd
    <3>3. Part(nodes[i], den) = part BY <2>1
    <3>4. \A k \in 1..m : all[l + k] = part[k] BY <1>2
    <3> HIDE DEF new, all
    <3> QED BY <1>4, <2>1, <3>2, <3>3, <3>4
  <2>2. CASE i # n + 1
    <3>1. i \in 1..n /\ i \in 0..n /\ i - 1 \in 0..n BY <2>2
    <3>2. new[i] = ends[i] /\ new[i - 1] = ends[i - 1] BY <1>3, <3>1
    <3>3. ends[i] \in 0..l /\ ends[i - 1] \in 0..l BY <1>1, <3>1
    <3> DEFINE pt == Part(nodes[i], den)
    <3>4. /\ pt \in Seq(Entry) /\ ends[i] = ends[i - 1] + Len(pt)
          /\ \A k \in 1..Len(pt) : es[ends[i - 1] + k] = pt[k]
      BY <1>1, <3>1 DEF PartsEnd
    <3>5. ASSUME NEW k \in 1..Len(pt) PROVE all[new[i - 1] + k] = pt[k]
      <4> DEFINE q == Len(pt)
                 u == ends[i - 1]
                 v == ends[i]
      <4>1. q \in Nat /\ v = u + q /\ u \in 0..l /\ v \in 0..l BY <3>3, <3>4
      <4>2. k \in 1..q OBVIOUS
      <4> HIDE DEF q, u, v, l
      <4>3. u + k \in 1..l
        <5>1. l \in Nat BY <1>2
        <5> QED BY <4>1, <4>2, <5>1
      <4> USE DEF q, u, v, l
      <4>4. all[ends[i - 1] + k] = es[ends[i - 1] + k] BY <1>2, <4>3
      <4> QED BY <3>2, <3>4, <4>4
    <3> QED BY <3>2, <3>4, <3>5
  <2> QED BY <2>1, <2>2
<1> HIDE DEF new, all, l, m
<1>8. PartsEnd(all, n + 1, nodes, den, new) BY <1>2, <1>4, <1>5, <1>6, <1>7 DEF PartsEnd
<1> QED BY <1>2, <1>5, <1>8 DEF Joined, all
LEMMA JoinCong ==
  ASSUME NEW es, NEW n, NEW nodes, NEW d1, NEW d2, Joined(es, n, nodes, d1),
         \A i \in 1..n : Part(nodes[i], d1) = Part(nodes[i], d2)
  PROVE  Joined(es, n, nodes, d2)
<1>1. PICK ends \in [0..n -> 0..Len(es)] : PartsEnd(es, n, nodes, d1, ends) BY DEF Joined
<1>2. PartsEnd(es, n, nodes, d2, ends) BY <1>1 DEF PartsEnd
<1> QED BY <1>2 DEF Joined

LEMMA PartFacts ==
  ASSUME IncludesInv, NEW f \in DOMAIN files, NEW i \in DOMAIN files[f].nodes,
         Resolved(files[f].nodes[i], DOMAIN cache)
  PROVE  /\ Part(files[f].nodes[i], cache) \in Seq(Entry)
         /\ \A den : (\A k \in DOMAIN cache : den[k] = cache[k]) =>
                       Part(files[f].nodes[i], den) = Part(files[f].nodes[i], cache)
<1> DEFINE x == files[f].nodes[i]
           js == PartJobs(x, cache)
           skip == x.type = "include" /\ x.skip
<1>1. PathInv /\ CacheInv BY DEF IncludesInv
<1>2. x \in JobNode \cup IncludeNode
  <2>1. files[f].nodes \in Seq(JobNode \cup IncludeNode) BY <1>1, NodeFacts
  <2> QED BY <2>1
<1>3. x.type \in {"job", "include"} BY <1>2 DEF JobNode, IncludeNode
<1>4. js \in Seq(ParsedJob)
  <2>1. CASE x.type = "job"
    <3> DEFINE j == [name |-> x.name, deps |-> x.deps, text |-> x.text]
    <3>1. x \in JobNode BY <1>1, <2>1, NodeFacts
    <3>2. x.name \in STRING /\ x.deps \in SUBSET STRING /\ x.text \in STRING BY <3>1 DEF JobNode
    <3>3. j \in ParsedJob BY <3>2 DEF ParsedJob
    <3>4. js = <<j>> BY <2>1 DEF PartJobs
    <3> HIDE DEF j, js
    <3> QED BY <3>3, <3>4
  <2>2. CASE x.type = "include"
    <3>1. <<x.file, x.arg>> \in DOMAIN cache BY <2>2 DEF Resolved
    <3>2. js = cache[<<x.file, x.arg>>].jobs BY <2>2 DEF PartJobs
    <3> QED BY <1>1, <3>1, <3>2 DEF CacheInv
  <2> QED BY <1>3, <2>1, <2>2
<1>5. skip \in BOOLEAN OBVIOUS
<1>6. Part(x, cache) \in Seq(Entry)
  <2> HIDE DEF js, skip
  <2>1. Part(x, cache) = [k \in DOMAIN js |-> [job |-> js[k], skip |-> skip]]
    BY DEF Part, js, skip
  <2>2. \A k \in 1..Len(js) : [job |-> js[k], skip |-> skip] \in Entry BY <1>4, <1>5 DEF Entry
  <2>3. Part(x, cache) \in [1..Len(js) -> Entry] BY <1>4, <2>1, <2>2
  <2> QED BY <1>4, <2>3
<1>7. ASSUME NEW den, \A k \in DOMAIN cache : den[k] = cache[k] PROVE Part(x, den) = Part(x, cache)
  <2>1. PartJobs(x, den) = PartJobs(x, cache)
    <3>1. CASE x.type = "job" BY <3>1 DEF PartJobs
    <3>2. CASE x.type = "include"
      <4>1. den[<<x.file, x.arg>>] = cache[<<x.file, x.arg>>] BY <1>7, <3>2 DEF Resolved
      <4> QED BY <3>2, <4>1 DEF PartJobs
    <3> QED BY <1>3, <3>1, <3>2
  <2> QED BY <2>1 DEF Part
<1> QED BY <1>6, <1>7

(* Nothing the equation says is undone by a new entry of the cache. *)
LEMMA MeaningKept ==
  ASSUME IncludesInv, MeaningInv, UNCHANGED files, \A k \in DOMAIN cache : cache'[k] = cache[k]
  PROVE  /\ \A p \in 1..Len(stack) :
              Joined(stack[p].entries, stack[p].at - 1, files[stack[p].file].nodes, cache')
         /\ \A k \in DOMAIN cache : StandsFor(k[1], k[2], cache[k].jobs, cache')
<1>1. PathInv /\ CacheInv BY DEF IncludesInv
<1>2. ASSUME NEW f \in DOMAIN files, NEW i \in DOMAIN files[f].nodes,
             Resolved(files[f].nodes[i], DOMAIN cache)
      PROVE  Part(files[f].nodes[i], cache) = Part(files[f].nodes[i], cache')
  BY <1>2, PartFacts
<1>3. ASSUME NEW p \in 1..Len(stack)
      PROVE  Joined(stack[p].entries, stack[p].at - 1, files[stack[p].file].nodes, cache')
  <2> DEFINE f == stack[p].file
             n == stack[p].at - 1
  <2>1. stack[p] \in Frames BY <1>1 DEF PathInv
  <2>2. f \in DOMAIN files /\ stack[p].at \in Nat \ {0} BY <2>1 DEF Frames
  <2>3. files[f].nodes \in Seq(JobNode \cup IncludeNode) BY <1>1, <2>2, NodeFacts
  <2>4. n <= Len(files[f].nodes) /\ Joined(stack[p].entries, n, files[f].nodes, cache)
    BY DEF MeaningInv
  <2>5. ASSUME NEW i \in 1..n PROVE Part(files[f].nodes[i], cache) = Part(files[f].nodes[i], cache')
    <3>1. i \in DOMAIN files[f].nodes /\ i < stack[p].at BY <2>2, <2>3, <2>4
    <3>2. Resolved(files[f].nodes[i], DOMAIN cache) BY <1>1, <3>1 DEF CacheInv
    <3> QED BY <1>2, <2>2, <3>1, <3>2
  <2> HIDE DEF n, f
  <2> QED BY <2>4, <2>5, JoinCong DEF n, f
<1>4. ASSUME NEW k \in DOMAIN cache PROVE StandsFor(k[1], k[2], cache[k].jobs, cache')
  <2> DEFINE f == k[1]
             n == Len(files[f].nodes)
  <2>1. f \in DOMAIN files BY <1>1 DEF CacheInv, Accepted
  <2>2. files[f].nodes \in Seq(JobNode \cup IncludeNode) BY <1>1, <2>1, NodeFacts
  <2>3. PICK es \in Seq(Entry) :
          /\ Joined(es, n, files[f].nodes, cache)
          /\ cache[k].jobs = SubstituteParams(MergeJobs(es), f, k[2])
    BY DEF MeaningInv, StandsFor
  <2>4. ASSUME NEW i \in 1..n PROVE Part(files[f].nodes[i], cache) = Part(files[f].nodes[i], cache')
    <3>1. i \in DOMAIN files[f].nodes BY <2>2
    <3>2. Resolved(files[f].nodes[i], DOMAIN cache) BY <1>1, <3>1 DEF CacheInv
    <3> QED BY <1>2, <2>1, <3>1, <3>2
  <2>5. Joined(es, n, files[f].nodes, cache') BY <2>3, <2>4, JoinCong
  <2> QED BY <2>3, <2>5 DEF StandsFor
<1> QED BY <1>3, <1>4
(* The loop of a file goes on behind a node whose part it has collected. *)
GoesOn(n, s, js, skip) ==
  /\ \A p \in 1..n : s[p] = stack[p]
  /\ stack' = [s EXCEPT ![n] = Collect(@, js, skip)]
  /\ \A k \in DOMAIN cache : cache'[k] = cache[k]
  /\ \A p \in 2..n : <<stack[p].file, stack[p].arg>> \notin DOMAIN cache'
  /\ stack[n].at \in DOMAIN files[stack[n].file].nodes
  /\ [i \in DOMAIN js |-> [job |-> js[i], skip |-> skip]] =
       Part(files[stack[n].file].nodes[stack[n].at], cache')
  /\ Resolved(files[stack[n].file].nodes[stack[n].at], DOMAIN cache')
  /\ \A k \in DOMAIN cache' : StandsFor(k[1], k[2], cache'[k].jobs, cache')

LEMMA MeaningAdvance ==
  ASSUME IncludesInv, IncludesInv', MeaningInv, UNCHANGED files,
         NEW n \in 1..Len(stack), NEW s \in Seq(Frames), Len(s) = n,
         NEW js \in Seq(ParsedJob), NEW skip \in BOOLEAN, GoesOn(n, s, js, skip)
  PROVE  MeaningInv'
<1> DEFINE f     == stack[n].file
           nodes == files[f].nodes
           m     == stack[n].at
           part  == [i \in DOMAIN js |-> [job |-> js[i], skip |-> skip]]
<1>1. PathInv BY DEF IncludesInv
<1>2. /\ n \in Nat \ {0} /\ n <= Len(stack) /\ Len(stack) \in Nat
      /\ s[n] \in Frames /\ s[n] = stack[n] /\ stack[n] \in Frames
  <2>1. stack \in Seq(Frames) BY <1>1 DEF PathInv
  <2>2. s[n] = stack[n] BY DEF GoesOn
  <2> QED BY <2>1, <2>2
<1>3. f \in DOMAIN files /\ m \in Nat \ {0} /\ stack[n].entries \in Seq(Entry) BY <1>2 DEF Frames
<1>4. nodes \in Seq(JobNode \cup IncludeNode) BY <1>1, <1>3, NodeFacts
<1>5. m \in 1..Len(nodes) BY <1>4, SMTT(30) DEF GoesOn
<1>6. part \in Seq(Entry) /\ part = Part(nodes[m], cache')
  <2>1. \A k \in 1..Len(js) : [job |-> js[k], skip |-> skip] \in Entry BY DEF Entry
  <2>2. part \in [1..Len(js) -> Entry] BY <2>1
  <2>3. part \in Seq(Entry) BY <2>2
  <2>4. part = Part(nodes[m], cache') BY DEF GoesOn
  <2> QED BY <2>3, <2>4
<1> DEFINE c == Collect(s[n], js, skip)
<1>7. c.file = f /\ c.arg = stack[n].arg /\ c.at = m + 1 /\ c.entries = stack[n].entries \o part
  BY <1>2 DEF Collect, Frames
<1>8. /\ Len(stack') = n /\ stack'[n] = c
      /\ \A p \in 1..(n - 1) : stack'[p] = stack[p]
  <2> HIDE DEF c
  <2>1. stack' = [s EXCEPT ![n] = c] BY DEF c, GoesOn
  <2>2. s \in [1..n -> Frames] OBVIOUS
  <2>3. stack' \in Seq(Frames') BY DEF IncludesInv, PathInv
  <2>4. DOMAIN stack' = 1..n BY <1>2, <2>1, <2>2
  <2>5. Len(stack') = n
    <3>1. Len(stack') \in Nat /\ DOMAIN stack' = 1..Len(stack') BY <2>3
    <3> QED BY <1>2, <2>4, <3>1
  <2>6. stack'[n] = c BY <1>2, <2>1, <2>2
  <2>7. ASSUME NEW p \in 1..(n - 1) PROVE stack'[p] = stack[p]
    <3>1. p \in 1..n /\ p # n BY <1>2
    <3>2. stack'[p] = s[p] BY <2>1, <2>2, <3>1
    <3> QED BY <3>1, <3>2 DEF GoesOn
  <2> QED BY <2>5, <2>6, <2>7
<1> HIDE DEF c, part
<1>9. \A p \in 1..n : stack'[p].file = stack[p].file /\ stack'[p].arg = stack[p].arg
  <2> TAKE p \in 1..n
  <2>1. p = n \/ p \in 1..(n - 1) BY <1>2
  <2> QED BY <1>7, <1>8, <2>1
<1>10. \A p \in 1..Len(stack) :
         Joined(stack[p].entries, stack[p].at - 1, files[stack[p].file].nodes, cache')
  <2>1. \A k \in DOMAIN cache : cache'[k] = cache[k] BY DEF GoesOn
  <2> QED BY <2>1, MeaningKept
<1>11. Joined(c.entries, c.at - 1, nodes, cache')
  <2>1. Joined(stack[n].entries, m - 1, nodes, cache') BY <1>2, <1>10
  <2>2. m - 1 \in Nat /\ (m - 1) + 1 = m /\ c.at - 1 = m
    <3>1. m \in Nat \ {0} /\ c.at = m + 1 BY <1>3, <1>7
    <3>2. \A x \in Nat \ {0} : x - 1 \in Nat /\ (x - 1) + 1 = x /\ (x + 1) - 1 = x OBVIOUS
    <3> HIDE DEF m
    <3> QED BY <3>1, <3>2
  <2>3. part = Part(nodes[(m - 1) + 1], cache') BY <1>6, <2>2
  <2> HIDE DEF m, nodes
  <2>4. Joined(stack[n].entries \o part, (m - 1) + 1, nodes, cache')
    BY <1>3, <1>6, <2>1, <2>2, <2>3, JoinStep
  <2> QED BY <1>7, <2>2, <2>4
<1>12. ASSUME NEW p \in 1..n
       PROVE  /\ stack'[p].at - 1 <= Len(files[stack'[p].file].nodes)
              /\ Joined(stack'[p].entries, stack'[p].at - 1, files[stack'[p].file].nodes, cache')
  <2>1. CASE p = n
    <3>1. c.at - 1 <= Len(nodes) BY <1>3, <1>5, <1>7
    <3> QED BY <1>7, <1>8, <1>11, <2>1, <3>1
  <2>2. CASE p # n
    <3>1. p \in 1..(n - 1) /\ p \in 1..Len(stack) BY <1>2, <2>2
    <3> QED BY <1>8, <1>10, <3>1 DEF MeaningInv
  <2> QED BY <2>1, <2>2
<1>13. ASSUME NEW p \in 2..n, NEW q \in 2..n, stack'[p].file = stack'[q].file PROVE p = q
  <2>1. p \in 1..n /\ q \in 1..n /\ p \in 2..Len(stack) /\ q \in 2..Len(stack) BY <1>2
  <2> QED BY <1>9, <1>13, <2>1 DEF MeaningInv
<1>14. ASSUME NEW p \in 2..n PROVE <<stack'[p].file, stack'[p].arg>> \notin DOMAIN cache'
  <2>1. p \in 1..n BY <1>2
  <2> QED BY <1>9, <2>1 DEF GoesOn
<1>15. (\A k \in DOMAIN cache : StandsFor(k[1], k[2], cache[k].jobs, cache))'
  BY DEF GoesOn, StandsFor, SubstituteParams
<1> QED BY <1>8, <1>12, <1>13, <1>14, <1>15 DEF MeaningInv
LEMMA MeaningInit == Init => MeaningInv
<1> SUFFICES ASSUME Init PROVE MeaningInv OBVIOUS
<1>1. stack = <<Frame(Root, NoArg)>> /\ DOMAIN cache = {} BY DEF Init
<1>2. /\ Len(stack) = 1 /\ stack[1].file = Root /\ stack[1].at - 1 = 0 /\ stack[1].entries = << >>
  BY <1>1 DEF Frame
<1>3. 0 <= Len(files[Root].nodes)
  <2>1. PathInv /\ Root \in DOMAIN files BY IncludesInit, IncludesAssumption DEF IncludesInv, PathInv
  <2>2. files[Root].nodes \in Seq(JobNode \cup IncludeNode) BY <2>1, NodeFacts
  <2> QED BY <2>2
<1>4. \A p \in 2..Len(stack) : FALSE BY <1>2
<1>5. \A p \in 1..Len(stack) : p = 1 BY <1>2
<1> QED BY <1>1, <1>2, <1>3, <1>4, <1>5, JoinEmpty DEF MeaningInv

LEMMA MeaningSame ==
  ASSUME MeaningInv, UNCHANGED <<files, stack, cache>> PROVE MeaningInv'
<1>1. (\A k \in DOMAIN cache : StandsFor(k[1], k[2], cache[k].jobs, cache))'
  BY DEF MeaningInv, StandsFor, SubstituteParams
<1> QED BY <1>1 DEF MeaningInv

LEMMA MeaningReadJob ==
  ASSUME IncludesInv, IncludesInv', MeaningInv, ReadJob PROVE MeaningInv'
<1> DEFINE j  == [name |-> Node.name, deps |-> Node.deps, text |-> Node.text]
           js == <<j>>
           n  == Len(stack)
<1>1. js \in Seq(ParsedJob)
  <2>1. Node \in JobNode BY TopFacts DEF ReadJob
  <2>2. Node.name \in STRING /\ Node.deps \in SUBSET STRING /\ Node.text \in STRING
    BY <2>1 DEF JobNode
  <2>3. j \in ParsedJob BY <2>2 DEF ParsedJob
  <2> HIDE DEF j
  <2> QED BY <2>3
<1>2. /\ UNCHANGED <<files, cache>> /\ AtJob /\ Node.type = "job"
      /\ stack' = [stack EXCEPT ![n] = Collect(@, js, FALSE)]
  BY DEF ReadJob, AtJob
<1>3. n \in 1..Len(stack) /\ n \in Nat \ {0} /\ stack \in Seq(Frames)
  BY TopFacts DEF IncludesInv, PathInv
<1>4. /\ Node = files[stack[n].file].nodes[stack[n].at]
      /\ stack[n].at \in DOMAIN files[stack[n].file].nodes
  BY <1>2, TopFacts DEF AtJob, Node, Nodes, Top
<1>5. [i \in DOMAIN js |-> [job |-> js[i], skip |-> FALSE]] = Part(Node, cache')
  <2>1. PartJobs(Node, cache') = js BY <1>2 DEF PartJobs
  <2>2. (Node.type = "include" /\ Node.skip) = FALSE BY <1>2
  <2> HIDE DEF js
  <2> QED BY <2>1, <2>2 DEF Part
<1>6. Resolved(Node, DOMAIN cache') BY <1>2 DEF Resolved
<1>7. \A k \in DOMAIN cache' : StandsFor(k[1], k[2], cache'[k].jobs, cache')
  BY <1>2 DEF MeaningInv
<1>8. \A p \in 2..n : <<stack[p].file, stack[p].arg>> \notin DOMAIN cache'
  BY <1>2 DEF MeaningInv
<1> HIDE DEF js, n
<1>9. GoesOn(n, stack, js, FALSE) BY <1>2, <1>4, <1>5, <1>6, <1>7, <1>8 DEF GoesOn
<1> QED BY <1>1, <1>2, <1>3, <1>9, MeaningAdvance DEF n

LEMMA MeaningFromCache ==
  ASSUME IncludesInv, IncludesInv', MeaningInv, FromCache PROVE MeaningInv'
<1>1. CASE Stop("alias") BY <1>1, MeaningSame DEF Stop
<1>2. CASE ~Stop("alias")
  <2> DEFINE n   == Len(stack)
             js  == cache[<<Node.file, Node.arg>>].jobs
  <2>1. /\ UNCHANGED <<files, cache>> /\ AtInclude /\ Node.type = "include"
        /\ <<Node.file, Node.arg>> \in DOMAIN cache
        /\ stack' = [stack EXCEPT ![n] = Collect(@, js, Node.skip)]
    BY <1>2 DEF FromCache, CanPush, AtInclude, Cached, CachedFor, Deliver, cacheKey
  <2>2. n \in 1..Len(stack) /\ n \in Nat \ {0} /\ stack \in Seq(Frames)
    BY TopFacts DEF IncludesInv, PathInv
  <2>3. js \in Seq(ParsedJob) BY <2>1 DEF IncludesInv, CacheInv
  <2>4. Node.skip \in BOOLEAN BY <2>1, TopFacts DEF IncludeNode
  <2>5. /\ Node = files[stack[n].file].nodes[stack[n].at]
        /\ stack[n].at \in DOMAIN files[stack[n].file].nodes
    BY <2>1, TopFacts DEF Node, Nodes, Top
  <2>6. [i \in DOMAIN js |-> [job |-> js[i], skip |-> Node.skip]] = Part(Node, cache')
    <3>1. PartJobs(Node, cache') = js BY <2>1 DEF PartJobs
    <3>2. (Node.type = "include" /\ Node.skip) = Node.skip BY <2>1, <2>4
    <3> HIDE DEF js
    <3> QED BY <3>1, <3>2 DEF Part
  <2>7. Resolved(Node, DOMAIN cache') BY <2>1 DEF Resolved
  <2>8. \A k \in DOMAIN cache' : StandsFor(k[1], k[2], cache'[k].jobs, cache')
    BY <2>1 DEF MeaningInv
  <2>9. \A p \in 2..n : <<stack[p].file, stack[p].arg>> \notin DOMAIN cache'
    BY <2>1 DEF MeaningInv
  <2> HIDE DEF js, n
  <2>10. GoesOn(n, stack, js, Node.skip) BY <2>1, <2>5, <2>6, <2>7, <2>8, <2>9 DEF GoesOn
  <2> QED BY <2>1, <2>2, <2>3, <2>4, <2>10, MeaningAdvance DEF n
<1> QED BY <1>1, <1>2

LEMMA MeaningEnter ==
  ASSUME IncludesInv, IncludesInv', MeaningInv, Enter PROVE MeaningInv'
<1> DEFINE n  == Len(stack)
           fr == Frame(Node.file, Node.arg)
<1>1. /\ UNCHANGED <<files, cache>> /\ stack' = Append(stack, fr)
      /\ Node.file \in DOMAIN files /\ Node.file \notin Ancestors
      /\ <<Node.file, Node.arg>> \notin DOMAIN cache
  BY DEF Enter, CanPush, Circular, Cached, cacheKey
<1>2. n \in Nat \ {0} /\ stack \in Seq(Frames) BY TopFacts DEF IncludesInv, PathInv
<1>3. fr.file = Node.file /\ fr.arg = Node.arg /\ fr.at - 1 = 0 /\ fr.entries = << >>
  BY DEF Frame
<1>4. Len(stack') = n + 1 /\ stack'[n + 1] = fr /\ \A p \in 1..n : stack'[p] = stack[p]
  <2> HIDE DEF fr
  <2> QED BY <1>1, <1>2
<1>5. \A p \in 2..n : stack[p].file # Node.file BY <1>1 DEF Ancestors
<1> HIDE DEF fr, n
<1>6. ASSUME NEW p \in 2..(n + 1), NEW q \in 2..(n + 1), stack'[p].file = stack'[q].file PROVE p = q
  <2>1. CASE p \in 2..n /\ q \in 2..n
    <3>1. p \in 1..n /\ q \in 1..n BY <1>2, <2>1
    <3> QED BY <1>4, <1>6, <2>1, <3>1 DEF MeaningInv, n
  <2>2. CASE p = n + 1 /\ q \in 2..n
    <3>1. q \in 1..n BY <1>2, <2>2
    <3> QED BY <1>3, <1>4, <1>5, <1>6, <2>2, <3>1
  <2>3. CASE q = n + 1 /\ p \in 2..n
    <3>1. p \in 1..n BY <1>2, <2>3
    <3> QED BY <1>3, <1>4, <1>5, <1>6, <2>3, <3>1
  <2>4. \A x \in 2..(n + 1) : x = n + 1 \/ x \in 2..n BY <1>2
  <2> QED BY <2>1, <2>2, <2>3, <2>4
<1>7. ASSUME NEW p \in 2..(n + 1) PROVE <<stack'[p].file, stack'[p].arg>> \notin DOMAIN cache
  <2>1. CASE p = n + 1 BY <1>1, <1>3, <1>4, <2>1
  <2>2. CASE p # n + 1
    <3>1. p \in 2..n /\ p \in 1..n BY <1>2, <2>2
    <3> QED BY <1>4, <3>1 DEF MeaningInv, n
  <2> QED BY <2>1, <2>2
<1>8. ASSUME NEW p \in 1..(n + 1)
      PROVE  /\ stack'[p].at - 1 <= Len(files[stack'[p].file].nodes)
             /\ Joined(stack'[p].entries, stack'[p].at - 1, files[stack'[p].file].nodes, cache)
  <2>1. CASE p = n + 1
    <3>1. files[Node.file].nodes \in Seq(JobNode \cup IncludeNode)
      BY <1>1, NodeFacts DEF IncludesInv
    <3>2. 0 <= Len(files[Node.file].nodes) BY <3>1
    <3> QED BY <1>3, <1>4, <2>1, <3>2, JoinEmpty
  <2>2. CASE p # n + 1
    <3>1. p \in 1..n BY <1>2, <2>2
    <3> QED BY <1>4, <3>1 DEF MeaningInv, n
  <2> QED BY <2>1, <2>2
<1>9. (\A k \in DOMAIN cache : StandsFor(k[1], k[2], cache[k].jobs, cache))'
  BY <1>1 DEF MeaningInv, StandsFor, SubstituteParams
<1> QED BY <1>1, <1>4, <1>6, <1>7, <1>8, <1>9 DEF MeaningInv
LEMMA MeaningLeave ==
  ASSUME IncludesInv, IncludesInv', MeaningInv, Leave PROVE MeaningInv'
<1> DEFINE n     == Len(stack) - 1
           f     == Top.file
           below == SubSeq(stack, 1, n)
           inc   == files[below[n].file].nodes[below[n].at]
           js    == SubstituteParams(MergeJobs(Top.entries), f, Top.arg)
           key   == <<f, Top.arg>>
           entry == [name |-> files[f].name, jobs |-> js]
<1>1. CASE Stop("conflict") \/ Stop("params") \/ Stop("alias") BY <1>1, MeaningSame DEF Stop
<1>2. CASE ~(Stop("conflict") \/ Stop("params") \/ Stop("alias"))
  <2>1. PathInv /\ CacheInv BY DEF IncludesInv
  <2>2. AtEnd /\ Len(stack) > 1 BY DEF Leave
  <2>3. /\ Len(stack) \in Nat \ {0} /\ Top \in Frames /\ f \in DOMAIN files /\ Top.arg \in Arg
        /\ Top.at \in Nat \ {0} /\ Top.entries \in Seq(Entry) /\ Nodes \in Seq(JobNode \cup IncludeNode)
    BY TopFacts
  <2>4. n \in 1..Len(stack) /\ n \in Nat \ {0} /\ n + 1 = Len(stack)
    <3>1. Len(stack) \in Nat BY <2>3
    <3>2. Len(stack) > 1 BY <2>2
    <3>3. \A l \in Nat : l > 1 => l - 1 \in 1..l /\ l - 1 \in Nat \ {0} /\ l - 1 + 1 = l
      OBVIOUS
    <3> QED BY <3>1, <3>2, <3>3
  <2>5. /\ below \in Seq(Frames) /\ Len(below) = n /\ \A p \in 1..n : below[p] = stack[p]
    BY <2>1, <2>4 DEF PathInv
  <2>6. /\ Deliver(below, inc, Top.arg, files[f].name, js) /\ cache' = Put(cache, key, entry)
    BY <1>2, <2>5 DEF Leave, cacheKey
  <2>7. UNCHANGED files /\ stack' = [below EXCEPT ![n] = Collect(@, js, inc.skip)]
    BY <2>5, <2>6 DEF Deliver
  <2>8. js \in Seq(ParsedJob) BY <2>3, MergeFacts, SubstituteFacts
  <2>9. WaitsFor(stack[n], Top)
    <3>1. n \in 1..(Len(stack) - 1) BY <2>4
    <3> QED BY <2>1, <2>4, <3>1 DEF PathInv, Top
  <2>10. below[n] = stack[n] /\ stack[n].file \in DOMAIN files
    <3>1. below[n] = stack[n] /\ below[n] \in Frames BY <2>4, <2>5
    <3> QED BY <3>1 DEF Frames
  <2>11. /\ inc.skip \in BOOLEAN /\ inc.file = f /\ inc.arg = Top.arg /\ inc.type = "include"
         /\ inc = files[stack[n].file].nodes[stack[n].at]
         /\ stack[n].at \in DOMAIN files[stack[n].file].nodes
    <3>1. inc \in IncludeNode BY <2>1, <2>9, <2>10, NodeFacts DEF WaitsFor
    <3> QED BY <2>9, <2>10, <3>1 DEF WaitsFor, IncludeNode
  <2>12. key \notin DOMAIN cache
    <3>1. Len(stack) \in 2..Len(stack) BY <2>2, <2>3
    <3> QED BY <3>1 DEF MeaningInv, Top
  <2>13. /\ DOMAIN cache' = DOMAIN cache \cup {key} /\ cache'[key] = entry
         /\ \A k \in DOMAIN cache : cache'[k] = cache[k]
    BY <2>6, <2>12 DEF Put
  <2>14. ASSUME NEW p \in 2..n PROVE <<stack[p].file, stack[p].arg>> \notin DOMAIN cache'
    <3>1. p \in 2..Len(stack) /\ Len(stack) \in 2..Len(stack) /\ p # Len(stack)
      <4>1. Len(stack) \in Nat BY <2>3
      <4>2. Len(stack) > 1 BY <2>2
      <4>3. \A l \in Nat : l > 1 => l \in 2..l /\ \A x \in 2..(l - 1) : x \in 2..l /\ x # l
        OBVIOUS
      <4> QED BY <4>1, <4>2, <4>3
    <3>2. stack[p].file # f BY <3>1 DEF MeaningInv, Top
    <3>3. <<stack[p].file, stack[p].arg>> \notin DOMAIN cache BY <3>1 DEF MeaningInv
    <3> QED BY <2>13, <3>2, <3>3
  <2>15. \A k \in DOMAIN cache' : StandsFor(k[1], k[2], cache'[k].jobs, cache')
    <3>1. \A k \in DOMAIN cache : StandsFor(k[1], k[2], cache[k].jobs, cache')
      BY <2>7, <2>13, MeaningKept
    <3>2. Joined(Top.entries, Top.at - 1, files[f].nodes, cache')
      BY <2>3, <2>7, <2>13, MeaningKept DEF Top
    <3>3. Top.at - 1 = Len(files[f].nodes)
      <4>1. Top.at - 1 <= Len(files[f].nodes) BY <2>3 DEF MeaningInv, Top
      <4>2. Len(files[f].nodes) \in Nat BY <2>3 DEF Nodes
      <4>3. Top.at > Len(files[f].nodes) BY <2>2 DEF AtEnd, Nodes
      <4>4. Top.at \in Nat BY <2>3
      <4> HIDE DEF f
      <4> QED BY <4>1, <4>2, <4>3, <4>4
    <3>4. StandsFor(f, Top.arg, js, cache') BY <2>3, <3>2, <3>3 DEF StandsFor
    <3>5. cache'[key].jobs = js /\ key[1] = f /\ key[2] = Top.arg BY <2>13
    <3> HIDE DEF key, js, f
    <3> QED BY <2>13, <3>1, <3>4, <3>5
  <2>16. [i \in DOMAIN js |-> [job |-> js[i], skip |-> inc.skip]] = Part(inc, cache')
    <3>1. cache'[key].jobs = js BY <2>13
    <3>2. PartJobs(inc, cache') = js BY <2>11, <3>1 DEF PartJobs
    <3>3. (inc.type = "include" /\ inc.skip) = inc.skip BY <2>11
    <3> HIDE DEF js, inc
    <3> QED BY <3>2, <3>3 DEF Part
  <2>17. Resolved(inc, DOMAIN cache') BY <2>11, <2>13 DEF Resolved
  <2> HIDE DEF n, below, inc, js, entry, key, f
  <2>18. GoesOn(n, below, js, inc.skip)
    BY <2>5, <2>7, <2>11, <2>13, <2>14, <2>15, <2>16, <2>17 DEF GoesOn
  <2> QED BY <2>4, <2>5, <2>7, <2>8, <2>11, <2>18, MeaningAdvance
<1> QED BY <1>1, <1>2

LEMMA MeaningStep == IncludesInv /\ IncludesInv' /\ MeaningInv /\ [Next]_vars => MeaningInv'
<1> SUFFICES ASSUME IncludesInv, IncludesInv', MeaningInv, [Next]_vars PROVE MeaningInv' OBVIOUS
<1>1. CASE UNCHANGED vars BY <1>1, MeaningSame DEF vars
<1>2. CASE PushFails BY <1>2, MeaningSame DEF PushFails, Stop
<1>3. CASE Unusable BY <1>3, MeaningSame DEF Unusable, Stop
<1>4. CASE Finish BY <1>4, MeaningSame DEF Finish, Stop
<1> QED BY <1>1, <1>2, <1>3, <1>4, MeaningReadJob, MeaningFromCache, MeaningEnter, MeaningLeave DEF Next

(* The pipeline that was accepted is what its files say, read one by one.    *)
SolvesEquations ==
  /\ \E es \in Seq(Entry) :
       /\ Joined(es, Len(files[Root].nodes), files[Root].nodes, cache)
       /\ jobs = MergeJobs(es)
  /\ \A f \in Reaches({Root}) : \A x \in IncludesIn(f) :
       /\ <<x.file, x.arg>> \in DOMAIN cache
       /\ StandsFor(x.file, x.arg, cache[<<x.file, x.arg>>].jobs, cache)

(* The invariants together. *)
LEMMA MeaningHolds == Spec => [](IncludesInv /\ MeaningInv)
BY MeaningInit, MeaningStep, Invariance, PTL DEF Spec

LEMMA EquationsSolved ==
  ASSUME IncludesInv, MeaningInv, result = "ok" PROVE SolvesEquations
<1>1. /\ Len(stack) = 1 /\ stack[1].at > Len(files[Root].nodes) /\ stack[1].file = Root
      /\ jobs = MergeJobs(stack[1].entries) /\ stack[1] \in Frames
  BY DEF IncludesInv, VerdictInv, PathInv
<1>2. stack[1].entries \in Seq(Entry) /\ stack[1].at \in Nat BY <1>1 DEF Frames
<1>3. /\ stack[1].at - 1 <= Len(files[Root].nodes)
      /\ Joined(stack[1].entries, stack[1].at - 1, files[Root].nodes, cache)
  BY <1>1 DEF MeaningInv
<1>4. Len(files[Root].nodes) \in Nat
  <2>1. files[Root].nodes \in Seq(JobNode \cup IncludeNode)
    BY AcceptedGraph, NodeFacts DEF IncludesInv
  <2> QED BY <2>1
<1>5. stack[1].at - 1 = Len(files[Root].nodes) BY <1>1, <1>2, <1>3, <1>4
<1>6. ASSUME NEW f \in Reaches({Root}), NEW x \in IncludesIn(f)
      PROVE  /\ <<x.file, x.arg>> \in DOMAIN cache
             /\ StandsFor(x.file, x.arg, cache[<<x.file, x.arg>>].jobs, cache)
  <2>1. f \in {Root} \cup {k[1] : k \in DOMAIN cache} BY AcceptedGraph DEF FromRoot
  <2>2. \A i \in DOMAIN files[f].nodes : Resolved(files[f].nodes[i], DOMAIN cache)
    BY <2>1, AcceptedGraph DEF IncludesInv, CacheInv
  <2>3. x.type = "include" /\ \E i \in DOMAIN files[f].nodes : files[f].nodes[i] = x
    BY IncludeFacts
  <2>4. <<x.file, x.arg>> \in DOMAIN cache BY <2>2, <2>3 DEF Resolved
  <2> DEFINE k == <<x.file, x.arg>>
  <2>5. StandsFor(k[1], k[2], cache[k].jobs, cache) BY <2>4 DEF MeaningInv
  <2> QED BY <2>4, <2>5
<1> QED BY <1>1, <1>2, <1>3, <1>5, <1>6 DEF SolvesEquations

(* The jobs of an accepted pipeline are those of its own nodes and of its     *)
(* includes, merged in document order, and what each include stands for is    *)
(* got in the same way from the file it names and the parameters it passes:   *)
(* resolveInclude's cache gives every include what a reading of its own would *)
(* give, on whatever path and after whatever other includes.                  *)
THEOREM IncludesStandForFiles == Spec => [](result = "ok" => SolvesEquations)
<1>1. IncludesInv /\ MeaningInv => (result = "ok" => SolvesEquations) BY EquationsSolved
<1> QED BY <1>1, MeaningHolds, PTL
-----------------------------------------------------------------------------
(* Lists of jobs that are alike: the first jobs of each name are the same    *)
(* and come in the same order.  MergeJobs keeps just those.                  *)

LEMMA JobAt ==
  ASSUME NEW A \in Seq(ParsedJob)
  PROVE  /\ Len(A) \in Nat /\ DOMAIN A = 1..Len(A) /\ \A p \in 1..Len(A) : A[p] \in ParsedJob
         /\ Firsts(A) \in SUBSET (1..Len(A)) /\ IsFiniteSet(Firsts(A)) /\ Firsts(A) \in SUBSET Nat
<1>1. Len(A) \in Nat /\ DOMAIN A = 1..Len(A) /\ \A p \in 1..Len(A) : A[p] \in ParsedJob OBVIOUS
<1>2. Firsts(A) \in SUBSET (1..Len(A)) BY <1>1 DEF Firsts
<1>3. IsFiniteSet(1..Len(A)) BY <1>1, FS_Interval
<1> QED BY <1>1, <1>2, <1>3, FS_Subset

(* Every name has a first job. *)
LEMMA FirstOf ==
  ASSUME NEW A \in Seq(ParsedJob), NEW x \in JobNames(A)
  PROVE  \E q \in Firsts(A) : A[q].name = x
<1> DEFINE Same == {q \in 1..Len(A) : A[q].name = x}
<1>1. Same \in SUBSET Nat /\ Same # {} BY JobAt DEF JobNames
<1>2. PICK q \in Same : \A p \in Same : q <= p
  <2> HIDE DEF Same
  <2>1. \E q \in Same : \A p \in Same : ~ (<<p, q>> \in OpToRel(<, Nat))
    <3>1. Same \subseteq Nat /\ Same # {} BY <1>1
    <3> QED BY <3>1, WFMin, NatLessThanWellFounded
  <2>2. \A p, q \in Nat : p < q => <<p, q>> \in OpToRel(<, Nat) BY DEF OpToRel
  <2>3. \A p \in Same : p \in Nat BY <1>1
  <2>4. \E q \in Same : \A p \in Same : ~(p < q) BY <2>1, <2>2, <2>3, Zenon
  <2> QED BY <2>3, <2>4
<1>3. q \in DOMAIN A /\ A[q].name = x BY <1>2
<1>4. ASSUME NEW p \in 1..(q - 1) PROVE A[p].name # A[q].name
  <2>1. p \in 1..Len(A) /\ ~(q <= p) BY <1>2
  <2> QED BY <1>2, <2>1
<1> QED BY <1>3, <1>4 DEF Firsts

(* And only one. *)
LEMMA FirstUnique ==
  ASSUME NEW A \in Seq(ParsedJob), NEW p \in Firsts(A), NEW q \in Firsts(A), A[p].name = A[q].name
  PROVE  p = q
<1>1. p \in Nat /\ q \in Nat /\ 1 <= p /\ 1 <= q BY JobAt
<1>2. ~(p < q)
  <2> SUFFICES ASSUME p < q PROVE FALSE OBVIOUS
  <2>1. p \in 1..(q - 1) BY <1>1
  <2> QED BY <2>1 DEF Firsts
<1>3. ~(q < p)
  <2> SUFFICES ASSUME q < p PROVE FALSE OBVIOUS
  <2>1. q \in 1..(p - 1) BY <1>1
  <2> QED BY <2>1 DEF Firsts
<1> QED BY <1>1, <1>2, <1>3

LEMMA FirstsNamed ==
  ASSUME NEW A \in Seq(ParsedJob), NEW p \in Firsts(A)
  PROVE  A[p].name \in JobNames(A)
BY JobAt DEF JobNames

Alike(A, B) ==
  /\ JobNames(A) = JobNames(B)
  /\ \A p \in Firsts(A), q \in Firsts(B) : A[p].name = B[q].name => A[p] = B[q]
  /\ \A p1, p2 \in Firsts(A), q1, q2 \in Firsts(B) :
       A[p1].name = B[q1].name /\ A[p2].name = B[q2].name /\ p1 < p2 => q1 < q2

LEMMA AlikeSelf ==
  ASSUME NEW A \in Seq(ParsedJob) PROVE Alike(A, A)
<1>1. ASSUME NEW p \in Firsts(A), NEW q \in Firsts(A), A[p].name = A[q].name PROVE p = q
  BY <1>1, FirstUnique
<1> QED BY <1>1 DEF Alike

LEMMA AlikeSymmetric ==
  ASSUME NEW A \in Seq(ParsedJob), NEW B \in Seq(ParsedJob), Alike(A, B) PROVE Alike(B, A)
<1>1. ASSUME NEW p1 \in Firsts(A), NEW p2 \in Firsts(A), NEW q1 \in Firsts(B), NEW q2 \in Firsts(B),
             A[p1].name = B[q1].name, A[p2].name = B[q2].name, q1 < q2
      PROVE  p1 < p2
  <2>1. p1 \in Nat /\ p2 \in Nat /\ q1 \in Nat /\ q2 \in Nat BY JobAt
  <2>2. p1 # p2
    <3>1. p1 = p2 => q1 = q2 BY <1>1, FirstUnique
    <3> QED BY <1>1, <2>1, <3>1
  <2>3. ~(p2 < p1)
    <3>1. p2 < p1 => q2 < q1 BY <1>1 DEF Alike
    <3> QED BY <1>1, <2>1, <3>1
  <2> QED BY <2>1, <2>2, <2>3
<1> QED BY <1>1 DEF Alike

LEMMA AlikeTransitive ==
  ASSUME NEW A \in Seq(ParsedJob), NEW B \in Seq(ParsedJob), NEW C \in Seq(ParsedJob),
         Alike(A, B), Alike(B, C)
  PROVE  Alike(A, C)
<1>1. JobNames(A) = JobNames(C) BY DEF Alike
<1>2. ASSUME NEW p \in Firsts(A) PROVE \E r \in Firsts(B) : B[r].name = A[p].name
  <2>1. A[p].name \in JobNames(B) BY FirstsNamed DEF Alike
  <2> QED BY <2>1, FirstOf
<1>3. ASSUME NEW p \in Firsts(A), NEW q \in Firsts(C), A[p].name = C[q].name PROVE A[p] = C[q]
  <2>1. PICK r \in Firsts(B) : B[r].name = A[p].name BY <1>2
  <2> QED BY <1>3, <2>1 DEF Alike
<1>4. ASSUME NEW p1 \in Firsts(A), NEW p2 \in Firsts(A), NEW q1 \in Firsts(C), NEW q2 \in Firsts(C),
             A[p1].name = C[q1].name, A[p2].name = C[q2].name, p1 < p2
      PROVE  q1 < q2
  <2>1. PICK r1 \in Firsts(B) : B[r1].name = A[p1].name BY <1>2
  <2>2. PICK r2 \in Firsts(B) : B[r2].name = A[p2].name BY <1>2
  <2>3. r1 < r2 BY <1>4, <2>1, <2>2 DEF Alike
  <2> QED BY <1>4, <2>1, <2>2, <2>3 DEF Alike
<1> QED BY <1>1, <1>3, <1>4 DEF Alike

(* The first jobs of two lists one behind the other. *)
LEMMA FirstsOfBoth ==
  ASSUME NEW A \in Seq(ParsedJob), NEW P \in Seq(ParsedJob)
  PROVE  /\ A \o P \in Seq(ParsedJob)
         /\ JobNames(A \o P) = JobNames(A) \cup JobNames(P)
         /\ \A r \in Firsts(A \o P) :
              \/ r \in Firsts(A) /\ (A \o P)[r] = A[r]
              \/ \E p \in Firsts(P) : /\ r = Len(A) + p /\ (A \o P)[r] = P[p]
                                      /\ P[p].name \notin JobNames(A)
<1> DEFINE l == Len(A)
           m == Len(P)
           W == A \o P
<1>1. l \in Nat /\ m \in Nat /\ W \in Seq(ParsedJob) /\ Len(W) = l + m OBVIOUS
<1>2. \A i \in 1..l : i \in 1..(l + m) /\ W[i] = A[i] OBVIOUS
<1>3. \A i \in 1..m : l + i \in 1..(l + m) /\ W[l + i] = P[i] OBVIOUS
<1>4. DOMAIN A = 1..l /\ DOMAIN P = 1..m /\ DOMAIN W = 1..(l + m) BY <1>1
<1>5. ASSUME NEW i \in 1..(l + m), i > l PROVE \E k \in 1..m : i = l + k
  <2>1. i - l \in 1..m /\ i = l + (i - l) BY <1>1, <1>5
  <2> QED BY <2>1
<1> HIDE DEF l, m, W
<1>6. JobNames(W) = JobNames(A) \cup JobNames(P)
  <2>1. ASSUME NEW i \in 1..(l + m) PROVE W[i].name \in JobNames(A) \cup JobNames(P)
    <3>1. CASE i <= l
      <4>1. i \in 1..l BY <1>1, <3>1
      <4> QED BY <1>2, <1>4, <4>1 DEF JobNames
    <3>2. CASE i > l BY <1>3, <1>4, <1>5, <3>2 DEF JobNames
    <3> QED BY <1>1, <3>1, <3>2
  <2>2. JobNames(A) \subseteq JobNames(W) BY <1>2, <1>4 DEF JobNames
  <2>3. JobNames(P) \subseteq JobNames(W) BY <1>3, <1>4 DEF JobNames
  <2>4. JobNames(W) \subseteq JobNames(A) \cup JobNames(P) BY <1>4, <2>1 DEF JobNames
  <2> QED BY <2>2, <2>3, <2>4
<1>7. ASSUME NEW r \in Firsts(W)
      PROVE  \/ r \in Firsts(A) /\ W[r] = A[r]
             \/ \E p \in Firsts(P) : r = l + p /\ W[r] = P[p] /\ P[p].name \notin JobNames(A)
  <2>1. r \in 1..(l + m) /\ \A p \in 1..(r - 1) : W[p].name # W[r].name BY <1>4 DEF Firsts
  <2>2. CASE r <= l
    <3>1. r \in 1..l /\ \A p \in 1..(r - 1) : p \in 1..l BY <1>1, <2>1, <2>2
    <3>2. \A p \in 1..(r - 1) : A[p].name # A[r].name BY <1>2, <2>1, <3>1
    <3> QED BY <1>2, <1>4, <3>1, <3>2 DEF Firsts
  <2>3. CASE r > l
    <3>1. PICK p \in 1..m : r = l + p BY <1>5, <2>1, <2>3
    <3>2. W[r] = P[p] BY <1>3, <3>1
    <3>3. ASSUME NEW q \in 1..(p - 1) PROVE P[q].name # P[p].name
      <4>1. q \in 1..m /\ l + q \in 1..(r - 1) BY <1>1, <3>1
      <4> QED BY <1>3, <2>1, <3>2, <4>1
    <3>4. ASSUME NEW q \in 1..l PROVE A[q].name # P[p].name
      <4>1. q \in 1..(r - 1) BY <1>1, <3>1
      <4> QED BY <1>2, <2>1, <3>2, <4>1
    <3>5. p \in Firsts(P) BY <1>4, <3>3 DEF Firsts
    <3>6. P[p].name \notin JobNames(A) BY <1>4, <3>4 DEF JobNames
    <3> QED BY <3>1, <3>2, <3>5, <3>6
  <2> QED BY <1>1, <2>1, <2>2, <2>3
<1> QED BY <1>1, <1>6, <1>7 DEF l, m, W

LEMMA AlikeBoth ==
  ASSUME NEW A \in Seq(ParsedJob), NEW B \in Seq(ParsedJob), NEW P \in Seq(ParsedJob),
         NEW Q \in Seq(ParsedJob), Alike(A, B), Alike(P, Q)
  PROVE  Alike(A \o P, B \o Q)
<1> DEFINE V == A \o P
           W == B \o Q
           InA(r) == r \in Firsts(A) /\ V[r] = A[r]
           InP(r) == \E p \in Firsts(P) : r = Len(A) + p /\ V[r] = P[p] /\ P[p].name \notin JobNames(A)
           InB(s) == s \in Firsts(B) /\ W[s] = B[s]
           InQ(s) == \E q \in Firsts(Q) : s = Len(B) + q /\ W[s] = Q[q] /\ Q[q].name \notin JobNames(B)
<1>1. JobNames(V) = JobNames(W)
  <2>1. JobNames(V) = JobNames(A) \cup JobNames(P) BY FirstsOfBoth
  <2>2. JobNames(W) = JobNames(B) \cup JobNames(Q) BY FirstsOfBoth
  <2> HIDE DEF V, W
  <2> QED BY <2>1, <2>2 DEF Alike
<1>2. \A r \in Firsts(V) : InA(r) \/ InP(r) BY FirstsOfBoth
<1>3. \A s \in Firsts(W) : InB(s) \/ InQ(s) BY FirstsOfBoth
<1>4. ASSUME NEW r \in Firsts(V), NEW s \in Firsts(W), V[r].name = W[s].name
      PROVE  (InA(r) /\ InB(s)) \/ (InP(r) /\ InQ(s))
  <2>1. InA(r) => V[r].name \in JobNames(A) BY FirstsNamed
  <2>2. InB(s) => W[s].name \in JobNames(A) BY FirstsNamed DEF Alike
  <2>3. InP(r) => V[r].name \notin JobNames(A) OBVIOUS
  <2>4. InQ(s) => W[s].name \notin JobNames(A) BY DEF Alike
  <2> HIDE DEF InA, InB, InP, InQ, V, W
  <2> QED BY <1>2, <1>3, <1>4, <2>1, <2>2, <2>3, <2>4
<1>5. ASSUME NEW r \in Firsts(V), NEW s \in Firsts(W), V[r].name = W[s].name PROVE V[r] = W[s]
  <2>1. CASE InA(r) /\ InB(s)
    <3> HIDE DEF V, W
    <3> QED BY <1>5, <2>1 DEF Alike
  <2>2. CASE InP(r) /\ InQ(s)
    <3> HIDE DEF V, W
    <3> QED BY <1>5, <2>2 DEF Alike
  <2> HIDE DEF InA, InB, InP, InQ, V, W
  <2> QED BY <1>4, <1>5, <2>1, <2>2
<1>6. ASSUME NEW r1 \in Firsts(V), NEW r2 \in Firsts(V), NEW s1 \in Firsts(W), NEW s2 \in Firsts(W),
             V[r1].name = W[s1].name, V[r2].name = W[s2].name, r1 < r2
      PROVE  s1 < s2
  <2>1. (InA(r1) /\ InB(s1)) \/ (InP(r1) /\ InQ(s1))
    <3> HIDE DEF InA, InB, InP, InQ, V, W
    <3> QED BY <1>4, <1>6
  <2>2. (InA(r2) /\ InB(s2)) \/ (InP(r2) /\ InQ(s2))
    <3> HIDE DEF InA, InB, InP, InQ, V, W
    <3> QED BY <1>4, <1>6
  <2>3. Len(A) \in Nat /\ Len(B) \in Nat OBVIOUS
  <2>4. /\ \A x \in Firsts(A) : x \in Nat /\ x <= Len(A)
        /\ \A x \in Firsts(B) : x \in Nat /\ x <= Len(B)
        /\ \A x \in Firsts(P) : x \in Nat /\ 1 <= x
        /\ \A x \in Firsts(Q) : x \in Nat /\ 1 <= x
    BY JobAt
  <2> HIDE DEF V, W
  <2>5. CASE InA(r1) /\ InB(s1) /\ InA(r2) /\ InB(s2)
    BY <1>6, <2>5 DEF Alike
  <2>6. CASE InA(r1) /\ InB(s1) /\ InP(r2) /\ InQ(s2)
    BY <2>3, <2>4, <2>6
  <2>7. CASE InP(r1) /\ InQ(s1) /\ InA(r2) /\ InB(s2)
    BY <1>6, <2>3, <2>4, <2>7
  <2>8. CASE InP(r1) /\ InQ(s1) /\ InP(r2) /\ InQ(s2)
    <3>1. PICK p1 \in Firsts(P) : r1 = Len(A) + p1 /\ V[r1] = P[p1] BY <2>8
    <3>2. PICK p2 \in Firsts(P) : r2 = Len(A) + p2 /\ V[r2] = P[p2] BY <2>8
    <3>3. PICK q1 \in Firsts(Q) : s1 = Len(B) + q1 /\ W[s1] = Q[q1] BY <2>8
    <3>4. PICK q2 \in Firsts(Q) : s2 = Len(B) + q2 /\ W[s2] = Q[q2] BY <2>8
    <3>5. p1 < p2 BY <1>6, <2>3, <2>4, <3>1, <3>2
    <3>6. q1 < q2 BY <1>6, <3>1, <3>2, <3>3, <3>4, <3>5 DEF Alike
    <3> QED BY <2>3, <2>4, <3>3, <3>4, <3>6
  <2> HIDE DEF InA, InB, InP, InQ
  <2> QED BY <2>1, <2>2, <2>5, <2>6, <2>7, <2>8
<1> HIDE DEF V, W
<1>7. Alike(V, W) BY <1>1, <1>5, <1>6 DEF Alike
<1> QED BY <1>7 DEF V, W

(* Replacing the parameter in both. *)
LEMMA AlikeSubstituted ==
  ASSUME NEW A \in Seq(ParsedJob), NEW B \in Seq(ParsedJob), Alike(A, B), NEW f, NEW arg \in Arg
  PROVE  Alike(SubstituteParams(A, f, arg), SubstituteParams(B, f, arg))
<1> DEFINE new(j) == [j EXCEPT !.text = IF @ = Placeholder THEN ParamValue(arg) ELSE @]
           NewIn(js) == [i \in DOMAIN js |-> new(js[i])]
<1>1. CASE files[f].param = "none" BY <1>1 DEF SubstituteParams
<1>2. CASE files[f].param # "none"
  <2>1. ASSUME NEW js \in Seq(ParsedJob)
        PROVE  /\ SubstituteParams(js, f, arg) = NewIn(js)
               /\ DOMAIN NewIn(js) = DOMAIN js
               /\ \A i \in DOMAIN js : NewIn(js)[i] = new(js[i]) /\ NewIn(js)[i].name = js[i].name
    <3>1. SubstituteParams(js, f, arg) = NewIn(js) BY <1>2 DEF SubstituteParams
    <3>2. \A i \in DOMAIN js : js[i] \in ParsedJob OBVIOUS
    <3>3. \A j \in ParsedJob : new(j).name = j.name BY DEF ParsedJob
    <3> QED BY <3>1, <3>2, <3>3
  <2> HIDE DEF NewIn, new
  <2>2. ASSUME NEW js \in Seq(ParsedJob)
        PROVE  JobNames(NewIn(js)) = JobNames(js) /\ Firsts(NewIn(js)) = Firsts(js)
    <3>1. JobNames(NewIn(js)) = JobNames(js) BY <2>1 DEF JobNames
    <3>2. \A q \in DOMAIN js : \A p \in 1..(q - 1) : p \in DOMAIN js BY JobAt
    <3>3. Firsts(NewIn(js)) = Firsts(js) BY <2>1, <3>2 DEF Firsts
    <3> QED BY <3>1, <3>3
  <2>3. ASSUME NEW js \in Seq(ParsedJob), NEW p \in Firsts(js)
        PROVE  NewIn(js)[p] = new(js[p]) /\ NewIn(js)[p].name = js[p].name
    <3>1. p \in DOMAIN js BY DEF Firsts
    <3> QED BY <2>1, <3>1
  <2>4. Alike(NewIn(A), NewIn(B)) BY <2>2, <2>3 DEF Alike
  <2> QED BY <2>1, <2>4
<1> QED BY <1>1, <1>2

(* Finite sets of places whose jobs have the same names, each once. *)
LEMMA SameNamesSameSize ==
  ASSUME NEW A, NEW B, NEW X, NEW Y, IsFiniteSet(X), IsFiniteSet(Y),
         \A p, q \in X : A[p].name = A[q].name => p = q,
         \A p, q \in Y : B[p].name = B[q].name => p = q,
         \A p \in X : \E q \in Y : B[q].name = A[p].name,
         \A q \in Y : \E p \in X : B[q].name = A[p].name
  PROVE  Cardinality(X) = Cardinality(Y)
<1> DEFINE N == {A[p].name : p \in X}
           a == [p \in X |-> A[p].name]
           b == [q \in Y |-> B[q].name]
<1>1. a \in Bijection(X, N)
  <2>1. a \in [X -> N] /\ \A p, q \in X : a[p] = a[q] => p = q OBVIOUS
  <2>2. \A t \in N : \E p \in X : a[p] = t OBVIOUS
  <2> HIDE DEF a, N
  <2> QED BY <2>1, <2>2, Fun_IsBij
<1>2. b \in Bijection(Y, N)
  <2>1. b \in [Y -> N] /\ \A p, q \in Y : b[p] = b[q] => p = q OBVIOUS
  <2>2. \A t \in N : \E p \in Y : b[p] = t OBVIOUS
  <2> HIDE DEF b, N
  <2> QED BY <2>1, <2>2, Fun_IsBij
<1> HIDE DEF a, b, N
<1>3. ExistsBijection(X, N) /\ ExistsBijection(Y, N) BY <1>1, <1>2, Fun_ExistsBij
<1>4. Cardinality(N) = Cardinality(X) /\ Cardinality(N) = Cardinality(Y) BY <1>3, FS_Bijection
<1> QED BY <1>4

(* The ranks grow with the places. *)
LEMMA RankGrows ==
  ASSUME NEW K \in SUBSET Nat, IsFiniteSet(K), NEW p \in K, NEW q \in K, p < q
  PROVE  Rank(K, p) < Rank(K, q)
<1> DEFINE P == {y \in K : y <= p}
           Q == {y \in K : y <= q}
<1>1. IsFiniteSet(Q) /\ IsFiniteSet(P) BY FS_Subset
<1>2. P \subseteq Q
  <2>1. \A z \in K : z \in Nat OBVIOUS
  <2>2. \A z \in K : z <= p => z <= q BY <2>1
  <2> QED BY <2>2
<1>3. Cardinality(P) <= Cardinality(Q) BY <1>1, <1>2, FS_Subset
<1>4. Cardinality(P) \in Nat /\ Cardinality(Q) \in Nat BY <1>1, FS_CardinalityType
<1>5. Rank(K, p) # Rank(K, q) BY RankInjective
<1> QED BY <1>3, <1>4, <1>5 DEF Rank

(* What FirstWins keeps is like the list: its jobs have names of their own,   *)
(* and it has the first job of every name.                                    *)
LEMMA FirstWinsFacts ==
  ASSUME NEW A \in Seq(ParsedJob)
  PROVE  /\ FirstWins(A) \in Seq(ParsedJob) /\ Alike(FirstWins(A), A)
         /\ Firsts(FirstWins(A)) = DOMAIN FirstWins(A)
<1> DEFINE K      == Firsts(A)
           n      == Cardinality(K)
           nth(i) == CHOOSE q \in K : Rank(K, q) = i
           W      == FirstWins(A)
<1>1. K \in SUBSET Nat /\ IsFiniteSet(K) /\ \A q \in K : q \in 1..Len(A) /\ A[q] \in ParsedJob
  BY JobAt
<1>2. n \in Nat /\ \A i \in 1..n : nth(i) \in K /\ Rank(K, nth(i)) = i BY <1>1, RankOnto
<1>3. ASSUME NEW q \in K PROVE Rank(K, q) \in 1..n /\ nth(Rank(K, q)) = q
  <2>1. Rank(K, q) \in 1..n BY <1>1, RankOnto
  <2>2. nth(Rank(K, q)) \in K /\ Rank(K, nth(Rank(K, q))) = Rank(K, q) BY <1>2, <2>1
  <2> HIDE DEF nth, K, n
  <2> QED BY <1>1, <2>1, <2>2, RankInjective
<1>4. W = [i \in 1..n |-> A[nth(i)]] BY DEF FirstWins
<1> HIDE DEF nth, K, n, W
<1>5. W \in Seq(ParsedJob) /\ DOMAIN W = 1..n
  <2>1. W \in [1..n -> ParsedJob] BY <1>1, <1>2, <1>4
  <2> QED BY <1>2, <2>1
<1>6. \A i \in 1..n : nth(i) \in K /\ W[i] = A[nth(i)] BY <1>2, <1>4
<1>7. ASSUME NEW i \in 1..n, NEW q \in K, W[i].name = A[q].name PROVE q = nth(i)
  BY <1>6, <1>7, FirstUnique DEF K
<1>8. ASSUME NEW i \in 1..n, NEW k \in 1..n, i < k PROVE nth(i) < nth(k)
  <2>1. nth(i) \in K /\ nth(k) \in K /\ nth(i) \in Nat /\ nth(k) \in Nat BY <1>1, <1>2
  <2>2. Rank(K, nth(i)) = i /\ Rank(K, nth(k)) = k BY <1>2
  <2>3. nth(i) # nth(k) BY <1>2, <1>8, <2>2
  <2>4. ~(nth(k) < nth(i))
    <3>1. nth(k) < nth(i) => k < i BY <1>1, <2>1, <2>2, RankGrows
    <3> QED BY <1>2, <1>8, <3>1
  <2> QED BY <2>1, <2>3, <2>4
<1>9. JobNames(W) = JobNames(A)
  <2>1. JobNames(W) \subseteq JobNames(A) BY <1>5, <1>6, FirstsNamed DEF JobNames, K
  <2>2. ASSUME NEW x \in JobNames(A) PROVE x \in JobNames(W)
    <3>1. PICK q \in K : A[q].name = x BY FirstOf DEF K
    <3>2. Rank(K, q) \in 1..n /\ W[Rank(K, q)].name = x BY <1>3, <1>6, <3>1
    <3> QED BY <1>5, <3>2 DEF JobNames
  <2> QED BY <2>1, <2>2
<1>10. Firsts(W) = 1..n
  <2>1. ASSUME NEW q \in 1..n, NEW p \in 1..(q - 1) PROVE W[p].name # W[q].name
    <3>1. p \in 1..n /\ p < q BY <1>2
    <3>2. nth(p) < nth(q) /\ nth(p) \in Nat /\ nth(q) \in Nat BY <1>1, <1>6, <1>8, <3>1
    <3>3. nth(p) # nth(q) BY <3>2
    <3> QED BY <1>6, <1>7, <3>1, <3>3
  <2> QED BY <1>5, <2>1 DEF Firsts
<1>11. Alike(W, A)
  <2>1. ASSUME NEW p \in Firsts(W), NEW q \in Firsts(A), W[p].name = A[q].name PROVE W[p] = A[q]
    BY <1>6, <1>7, <1>10, <2>1 DEF K
  <2>2. ASSUME NEW p1 \in Firsts(W), NEW p2 \in Firsts(W), NEW q1 \in Firsts(A), NEW q2 \in Firsts(A),
               W[p1].name = A[q1].name, W[p2].name = A[q2].name, p1 < p2
        PROVE  q1 < q2
    BY <1>7, <1>8, <1>10, <2>2 DEF K
  <2> QED BY <1>9, <2>1, <2>2 DEF Alike
<1> QED BY <1>5, <1>10, <1>11 DEF W

(* Lists that are alike come to the same when the first of a name wins. *)
LEMMA AlikeSameResult ==
  ASSUME NEW A \in Seq(ParsedJob), NEW B \in Seq(ParsedJob), Alike(A, B)
  PROVE  FirstWins(A) = FirstWins(B)
<1> DEFINE K == Firsts(A)
           L == Firsts(B)
           n == Cardinality(K)
           nth(i) == CHOOSE q \in K : Rank(K, q) = i
           mth(i) == CHOOSE q \in L : Rank(L, q) = i
<1>1. /\ K \in SUBSET Nat /\ IsFiniteSet(K) /\ L \in SUBSET Nat /\ IsFiniteSet(L) BY JobAt
<1>2. /\ \A p, q \in K : A[p].name = A[q].name => p = q
      /\ \A p, q \in L : B[p].name = B[q].name => p = q
  BY FirstUnique
<1>3. ASSUME NEW p \in K PROVE \E q \in L : B[q].name = A[p].name
  <2>1. A[p].name \in JobNames(B) BY FirstsNamed DEF Alike
  <2> QED BY <2>1, FirstOf
<1>4. ASSUME NEW q \in L PROVE \E p \in K : B[q].name = A[p].name
  <2>1. B[q].name \in JobNames(A) BY FirstsNamed DEF Alike
  <2> QED BY <2>1, FirstOf
<1>5. Cardinality(K) = Cardinality(L)
  <2>1. /\ \A p \in K : \E q \in L : B[q].name = A[p].name
        /\ \A q \in L : \E p \in K : B[q].name = A[p].name
    BY <1>3, <1>4
  <2>2. /\ \A p, q \in K : A[p].name = A[q].name => p = q
        /\ \A p, q \in L : B[p].name = B[q].name => p = q
    BY <1>2
  <2>3. IsFiniteSet(K) /\ IsFiniteSet(L) BY <1>1
  <2> HIDE DEF K, L, n, nth, mth
  <2> QED BY <2>1, <2>2, <2>3, SameNamesSameSize
<1>6. ASSUME NEW p1 \in K, NEW p2 \in K, NEW q1 \in L, NEW q2 \in L,
             A[p1].name = B[q1].name, A[p2].name = B[q2].name
      PROVE  p1 <= p2 <=> q1 <= q2
  <2>1. p1 \in Nat /\ p2 \in Nat /\ q1 \in Nat /\ q2 \in Nat BY <1>1
  <2>2. p1 < p2 => q1 < q2 BY <1>6 DEF Alike
  <2>3. p2 < p1 => q2 < q1 BY <1>6 DEF Alike
  <2>4. p1 = p2 => q1 = q2 BY <1>2, <1>6
  <2> QED BY <2>1, <2>2, <2>3, <2>4
<1>7. ASSUME NEW p \in K, NEW q \in L, A[p].name = B[q].name PROVE Rank(K, p) = Rank(L, q)
  <2> DEFINE X == {y \in K : y <= p}
             Y == {y \in L : y <= q}
  <2> HIDE DEF K, L
  <2>1. IsFiniteSet(X) /\ IsFiniteSet(Y) BY <1>1, FS_Subset
  <2>2. /\ \A x, y \in X : A[x].name = A[y].name => x = y
        /\ \A x, y \in Y : B[x].name = B[y].name => x = y
    BY <1>2
  <2>3. ASSUME NEW x \in X PROVE \E y \in Y : B[y].name = A[x].name BY <1>3, <1>6, <1>7
  <2>4. ASSUME NEW y \in Y PROVE \E x \in X : B[y].name = A[x].name BY <1>4, <1>6, <1>7
  <2>5. Cardinality(X) = Cardinality(Y)
    <3> HIDE DEF X, Y
    <3> QED BY <2>1, <2>2, <2>3, <2>4, SameNamesSameSize
  <2> QED BY <2>5 DEF Rank
<1>8. n \in Nat /\ \A i \in 1..n : nth(i) \in K /\ Rank(K, nth(i)) = i BY <1>1, RankOnto
<1>9. \A i \in 1..n : mth(i) \in L /\ Rank(L, mth(i)) = i BY <1>1, <1>5, RankOnto
<1>10. ASSUME NEW i \in 1..n PROVE A[nth(i)] = B[mth(i)]
  <2>1. nth(i) \in K /\ Rank(K, nth(i)) = i BY <1>8
  <2>2. mth(i) \in L /\ Rank(L, mth(i)) = i BY <1>9
  <2>3. PICK q \in L : B[q].name = A[nth(i)].name BY <1>3, <2>1
  <2>4. Rank(L, q) = i BY <1>7, <2>1, <2>3
  <2>5. q = mth(i)
    <3> HIDE DEF L, mth
    <3> QED BY <1>1, <2>2, <2>3, <2>4, RankInjective
  <2>6. A[nth(i)] = B[q] BY <2>1, <2>3 DEF Alike
  <2> QED BY <2>5, <2>6
<1>11. FirstWins(A) = [i \in 1..n |-> A[nth(i)]] BY DEF FirstWins
<1>12. FirstWins(B) = [i \in 1..n |-> B[mth(i)]] BY <1>5 DEF FirstWins
<1> HIDE DEF n, nth, mth
<1> QED BY <1>10, <1>11, <1>12

JobsOf(es) == [i \in DOMAIN es |-> es[i].job]

(* MergeJobs keeps what FirstWins keeps. *)
LEMMA MergeIsFirstWins ==
  ASSUME NEW es \in Seq(Entry)
  PROVE  /\ JobsOf(es) \in Seq(ParsedJob) /\ Len(JobsOf(es)) = Len(es)
         /\ MergeJobs(es) = FirstWins(JobsOf(es))
<1> DEFINE js == JobsOf(es)
<1>1. \A i \in 1..Len(es) : es[i].job \in ParsedJob
  <2>1. \A i \in 1..Len(es) : es[i] \in Entry OBVIOUS
  <2> QED BY <2>1 DEF Entry
<1>2. js \in Seq(ParsedJob) /\ Len(js) = Len(es) /\ DOMAIN js = DOMAIN es
  <2>1. js \in [1..Len(es) -> ParsedJob] BY <1>1 DEF JobsOf
  <2> QED BY <2>1
<1>3. \A i \in DOMAIN es : js[i] = es[i].job BY DEF JobsOf
<1>4. \A q \in DOMAIN es : \A p \in 1..(q - 1) : p \in DOMAIN es OBVIOUS
<1> HIDE DEF js
<1>5. Kept(es) = Firsts(js) BY <1>2, <1>3, <1>4 DEF Kept, Firsts, Repeated
<1> DEFINE K == Firsts(js)
           nth(i) == CHOOSE q \in K : Rank(K, q) = i
<1>6. K \in SUBSET Nat /\ IsFiniteSet(K) /\ K \subseteq DOMAIN es BY <1>2, JobAt
<1>7. \A i \in 1..Cardinality(K) : nth(i) \in K BY <1>6, RankOnto
<1>8. MergeJobs(es) = [i \in 1..Cardinality(K) |-> es[nth(i)].job] BY <1>5 DEF MergeJobs
<1>9. FirstWins(js) = [i \in 1..Cardinality(K) |-> js[nth(i)]] BY DEF FirstWins
<1>10. MergeJobs(es) = FirstWins(js)
  <2> HIDE DEF nth, K
  <2> QED BY <1>3, <1>6, <1>7, <1>8, <1>9
<1> QED BY <1>2, <1>10 DEF js
-----------------------------------------------------------------------------
(* Recursion over the natural numbers.                                       *)

(* Induction, for a set: what has 0 and every successor has all numbers. *)
LEMMA EveryNat ==
  ASSUME NEW S, 0 \in S, \A n \in Nat : n \in S => n + 1 \in S
  PROVE  \A n \in Nat : n \in S
<1> DEFINE Rest == Nat \ S
<1> SUFFICES ASSUME Rest # {} PROVE FALSE OBVIOUS
<1>1. \E q \in Rest : \A p \in Rest : ~ (<<p, q>> \in OpToRel(<, Nat))
  <2>1. Rest \subseteq Nat OBVIOUS
  <2> HIDE DEF Rest
  <2> QED BY <2>1, WFMin, NatLessThanWellFounded
<1>2. \A p, q \in Nat : p < q => <<p, q>> \in OpToRel(<, Nat) BY DEF OpToRel
<1>3. PICK q \in Rest : \A p \in Rest : ~(p < q) BY <1>1, <1>2, Zenon
<1>4. q \in Nat \ {0} /\ q - 1 \in Nat /\ q - 1 < q /\ (q - 1) + 1 = q OBVIOUS
<1>5. q - 1 \in S BY <1>3, <1>4
<1> QED BY <1>4, <1>5

(* The first values that start b, each the step F from the one before it. *)
Table(V, b, F, n, g) ==
  g \in [0..n -> V] /\ g[0] = b /\ \A i \in 1..n : g[i] = F[<<i - 1, g[i - 1]>>]

LEMMA TableExists ==
  ASSUME NEW V, NEW b \in V, NEW F, \A n \in Nat : \A v \in V : F[<<n, v>>] \in V
  PROVE  \A n \in Nat : \E g : Table(V, b, F, n, g)
<1> DEFINE S == {n \in Nat : \E g : Table(V, b, F, n, g)}
<1>1. 0 \in S
  <2>1. Table(V, b, F, 0, [i \in 0..0 |-> b]) BY DEF Table
  <2> QED BY <2>1
<1>2. ASSUME NEW n \in Nat, n \in S PROVE n + 1 \in S
  <2>1. PICK g : Table(V, b, F, n, g) BY <1>2
  <2> DEFINE v == F[<<n, g[n]>>]
             h == [i \in 0..(n + 1) |-> IF i = n + 1 THEN v ELSE g[i]]
  <2>2. g \in [0..n -> V] /\ g[0] = b /\ \A i \in 1..n : g[i] = F[<<i - 1, g[i - 1]>>]
    BY <2>1 DEF Table
  <2>3. n \in 0..n /\ g[n] \in V BY <2>2
  <2>4. v \in V BY <2>3
  <2> HIDE DEF v
  <2>5. \A i \in 0..n : i \in 0..(n + 1) /\ g[i] \in V /\ h[i] = g[i] BY <2>2
  <2>6. h \in [0..(n + 1) -> V] /\ h[0] = b /\ h[n + 1] = v
    <3>1. \A i \in 0..(n + 1) : i = n + 1 \/ i \in 0..n OBVIOUS
    <3> QED BY <2>2, <2>4, <2>5, <3>1
  <2> HIDE DEF h
  <2>7. ASSUME NEW i \in 1..(n + 1) PROVE h[i] = F[<<i - 1, h[i - 1]>>]
    <3>1. i - 1 \in 0..n OBVIOUS
    <3>2. CASE i = n + 1
      <4>1. i - 1 = n BY <3>2
      <4> QED BY <2>5, <2>6, <3>1, <3>2, <4>1 DEF v
    <3>3. CASE i \in 1..n
      <4>1. i \in 0..n BY <3>3
      <4> QED BY <2>2, <2>5, <3>1, <3>3, <4>1
    <3> QED BY <3>2, <3>3
  <2>8. Table(V, b, F, n + 1, h) BY <2>6, <2>7 DEF Table
  <2> QED BY <2>8
<1> HIDE DEF S
<1>3. \A n \in Nat : n \in S BY <1>1, <1>2, EveryNat
<1> QED BY <1>3 DEF S

LEMMA TablesAgree ==
  ASSUME NEW V, NEW b, NEW F, NEW m \in Nat, NEW n \in Nat, NEW g, NEW h,
         Table(V, b, F, m, g), Table(V, b, F, n, h)
  PROVE  \A i \in Nat : i <= m /\ i <= n => g[i] = h[i]
<1> DEFINE S == {i \in Nat : i <= m /\ i <= n => g[i] = h[i]}
<1>1. 0 \in S BY DEF Table
<1>2. ASSUME NEW i \in Nat, i \in S PROVE i + 1 \in S
  <2> SUFFICES ASSUME i + 1 <= m, i + 1 <= n PROVE g[i + 1] = h[i + 1] OBVIOUS
  <2>1. i + 1 \in 1..m /\ i + 1 \in 1..n /\ (i + 1) - 1 = i /\ i <= m /\ i <= n OBVIOUS
  <2>2. g[i + 1] = F[<<i, g[i]>>] /\ h[i + 1] = F[<<i, h[i]>>] BY <2>1 DEF Table
  <2> QED BY <1>2, <2>1, <2>2
<1> HIDE DEF S
<1>3. \A i \in Nat : i \in S BY <1>1, <1>2, EveryNat
<1> QED BY <1>3 DEF S

(* A definition by recursion has a solution. *)
StaysIn(V, F) == \A n \in Nat : \A v \in V : F[<<n, v>>] \in V

Solves(V, b, F, f) ==
  f \in [Nat -> V] /\ f[0] = b /\ \A n \in Nat : f[n + 1] = F[<<n, f[n]>>]

LEMMA Recursion ==
  ASSUME NEW V, NEW b \in V, NEW F, StaysIn(V, F)
  PROVE  \E f : Solves(V, b, F, f)
<1> DEFINE table(n) == CHOOSE g : Table(V, b, F, n, g)
           f == [n \in Nat |-> table(n)[n]]
<1>1. \A n \in Nat : Table(V, b, F, n, table(n)) BY TableExists DEF StaysIn
<1> HIDE DEF table
<1>2. f \in [Nat -> V] BY <1>1 DEF Table
<1>3. f[0] = b BY <1>1 DEF Table
<1>4. ASSUME NEW n \in Nat PROVE f[n + 1] = F[<<n, f[n]>>]
  <2>1. n + 1 \in Nat /\ n <= n + 1 /\ n + 1 \in 1..(n + 1) /\ n <= n /\ (n + 1) - 1 = n OBVIOUS
  <2>2. table(n + 1)[n + 1] = F[<<n, table(n + 1)[n]>>] BY <1>1, <2>1 DEF Table
  <2>3. table(n + 1)[n] = table(n)[n] BY <1>1, <2>1, TablesAgree
  <2> QED BY <2>1, <2>2, <2>3
<1> HIDE DEF f
<1> QED BY <1>2, <1>3, <1>4 DEF Solves
-----------------------------------------------------------------------------
(* The reference: what a pipeline is with the includes written out.          *)

LEMMA NodeJobsType ==
  ASSUME NEW x \in JobNode \cup IncludeNode, NEW den, \A k \in DOMAIN den : den[k] \in Seq(ParsedJob)
  PROVE  NodeJobs(x, den) \in Seq(ParsedJob)
<1>1. CASE x.type = "job"
  <2> DEFINE j == [name |-> x.name, deps |-> x.deps, text |-> x.text]
  <2>1. x \in JobNode BY <1>1 DEF IncludeNode
  <2>2. j \in ParsedJob BY <2>1 DEF JobNode, ParsedJob
  <2>3. NodeJobs(x, den) = <<j>> BY <1>1 DEF NodeJobs
  <2> HIDE DEF j
  <2> QED BY <2>2, <2>3
<1>2. CASE x.type # "job"
  <2>1. << >> \in Seq(ParsedJob) OBVIOUS
  <2> QED BY <1>2, <2>1 DEF NodeJobs
<1> QED BY <1>1, <1>2

LEMMA FlatFacts ==
  ASSUME NEW nodes \in Seq(JobNode \cup IncludeNode),
         NEW den, \A k \in DOMAIN den : den[k] \in Seq(ParsedJob)
  PROVE  \E u \in [Nat -> Seq(ParsedJob)] :
           /\ u[0] = << >> /\ Flat(nodes, den) = u[Len(nodes)]
           /\ \A i \in 1..Len(nodes) : u[i] = u[i - 1] \o NodeJobs(nodes[i], den)
<1> DEFINE V == Seq(ParsedJob)
           part(i) == IF i \in DOMAIN nodes THEN NodeJobs(nodes[i], den) ELSE << >>
           F == [p \in Nat \X V |-> p[2] \o part(p[1] + 1)]
           upto[i \in Nat] ==
             IF i = 0 THEN << >>
             ELSE upto[i - 1] \o (IF i \in DOMAIN nodes THEN NodeJobs(nodes[i], den) ELSE << >>)
<1>1. << >> \in V OBVIOUS
<1>2. \A i \in Nat : part(i) \in V
  <2>1. ASSUME NEW i \in DOMAIN nodes PROVE NodeJobs(nodes[i], den) \in V
    <3>1. nodes[i] \in JobNode \cup IncludeNode OBVIOUS
    <3> QED BY <3>1, NodeJobsType
  <2> QED BY <1>1, <2>1
<1> HIDE DEF part
<1>3. ASSUME NEW n \in Nat, NEW v \in V PROVE F[<<n, v>>] = v \o part(n + 1) /\ F[<<n, v>>] \in V
  <2>1. F[<<n, v>>] = v \o part(n + 1) OBVIOUS
  <2>2. n + 1 \in Nat OBVIOUS
  <2>3. part(n + 1) \in V BY <1>2, <2>2
  <2>4. v \o part(n + 1) \in V BY <2>3
  <2> QED BY <2>1, <2>4
<1>4. PICK f : f \in [Nat -> V] /\ f[0] = << >> /\ \A n \in Nat : f[n + 1] = F[<<n, f[n]>>]
  <2>1. StaysIn(V, F) BY <1>3 DEF StaysIn
  <2> HIDE DEF F, V
  <2>2. \E f : Solves(V, << >>, F, f) BY <1>1, <2>1, Recursion
  <2> QED BY <2>2 DEF Solves
<1> HIDE DEF F
<1>5. ASSUME NEW n \in Nat PROVE f[n + 1] = f[n] \o part(n + 1)
  <2>1. f[n] \in V BY <1>4
  <2> QED BY <1>3, <1>4, <2>1
<1>6. ASSUME NEW i \in Nat \ {0} PROVE f[i] = f[i - 1] \o part(i)
  <2>1. i - 1 \in Nat /\ (i - 1) + 1 = i OBVIOUS
  <2> QED BY <1>5, <2>1
<1>7. f = [i \in Nat |-> IF i = 0 THEN << >> ELSE f[i - 1] \o part(i)]
  <2>1. \A i \in Nat : f[i] = IF i = 0 THEN << >> ELSE f[i - 1] \o part(i) BY <1>4, <1>6
  <2>2. f = [i \in Nat |-> f[i]] BY <1>4
  <2> QED BY <2>1, <2>2
<1>8. upto = [i \in Nat |-> IF i = 0 THEN << >> ELSE upto[i - 1] \o part(i)]
  BY <1>7 DEF part, upto
<1>9. Flat(nodes, den) = upto[Len(nodes)] BY DEF Flat
<1> HIDE DEF upto
<1>10. upto[0] = << >> BY <1>8
<1>11. \A i \in Nat \ {0} : upto[i] = upto[i - 1] \o part(i) BY <1>8
<1> DEFINE S == {n \in Nat : upto[n] \in V}
<1>12. \A n \in Nat : n \in S
  <2>1. 0 \in S BY <1>1, <1>10
  <2>2. ASSUME NEW n \in Nat, n \in S PROVE n + 1 \in S
    <3>1. n + 1 \in Nat \ {0} /\ n + 1 \in Nat /\ (n + 1) - 1 = n OBVIOUS
    <3>2. upto[n + 1] = upto[n] \o part(n + 1) BY <1>11, <3>1
    <3>3. upto[n] \in V /\ part(n + 1) \in V BY <1>2, <2>2, <3>1
    <3>4. upto[n] \o part(n + 1) \in V BY <3>3
    <3> QED BY <3>1, <3>2, <3>4
  <2> HIDE DEF S
  <2> QED BY <2>1, <2>2, EveryNat
<1>13. upto \in [Nat -> V]
  <2>1. upto = [i \in Nat |-> upto[i]] BY <1>8
  <2> QED BY <1>12, <2>1
<1>14. ASSUME NEW i \in 1..Len(nodes) PROVE upto[i] = upto[i - 1] \o NodeJobs(nodes[i], den)
  <2>1. i \in Nat \ {0} /\ i \in DOMAIN nodes OBVIOUS
  <2>2. part(i) = NodeJobs(nodes[i], den) BY <2>1 DEF part
  <2> QED BY <1>11, <2>1, <2>2
<1> QED BY <1>9, <1>10, <1>13, <1>14

LEMMA WrittenFacts ==
  ASSUME PathInv
  PROVE  /\ \A n \in Nat : Written[n] \in [Keys -> Seq(ParsedJob)]
         /\ \A n \in Nat : \A k \in Keys :
              Written[n + 1][k] = SubstituteParams(Flat(files[k[1]].nodes, Written[n]), k[1], k[2])
<1> DEFINE V == [Keys -> Seq(ParsedJob)]
           none == [k \in Keys |-> << >>]
           step(den) == [k \in Keys |-> SubstituteParams(Flat(files[k[1]].nodes, den), k[1], k[2])]
           F == [p \in Nat \X V |-> step(p[2])]
<1>1. ASSUME NEW k \in Keys PROVE k[1] \in DOMAIN files /\ k[2] \in Arg
  <2>1. ASSUME NEW f \in DOMAIN files, NEW x \in IncludesIn(f) PROVE x.arg \in Arg
    <3>1. x.type = "include" /\ \E i \in DOMAIN files[f].nodes : files[f].nodes[i] = x
      BY IncludeFacts
    <3>2. x \in IncludeNode BY <3>1, NodeFacts
    <3> QED BY <3>2 DEF IncludeNode, Arg
  <2>2. \A a \in Args : a \in Arg BY <2>1 DEF Args, Arg
  <2> QED BY <2>2 DEF Keys
<1>2. none \in V OBVIOUS
<1>3. ASSUME NEW den \in V PROVE step(den) \in V
  <2>1. ASSUME NEW k \in Keys
        PROVE  SubstituteParams(Flat(files[k[1]].nodes, den), k[1], k[2]) \in Seq(ParsedJob)
    <3>1. files[k[1]].nodes \in Seq(JobNode \cup IncludeNode) BY <1>1, NodeFacts
    <3>2. Len(files[k[1]].nodes) \in Nat /\ \A x \in DOMAIN den : den[x] \in Seq(ParsedJob) BY <3>1
    <3>3. \E u \in [Nat -> Seq(ParsedJob)] : Flat(files[k[1]].nodes, den) = u[Len(files[k[1]].nodes)]
      BY <3>1, <3>2, FlatFacts
    <3>4. Flat(files[k[1]].nodes, den) \in Seq(ParsedJob) BY <3>2, <3>3
    <3> QED BY <1>1, <3>4, SubstituteFacts
  <2> QED BY <2>1
<1> HIDE DEF step, none, V
<1>4. ASSUME NEW n \in Nat, NEW v \in V PROVE F[<<n, v>>] = step(v) /\ F[<<n, v>>] \in V
  BY <1>3
<1> HIDE DEF F
<1>5. PICK f : f \in [Nat -> V] /\ f[0] = none /\ \A n \in Nat : f[n + 1] = F[<<n, f[n]>>]
  <2>1. StaysIn(V, F) BY <1>4 DEF StaysIn
  <2>2. \E f : Solves(V, none, F, f) BY <1>2, <2>1, Recursion
  <2> QED BY <2>2 DEF Solves
<1>6. ASSUME NEW n \in Nat PROVE f[n + 1] = step(f[n])
  <2>1. f[n] \in V BY <1>5
  <2> QED BY <1>4, <1>5, <2>1
<1> DEFINE body(g, n) == [k \in Keys |-> IF n = 0 THEN << >>
                            ELSE SubstituteParams(Flat(files[k[1]].nodes, g[n - 1]), k[1], k[2])]
<1>7. ASSUME NEW g PROVE body(g, 0) = none /\ \A n \in Nat \ {0} : body(g, n) = step(g[n - 1])
  BY DEF none, step
<1>8. \A n \in Nat : f[n] = body(f, n)
  <2>1. ASSUME NEW n \in Nat \ {0} PROVE f[n] = step(f[n - 1])
    <3>1. n - 1 \in Nat /\ (n - 1) + 1 = n OBVIOUS
    <3> QED BY <1>6, <3>1
  <2> HIDE DEF body
  <2> QED BY <1>5, <1>7, <2>1
<1>9. f = [n \in Nat |-> body(f, n)]
  <2>1. f = [n \in Nat |-> f[n]] BY <1>5
  <2> HIDE DEF body
  <2> QED BY <1>8, <2>1
<1>10. Written = [n \in Nat |-> body(Written, n)] BY <1>9 DEF Written
<1>11. Written[0] = none /\ \A n \in Nat : Written[n + 1] = step(Written[n])
  <2>1. \A n \in Nat : n + 1 \in Nat \ {0} /\ (n + 1) - 1 = n OBVIOUS
  <2> HIDE DEF body
  <2>2. \A n \in Nat : Written[n] = body(Written, n) BY <1>10
  <2>3. Written[0] = none BY <1>7, <2>2
  <2>4. \A n \in Nat : Written[n + 1] = step(Written[n]) BY <1>7, <2>1, <2>2
  <2> QED BY <2>3, <2>4
<1> DEFINE S == {n \in Nat : Written[n] \in V}
<1>12. \A n \in Nat : n \in S
  <2>1. 0 \in S BY <1>2, <1>11
  <2>2. ASSUME NEW n \in Nat, n \in S PROVE n + 1 \in S BY <1>3, <1>11, <2>2
  <2> HIDE DEF S
  <2> QED BY <2>1, <2>2, EveryNat
<1>13. \A n \in Nat : Written[n] \in V BY <1>12
<1>14. ASSUME NEW n \in Nat, NEW k \in Keys
       PROVE  Written[n + 1][k] = SubstituteParams(Flat(files[k[1]].nodes, Written[n]), k[1], k[2])
  <2>1. Written[n + 1] = step(Written[n]) BY <1>11
  <2>2. step(Written[n])[k] = SubstituteParams(Flat(files[k[1]].nodes, Written[n]), k[1], k[2])
    BY DEF step
  <2> QED BY <2>1, <2>2
<1> QED BY <1>13, <1>14 DEF V

(* A list up to a place, and on to the end of a part. *)
LEMMA PrefixGrows ==
  ASSUME NEW js \in Seq(ParsedJob), NEW pt \in Seq(ParsedJob), NEW a \in Nat, a + Len(pt) <= Len(js),
         \A m \in 1..Len(pt) : js[a + m] = pt[m]
  PROVE  SubSeq(js, 1, a + Len(pt)) = SubSeq(js, 1, a) \o pt
<1> DEFINE l == Len(pt)
           X == SubSeq(js, 1, a + l)
           P == SubSeq(js, 1, a)
           Y == P \o pt
<1>1. l \in Nat /\ Len(js) \in Nat /\ a <= Len(js) OBVIOUS
<1>2. X \in Seq(ParsedJob) /\ Len(X) = a + l /\ \A i \in 1..(a + l) : X[i] = js[i] BY <1>1
<1>3. P \in Seq(ParsedJob) /\ Len(P) = a /\ \A i \in 1..a : P[i] = js[i] BY <1>1
<1> HIDE DEF X, P, l
<1>4. Y \in Seq(ParsedJob) /\ Len(Y) = a + l BY <1>1, <1>3 DEF l
<1>5. ASSUME NEW i \in 1..(a + l) PROVE X[i] = Y[i]
  <2>1. CASE i <= a
    <3>1. i \in 1..a BY <1>1, <2>1
    <3> QED BY <1>2, <1>3, <3>1
  <2>2. CASE i > a
    <3>1. i - a \in 1..l /\ a + (i - a) = i BY <1>1, <2>2
    <3>2. Y[i] = pt[i - a] BY <1>1, <1>3, <2>2 DEF l
    <3>3. js[a + (i - a)] = pt[i - a] BY <3>1 DEF l
    <3> QED BY <1>2, <3>1, <3>2, <3>3
  <2>3. i <= a \/ i > a BY <1>1
  <2> HIDE DEF Y
  <2> QED BY <2>1, <2>2, <2>3
<1> HIDE DEF Y
<1>6. X = Y BY <1>2, <1>4, <1>5, SeqEqual
<1> QED BY <1>6 DEF X, Y, P, l

(* The parts of a file one behind the other are like the jobs of its nodes    *)
(* written out, if each part is like the node.                                *)
LEMMA JoinedAlike ==
  ASSUME NEW nodes \in Seq(JobNode \cup IncludeNode), NEW c, NEW es \in Seq(Entry),
         Joined(es, Len(nodes), nodes, c),
         NEW den, \A k \in DOMAIN den : den[k] \in Seq(ParsedJob),
         \A i \in 1..Len(nodes) : /\ PartJobs(nodes[i], c) \in Seq(ParsedJob)
                                  /\ Alike(PartJobs(nodes[i], c), NodeJobs(nodes[i], den))
  PROVE  /\ Flat(nodes, den) \in Seq(ParsedJob)
         /\ Alike(JobsOf(es), Flat(nodes, den))
<1> DEFINE n  == Len(nodes)
           js == JobsOf(es)
<1>1. n \in Nat /\ Len(es) \in Nat OBVIOUS
<1>2. js \in Seq(ParsedJob) /\ Len(js) = Len(es) /\ \A i \in 1..Len(es) : js[i] = es[i].job
  BY MergeIsFirstWins DEF JobsOf
<1>3. PICK ends \in [0..n -> 0..Len(es)] : PartsEnd(es, n, nodes, c, ends) BY DEF Joined
<1>4. PICK u \in [Nat -> Seq(ParsedJob)] :
        /\ u[0] = << >> /\ Flat(nodes, den) = u[Len(nodes)]
        /\ \A i \in 1..Len(nodes) : u[i] = u[i - 1] \o NodeJobs(nodes[i], den)
  BY FlatFacts
<1> DEFINE pre(i) == SubSeq(js, 1, ends[i])
           S == {i \in Nat : i <= n => pre(i) \in Seq(ParsedJob) /\ Alike(pre(i), u[i])}
<1> HIDE DEF js, n
<1>5. \A i \in 1..n :
        /\ ends[i - 1] \in Nat /\ ends[i] \in 0..Len(es)
        /\ ends[i] = ends[i - 1] + Len(PartJobs(nodes[i], c))
        /\ \A m \in 1..Len(PartJobs(nodes[i], c)) : js[ends[i - 1] + m] = PartJobs(nodes[i], c)[m]
  <2> SUFFICES ASSUME NEW i \in 1..n
               PROVE  /\ ends[i - 1] \in Nat /\ ends[i] \in 0..Len(es)
                      /\ ends[i] = ends[i - 1] + Len(PartJobs(nodes[i], c))
                      /\ \A m \in 1..Len(PartJobs(nodes[i], c)) :
                           js[ends[i - 1] + m] = PartJobs(nodes[i], c)[m]
    OBVIOUS
  <2> DEFINE pj == PartJobs(nodes[i], c)
             pt == Part(nodes[i], c)
  <2>1. i \in 0..n /\ i - 1 \in 0..n BY <1>1
  <2>2. ends[i - 1] \in 0..Len(es) /\ ends[i] \in 0..Len(es) BY <1>3, <2>1
  <2>3. /\ pt \in Seq(Entry) /\ ends[i] = ends[i - 1] + Len(pt)
        /\ \A m \in 1..Len(pt) : es[ends[i - 1] + m] = pt[m]
    BY <1>3 DEF PartsEnd
  <2>4. pj \in Seq(ParsedJob) BY DEF n
  <2>5. DOMAIN pt = DOMAIN pj /\ \A m \in DOMAIN pj : pt[m].job = pj[m] BY DEF Part
  <2> HIDE DEF pt, pj
  <2>6. Len(pt) = Len(pj) BY <2>3, <2>4, <2>5
  <2>7. ASSUME NEW m \in 1..Len(pj) PROVE js[ends[i - 1] + m] = pj[m]
    <3>1. ends[i - 1] + m \in 1..Len(es)
      <4>1. Len(pj) \in Nat /\ ends[i - 1] + Len(pj) <= Len(es) BY <1>1, <2>2, <2>3, <2>4, <2>6
      <4>2. \A a, b, l \in Nat : \A y \in 1..b : a + b <= l => a + y \in 1..l OBVIOUS
      <4>3. ends[i - 1] \in Nat BY <1>1, <2>2
      <4> HIDE DEF pj
      <4> QED BY <1>1, <4>1, <4>2, <4>3
    <3>2. m \in 1..Len(pt) /\ m \in DOMAIN pj BY <2>4, <2>6
    <3>3. es[ends[i - 1] + m] = pt[m] /\ pt[m].job = pj[m] BY <2>3, <2>5, <3>2
    <3> QED BY <1>2, <3>1, <3>3
  <2>8. ends[i - 1] \in Nat BY <1>1, <2>2
  <2> QED BY <2>2, <2>3, <2>6, <2>7, <2>8 DEF pj
<1>6. 0 \in S
  <2>1. ends[0] = 0 BY <1>3 DEF PartsEnd
  <2>2. pre(0) = << >> BY <1>2, <2>1
  <2>3. << >> \in Seq(ParsedJob) OBVIOUS
  <2> HIDE DEF pre
  <2> QED BY <1>4, <2>2, <2>3, AlikeSelf
<1>7. ASSUME NEW i \in Nat, i \in S PROVE i + 1 \in S
  <2> SUFFICES ASSUME i + 1 <= n PROVE pre(i + 1) \in Seq(ParsedJob) /\ Alike(pre(i + 1), u[i + 1])
    OBVIOUS
  <2> DEFINE pj == PartJobs(nodes[i + 1], c)
             nj == NodeJobs(nodes[i + 1], den)
  <2>1. i + 1 \in 1..n /\ (i + 1) - 1 = i /\ i <= n /\ i + 1 \in Nat BY <1>1
  <2>2. pre(i) \in Seq(ParsedJob) /\ Alike(pre(i), u[i]) BY <1>7, <2>1
  <2>3. pj \in Seq(ParsedJob) /\ Alike(pj, nj) BY <2>1 DEF n
  <2>4. nj \in Seq(ParsedJob)
    <3>1. nodes[i + 1] \in JobNode \cup IncludeNode BY <2>1 DEF n
    <3> QED BY <3>1, NodeJobsType
  <2>5. u[i + 1] = u[i] \o nj BY <1>4, <2>1 DEF n
  <2>6. /\ ends[i] \in Nat /\ ends[i + 1] \in 0..Len(es) /\ ends[i + 1] = ends[i] + Len(pj)
        /\ \A m \in 1..Len(pj) : js[ends[i] + m] = pj[m]
    BY <1>5, <2>1
  <2> HIDE DEF pj, nj
  <2>7. ends[i] + Len(pj) <= Len(js) BY <1>1, <1>2, <2>6
  <2>8. pre(i + 1) = pre(i) \o pj BY <1>2, <2>3, <2>6, <2>7, PrefixGrows
  <2> HIDE DEF pre
  <2>9. u[i] \in Seq(ParsedJob) BY <1>4
  <2>10. Alike(pre(i) \o pj, u[i] \o nj) BY <2>2, <2>3, <2>4, <2>9, AlikeBoth
  <2>11. pre(i) \o pj \in Seq(ParsedJob) BY <2>2, <2>3
  <2> QED BY <2>5, <2>8, <2>10, <2>11
<1>8. n \in S
  <2> HIDE DEF S
  <2> QED BY <1>1, <1>6, <1>7, EveryNat DEF n
<1>9. Alike(pre(n), u[n]) BY <1>1, <1>8 DEF n
<1>10. pre(n) = js
  <2>1. ends[n] = Len(js) BY <1>2, <1>3 DEF PartsEnd
  <2> QED BY <1>2, <2>1
<1>11. u[n] \in Seq(ParsedJob) BY <1>1, <1>4 DEF n
<1> HIDE DEF pre
<1> QED BY <1>4, <1>9, <1>10, <1>11 DEF n, js

(* What a cached file reaches: files in the cache, not itself.               *)
LEMMA CachedReach ==
  ASSUME IncludesInv, NEW k \in DOMAIN cache
  PROVE  /\ k[1] \in DOMAIN files /\ Reach[k[1]] \subseteq DOMAIN files /\ k[1] \notin Reach[k[1]]
         /\ IsFiniteSet(DOMAIN files) /\ IsFiniteSet(Reach[k[1]]) /\ Cardinality(DOMAIN files) \in Nat
         /\ Cardinality(Reach[k[1]]) \in Nat /\ Cardinality(Reach[k[1]]) < Cardinality(DOMAIN files)
<1> DEFINE D == {x[1] : x \in DOMAIN cache}
           R == Reach[k[1]]
<1>1. PathInv /\ CacheInv BY DEF IncludesInv
<1>2. ASSUME NEW x \in DOMAIN cache PROVE x[1] \in DOMAIN files BY <1>1 DEF CacheInv, Accepted
<1>3. D \in SUBSET DOMAIN files BY <1>2
<1>4. ASSUME NEW x \in DOMAIN cache PROVE IncludesOf(x[1]) \subseteq D
  <2>1. \A i \in DOMAIN files[x[1]].nodes : Resolved(files[x[1]].nodes[i], DOMAIN cache)
    BY <1>1 DEF CacheInv
  <2> QED BY <2>1, ResolvedIncludes
<1>5. Closed(D) BY <1>4 DEF Closed
<1>6. D \in SUBSET Mentioned BY <1>3 DEF Mentioned
<1>7. Reaches(IncludesOf(k[1])) \subseteq D
  <2>1. IncludesOf(k[1]) \subseteq D BY <1>4
  <2> HIDE DEF D
  <2> QED BY <1>5, <1>6, <2>1, ReachesWithin
<1>8. R \subseteq DOMAIN files BY <1>2, <1>3, <1>7 DEF Reach
<1>9. k[1] \notin R BY <1>1, <1>2 DEF CacheInv, Loops, Loop, Reach
<1>10. IsFiniteSet(DOMAIN files) BY <1>1, IncludesAssumption DEF PathInv
<1>11. /\ IsFiniteSet(R) /\ Cardinality(R) <= Cardinality(DOMAIN files)
       /\ (R # DOMAIN files => Cardinality(R) # Cardinality(DOMAIN files))
  <2> HIDE DEF R
  <2> QED BY <1>8, <1>10, FS_Subset
<1>12. Cardinality(R) \in Nat /\ Cardinality(DOMAIN files) \in Nat BY <1>10, <1>11, FS_CardinalityType
<1>13. R # DOMAIN files BY <1>2, <1>9
<1>14. Cardinality(R) < Cardinality(DOMAIN files)
  <2> HIDE DEF R
  <2> QED BY <1>11, <1>12, <1>13
<1> QED BY <1>2, <1>8, <1>9, <1>10, <1>11, <1>12, <1>14

(* An include reaches less than the file it is in. *)
LEMMA ReachShrinks ==
  ASSUME IncludesInv, NEW k \in DOMAIN cache, NEW g \in DOMAIN cache, g[1] \in IncludesOf(k[1])
  PROVE  Cardinality(Reach[g[1]]) < Cardinality(Reach[k[1]])
<1> DEFINE C == Reaches(IncludesOf(k[1]))
<1>1. /\ k[1] \in DOMAIN files /\ g[1] \in DOMAIN files /\ IsFiniteSet(Reach[k[1]])
      /\ g[1] \notin Reach[g[1]] /\ Cardinality(Reach[g[1]]) \in Nat /\ Cardinality(Reach[k[1]]) \in Nat
  BY CachedReach
<1>2. IncludesOf(k[1]) \subseteq Mentioned BY <1>1 DEF Mentioned
<1>3. g[1] \in C BY <1>2, ReachesSelf
<1>4. \A f \in C \cap DOMAIN files : IncludesOf(f) \subseteq C BY ReachesStep
<1>5. C \in SUBSET Mentioned BY DEF Reaches
<1>6. Reaches(IncludesOf(g[1])) \subseteq C
  <2>1. Closed(C) BY <1>4 DEF Closed
  <2>2. IncludesOf(g[1]) \subseteq C BY <1>1, <1>3, <1>4
  <2> HIDE DEF C
  <2> QED BY <1>5, <2>1, <2>2, ReachesWithin
<1>7. Reach[g[1]] \subseteq Reach[k[1]] /\ g[1] \in Reach[k[1]] BY <1>1, <1>3, <1>6 DEF Reach
<1>8. /\ Cardinality(Reach[g[1]]) <= Cardinality(Reach[k[1]])
      /\ Cardinality(Reach[g[1]]) = Cardinality(Reach[k[1]]) => Reach[g[1]] = Reach[k[1]]
  BY <1>1, <1>7, FS_Subset
<1> QED BY <1>1, <1>7, <1>8

(* A file whose includes have been written out n levels deep is written out   *)
(* one level deeper.                                                          *)
LEMMA WrittenOut ==
  ASSUME IncludesInv, NEW f \in DOMAIN files, NEW es \in Seq(Entry), NEW n \in Nat,
         Joined(es, Len(files[f].nodes), files[f].nodes, cache),
         \A x \in IncludesIn(f) :
           /\ <<x.file, x.arg>> \in DOMAIN cache /\ <<x.file, x.arg>> \in Keys
           /\ Alike(cache[<<x.file, x.arg>>].jobs, Written[n][<<x.file, x.arg>>])
  PROVE  /\ Flat(files[f].nodes, Written[n]) \in Seq(ParsedJob)
         /\ Alike(JobsOf(es), Flat(files[f].nodes, Written[n]))
<1> DEFINE nodes == files[f].nodes
           den   == Written[n]
<1>1. PathInv /\ CacheInv BY DEF IncludesInv
<1>2. nodes \in Seq(JobNode \cup IncludeNode) BY <1>1, NodeFacts
<1>3. den \in [Keys -> Seq(ParsedJob)] BY <1>1, WrittenFacts
<1>4. \A k \in DOMAIN den : den[k] \in Seq(ParsedJob) BY <1>3
<1>5. ASSUME NEW i \in 1..Len(nodes)
      PROVE  /\ PartJobs(nodes[i], cache) \in Seq(ParsedJob)
             /\ Alike(PartJobs(nodes[i], cache), NodeJobs(nodes[i], den))
  <2> DEFINE x == nodes[i]
  <2>1. x \in JobNode \cup IncludeNode /\ i \in DOMAIN nodes BY <1>2
  <2>2. NodeJobs(x, den) \in Seq(ParsedJob) BY <1>4, <2>1, NodeJobsType
  <2>3. CASE x.type = "job"
    <3>1. PartJobs(x, cache) = NodeJobs(x, den) BY <2>3 DEF PartJobs, NodeJobs
    <3> QED BY <2>2, <3>1, AlikeSelf
  <2>4. CASE x.type = "include"
    <3> DEFINE k == <<x.file, x.arg>>
    <3>1. x \in IncludesIn(f) BY <1>1, <2>1, <2>4, NodeFacts
    <3>2. k \in DOMAIN cache /\ k \in Keys /\ Alike(cache[k].jobs, den[k]) BY <3>1
    <3>3. PartJobs(x, cache) = cache[k].jobs BY <2>4 DEF PartJobs
    <3>4. NodeJobs(x, den) = den[k] BY <1>3, <2>4, <3>2 DEF NodeJobs
    <3>5. cache[k].jobs \in Seq(ParsedJob) BY <1>1, <3>2 DEF CacheInv
    <3> HIDE DEF k, x, den
    <3> QED BY <3>2, <3>3, <3>4, <3>5 DEF x
  <2>5. x.type = "job" \/ x.type = "include" BY <2>1 DEF JobNode, IncludeNode
  <2> QED BY <2>3, <2>4, <2>5
<1> HIDE DEF nodes, den
<1>6. Flat(nodes, den) \in Seq(ParsedJob) /\ Alike(JobsOf(es), Flat(nodes, den))
  <2>1. Joined(es, Len(nodes), nodes, cache) BY DEF nodes
  <2> QED BY <1>2, <1>4, <1>5, <2>1, JoinedAlike
<1> QED BY <1>6 DEF nodes, den

LEMMA IncludeKeys ==
  ASSUME NEW f \in DOMAIN files, NEW x \in IncludesIn(f), x.file \in DOMAIN files
  PROVE  <<x.file, x.arg>> \in Keys
<1>1. x.arg \in Args BY DEF Args
<1> QED BY <1>1 DEF Keys

(* What is in the cache is what the file is with its includes written out,    *)
(* by induction on the number of files that it reaches.                       *)
LEMMA CacheAsWritten ==
  ASSUME IncludesInv, MeaningInv
  PROVE  \A n \in Nat : \A k \in DOMAIN cache \cap Keys :
           Cardinality(Reach[k[1]]) < n => Alike(cache[k].jobs, Written[n][k])
<1> DEFINE S == {n \in Nat : \A k \in DOMAIN cache \cap Keys :
                   Cardinality(Reach[k[1]]) < n => Alike(cache[k].jobs, Written[n][k])}
<1>1. PathInv /\ CacheInv BY DEF IncludesInv
<1>2. 0 \in S
  <2>1. \A k \in DOMAIN cache : ~(Cardinality(Reach[k[1]]) < 0) BY CachedReach
  <2> QED BY <2>1
<1>3. ASSUME NEW n \in Nat, n \in S PROVE n + 1 \in S
  <2> SUFFICES ASSUME NEW k \in DOMAIN cache \cap Keys, Cardinality(Reach[k[1]]) < n + 1
               PROVE  Alike(cache[k].jobs, Written[n + 1][k])
    OBVIOUS
  <2> DEFINE f == k[1]
  <2>1. f \in DOMAIN files /\ Cardinality(Reach[f]) \in Nat BY CachedReach
  <2>2. k[2] \in Arg
    <3>1. k \in (DOMAIN files) \X Arg BY <1>1 DEF CacheInv, Accepted
    <3> QED BY <3>1
  <2>3. PICK es \in Seq(Entry) :
          /\ Joined(es, Len(files[f].nodes), files[f].nodes, cache)
          /\ cache[k].jobs = SubstituteParams(MergeJobs(es), f, k[2])
    BY DEF MeaningInv, StandsFor
  <2>4. ASSUME NEW x \in IncludesIn(f)
        PROVE  /\ <<x.file, x.arg>> \in DOMAIN cache /\ <<x.file, x.arg>> \in Keys
               /\ Alike(cache[<<x.file, x.arg>>].jobs, Written[n][<<x.file, x.arg>>])
    <3> DEFINE g == <<x.file, x.arg>>
    <3>1. x.type = "include" /\ \E i \in DOMAIN files[f].nodes : files[f].nodes[i] = x
      BY IncludeFacts
    <3>2. g \in DOMAIN cache
      <4>1. \A i \in DOMAIN files[f].nodes : Resolved(files[f].nodes[i], DOMAIN cache)
        BY <1>1 DEF CacheInv
      <4> QED BY <3>1, <4>1 DEF Resolved
    <3>3. g[1] = x.file /\ g[1] \in IncludesOf(f) BY DEF IncludesOf
    <3>4. g[1] \in DOMAIN files /\ Cardinality(Reach[g[1]]) \in Nat BY <3>2, CachedReach
    <3>5. g \in Keys BY <2>1, <3>3, <3>4, IncludeKeys
    <3>6. Cardinality(Reach[g[1]]) < Cardinality(Reach[k[1]]) BY <3>2, <3>3, ReachShrinks
    <3>7. Cardinality(Reach[g[1]]) < n BY <2>1, <3>4, <3>6
    <3> HIDE DEF g
    <3>8. Alike(cache[g].jobs, Written[n][g]) BY <1>3, <3>2, <3>5, <3>7
    <3> QED BY <3>2, <3>5, <3>8 DEF g
  <2> DEFINE flat == Flat(files[f].nodes, Written[n])
  <2>5. flat \in Seq(ParsedJob) /\ Alike(JobsOf(es), flat) BY <2>1, <2>3, <2>4, WrittenOut
  <2>6. /\ JobsOf(es) \in Seq(ParsedJob) /\ MergeJobs(es) \in Seq(ParsedJob)
        /\ Alike(MergeJobs(es), JobsOf(es))
    BY MergeIsFirstWins, FirstWinsFacts
  <2>7. Alike(MergeJobs(es), flat)
    <3> HIDE DEF flat
    <3> QED BY <2>5, <2>6, AlikeTransitive
  <2>8. Alike(SubstituteParams(MergeJobs(es), f, k[2]), SubstituteParams(flat, f, k[2]))
    <3> HIDE DEF flat
    <3> QED BY <2>2, <2>5, <2>6, <2>7, AlikeSubstituted
  <2>9. Written[n + 1][k] = SubstituteParams(flat, f, k[2]) BY <1>1, WrittenFacts
  <2> QED BY <2>3, <2>8, <2>9
<1> HIDE DEF S
<1>4. \A n \in Nat : n \in S BY <1>2, <1>3, EveryNat
<1> QED BY <1>4 DEF S

(* A pipeline with includes that is accepted is, for every set of files, the  *)
(* pipeline one gets by writing the included jobs in place of the includes,   *)
(* parameters replaced and the first of a name winning: neither the cache of  *)
(* resolveInclude nor the order in which parseIncludedFile merges and         *)
(* substitutes shows in the result.                                           *)
THEOREM PipelineAsWritten == Spec => []ResolvesAsWritten
<1>1. ASSUME IncludesInv, MeaningInv, result = "ok" PROVE jobs = Meaning(Root, NoArg)
  <2> DEFINE n == Cardinality(DOMAIN files)
             k == <<Root, NoArg>>
             flat == Flat(files[Root].nodes, Written[n])
  <2>1. PathInv /\ CacheInv /\ files \in Documents BY <1>1 DEF IncludesInv, PathInv
  <2>2. Root \in DOMAIN files /\ files[Root].param = "none" /\ IsFiniteSet(DOMAIN files)
    BY <2>1, IncludesAssumption
  <2>3. n \in Nat BY <2>2, FS_CardinalityType
  <2>4. PICK es \in Seq(Entry) :
          Joined(es, Len(files[Root].nodes), files[Root].nodes, cache) /\ jobs = MergeJobs(es)
    <3>1. SolvesEquations BY <1>1, EquationsSolved
    <3> QED BY <3>1 DEF SolvesEquations
  <2>5. ASSUME NEW x \in IncludesIn(Root)
        PROVE  /\ <<x.file, x.arg>> \in DOMAIN cache /\ <<x.file, x.arg>> \in Keys
               /\ Alike(cache[<<x.file, x.arg>>].jobs, Written[n][<<x.file, x.arg>>])
    <3> DEFINE g == <<x.file, x.arg>>
    <3>1. x.type = "include" /\ \E i \in DOMAIN files[Root].nodes : files[Root].nodes[i] = x
      BY IncludeFacts
    <3>2. g \in DOMAIN cache BY <1>1, <3>1, AcceptedGraph DEF Resolved
    <3>3. g[1] \in DOMAIN files /\ Cardinality(Reach[g[1]]) < n BY <1>1, <3>2, CachedReach
    <3>4. g \in Keys BY <2>2, <3>3, IncludeKeys
    <3> HIDE DEF g, n
    <3>5. Alike(cache[g].jobs, Written[n][g]) BY <1>1, <2>3, <3>2, <3>3, <3>4, CacheAsWritten
    <3> QED BY <3>2, <3>4, <3>5 DEF g
  <2> HIDE DEF n
  <2>6. flat \in Seq(ParsedJob) /\ Alike(JobsOf(es), flat) BY <1>1, <2>2, <2>3, <2>4, <2>5, WrittenOut
  <2>7. jobs = FirstWins(JobsOf(es)) /\ JobsOf(es) \in Seq(ParsedJob) BY <2>4, MergeIsFirstWins
  <2>8. Written[n + 1][k] = flat
    <3>1. k \in Keys /\ k[1] = Root /\ k[2] = NoArg BY <2>2 DEF Keys, Args
    <3>2. Written[n + 1][k] = SubstituteParams(Flat(files[k[1]].nodes, Written[n]), k[1], k[2])
      BY <2>1, <2>3, <3>1, WrittenFacts
    <3> HIDE DEF k
    <3>3. Written[n + 1][k] = SubstituteParams(flat, Root, NoArg) BY <3>1, <3>2
    <3> QED BY <2>2, <3>3 DEF SubstituteParams
  <2>9. FirstWins(JobsOf(es)) = FirstWins(flat)
    <3> HIDE DEF flat
    <3> QED BY <2>6, <2>7, AlikeSameResult
  <2>10. Meaning(Root, NoArg) = FirstWins(Written[n + 1][k]) BY DEF Meaning, n
  <2> QED BY <2>7, <2>8, <2>9, <2>10
<1>2. IncludesInv /\ MeaningInv /\ (result = "ok" => ArgumentsAccepted) => ResolvesAsWritten
  BY <1>1 DEF ResolvesAsWritten
<1> QED BY <1>2, MeaningHolds, IncludesAccepted, PTL
-----------------------------------------------------------------------------
(* What an alias was made for.                                               *)

(* Every alias stands for the terminal jobs of a file in the cache, and the   *)
(* jobs of that file are among those some open file has collected.            *)
OriginInv ==
  /\ DOMAIN origin = DOMAIN aliases
  /\ \A a \in DOMAIN aliases :
       /\ <<origin[a].file, origin[a].arg>> \in DOMAIN cache \cap Keys
       /\ aliases[a] = TerminalJobs(cache[<<origin[a].file, origin[a].arg>>].jobs)
  /\ \A k \in DOMAIN cache : \E p \in 1..Len(stack) :
       JobNames(cache[k].jobs) \subseteq NamesIn(stack[p].entries)

(* No name that was collected is lost. *)
NamesStay ==
  \A p \in 1..Len(stack) : \E q \in 1..Len(stack') :
    NamesIn(stack[p].entries) \subseteq NamesIn(stack'[q].entries)

LEMMA KeysFixed == ASSUME UNCHANGED files PROVE Keys' = Keys
BY DEF Keys, Args, IncludesIn

LEMMA OriginKept ==
  ASSUME OriginInv, UNCHANGED <<files, cache, aliases, origin>>, NamesStay PROVE OriginInv'
<1>1. ASSUME NEW k \in DOMAIN cache
      PROVE  \E q \in 1..Len(stack') : JobNames(cache[k].jobs) \subseteq NamesIn(stack'[q].entries)
  BY DEF OriginInv, NamesStay
<1> QED BY <1>1, KeysFixed DEF OriginInv

LEMMA OriginSame ==
  ASSUME OriginInv, UNCHANGED <<files, stack, cache, aliases, origin>> PROVE OriginInv'
<1>1. NamesStay BY DEF NamesStay
<1> QED BY <1>1, OriginKept

LEMMA OriginDelivered ==
  ASSUME OriginInv, UNCHANGED files, NamesStay, NEW key \in DOMAIN cache' \cap Keys, NEW alias, NEW js,
         js = cache'[key].jobs, DOMAIN cache' \subseteq DOMAIN cache \cup {key},
         \A k \in DOMAIN cache : k \in DOMAIN cache' /\ cache'[k] = cache[k],
         aliases' = Put(aliases, alias, TerminalJobs(js)),
         NEW o, o.file = key[1], o.arg = key[2], origin' = Put(origin, alias, o),
         NEW n, n \in 1..Len(stack'), JobNames(js) \subseteq NamesIn(stack'[n].entries)
  PROVE  OriginInv'
<1>1. DOMAIN aliases' = DOMAIN aliases \cup {alias} /\ DOMAIN origin' = DOMAIN origin \cup {alias}
  BY DEF Put
<1>2. aliases'[alias] = TerminalJobs(js) /\ origin'[alias] = o BY DEF Put
<1>3. \A a \in DOMAIN aliases : a # alias => aliases'[a] = aliases[a] BY DEF Put
<1>4. \A a \in DOMAIN origin : a # alias => origin'[a] = origin[a] BY DEF Put
<1>5. key = <<o.file, o.arg>>
  <2>1. key \in (DOMAIN files) \X Args BY DEF Keys
  <2> QED BY <2>1
<1>6. ASSUME NEW a \in DOMAIN aliases'
      PROVE  /\ <<origin'[a].file, origin'[a].arg>> \in DOMAIN cache' \cap Keys
             /\ aliases'[a] = TerminalJobs(cache'[<<origin'[a].file, origin'[a].arg>>].jobs)
  <2>1. CASE a = alias BY <1>2, <1>5, <2>1
  <2>2. CASE a # alias
    <3>1. a \in DOMAIN aliases /\ a \in DOMAIN origin BY <1>1, <2>2 DEF OriginInv
    <3>2. aliases'[a] = aliases[a] /\ origin'[a] = origin[a] BY <1>3, <1>4, <2>2, <3>1
    <3> DEFINE k == <<origin[a].file, origin[a].arg>>
    <3>3. k \in DOMAIN cache \cap Keys /\ aliases[a] = TerminalJobs(cache[k].jobs)
      BY <3>1 DEF OriginInv
    <3> HIDE DEF k
    <3>4. k \in DOMAIN cache' \cap Keys /\ aliases'[a] = TerminalJobs(cache'[k].jobs) BY <3>2, <3>3
    <3> QED BY <3>2, <3>4 DEF k
  <2> QED BY <2>1, <2>2
<1>7. ASSUME NEW k \in DOMAIN cache'
      PROVE  \E p \in 1..Len(stack') : JobNames(cache'[k].jobs) \subseteq NamesIn(stack'[p].entries)
  <2>1. CASE k = key BY <2>1
  <2>2. CASE k # key
    <3>1. k \in DOMAIN cache /\ cache'[k] = cache[k] BY <2>2
    <3>2. PICK p \in 1..Len(stack) : JobNames(cache[k].jobs) \subseteq NamesIn(stack[p].entries)
      BY <3>1 DEF OriginInv
    <3> QED BY <3>1, <3>2 DEF NamesStay
  <2> QED BY <2>1, <2>2
<1>8. DOMAIN origin' = DOMAIN aliases' BY <1>1 DEF OriginInv
<1> QED BY <1>6, <1>7, <1>8, KeysFixed DEF OriginInv

LEMMA OriginReadJob == ASSUME IncludesInv, OriginInv, ReadJob PROVE OriginInv'
<1> DEFINE j  == [name |-> Node.name, deps |-> Node.deps, text |-> Node.text]
           js == <<j>>
           n  == Len(stack)
<1>1. js \in Seq(ParsedJob)
  <2>1. Node \in JobNode BY TopFacts DEF ReadJob
  <2>2. Node.name \in STRING /\ Node.deps \in SUBSET STRING /\ Node.text \in STRING
    BY <2>1 DEF JobNode
  <2>3. j \in ParsedJob BY <2>2 DEF ParsedJob
  <2> HIDE DEF j
  <2> QED BY <2>3
<1>2. /\ UNCHANGED <<files, cache, aliases, origin>> /\ Node.type = "job"
      /\ stack' = [stack EXCEPT ![n] = Collect(@, js, FALSE)]
  BY DEF ReadJob, AtJob
<1>3. n \in 1..Len(stack) /\ stack \in Seq(Frames) BY TopFacts DEF IncludesInv, PathInv
<1>4. Resolved(files[stack[n].file].nodes[stack[n].at], DOMAIN cache')
  BY <1>2 DEF Resolved, Node, Nodes, Top
<1> HIDE DEF js
<1>5. /\ Len(stack') = n
      /\ \A p \in 1..n : NamesIn(stack[p].entries) \subseteq NamesIn(stack'[p].entries)
  BY <1>1, <1>2, <1>3, <1>4, Advance
<1>6. NamesStay BY <1>5 DEF NamesStay
<1> QED BY <1>2, <1>6, OriginKept

LEMMA OriginEnter == ASSUME IncludesInv, OriginInv, Enter PROVE OriginInv'
<1> DEFINE n  == Len(stack)
           fr == Frame(Node.file, Node.arg)
<1>1. UNCHANGED <<files, cache, aliases, origin>> /\ stack' = Append(stack, fr) BY DEF Enter
<1>2. n \in Nat /\ stack \in Seq(Frames) BY TopFacts DEF IncludesInv, PathInv
<1>3. Len(stack') = n + 1 /\ \A p \in 1..n : stack'[p] = stack[p] /\ p \in 1..(n + 1)
  <2> HIDE DEF fr
  <2> QED BY <1>1, <1>2
<1>4. NamesStay BY <1>3 DEF NamesStay
<1> QED BY <1>1, <1>4, OriginKept

LEMMA OriginFromCache == ASSUME IncludesInv, OriginInv, FromCache PROVE OriginInv'
<1>1. CASE Stop("alias") BY <1>1, OriginSame DEF Stop
<1>2. CASE ~Stop("alias")
  <2> DEFINE n   == Len(stack)
             key == <<Node.file, Node.arg>>
             js  == cache[key].jobs
             o   == [file |-> Node.file, arg |-> Node.arg]
             alias == AliasFor(Node, CachedFor(Node).name)
  <2>1. /\ UNCHANGED <<files, cache>> /\ AtInclude /\ Node.type = "include" /\ key \in DOMAIN cache
        /\ aliases' = Put(aliases, alias, TerminalJobs(js)) /\ origin' = Put(origin, alias, o)
        /\ stack' = [stack EXCEPT ![n] = Collect(@, js, Node.skip)]
    BY <1>2 DEF FromCache, CanPush, AtInclude, Cached, CachedFor, Deliver, cacheKey
  <2>2. n \in 1..Len(stack) /\ stack \in Seq(Frames) BY TopFacts DEF IncludesInv, PathInv
  <2>3. js \in Seq(ParsedJob) BY <2>1 DEF IncludesInv, CacheInv
  <2>4. Node.skip \in BOOLEAN BY <2>1, TopFacts DEF IncludeNode
  <2>5. Resolved(files[stack[n].file].nodes[stack[n].at], DOMAIN cache')
    BY <2>1 DEF Node, Nodes, Top, Resolved
  <2>6. key \in Keys
    <3>1. Top.file \in DOMAIN files /\ Top.at \in DOMAIN files[Top.file].nodes BY <2>1, TopFacts
    <3>2. Node \in IncludesIn(Top.file) BY <2>1, <3>1, NodeFacts DEF IncludesInv, Node, Nodes
    <3>3. key \in Accepted BY <2>1 DEF IncludesInv, CacheInv
    <3>4. Node.file \in DOMAIN files BY <3>3 DEF Accepted
    <3> QED BY <3>1, <3>2, <3>4, IncludeKeys
  <2>7. o.file = key[1] /\ o.arg = key[2] OBVIOUS
  <2> HIDE DEF js, alias, o, key
  <2>8. /\ Len(stack') = n
        /\ \A p \in 1..n : NamesIn(stack[p].entries) \subseteq NamesIn(stack'[p].entries)
        /\ JobNames(js) \subseteq NamesIn(stack'[n].entries)
    BY <2>1, <2>2, <2>3, <2>4, <2>5, Advance
  <2>9. NamesStay BY <2>8 DEF NamesStay
  <2>10. js = cache'[key].jobs /\ key \in DOMAIN cache' \cap Keys /\ n \in 1..Len(stack')
    BY <2>1, <2>2, <2>6, <2>8 DEF js
  <2>11. /\ DOMAIN cache' \subseteq DOMAIN cache \cup {key}
         /\ \A k \in DOMAIN cache : k \in DOMAIN cache' /\ cache'[k] = cache[k]
    BY <2>1
  <2> HIDE DEF n
  <2> QED BY <2>1, <2>7, <2>8, <2>9, <2>10, <2>11, OriginDelivered
<1> QED BY <1>1, <1>2

LEMMA OriginLeave == ASSUME IncludesInv, MeaningInv, OriginInv, Leave PROVE OriginInv'
<1> DEFINE n     == Len(stack) - 1
           f     == Top.file
           below == SubSeq(stack, 1, n)
           inc   == files[below[n].file].nodes[below[n].at]
           js    == SubstituteParams(MergeJobs(Top.entries), f, Top.arg)
           alias == AliasFor(inc, files[f].name)
           key   == <<f, Top.arg>>
           o     == [file |-> inc.file, arg |-> Top.arg]
           entry == [name |-> files[f].name, jobs |-> js]
<1>1. CASE Stop("conflict") \/ Stop("params") \/ Stop("alias") BY <1>1, OriginSame DEF Stop
<1>2. CASE ~(Stop("conflict") \/ Stop("params") \/ Stop("alias"))
  <2>1. PathInv /\ CacheInv BY DEF IncludesInv
  <2>2. AtEnd /\ Len(stack) > 1 BY DEF Leave
  <2>3. /\ Len(stack) \in Nat \ {0} /\ Top \in Frames /\ f \in DOMAIN files /\ Top.arg \in Arg
        /\ Top.entries \in Seq(Entry)
    BY TopFacts
  <2>4. n \in 1..Len(stack) /\ n \in Nat \ {0} /\ n + 1 = Len(stack)
    <3>1. Len(stack) \in Nat BY <2>3
    <3>2. Len(stack) > 1 BY <2>2
    <3>3. \A l \in Nat : l > 1 => l - 1 \in 1..l /\ l - 1 \in Nat \ {0} /\ l - 1 + 1 = l
      OBVIOUS
    <3> QED BY <3>1, <3>2, <3>3
  <2>5. /\ below \in Seq(Frames) /\ Len(below) = n /\ \A p \in 1..n : below[p] = stack[p]
    BY <2>1, <2>4 DEF PathInv
  <2>6. /\ Deliver(below, inc, Top.arg, files[f].name, js) /\ cache' = Put(cache, key, entry)
    BY <1>2, <2>5 DEF Leave, cacheKey
  <2>7. /\ UNCHANGED files /\ stack' = [below EXCEPT ![n] = Collect(@, js, inc.skip)]
        /\ aliases' = Put(aliases, alias, TerminalJobs(js)) /\ origin' = Put(origin, alias, o)
    BY <2>5, <2>6 DEF Deliver
  <2>8. js \in Seq(ParsedJob) /\ JobNames(js) = NamesIn(Top.entries)
    BY <2>3, MergeFacts, SubstituteFacts
  <2>9. WaitsFor(stack[n], Top)
    <3>1. n \in 1..(Len(stack) - 1) BY <2>4
    <3> QED BY <2>1, <2>4, <3>1 DEF PathInv, Top
  <2>10. below[n] = stack[n] /\ stack[n].file \in DOMAIN files
    <3>1. below[n] = stack[n] /\ below[n] \in Frames BY <2>4, <2>5
    <3> QED BY <3>1 DEF Frames
  <2>11. /\ inc.skip \in BOOLEAN /\ inc.file = f /\ inc.arg = Top.arg
         /\ inc \in IncludesIn(stack[n].file)
         /\ inc = files[stack[n].file].nodes[stack[n].at]
    <3>1. inc \in IncludeNode /\ inc \in IncludesIn(stack[n].file)
      BY <2>1, <2>9, <2>10, NodeFacts DEF WaitsFor
    <3> QED BY <2>9, <2>10, <3>1 DEF WaitsFor, IncludeNode
  <2>12. key \notin DOMAIN cache
    <3>1. Len(stack) \in 2..Len(stack) BY <2>2, <2>3
    <3> QED BY <3>1 DEF MeaningInv, Top
  <2>13. /\ DOMAIN cache' = DOMAIN cache \cup {key} /\ cache'[key] = entry
         /\ \A k \in DOMAIN cache : cache'[k] = cache[k]
    BY <2>6, <2>12 DEF Put
  <2>14. Resolved(files[stack[n].file].nodes[stack[n].at], DOMAIN cache')
    BY <2>11, <2>13 DEF Resolved
  <2>15. key \in Keys BY <2>3, <2>10, <2>11, IncludeKeys
  <2>16. o.file = key[1] /\ o.arg = key[2] BY <2>11
  <2>17. js = cache'[key].jobs BY <2>13
  <2> HIDE DEF n, below, inc, js, alias, entry, o, key, f
  <2>18. /\ Len(stack') = n
         /\ \A p \in 1..n : NamesIn(stack[p].entries) \subseteq NamesIn(stack'[p].entries)
         /\ JobNames(js) \subseteq NamesIn(stack'[n].entries)
    BY <2>4, <2>5, <2>7, <2>8, <2>11, <2>13, <2>14, Advance
  <2>19. NamesStay
    <3> SUFFICES ASSUME NEW p \in 1..Len(stack)
                 PROVE  \E q \in 1..n : NamesIn(stack[p].entries) \subseteq NamesIn(stack'[q].entries)
      BY <2>18 DEF NamesStay
    <3>1. n \in 1..n BY <2>4
    <3>2. CASE p \in 1..n BY <2>18, <3>2
    <3>3. CASE p = n + 1
      <4>1. NamesIn(stack[p].entries) = JobNames(js) BY <2>4, <2>8, <3>3 DEF Top
      <4> QED BY <2>18, <3>1, <4>1
    <3>4. p \in 1..n \/ p = n + 1 BY <2>4
    <3> QED BY <3>2, <3>3, <3>4
  <2>20. n \in 1..Len(stack') BY <2>4, <2>18
  <2> QED BY <2>7, <2>13, <2>15, <2>16, <2>17, <2>18, <2>19, <2>20, OriginDelivered
<1> QED BY <1>1, <1>2

LEMMA OriginInit == Init => OriginInv
BY DEF Init, OriginInv

LEMMA OriginStep == IncludesInv /\ MeaningInv /\ OriginInv /\ [Next]_vars => OriginInv'
<1> SUFFICES ASSUME IncludesInv, MeaningInv, OriginInv, [Next]_vars PROVE OriginInv' OBVIOUS
<1>1. CASE UNCHANGED vars BY <1>1, OriginSame DEF vars
<1>2. CASE PushFails BY <1>2, OriginSame DEF PushFails, Stop
<1>3. CASE Unusable BY <1>3, OriginSame DEF Unusable, Stop
<1>4. CASE Finish BY <1>4, OriginSame DEF Finish, Stop
<1> QED BY <1>1, <1>2, <1>3, <1>4, OriginReadJob, OriginFromCache, OriginEnter, OriginLeave DEF Next

LEMMA SubstituteFirsts ==
  ASSUME NEW js \in Seq(ParsedJob), NEW f, NEW arg
  PROVE  /\ DOMAIN SubstituteParams(js, f, arg) = DOMAIN js
         /\ Firsts(SubstituteParams(js, f, arg)) = Firsts(js)
<1> DEFINE ns == SubstituteParams(js, f, arg)
<1>1. DOMAIN ns = DOMAIN js /\ \A i \in DOMAIN js : ns[i].name = js[i].name
  <2>1. \A i \in DOMAIN js : js[i] \in ParsedJob OBVIOUS
  <2>2. \A j \in ParsedJob :
          [j EXCEPT !.text = IF @ = Placeholder THEN ParamValue(arg) ELSE @].name = j.name
    BY DEF ParsedJob
  <2> QED BY <2>1, <2>2 DEF SubstituteParams
<1>2. \A q \in DOMAIN js : \A p \in 1..(q - 1) : p \in DOMAIN js BY JobAt
<1> HIDE DEF ns
<1>3. Firsts(ns) = Firsts(js) BY <1>1, <1>2 DEF Firsts
<1> QED BY <1>1, <1>3 DEF ns

(* The jobs in the cache are those of the reference, each once. *)
LEMMA CachedJobs ==
  ASSUME IncludesInv, MeaningInv, NEW k \in DOMAIN cache \cap Keys
  PROVE  /\ JobNames(Meaning(k[1], k[2])) = JobNames(cache[k].jobs)
         /\ \A i \in DOMAIN cache[k].jobs : \E q \in DOMAIN Meaning(k[1], k[2]) :
              Meaning(k[1], k[2])[q] = cache[k].jobs[i]
<1> DEFINE c  == cache[k].jobs
           n  == Cardinality(DOMAIN files) + 1
           w  == Written[n][k]
           js == FirstWins(w)
<1>1. PathInv /\ CacheInv BY DEF IncludesInv
<1>2. c \in Seq(ParsedJob) BY <1>1 DEF CacheInv
<1>3. /\ Cardinality(DOMAIN files) \in Nat /\ Cardinality(Reach[k[1]]) \in Nat
      /\ Cardinality(Reach[k[1]]) < Cardinality(DOMAIN files) /\ k[1] \in DOMAIN files
  BY CachedReach
<1>4. n \in Nat /\ Cardinality(Reach[k[1]]) < n BY <1>3
<1> HIDE DEF n
<1>5. w \in Seq(ParsedJob)
  <2>1. Written[n] \in [Keys -> Seq(ParsedJob)] BY <1>1, <1>4, WrittenFacts
  <2> QED BY <2>1
<1>6. Alike(c, w) BY <1>4, CacheAsWritten
<1>7. k = <<k[1], k[2]>>
  <2>1. k \in (DOMAIN files) \X Args BY DEF Keys
  <2> QED BY <2>1
<1>8. Meaning(k[1], k[2]) = js BY <1>7 DEF Meaning, n
<1>9. Firsts(c) = DOMAIN c
  <2>1. PICK es \in Seq(Entry) : c = SubstituteParams(MergeJobs(es), k[1], k[2])
    BY DEF MeaningInv, StandsFor
  <2>2. Firsts(MergeJobs(es)) = DOMAIN MergeJobs(es) /\ MergeJobs(es) \in Seq(ParsedJob)
    BY MergeIsFirstWins, FirstWinsFacts
  <2> QED BY <2>1, <2>2, SubstituteFirsts
<1> HIDE DEF c, w, js
<1>10. js \in Seq(ParsedJob) /\ Alike(js, w) BY <1>5, FirstWinsFacts DEF js
<1>11. Alike(c, js)
  <2>1. Alike(w, js) BY <1>5, <1>10, AlikeSymmetric
  <2> QED BY <1>2, <1>5, <1>6, <1>10, <2>1, AlikeTransitive
<1>12. ASSUME NEW i \in DOMAIN c PROVE \E q \in DOMAIN js : js[q] = c[i]
  <2>1. i \in Firsts(c) BY <1>9
  <2>2. c[i].name \in JobNames(js) BY <1>2, <1>11, <2>1, FirstsNamed DEF Alike
  <2>3. PICK q \in Firsts(js) : js[q].name = c[i].name BY <1>10, <2>2, FirstOf
  <2>4. c[i] = js[q] BY <1>11, <2>1, <2>3 DEF Alike
  <2>5. q \in DOMAIN js BY DEF Firsts
  <2> QED BY <2>4, <2>5
<1>13. JobNames(js) = JobNames(c) BY <1>11 DEF Alike
<1> QED BY <1>8, <1>12, <1>13 DEF c

(* Every alias of an accepted pipeline stands for jobs that are there,        *)
(* whatever conflicts were skipped and whatever the cache answered; and if    *)
(* ExpandAliases accepts the pipeline it leaves out no terminal job of what   *)
(* it was made for: a dependent of the alias waits for all of the fragment.   *)
THEOREM AliasesComplete == Spec => []AliasesLand
<1> DEFINE AllInv == IncludesInv /\ MeaningInv /\ OriginInv
           expand(ds) ==
             UNION {IF d \in DOMAIN aliases /\ aliases[d] # {} THEN aliases[d] ELSE {d} : d \in ds}
           left(js) == {js[i].name : i \in DOMAIN js} \ UNION {expand(js[i].deps) : i \in DOMAIN js}
           Full == \A a \in DOMAIN aliases :
                     left(Meaning(origin[a].file, origin[a].arg)) \subseteq aliases[a]
<1>1. ASSUME AllInv, result = "ok", NoCollision, NEW a \in DOMAIN aliases
      PROVE  left(Meaning(origin[a].file, origin[a].arg)) \subseteq aliases[a]
  <2> DEFINE f  == origin[a].file
             r  == origin[a].arg
             k  == <<f, r>>
             c  == cache[k].jobs
             js == Meaning(f, r)
  <2>1. IncludesInv /\ MeaningInv /\ OriginInv BY <1>1
  <2>2. k \in DOMAIN cache \cap Keys /\ aliases[a] = TerminalJobs(c) BY <2>1 DEF OriginInv
  <2>3. k[1] = f /\ k[2] = r OBVIOUS
  <2>4. JobNames(js) = JobNames(c) /\ \A i \in DOMAIN c : \E q \in DOMAIN js : js[q] = c[i]
    <3> HIDE DEF k
    <3> QED BY <2>1, <2>2, <2>3, CachedJobs
  <2>5. JobNames(c) \subseteq JobNames(jobs)
    <3>1. Len(stack) = 1 /\ jobs = MergeJobs(stack[1].entries) /\ stack[1] \in Frames
      BY <1>1, <2>1 DEF IncludesInv, VerdictInv, PathInv
    <3>2. stack[1].entries \in Seq(Entry) BY <3>1 DEF Frames
    <3>3. JobNames(jobs) = NamesIn(stack[1].entries) BY <3>1, <3>2, MergeFacts
    <3> QED BY <2>1, <2>2, <3>1, <3>3 DEF OriginInv
  <2> HIDE DEF js, c, k, f, r
  <2>6. ASSUME NEW x \in left(js) PROVE x \in TerminalJobs(c)
    <3>1. x \in JobNames(c) BY <2>4, <2>6 DEF JobNames
    <3>2. ASSUME NEW i \in DOMAIN c, x \in c[i].deps PROVE FALSE
      <4>1. PICK q \in DOMAIN js : js[q] = c[i] BY <2>4
      <4>2. x \in js[q].deps BY <3>2, <4>1
      <4>3. x \in DOMAIN aliases => aliases[x] = {x} BY <1>1, <2>5, <3>1 DEF NoCollision, JobNames
      <4>4. x \in expand(js[q].deps)
        <5> DEFINE one(d) == IF d \in DOMAIN aliases /\ aliases[d] # {} THEN aliases[d] ELSE {d}
        <5>1. x \in one(x) BY <4>3
        <5> QED BY <4>2, <5>1
      <4> HIDE DEF expand
      <4> QED BY <2>6, <4>1, <4>4
    <3> QED BY <3>1, <3>2 DEF TerminalJobs, JobNames
  <2> HIDE DEF left
  <2> QED BY <2>2, <2>6 DEF js, f, r
<1>2. AllInv => (result = "ok" => (NoCollision => Full))
  <2> HIDE DEF left
  <2> QED BY <1>1
<1>3. AllInv => AliasesLand
  <2>1. IncludesInv => (result = "ok" => AliasesDefined) BY AcceptedNames
  <2> QED BY <1>2, <2>1 DEF AliasesLand
<1> HIDE DEF Full
<1> QED BY <1>3, MeaningHolds, OriginInit, OriginStep, PTL DEF Spec
=============================================================================
