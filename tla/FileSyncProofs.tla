--------------------------- MODULE FileSyncProofs ---------------------------
(***************************************************************************)
(* Theorems about the hash cache, for every number of processes, walks and *)
(* files, and any number of edits and faults: an entry is never older than *)
(* its stat, the cache file is replaced as a whole, and a walk that nobody *)
(* disturbs leaves the truth.                                              *)
(***************************************************************************)
EXTENDS FileSync, FiniteSetTheorems, TLAPS

(* Entries whose content is not older than their stat. *)
FreshEntry == {r \in [stat : Nat, hash : Nat] : r.hash >= r.stat}
FreshEntries == UNION {[D -> FreshEntry] : D \in SUBSET Files}

Places == Begun \cup {"begin", "done", "killed"}
Counts == [walked : Nat, hashed : Nat, hits : Nat]
FreshFile == [kind : {"missing", "corrupt", "whole"}, entries : FreshEntries, synced : BOOLEAN]
WalkLocals ==
    [pc : Places, todo : SUBSET Files, file : Files \cup {CHOOSE f \in Files : TRUE},
     stat : Nat, hash : Nat, seen : SUBSET Files, failed : BOOLEAN,
     snap : FreshEntries, sent : Counts]

(* The domains, with freshness built into every place an entry can be. *)
Domains ==
    /\ owner \in [Walks -> Procs]
    /\ tree \in [Files -> Nat]
    /\ cache \in [Procs -> FreshEntries]
    /\ disk \in FreshFile
    /\ temp \in [Walks -> FreshFile]
    /\ walk \in [Walks -> WalkLocals]
    /\ metrics \in [Procs -> Counts]
    /\ edits \in Nat /\ faults \in Nat

(* A file only gets newer: the stat a walk took is not above the file, unless *)
(* that is gone, and the content it read after it is not below it.            *)
WalkFresh(w) ==
    /\ walk[w].stat <= edits + 1
    /\ walk[w].pc \in {"lookup", "hash", "update"} =>
          /\ walk[w].file \in Files
          /\ tree[walk[w].file] = 0 \/ tree[walk[w].file] >= walk[w].stat
    /\ walk[w].pc = "update" => walk[w].hash >= walk[w].stat

TreeBounded == \A f \in Files : tree[f] <= edits + 1

(* Save renames only a file that is written as a whole and synced. *)
SaveOrder(w) ==
    /\ walk[w].pc \in {"sync", "rename"} =>
          temp[w].kind = "whole" /\ temp[w].entries = walk[w].snap
    /\ walk[w].pc = "rename" => temp[w].synced = TRUE

FreshInv ==
    /\ Domains
    /\ TreeBounded
    /\ disk.synced = TRUE
    /\ \A w \in Walks : WalkFresh(w) /\ SaveOrder(w)

-----------------------------------------------------------------------------
(* A walk that nothing has disturbed.                                        *)

Agrees(e, S) == S \subseteq DOMAIN e /\ \A f \in S : e[f].stat = tree[f]
Exact(e) == DOMAIN e = Present /\ Agrees(e, Present)

(* The counters stand for n more files walked than counted as hit or hashed. *)
Counted(m, S, n) ==
    /\ IsFiniteSet(S)
    /\ m.walked = Cardinality(S)
    /\ m.hashed + m.hits + n = Cardinality(S)

Halfway(w) ==
    /\ Present = walk[w].seen \cup Ahead(w)
    /\ walk[w].seen \cap walk[w].todo = {}

SoloWalk(w) ==
    LET c == cache[owner[w]]
        m == metrics[owner[w]]
        l == walk[w]
    IN  /\ l.failed = FALSE
        /\ l.pc = "load" => l.todo = Files /\ l.seen = {} /\ m = NoCounts
        /\ l.pc = "walk" => Halfway(w) /\ Agrees(c, l.seen) /\ Counted(m, l.seen, 0)
        /\ l.pc \in {"lookup", "hash", "update"} =>
              /\ Halfway(w) /\ l.file \in l.seen /\ l.stat = tree[l.file]
              /\ Agrees(c, l.seen \ {l.file}) /\ Counted(m, l.seen, 1)
        /\ l.pc = "prune" => l.seen = Present /\ Agrees(c, Present)
        /\ l.pc = "snapshot" => Exact(c)
        /\ l.pc \in {"create", "write", "sync", "rename"} => Exact(l.snap)
        /\ l.pc = "send" => disk.kind = "whole" /\ Exact(disk.entries)
        /\ l.pc \in {"prune", "snapshot", "create", "write", "sync", "rename", "send"} =>
              Counted(m, Present, 0)

(* A walk that has not begun has the locals of the Go zero values. *)
NotBegun == \A w \in Walks : walk[w].pc = "begin" => walk[w] = Idle("begin")

SoloInv ==
    /\ NotBegun
    /\ faults = 0 => \A w \in Walks : solo = w => SoloWalk(w)

-----------------------------------------------------------------------------
(* The operators on entries and locals.                                      *)

LEMMA NoEntriesFresh == NoEntries \in FreshEntries
<1>1. NoEntries \in [{} -> FreshEntry] BY DEF NoEntries
<1> QED BY <1>1 DEF FreshEntries

LEMMA WithFresh ==
  ASSUME NEW e \in FreshEntries, NEW f \in Files, NEW s \in Nat, NEW h \in Nat, h >= s
  PROVE  With(e, f, s, h) \in FreshEntries
<1>1. PICK D \in SUBSET Files : e \in [D -> FreshEntry]
  BY DEF FreshEntries
<1>2. [stat |-> s, hash |-> h] \in FreshEntry
  BY DEF FreshEntry
<1>3. With(e, f, s, h) \in [D \cup {f} -> FreshEntry]
  BY <1>1, <1>2 DEF With
<1>4. D \cup {f} \in SUBSET Files
  BY <1>1
<1> QED BY <1>3, <1>4 DEF FreshEntries

LEMMA WithoutFresh ==
  ASSUME NEW e \in FreshEntries, NEW S
  PROVE  Without(e, S) \in FreshEntries
<1>1. PICK D \in SUBSET Files : e \in [D -> FreshEntry]
  BY DEF FreshEntries
<1>2. Without(e, S) \in [D \ S -> FreshEntry]
  BY <1>1 DEF Without
<1>3. D \ S \in SUBSET Files
  BY <1>1
<1> QED BY <1>2, <1>3 DEF FreshEntries

LEMMA IdleLocals ==
  ASSUME NEW l \in Places
  PROVE  Idle(l) \in WalkLocals
<1>1. NoCounts \in Counts BY DEF NoCounts, Counts
<1> QED BY <1>1, NoEntriesFresh DEF Idle, WalkLocals

LEMMA FileFacts ==
  /\ Missing \in FreshFile /\ Corrupt \in FreshFile
  /\ [Corrupt EXCEPT !.synced = FALSE] \in FreshFile
  /\ \A e \in FreshEntries : /\ Whole(e) \in FreshFile
                             /\ [Whole(e) EXCEPT !.synced = FALSE] \in FreshFile
BY NoEntriesFresh DEF Missing, Corrupt, Whole, FreshFile

(* What a step of one walk leaves alone. *)
WalkFrame(w) ==
    /\ UNCHANGED <<owner, tree, edits>>
    /\ \A v \in Walks \ {w} : walk'[v] = walk[v] /\ temp'[v] = temp[v]

LEMMA WalkStepFrame ==
  ASSUME Domains, NEW w \in Walks, WalkStep(w)
  PROVE  WalkFrame(w)
<1> USE DEF Domains, WalkFrame, Goto
<1>1. CASE Begin(w) \/ Load(w) \/ WalkEnds(w) \/ Lookup(w) \/ Hash(w) \/ Update(w) \/ Prune(w)
           \/ SendSync(w)
  BY <1>1 DEF Begin, Load, WalkEnds, Lookup, Hash, Update, Prune, SendSync
<1>2. ASSUME NEW f \in Files, Visit(w, f) PROVE WalkFrame(w)
  BY <1>2 DEF Visit
<1>3. CASE Save(w)
  BY <1>3 DEF Save, SaveSnapshot, SaveCreate, SaveWrite, SaveSync, SaveRename, SaveFails
<1> QED BY <1>1, <1>2, <1>3 DEF WalkStep

-----------------------------------------------------------------------------
(* Freshness is inductive.                                                   *)

LEMMA FreshInit == Init => FreshInv
<1> SUFFICES ASSUME Init PROVE FreshInv
  OBVIOUS
<1>1. walk \in [Walks -> WalkLocals]
  BY IdleLocals DEF Init, Places
<1>2. disk \in FreshFile /\ disk.synced = TRUE
  <2>1. CASE disk \in {Missing, Corrupt}
    <3>1. Missing.synced = TRUE /\ Corrupt.synced = TRUE BY DEF Missing, Corrupt
    <3> QED BY <2>1, <3>1, FileFacts
  <2>2. ASSUME NEW D \in SUBSET Files, disk = Whole([f \in D |-> [stat |-> 1, hash |-> 1]])
        PROVE  disk \in FreshFile /\ disk.synced = TRUE
    <3>1. [f \in D |-> [stat |-> 1, hash |-> 1]] \in [D -> FreshEntry]
      BY DEF FreshEntry
    <3>2. [f \in D |-> [stat |-> 1, hash |-> 1]] \in FreshEntries
      BY <3>1 DEF FreshEntries
    <3> QED BY <2>2, <3>2, FileFacts DEF Whole
  <2> QED BY <2>1, <2>2 DEF Init
<1>3. NoCounts \in Counts BY DEF NoCounts, Counts
<1>4. Domains
  BY <1>1, <1>2, <1>3, NoEntriesFresh, FileFacts DEF Init, Domains
<1>5. \A w \in Walks : WalkFresh(w) /\ SaveOrder(w)
  BY DEF Init, WalkFresh, SaveOrder, Idle
<1> QED BY <1>2, <1>4, <1>5 DEF FreshInv, TreeBounded, Init

(* Everything but the walk itself, for a step of the walk. *)
LEMMA FreshOthers ==
  ASSUME FreshInv, NEW w \in Walks, WalkStep(w), Domains', disk'.synced = TRUE,
         WalkFresh(w)', SaveOrder(w)'
  PROVE  FreshInv'
<1>1. WalkFrame(w)
  BY WalkStepFrame DEF FreshInv
<1>2. TreeBounded'
  BY <1>1 DEF WalkFrame, FreshInv, TreeBounded
<1>3. ASSUME NEW v \in Walks PROVE WalkFresh(v)' /\ SaveOrder(v)'
  BY <1>1 DEF WalkFrame, FreshInv, WalkFresh, SaveOrder
<1> QED BY <1>2, <1>3 DEF FreshInv

LEMMA FreshWalkStep ==
  ASSUME FreshInv, NEW w \in Walks, WalkStep(w)
  PROVE  /\ FreshInv'
         /\ disk' # disk => disk'.kind = "whole" /\ disk'.entries = walk[w].snap
<1> SUFFICES /\ Domains' /\ disk'.synced = TRUE
             /\ WalkFresh(w)' /\ SaveOrder(w)'
             /\ disk' # disk => disk'.kind = "whole" /\ disk'.entries = walk[w].snap
  BY FreshOthers
<1>0. NoCounts \in Counts
  BY DEF NoCounts, Counts
<1>a. /\ walk[w] \in WalkLocals /\ walk[w].snap \in FreshEntries /\ owner[w] \in Procs
      /\ cache[owner[w]] \in FreshEntries /\ temp[w] \in FreshFile
      /\ metrics[owner[w]] \in Counts
      /\ disk.entries \in FreshEntries /\ disk.synced = TRUE
      /\ WalkFresh(w) /\ SaveOrder(w)
  BY DEF FreshInv, Domains, WalkLocals, FreshFile
<1>b. ASSUME NEW field \in {"walked", "hashed", "hits"}, Count(w, field)
      PROVE  metrics' \in [Procs -> Counts]
  BY <1>b, <1>a DEF Count, Counts, FreshInv, Domains
<1>c. ASSUME NEW l \in Places, Goto(w, l)
      PROVE  /\ walk' \in [Walks -> WalkLocals]
             /\ walk'[w] = [walk[w] EXCEPT !.pc = l]
             /\ walk'[w].pc = l /\ walk'[w].stat = walk[w].stat /\ walk'[w].file = walk[w].file
             /\ walk'[w].snap = walk[w].snap /\ walk'[w].hash = walk[w].hash
  BY <1>c, <1>a DEF Goto, WalkLocals, FreshInv, Domains
<1>d. walk \in [Walks -> WalkLocals] /\ edits \in Nat /\ faults \in Nat
  BY DEF FreshInv, Domains
<1>e. faults' \in Nat
  <2>1. faults' = faults \/ Fault
    BY DEF WalkStep, Begin, Load, Visit, WalkEnds, Lookup, Hash, Update, Prune, Save, SendSync,
       SaveSnapshot, SaveCreate, SaveWrite, SaveSync, SaveRename, SaveFails
  <2> QED BY <1>d, <2>1 DEF Fault
<1> USE DEF FreshInv, Domains
<1>1. CASE Begin(w)
  <2>1. metrics' \in [Procs -> Counts] BY <1>1, <1>0 DEF Begin
  <2> QED BY <1>1, <1>a, <1>c, <1>e, <2>1 DEF Begin, WalkFresh, SaveOrder, Places, Begun
<1>2. CASE Load(w)
  <2>1. cache' \in [Procs -> FreshEntries] BY <1>2, <1>a DEF Load
  <2> QED BY <1>2, <1>a, <1>c, <1>e, <2>1 DEF Load, WalkFresh, SaveOrder, Places, Begun
<1>3. ASSUME NEW f \in Files, Visit(w, f)
      PROVE  /\ Domains' /\ disk'.synced = TRUE
             /\ WalkFresh(w)' /\ SaveOrder(w)'
             /\ disk' # disk => disk'.kind = "whole" /\ disk'.entries = walk[w].snap
  <2>1. metrics' \in [Procs -> Counts] BY <1>3, <1>b DEF Visit
  <2>2. /\ walk' \in [Walks -> WalkLocals]
        /\ walk'[w].pc = "lookup" /\ walk'[w].file = f /\ walk'[w].stat = tree[f]
    <3> DEFINE new == [walk[w] EXCEPT !.pc = "lookup", !.todo = {g \in walk[w].todo : g > f},
                         !.file = f, !.stat = tree[f], !.seen = walk[w].seen \cup {f}]
    <3>1. walk' = [walk EXCEPT ![w] = new]
      BY <1>3 DEF Visit
    <3>2. tree[f] \in Nat /\ walk[w].todo \in SUBSET Files /\ walk[w].seen \in SUBSET Files
      BY <1>a DEF WalkLocals
    <3>3. {g \in walk[w].todo : g > f} \in SUBSET Files /\ walk[w].seen \cup {f} \in SUBSET Files
      BY <3>2
    <3>4. new \in WalkLocals /\ new.pc = "lookup" /\ new.file = f /\ new.stat = tree[f]
      BY <1>a, <3>2, <3>3 DEF WalkLocals, Places, Begun
    <3> HIDE DEF new
    <3> QED BY <1>d, <3>1, <3>4
  <2>3. WalkFresh(w)' /\ SaveOrder(w)'
    <3>1. tree[f] \in Nat /\ tree[f] <= edits + 1 /\ UNCHANGED <<tree, edits>>
      BY <1>3 DEF Visit, TreeBounded
    <3> QED BY <2>2, <3>1 DEF WalkFresh, SaveOrder
  <2> QED BY <1>3, <1>a, <1>e, <2>1, <2>2, <2>3 DEF Visit
<1>4. CASE WalkEnds(w)
  <2>1. /\ walk' \in [Walks -> WalkLocals] /\ walk'[w].pc \in {"prune", "snapshot"}
        /\ walk'[w].stat = walk[w].stat
    <3>1. CASE Goto(w, "prune") BY <3>1, <1>c DEF Places, Begun
    <3>2. CASE walk' = [walk EXCEPT ![w].pc = "snapshot", ![w].failed = TRUE]
      BY <3>2, <1>a, <1>d DEF WalkLocals, Places, Begun
    <3> QED BY <1>4, <3>1, <3>2 DEF WalkEnds
  <2> QED BY <1>4, <1>a, <1>e, <2>1 DEF WalkEnds, WalkFresh, SaveOrder
<1>5. CASE Lookup(w)
  <2>1. metrics' \in [Procs -> Counts] BY <1>5, <1>b DEF Lookup
  <2>2. \E l \in {"walk", "hash"} : Goto(w, l) BY <1>5 DEF Lookup
  <2>3. UNCHANGED <<owner, tree, cache, disk, temp, edits>> /\ walk[w].pc = "lookup"
    BY <1>5 DEF Lookup, At
  <2> QED BY <1>a, <1>c, <1>e, <2>1, <2>2, <2>3 DEF WalkFresh, SaveOrder, Places, Begun
<1>6. CASE Hash(w)
  <2>1. UNCHANGED <<owner, tree, cache, disk, temp, metrics, edits>> /\ walk[w].pc = "hash"
    BY <1>6 DEF Hash, At
  <2>2. CASE Goto(w, "walk")
    BY <1>a, <1>c, <1>e, <2>1, <2>2 DEF WalkFresh, SaveOrder, Places, Begun
  <2>3. CASE ~Goto(w, "walk")
    <3>1. /\ walk[w].file \in Present
          /\ walk' = [walk EXCEPT ![w].pc = "update", ![w].hash = tree[walk[w].file]]
      BY <1>6, <2>3 DEF Hash
    <3>2. walk[w].file \in Files /\ tree[walk[w].file] \in Nat /\ tree[walk[w].file] >= walk[w].stat
      BY <1>a, <2>1, <3>1 DEF Present, WalkFresh
    <3>3. /\ walk' \in [Walks -> WalkLocals] /\ walk'[w].pc = "update"
          /\ walk'[w].stat = walk[w].stat /\ walk'[w].file = walk[w].file
          /\ walk'[w].hash = tree[walk[w].file]
      BY <1>a, <3>1, <3>2 DEF WalkLocals, Places, Begun
    <3> QED BY <1>a, <1>e, <2>1, <3>2, <3>3 DEF WalkFresh, SaveOrder
  <2> QED BY <2>2, <2>3
<1>7. CASE Update(w)
  <2>1. metrics' \in [Procs -> Counts] BY <1>7, <1>b DEF Update
  <2>2. With(cache[owner[w]], walk[w].file, walk[w].stat, walk[w].hash) \in FreshEntries
    BY <1>7, <1>a, WithFresh DEF Update, At, WalkFresh, WalkLocals
  <2>3. cache' \in [Procs -> FreshEntries] BY <1>7, <2>2 DEF Update
  <2> QED BY <1>7, <1>a, <1>c, <1>e, <2>1, <2>3 DEF Update, WalkFresh, SaveOrder, Places, Begun
<1>8. CASE Prune(w)
  <2>1. cache' \in [Procs -> FreshEntries] BY <1>8, <1>a, WithoutFresh DEF Prune
  <2> QED BY <1>8, <1>a, <1>c, <1>e, <2>1 DEF Prune, WalkFresh, SaveOrder, Places, Begun
<1>9. CASE SendSync(w)
  <2>1. PICK n \in Counts : walk' = [walk EXCEPT ![w] = [Idle("done") EXCEPT !.sent = n]]
    BY <1>9, <1>a, <1>0 DEF SendSync
  <2>2. Idle("done") \in WalkLocals BY IdleLocals DEF Places
  <2>3. /\ walk' \in [Walks -> WalkLocals] /\ walk'[w].pc = "done" /\ walk'[w].stat = 0
    BY <2>1, <2>2 DEF WalkLocals, Idle
  <2> QED BY <1>9, <1>a, <1>e, <2>3 DEF SendSync, WalkFresh, SaveOrder
<1>10. CASE SaveSnapshot(w)
  <2>1. /\ walk' \in [Walks -> WalkLocals] /\ walk'[w].pc = "create"
        /\ walk'[w].stat = walk[w].stat
    BY <1>10, <1>a DEF SaveSnapshot, WalkLocals, Places, Begun
  <2> QED BY <1>10, <1>a, <1>e, <2>1 DEF SaveSnapshot, WalkFresh, SaveOrder
<1>11. CASE SaveCreate(w)
  <2>1. temp' \in [Walks -> FreshFile] BY <1>11, FileFacts DEF SaveCreate
  <2> QED BY <1>11, <1>a, <1>c, <1>e, <2>1 DEF SaveCreate, WalkFresh, SaveOrder, Places, Begun
<1>12. CASE SaveWrite(w)
  <2>1. /\ temp' \in [Walks -> FreshFile] /\ temp'[w].kind = "whole"
        /\ temp'[w].entries = walk[w].snap
    BY <1>12, <1>a, FileFacts DEF SaveWrite, Whole
  <2> QED BY <1>12, <1>a, <1>c, <1>e, <2>1 DEF SaveWrite, WalkFresh, SaveOrder, Places, Begun
<1>13. CASE SaveSync(w)
  <2>1. /\ temp' \in [Walks -> FreshFile] /\ temp'[w].kind = temp[w].kind
        /\ temp'[w].entries = temp[w].entries /\ temp'[w].synced = TRUE
    BY <1>13, <1>a DEF SaveSync, FreshFile
  <2> QED BY <1>13, <1>a, <1>c, <1>e, <2>1 DEF SaveSync, At, WalkFresh, SaveOrder, Places, Begun
<1>14. CASE SaveRename(w)
  <2>1. temp' \in [Walks -> FreshFile] BY <1>14, FileFacts DEF SaveRename
  <2>2. disk' = temp[w] /\ temp[w].kind = "whole" /\ temp[w].entries = walk[w].snap
        /\ temp[w].synced = TRUE
    BY <1>14, <1>a DEF SaveRename, At, SaveOrder
  <2> QED BY <1>14, <1>a, <1>c, <1>e, <2>1, <2>2 DEF SaveRename, WalkFresh, SaveOrder, Places, Begun
<1>15. CASE SaveFails(w)
  <2>1. temp' \in [Walks -> FreshFile] BY <1>15, FileFacts DEF SaveFails
  <2> QED BY <1>15, <1>a, <1>c, <1>e, <2>1 DEF SaveFails, WalkFresh, SaveOrder, Places, Begun
<1> QED
  BY <1>1, <1>2, <1>3, <1>4, <1>5, <1>6, <1>7, <1>8, <1>9, <1>10, <1>11, <1>12, <1>13, <1>14,
     <1>15 DEF WalkStep, Save

LEMMA KilledFacts ==
  ASSUME Domains, NEW S \in SUBSET Procs, Killed(S)
  PROVE  /\ walk' \in [Walks -> WalkLocals] /\ cache' \in [Procs -> FreshEntries]
         /\ metrics' \in [Procs -> Counts]
         /\ \A w \in Walks : walk'[w] = walk[w] \/ walk'[w] = Idle("killed")
         /\ \A w \in Walks : owner[w] \in S /\ walk[w].pc \in Begun => walk'[w] = Idle("killed")
<1>1. Idle("killed") \in WalkLocals BY IdleLocals DEF Places
<1>2. NoCounts \in Counts BY DEF NoCounts, Counts
<1>3. /\ \A w \in Walks : walk'[w] = IF owner[w] \in S /\ walk[w].pc \in Begun
                                     THEN Idle("killed") ELSE walk[w]
      /\ walk' \in [Walks -> WalkLocals]
  BY <1>1 DEF Killed, Domains
<1> QED BY <1>2, <1>3, NoEntriesFresh DEF Killed, Domains

LEMMA FreshEnvironment ==
  ASSUME FreshInv, (\E f \in Files : Edit(f)) \/ (\E p \in Procs : Kill(p)) \/ PowerLoss
  PROVE  FreshInv' /\ disk' = disk
<1>0. Domains /\ TreeBounded /\ disk.synced = TRUE /\ \A w \in Walks : WalkFresh(w) /\ SaveOrder(w)
  BY DEF FreshInv
<1>a. \A w \in Walks : /\ walk[w] \in WalkLocals /\ walk[w].stat \in Nat /\ walk[w].hash \in Nat
                       /\ walk[w].pc \in Places
  BY <1>0 DEF Domains, WalkLocals
<1>b. Idle("killed").pc = "killed" /\ Idle("killed").stat = 0
  BY DEF Idle
<1>1. ASSUME NEW f \in Files, Edit(f) PROVE FreshInv' /\ disk' = disk
  <2>1. /\ tree' \in [Files -> Nat] /\ edits' = edits + 1 /\ edits \in Nat
        /\ tree'[f] \in {0, edits + 2} /\ \A g \in Files \ {f} : tree'[g] = tree[g]
        /\ UNCHANGED <<owner, cache, disk, temp, walk, metrics, faults>>
    BY <1>0, <1>1 DEF Edit, Domains
  <2>2. TreeBounded'
    <3>1. \A g \in Files : tree[g] \in Nat /\ tree[g] <= edits + 1
      BY <1>0 DEF TreeBounded, Domains
    <3>2. \A g \in Files : tree'[g] <= edits + 2
      BY <2>1, <3>1
    <3> QED BY <2>1, <3>2 DEF TreeBounded
  <2>3. ASSUME NEW w \in Walks PROVE WalkFresh(w)' /\ SaveOrder(w)'
    <3>1. walk[w].stat <= edits + 1 /\ walk[w].stat \in Nat
      BY <1>0, <1>a DEF WalkFresh
    <3>2. walk'[w] = walk[w] /\ temp'[w] = temp[w]
      BY <2>1
    <3>3. \A g \in Files : tree[g] = 0 \/ tree[g] >= walk[w].stat => tree'[g] = 0 \/ tree'[g] >= walk[w].stat
      BY <2>1, <3>1
    <3> QED BY <1>0, <2>1, <3>1, <3>2, <3>3 DEF WalkFresh, SaveOrder
  <2> QED BY <1>0, <2>1, <2>2, <2>3 DEF FreshInv, Domains
<1>2. ASSUME NEW p \in Procs, Kill(p) PROVE FreshInv' /\ disk' = disk
  <2>1. Killed({p}) /\ faults' = faults + 1 /\ UNCHANGED <<owner, tree, disk, temp, edits>>
    BY <1>2 DEF Kill, Fault
  <2>2. Domains'
    BY <1>0, <2>1, KilledFacts DEF Domains
  <2>3. ASSUME NEW w \in Walks PROVE WalkFresh(w)' /\ SaveOrder(w)'
    <3>1. walk'[w] = walk[w] \/ walk'[w] = Idle("killed") BY <1>0, <2>1, KilledFacts
    <3>2. edits \in Nat BY <1>0 DEF Domains
    <3> QED BY <1>0, <1>b, <2>1, <3>1, <3>2 DEF WalkFresh, SaveOrder
  <2> QED BY <1>0, <2>1, <2>2, <2>3 DEF FreshInv, TreeBounded
<1>3. CASE PowerLoss
  <2>1. /\ Killed(Procs) /\ faults' = faults + 1 /\ UNCHANGED <<owner, tree, edits>>
        /\ disk' = disk
    BY <1>0, <1>3 DEF PowerLoss, Fault, Torn
  <2>2. temp' \in [Walks -> FreshFile]
    BY <1>0, <1>3, FileFacts DEF PowerLoss, Torn, Domains
  <2>3. Domains'
    BY <1>0, <2>1, <2>2, KilledFacts DEF Domains
  <2>4. ASSUME NEW w \in Walks PROVE WalkFresh(w)' /\ SaveOrder(w)'
    <3>1. walk'[w] = Idle("killed") \/ (walk'[w] = walk[w] /\ walk[w].pc \notin Begun)
      BY <1>0, <2>1, KilledFacts DEF Domains
    <3>2. edits \in Nat BY <1>0 DEF Domains
    <3> QED BY <1>0, <1>b, <2>1, <3>1, <3>2 DEF WalkFresh, SaveOrder, Begun
  <2> QED BY <1>0, <2>1, <2>3, <2>4 DEF FreshInv, TreeBounded
<1> QED BY <1>1, <1>2, <1>3

LEMMA FreshStep ==
  ASSUME FreshInv, [Next]_vars
  PROVE  /\ FreshInv'
         /\ disk' # disk => disk'.kind = "whole" /\ \E w \in Walks : disk'.entries = walk[w].snap
<1>1. CASE UNCHANGED vars
  BY <1>1 DEF vars, FreshInv, Domains, TreeBounded, WalkFresh, SaveOrder
<1>2. ASSUME NEW w \in Walks, WalkStep(w)
      PROVE  /\ FreshInv'
             /\ disk' # disk => disk'.kind = "whole" /\ \E v \in Walks : disk'.entries = walk[v].snap
  BY <1>2, FreshWalkStep
<1>3. CASE (\E f \in Files : Edit(f)) \/ (\E p \in Procs : Kill(p)) \/ PowerLoss
  BY <1>3, FreshEnvironment
<1> QED BY <1>1, <1>2, <1>3 DEF Next

(* However walks of any number of processes interleave with edits, crashes    *)
(* and failing file operations, no cache entry pairs a stat with older        *)
(* content: a later lookup never takes an edited file for the old one.        *)
THEOREM EntriesNeverStale == Spec => []NeverOlderThanStat
<1>1. FreshInv => NeverOlderThanStat
  <2> SUFFICES ASSUME FreshInv PROVE NeverOlderThanStat
    OBVIOUS
  <2>1. \A e \in FreshEntries : \A f \in DOMAIN e : e[f].hash >= e[f].stat
    BY DEF FreshEntries, FreshEntry
  <2>2. /\ \A p \in Procs : cache[p] \in FreshEntries
        /\ \A w \in Walks : walk[w].snap \in FreshEntries
        /\ disk.entries \in FreshEntries
    BY DEF FreshInv, Domains, WalkLocals, FreshFile
  <2> QED BY <2>1, <2>2 DEF NeverOlderThanStat
<1> QED BY <1>1, FreshInit, FreshStep, PTL DEF Spec

(* Save replaces the cache file as a whole, by a document that was synced:    *)
(* no kill, failure or power loss leaves a torn file under its name.          *)
THEOREM CacheFileAtomic == Spec => CacheFileIntact
<1>1. FreshInv /\ [Next]_vars =>
        [disk' # disk =>
          /\ disk'.kind = "whole"
          /\ \E w \in Walks : disk'.entries = walk[w].snap]_vars
  BY FreshStep
<1> QED BY <1>1, FreshInit, FreshStep, PTL DEF Spec, CacheFileIntact

-----------------------------------------------------------------------------
(* The walk that nothing disturbs.                                           *)

(* One more file, one more counted. *)
LEMMA CountedMore ==
  ASSUME NEW m \in Counts, NEW S, NEW f, f \notin S, NEW n \in Nat, Counted(m, S, n)
  PROVE  Counted([m EXCEPT !.walked = @ + 1], S \cup {f}, n + 1)
<1>1. IsFiniteSet(S \cup {f}) /\ Cardinality(S \cup {f}) = Cardinality(S) + 1 /\ Cardinality(S) \in Nat
  BY FS_AddElement, FS_CardinalityType DEF Counted
<1> QED BY <1>1 DEF Counted, Counts

LEMMA CountedOne ==
  ASSUME NEW m \in Counts, NEW S, Counted(m, S, 1)
  PROVE  /\ Counted([m EXCEPT !.hits = @ + 1], S, 0)
         /\ Counted([m EXCEPT !.hashed = @ + 1], S, 0)
BY FS_CardinalityType DEF Counted, Counts

(* Agreement carries over when the tree does not change. *)
LEMMA AgreesKept ==
  ASSUME UNCHANGED tree
  PROVE  /\ Present' = Present
         /\ \A e, S : Agrees(e, S)' <=> Agrees(e, S)
         /\ \A e : Exact(e)' <=> Exact(e)
BY DEF Present, Agrees, Exact

(* The part of a walk that comes to files. *)
LEMMA SoloVisits ==
  ASSUME FreshInv, NEW w \in Walks, solo = w, SoloWalk(w), faults' = 0,
         Load(w) \/ (\E f \in Files : Visit(w, f)) \/ WalkEnds(w)
  PROVE  SoloWalk(w)'
<1>0. /\ walk[w] \in WalkLocals /\ owner[w] \in Procs /\ cache[owner[w]] \in FreshEntries
      /\ metrics[owner[w]] \in Counts /\ walk \in [Walks -> WalkLocals] /\ faults \in Nat
      /\ metrics \in [Procs -> Counts]
  BY DEF FreshInv, Domains
<1>f. ~Fault
  BY <1>0 DEF Fault
<1>1. CASE Load(w)
  <2>1. /\ walk[w].pc = "load" /\ walk'[w] = [walk[w] EXCEPT !.pc = "walk"]
        /\ UNCHANGED <<owner, tree, metrics>>
    BY <1>0, <1>1 DEF Load, At, Goto
  <2>2. /\ walk'[w].pc = "walk" /\ walk'[w].failed = FALSE /\ walk'[w].seen = {}
        /\ walk'[w].todo = Files /\ metrics'[owner[w]] = NoCounts
    BY <1>0, <2>1 DEF SoloWalk, WalkLocals
  <2>3. Halfway(w)'
    BY <2>1, <2>2 DEF Halfway, Ahead, Present
  <2>4. Counted(NoCounts, {}, 0)
    BY FS_EmptySet DEF Counted, NoCounts
  <2>5. Agrees(cache[owner[w]], walk[w].seen)'
    BY <2>2 DEF Agrees
  <2>6. Counted(metrics[owner[w]], walk[w].seen, 0)'
    BY <2>1, <2>2, <2>4 DEF Counted
  <2> QED BY <2>2, <2>3, <2>5, <2>6 DEF SoloWalk
<1>2. ASSUME NEW f \in Files, Visit(w, f) PROVE SoloWalk(w)'
  <2> DEFINE todo == {g \in walk[w].todo : g > f}
             seen == walk[w].seen \cup {f}
  <2>1. /\ walk[w].pc = "walk" /\ f \in Ahead(w) /\ \A g \in Ahead(w) : f <= g
        /\ UNCHANGED <<owner, tree, cache>>
        /\ metrics'[owner[w]] = [metrics[owner[w]] EXCEPT !.walked = @ + 1]
    BY <1>0, <1>2 DEF Visit, At, Count, Counts
  <2>2. /\ walk'[w].pc = "lookup" /\ walk'[w].failed = FALSE /\ walk'[w].seen = seen
        /\ walk'[w].todo = todo /\ walk'[w].file = f /\ walk'[w].stat = tree[f]
    BY <1>0, <1>2 DEF Visit, WalkLocals, SoloWalk
  <2>3. /\ Halfway(w) /\ Agrees(cache[owner[w]], walk[w].seen)
        /\ Counted(metrics[owner[w]], walk[w].seen, 0)
    BY <2>1 DEF SoloWalk
  <2>4. f \notin walk[w].seen /\ f \in walk[w].todo /\ f \in Present
    BY <2>1, <2>3 DEF Halfway, Ahead
  <2>5. Present = seen \cup (todo \cap Present) /\ seen \cap todo = {}
    <3>1. \A g \in walk[w].todo : g \in Nat BY <1>0, WalksAssumption DEF WalkLocals
    <3>2. f \in Nat BY WalksAssumption
    <3>3. \A g \in Ahead(w) : g = f \/ g > f
      BY <2>1, <3>1, <3>2 DEF Ahead
    <3>4. Present = walk[w].seen \cup Ahead(w) /\ walk[w].seen \cap walk[w].todo = {}
      BY <2>3 DEF Halfway
    <3>5. f \notin todo
      BY <3>2
    <3> QED BY <2>4, <3>3, <3>4, <3>5 DEF Ahead
  <2>6. Halfway(w)'
    BY <2>1, <2>2, <2>5 DEF Halfway, Ahead, Present
  <2>7. Counted([metrics[owner[w]] EXCEPT !.walked = @ + 1], seen, 1)
    BY <1>0, <2>3, <2>4, CountedMore
  <2>8. seen \ {f} = walk[w].seen
    BY <2>4
  <2> HIDE DEF seen, todo
  <2>9. Counted(metrics[owner[w]], walk[w].seen, 1)'
    BY <2>1, <2>2, <2>7 DEF Counted
  <2>10. Agrees(cache[owner[w]], walk[w].seen \ {walk[w].file})'
    BY <2>1, <2>2, <2>3, <2>8 DEF Agrees
  <2>11. walk'[w].file \in walk'[w].seen /\ walk'[w].stat = tree'[walk'[w].file]
    BY <2>1, <2>2 DEF seen
  <2> QED BY <2>2, <2>6, <2>9, <2>10, <2>11 DEF SoloWalk
<1>3. CASE WalkEnds(w)
  <2>1. /\ walk[w].pc = "walk" /\ walk'[w] = [walk[w] EXCEPT !.pc = "prune"] /\ Ahead(w) = {}
        /\ UNCHANGED <<owner, tree, cache, metrics>>
    BY <1>0, <1>f, <1>3 DEF WalkEnds, At, Goto
  <2>2. walk'[w].pc = "prune" /\ walk'[w].failed = FALSE /\ walk'[w].seen = walk[w].seen
    BY <1>0, <2>1 DEF WalkLocals, SoloWalk
  <2>3. walk[w].seen = Present /\ Agrees(cache[owner[w]], Present) /\ Counted(metrics[owner[w]], Present, 0)
    BY <2>1 DEF SoloWalk, Halfway
  <2>4. Present' = Present BY <2>1 DEF Present
  <2>5. Agrees(cache[owner[w]], Present)' /\ Counted(metrics[owner[w]], Present, 0)'
    BY <2>1, <2>3, <2>4 DEF Agrees, Counted
  <2> QED BY <2>2, <2>3, <2>4, <2>5 DEF SoloWalk
<1> QED BY <1>1, <1>2, <1>3

(* What it does with a file. *)
LEMMA SoloEntries ==
  ASSUME FreshInv, NEW w \in Walks, solo = w, SoloWalk(w), faults' = 0,
         Lookup(w) \/ Hash(w) \/ Update(w)
  PROVE  SoloWalk(w)'
<1> DEFINE c == cache[owner[w]]
           m == metrics[owner[w]]
           f == walk[w].file
           S == walk[w].seen
<1>0. /\ walk[w] \in WalkLocals /\ owner[w] \in Procs /\ cache \in [Procs -> FreshEntries]
      /\ metrics \in [Procs -> Counts] /\ walk \in [Walks -> WalkLocals] /\ faults \in Nat
  BY DEF FreshInv, Domains
<1>f. ~Fault
  BY <1>0 DEF Fault
<1>1. /\ walk[w].pc \in {"lookup", "hash", "update"} /\ UNCHANGED <<owner, tree>>
      /\ walk[w].failed = FALSE
  BY DEF Lookup, Hash, Update, At, SoloWalk
<1>2. /\ Halfway(w) /\ f \in S /\ walk[w].stat = tree[f]
      /\ Agrees(c, S \ {f}) /\ Counted(m, S, 1)
  BY <1>1 DEF SoloWalk
<1>3. /\ walk'[w].failed = FALSE /\ walk'[w].seen = S /\ walk'[w].todo = walk[w].todo
      /\ walk'[w].file = f /\ walk'[w].stat = walk[w].stat
  BY <1>0, <1>1 DEF Lookup, Hash, Update, Goto, WalkLocals
<1>4. Halfway(w)'
  BY <1>1, <1>2, <1>3 DEF Halfway, Ahead, Present
<1>5. ASSUME walk'[w].pc = "walk", S \subseteq DOMAIN c', \A g \in S : c'[g].stat = tree[g],
             Counted(m', S, 0)
      PROVE  SoloWalk(w)'
  <2>1. Agrees(cache[owner[w]], walk[w].seen)' BY <1>1, <1>3, <1>5 DEF Agrees
  <2>2. Counted(metrics[owner[w]], walk[w].seen, 0)' BY <1>1, <1>3, <1>5 DEF Counted
  <2> QED BY <1>3, <1>4, <1>5, <2>1, <2>2 DEF SoloWalk
<1>6. ASSUME walk'[w].pc \in {"hash", "update"}, c' = c, m' = m PROVE SoloWalk(w)'
  <2>1. Agrees(cache[owner[w]], walk[w].seen \ {walk[w].file})' BY <1>1, <1>2, <1>3, <1>6 DEF Agrees
  <2>2. Counted(metrics[owner[w]], walk[w].seen, 1)' BY <1>1, <1>2, <1>3, <1>6 DEF Counted
  <2> QED BY <1>1, <1>2, <1>3, <1>4, <1>6, <2>1, <2>2 DEF SoloWalk
<1>7. CASE Lookup(w)
  <2>1. CASE f \in DOMAIN c /\ c[f].stat = walk[w].stat
    <3>1. Count(w, "hits") /\ Goto(w, "walk") /\ UNCHANGED cache
      BY <1>7, <1>f, <2>1 DEF Lookup
    <3>2. walk'[w].pc = "walk" BY <1>0, <3>1 DEF Goto, WalkLocals
    <3>3. m' = [m EXCEPT !.hits = @ + 1] BY <1>0, <1>1, <3>1 DEF Count, Counts
    <3>4. m \in Counts /\ Counted(m, S, 1) BY <1>0, <1>2
    <3>7. Counted([m EXCEPT !.hits = @ + 1], S, 0) BY ONLY <3>4, CountedOne
    <3>8. Counted(m', S, 0) BY <3>3, <3>7
    <3>5. S \subseteq DOMAIN c' /\ \A g \in S : c'[g].stat = tree[g]
      BY <1>1, <1>2, <2>1, <3>1 DEF Agrees
    <3> QED BY <1>5, <3>2, <3>5, <3>8
  <2>2. CASE ~(f \in DOMAIN c /\ c[f].stat = walk[w].stat)
    <3>1. Goto(w, "hash") /\ UNCHANGED <<cache, metrics>>
      BY <1>7, <1>f, <2>2 DEF Lookup
    <3>2. walk'[w].pc = "hash" BY <1>0, <3>1 DEF Goto, WalkLocals
    <3> QED BY <1>1, <1>6, <3>1, <3>2
  <2> QED BY <2>1, <2>2
<1>8. CASE Hash(w)
  <2>1. f \in Present
    BY <1>2 DEF Halfway
  <2>2. walk'[w].pc = "update" /\ UNCHANGED <<cache, metrics>>
    BY <1>0, <1>8, <1>f, <2>1 DEF Hash, WalkLocals
  <2> QED BY <1>1, <1>6, <2>2
<1>9. CASE Update(w)
  <2>1. walk'[w].pc = "walk"
    BY <1>0, <1>9 DEF Update, Goto, WalkLocals
  <2>2. m' = [m EXCEPT !.hashed = @ + 1]
    BY <1>0, <1>1, <1>9 DEF Update, Count, Counts
  <2>3. Counted(m', S, 0)
    <3>1. m \in Counts /\ Counted(m, S, 1) BY <1>0, <1>2
    <3>2. Counted([m EXCEPT !.hashed = @ + 1], S, 0) BY ONLY <3>1, CountedOne
    <3> QED BY <2>2, <3>2
  <2>4. c' = With(c, f, walk[w].stat, walk[w].hash)
    BY <1>0, <1>1, <1>9 DEF Update
  <2>5. S \subseteq DOMAIN c' /\ \A g \in S : c'[g].stat = tree[g]
    BY <1>2, <2>4 DEF With, Agrees
  <2> QED BY <1>5, <2>1, <2>3, <2>5
<1> QED BY <1>7, <1>8, <1>9

(* Prune, Save and the message. *)
LEMMA SoloSaves ==
  ASSUME FreshInv, NEW w \in Walks, solo = w, SoloWalk(w), faults' = 0,
         Prune(w) \/ Save(w) \/ SendSync(w)
  PROVE  SoloWalk(w)'
<1>0. /\ walk[w] \in WalkLocals /\ owner[w] \in Procs /\ cache \in [Procs -> FreshEntries]
      /\ walk \in [Walks -> WalkLocals] /\ faults \in Nat /\ SaveOrder(w)
  BY DEF FreshInv, Domains
<1>f. ~Fault
  BY <1>0 DEF Fault
<1>1. /\ UNCHANGED <<owner, tree, metrics>> /\ walk[w].failed = FALSE
      /\ walk[w].pc \in {"prune", "snapshot", "create", "write", "sync", "rename", "send"}
      /\ Counted(metrics[owner[w]], Present, 0)
  BY <1>f DEF Prune, Save, SaveSnapshot, SaveCreate, SaveWrite, SaveSync, SaveRename, SaveFails,
     SendSync, At, SoloWalk
<1>2. Present' = Present /\ Counted(metrics[owner[w]], Present, 0)'
  BY <1>1 DEF Present, Counted
<1>3. CASE Prune(w)
  <2> DEFINE c == cache[owner[w]]
  <2>1. walk[w].pc = "prune" /\ walk'[w].pc = "snapshot" /\ walk'[w].failed = FALSE
    BY <1>0, <1>1, <1>3 DEF Prune, At, Goto, WalkLocals
  <2>2. c' = Without(c, Files \ walk[w].seen)
    BY <1>0, <1>1, <1>3 DEF Prune
  <2>3. walk[w].seen = Present /\ Agrees(c, Present)
    BY <2>1 DEF SoloWalk
  <2>4. DOMAIN c \subseteq Files
    BY <1>0 DEF FreshEntries
  <2>5. Exact(c')
    BY <2>2, <2>3, <2>4 DEF Without, Exact, Agrees, Present
  <2>6. Exact(cache[owner[w]])'
    BY <1>1, <1>2, <2>5 DEF Exact, Agrees
  <2> QED BY <1>2, <2>1, <2>6 DEF SoloWalk
<1>4. CASE SaveSnapshot(w)
  <2>1. /\ walk[w].pc = "snapshot" /\ walk'[w].pc = "create" /\ walk'[w].failed = FALSE
        /\ walk'[w].snap = cache[owner[w]]
    BY <1>0, <1>1, <1>4 DEF SaveSnapshot, At, WalkLocals
  <2>2. Exact(cache[owner[w]]) BY <2>1 DEF SoloWalk
  <2>3. Exact(walk[w].snap)' BY <1>1, <1>2, <2>1, <2>2 DEF Exact, Agrees
  <2> QED BY <1>2, <2>1, <2>3 DEF SoloWalk
<1>5. CASE SaveCreate(w) \/ SaveWrite(w) \/ SaveSync(w)
  <2>1. /\ walk[w].pc \in {"create", "write", "sync"} /\ walk'[w].pc \in {"write", "sync", "rename"}
        /\ walk'[w].failed = FALSE /\ walk'[w].snap = walk[w].snap
    BY <1>0, <1>1, <1>5 DEF SaveCreate, SaveWrite, SaveSync, At, Goto, WalkLocals
  <2>2. Exact(walk[w].snap) BY <2>1 DEF SoloWalk
  <2>3. Exact(walk[w].snap)' BY <1>1, <1>2, <2>1, <2>2 DEF Exact, Agrees
  <2> QED BY <1>2, <2>1, <2>3 DEF SoloWalk
<1>6. CASE SaveRename(w)
  <2>1. /\ walk[w].pc = "rename" /\ walk'[w].pc = "send" /\ walk'[w].failed = FALSE
        /\ disk' = temp[w]
    BY <1>0, <1>1, <1>6 DEF SaveRename, At, Goto, WalkLocals
  <2>2. Exact(walk[w].snap) BY <2>1 DEF SoloWalk
  <2>3. disk'.kind = "whole" /\ disk'.entries = walk[w].snap BY <1>0, <2>1 DEF SaveOrder
  <2>4. Exact(disk.entries)' BY <1>1, <1>2, <2>2, <2>3 DEF Exact, Agrees
  <2> QED BY <1>2, <2>1, <2>3, <2>4 DEF SoloWalk
<1>7. CASE SendSync(w)
  <2>1. walk'[w].pc = "done" /\ walk'[w].failed = FALSE
    BY <1>0, <1>7 DEF SendSync, Idle
  <2> QED BY <2>1 DEF SoloWalk
<1> QED BY <1>f, <1>3, <1>4, <1>5, <1>6, <1>7 DEF Save, SaveFails

LEMMA SoloStep ==
  ASSUME FreshInv, SoloInv, [Next]_vars
  PROVE  SoloInv'
<1>0. /\ walk \in [Walks -> WalkLocals] /\ faults \in Nat /\ Domains /\ Nobody \notin Walks
      /\ NotBegun
  BY WalksAssumption DEF FreshInv, Domains, SoloInv
<1>1. CASE UNCHANGED vars
  <2>1. NotBegun' BY <1>0, <1>1 DEF vars, NotBegun
  <2>2. \A w \in Walks : SoloWalk(w)' <=> SoloWalk(w)
    BY <1>1 DEF vars, SoloWalk, Halfway, Agrees, Exact, Counted, Present, Ahead
  <2> QED BY <1>1, <2>1, <2>2 DEF vars, SoloInv
<1>2. CASE (\E f \in Files : Edit(f)) \/ (\E p \in Procs : Kill(p)) \/ PowerLoss
  <2>1. solo' = Nobody BY <1>2 DEF Edit, Kill, PowerLoss
  <2>2. \A w \in Walks : walk'[w] = walk[w] \/ walk'[w] = Idle("killed")
    <3>1. CASE \E f \in Files : Edit(f) BY <3>1 DEF Edit
    <3>2. ASSUME NEW S \in SUBSET Procs, Killed(S)
          PROVE  \A w \in Walks : walk'[w] = walk[w] \/ walk'[w] = Idle("killed")
      BY <1>0, <3>2, KilledFacts
    <3> QED BY <1>2, <3>1, <3>2 DEF Kill, PowerLoss
  <2>3. Idle("killed").pc # "begin" BY DEF Idle
  <2>4. NotBegun' BY <1>0, <2>2, <2>3 DEF NotBegun
  <2> QED BY <1>0, <2>1, <2>4 DEF SoloInv
<1>3. ASSUME NEW w \in Walks, WalkStep(w) PROVE SoloInv'
  <2>0. walk[w] \in WalkLocals
    BY <1>0
  <2>1. walk'[w].pc # "begin"
    <3> USE <1>0, <2>0 DEF WalkLocals, Goto
    <3>1. CASE Begin(w) \/ Load(w) \/ WalkEnds(w) \/ Lookup(w) \/ Hash(w) \/ Update(w) \/ Prune(w)
      BY <3>1 DEF Begin, Load, WalkEnds, Lookup, Hash, Update, Prune
    <3>2. ASSUME NEW f \in Files, Visit(w, f) PROVE walk'[w].pc # "begin"
      BY <3>2 DEF Visit
    <3>3. CASE Save(w)
      BY <3>3 DEF Save, SaveSnapshot, SaveCreate, SaveWrite, SaveSync, SaveRename, SaveFails
    <3>4. CASE SendSync(w)
      BY <3>4 DEF SendSync, Idle
    <3> QED BY <1>3, <3>1, <3>2, <3>3, <3>4 DEF WalkStep
  <2>2. NotBegun'
    BY <1>0, <1>3, <2>1, WalkStepFrame DEF NotBegun, WalkFrame
  <2>3. CASE Begin(w)
    <3>1. solo' = w /\ walk[w] = Idle("begin") /\ walk'[w] = [Idle("begin") EXCEPT !.pc = "load"]
          /\ owner' = owner /\ metrics'[owner[w]] = NoCounts
      BY <1>0, <2>3 DEF Begin, NotBegun, Goto, Domains
    <3>2. SoloWalk(w)'
      BY <3>1 DEF SoloWalk, Idle
    <3> QED BY <2>2, <3>1, <3>2 DEF SoloInv
  <2>4. CASE ~Begin(w)
    <3>1. solo' = IF solo = w THEN w ELSE Nobody
      BY <1>3, <2>4 DEF WalkStep, Load, Visit, WalkEnds, Lookup, Hash, Update, Prune, SendSync, Save,
         SaveSnapshot, SaveCreate, SaveWrite, SaveSync, SaveRename, SaveFails, At
    <3>2. ASSUME faults' = 0 PROVE faults = 0
      <4>1. faults' = faults \/ Fault
        BY <1>3 DEF WalkStep, Begin, Load, Visit, WalkEnds, Lookup, Hash, Update, Prune, Save,
           SendSync, SaveSnapshot, SaveCreate, SaveWrite, SaveSync, SaveRename, SaveFails
      <4> QED BY <1>0, <3>2, <4>1 DEF Fault
    <3>3. ASSUME faults' = 0, solo = w PROVE SoloWalk(w)'
      <4>1. SoloWalk(w) BY <3>2, <3>3 DEF SoloInv
      <4> QED BY <1>3, <2>4, <3>3, <4>1, SoloVisits, SoloEntries, SoloSaves DEF WalkStep
    <3> QED BY <1>0, <2>2, <3>1, <3>3 DEF SoloInv
  <2> QED BY <2>3, <2>4
<1> QED BY <1>1, <1>2, <1>3 DEF Next

(* A walk that no other walk, edit or fault disturbs leaves a cache file that *)
(* agrees with the tree and reports every file once, as a hit or as hashed.   *)
THEOREM UndisturbedWalkExact == Spec => SoloWalkIsExact
<1>1. Init => SoloInv
  BY WalksAssumption DEF Init, SoloInv, NotBegun
<1>2. FreshInv /\ SoloInv /\ [Next]_vars =>
        [\A w \in Walks :
          solo = w /\ faults = 0 /\ walk[w].pc = "send" /\ walk'[w].pc = "done" =>
             /\ disk.kind = "whole" /\ DOMAIN disk.entries = Present
             /\ \A f \in Present : disk.entries[f].stat = tree[f]
             /\ walk'[w].sent.walked = Cardinality(Present)
             /\ walk'[w].sent.hashed + walk'[w].sent.hits = Cardinality(Present)]_vars
  <2> SUFFICES ASSUME FreshInv, SoloInv, Next, NEW w \in Walks,
                      solo = w, faults = 0, walk[w].pc = "send", walk'[w].pc = "done"
               PROVE  /\ disk.kind = "whole" /\ DOMAIN disk.entries = Present
                      /\ \A f \in Present : disk.entries[f].stat = tree[f]
                      /\ walk'[w].sent.walked = Cardinality(Present)
                      /\ walk'[w].sent.hashed + walk'[w].sent.hits = Cardinality(Present)
    BY DEF vars
  <2>0. /\ walk \in [Walks -> WalkLocals] /\ walk[w] \in WalkLocals /\ owner[w] \in Procs
        /\ metrics[owner[w]] \in Counts /\ Domains
    BY DEF FreshInv, Domains
  <2>1. SoloWalk(w)
    BY DEF SoloInv
  <2>2. /\ disk.kind = "whole" /\ Exact(disk.entries) /\ walk[w].failed = FALSE
        /\ Counted(metrics[owner[w]], Present, 0)
    BY <2>1 DEF SoloWalk
  <2>3. SendSync(w)
    <3>1. ASSUME NEW v \in Walks, WalkStep(v) PROVE SendSync(w)
      <4>1. v = w
        BY <2>0, <3>1, WalkStepFrame DEF WalkFrame
      <4> QED BY <3>1, <4>1 DEF WalkStep, Begin, Load, Visit, WalkEnds, Lookup, Hash, Update, Prune,
           Save, SaveSnapshot, SaveCreate, SaveWrite, SaveSync, SaveRename, SaveFails, At
    <3>2. Idle("killed").pc # "done" BY DEF Idle
    <3>3. ~(\E f \in Files : Edit(f)) BY DEF Edit
    <3>4. ASSUME NEW S \in SUBSET Procs, Killed(S) PROVE FALSE
      BY <2>0, <3>2, <3>4, KilledFacts
    <3>5. ~PowerLoss BY <3>4 DEF PowerLoss
    <3>6. ~(\E p \in Procs : Kill(p)) BY <3>4 DEF Kill
    <3> QED BY <3>1, <3>3, <3>5, <3>6 DEF Next
  <2>4. walk'[w].sent = metrics[owner[w]]
    BY <2>0, <2>2, <2>3 DEF SendSync, Idle
  <2>5. Cardinality(Present) \in Nat
    BY <2>2, FS_CardinalityType DEF Counted
  <2> QED BY <2>0, <2>2, <2>4, <2>5 DEF Exact, Agrees, Counted, Counts
<1> QED BY <1>1, <1>2, FreshInit, FreshStep, SoloStep, PTL DEF Spec, SoloWalkIsExact
=============================================================================
