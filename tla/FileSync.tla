------------------------------ MODULE FileSync ------------------------------
(***************************************************************************)
(* The content-hash cache of the file synchronisation (internal/filesync). *)
(* Every solve of a process may walk the project directory (hashFS.Walk);  *)
(* the walks of one process share its HashCache and its counters, and all  *)
(* processes share the cache file.  Files change while they are walked,    *)
(* file operations fail, processes are killed and the machine may lose     *)
(* power.                                                                  *)
(*                                                                         *)
(* A file's content is its version; an edit makes a new version and, since *)
(* it changes the modification time, a new stat: both are the same number. *)
(* A cache entry keeps the stat a walk saw and the version it hashed,      *)
(* which it reads later.  A mutex makes Load, Lookup, Update, Prune and    *)
(* the snapshot of Save atomic; everything between them interleaves.       *)
(***************************************************************************)
EXTENDS Integers, FiniteSets

CONSTANTS Procs,        \* processes
          Walks,        \* walks, each of one process
          Files,        \* paths of regular files, numbered in the order of a walk
          Nobody,       \* not a walk
          MaxEdits,     \* bound: changes of the tree
          MaxFaults     \* bound: crashes and failing file operations

ASSUME WalksAssumption == Nobody \notin Walks /\ Files \subseteq Nat
ASSUME BoundsAssumption == MaxEdits \in Nat /\ MaxFaults \in Nat

VARIABLES owner,     \* the process of each walk; never changes
          tree,      \* the version of each file; 0: there is none
          cache,     \* HashCache.entries of each process
          disk,      \* the cache file
          temp,      \* the temporary file of each walk's Save
          walk,      \* the locals of each walk
          metrics,   \* syncMetrics of each process
          edits,     \* changes of the tree so far
          faults,    \* crashes and failures so far
          solo       \* history: the walk that began last, if nothing else
                     \* has happened since

vars == <<owner, tree, cache, disk, temp, walk, metrics, edits, faults, solo>>

Versions == 1 .. MaxEdits + 1

\* Entries of a cache: partial functions from files to stat and hashed version.
Entries == UNION {[D -> [stat : Versions, hash : Versions]] : D \in SUBSET Files}
NoEntries == [f \in {} |-> 0]
Without(e, D) == [f \in DOMAIN e \ D |-> e[f]]
With(e, f, s, h) ==
    [g \in DOMAIN e \cup {f} |-> IF g = f THEN [stat |-> s, hash |-> h] ELSE e[g]]

\* A file on disk: "whole" is a complete JSON document of the current version.
FileStates == [kind : {"missing", "corrupt", "whole"}, entries : Entries, synced : BOOLEAN]
Missing == [kind |-> "missing", entries |-> NoEntries, synced |-> TRUE]
Corrupt == [kind |-> "corrupt", entries |-> NoEntries, synced |-> TRUE]
Whole(e) == [kind |-> "whole", entries |-> e, synced |-> TRUE]

NoCounts == [walked |-> 0, hashed |-> 0, hits |-> 0]
Present == {f \in Files : tree[f] # 0}

Begun == {"load", "walk", "lookup", "hash", "update", "prune", "snapshot",
          "create", "write", "sync", "rename", "send"}

\* The locals of a walk that is not under way.
Idle(l) == [pc |-> l, todo |-> Files, file |-> CHOOSE f \in Files : TRUE,
            stat |-> 0, hash |-> 0, seen |-> {}, failed |-> FALSE,
            snap |-> NoEntries, sent |-> NoCounts]

Init ==
    /\ owner \in [Walks -> Procs]
    /\ tree \in [Files -> {0, 1}]
    /\ cache = [p \in Procs |-> NoEntries]
    /\ disk \in {Missing, Corrupt}
          \cup {Whole([f \in D |-> [stat |-> 1, hash |-> 1]]) : D \in SUBSET Files}
    /\ temp = [w \in Walks |-> Missing]
    /\ walk = [w \in Walks |-> Idle("begin")]
    /\ metrics = [p \in Procs |-> NoCounts]
    /\ edits = 0 /\ faults = 0 /\ solo = Nobody

-----------------------------------------------------------------------------
(* Pieces of the actions.                                                  *)

\* Walk w, at l, does its next step; only an undisturbed walk stays solo.
At(w, l) ==
    /\ walk[w].pc = l
    /\ solo' = IF solo = w THEN w ELSE Nobody

\* Another operation of the file system fails.
Fault == faults < MaxFaults /\ faults' = faults + 1

Goto(w, l) == walk' = [walk EXCEPT ![w].pc = l]

Count(w, field) == metrics' = [metrics EXCEPT ![owner[w]][field] = @ + 1]

-----------------------------------------------------------------------------
(* hashFS.Walk.                                                            *)

\* The counters are reset although another walk may be using them.
Begin(w) ==
    /\ walk[w].pc = "begin"
    /\ solo' = w
    /\ metrics' = [metrics EXCEPT ![owner[w]] = NoCounts]
    /\ Goto(w, "load")
    /\ UNCHANGED <<owner, tree, cache, disk, temp, edits, faults>>

\* A missing, corrupt or unreadable file leaves the entries as they are.
Load(w) ==
    /\ At(w, "load")
    /\ \E readable \in BOOLEAN :
          /\ IF readable THEN UNCHANGED faults ELSE Fault
          /\ cache' = IF readable /\ disk.kind = "whole"
                         THEN [cache EXCEPT ![owner[w]] = disk.entries] ELSE cache
    /\ Goto(w, "walk")
    /\ UNCHANGED <<owner, tree, disk, temp, metrics, edits>>

\* The files a walk will still come to, as the tree is now.
Ahead(w) == walk[w].todo \cap Present

\* Mutant of Visit: a file counts as seen only if it was in the cache.
VisitSeenIfCached(w, f) ==
    /\ At(w, "walk") /\ f \in Ahead(w) /\ \A g \in Ahead(w) : f <= g
    /\ Count(w, "walked")
    /\ walk' = [walk EXCEPT ![w].pc = "lookup", ![w].todo = {g \in @ : g > f}, ![w].file = f,
                            ![w].stat = tree[f],
                            ![w].seen = @ \cup ({f} \cap DOMAIN cache[owner[w]])]
    /\ UNCHANGED <<owner, tree, cache, disk, temp, edits, faults>>

\* The walk comes to a regular file and takes its stat.
Visit(w, f) ==
    /\ At(w, "walk") /\ f \in Ahead(w) /\ \A g \in Ahead(w) : f <= g
    /\ Count(w, "walked")
    /\ walk' = [walk EXCEPT ![w].pc = "lookup", ![w].todo = {g \in @ : g > f}, ![w].file = f,
                            ![w].stat = tree[f], ![w].seen = @ \cup {f}]
    /\ UNCHANGED <<owner, tree, cache, disk, temp, edits, faults>>

\* The walk is over: nothing is left, or the walk or its callback failed.
WalkEnds(w) ==
    /\ At(w, "walk")
    /\ \/ /\ Ahead(w) = {}
          /\ Goto(w, "prune")
          /\ UNCHANGED faults
       \/ /\ Fault
          /\ walk' = [walk EXCEPT ![w].pc = "snapshot", ![w].failed = TRUE]
    /\ UNCHANGED <<owner, tree, cache, disk, temp, metrics, edits>>

\* An entry counts if it was made for the stat the walk saw; a file whose stat
\* cannot be had is passed over.
Lookup(w) ==
    LET e == cache[owner[w]]
        f == walk[w].file
        hit == f \in DOMAIN e /\ e[f].stat = walk[w].stat
    IN  /\ At(w, "lookup")
        /\ \/ hit /\ Count(w, "hits") /\ Goto(w, "walk") /\ UNCHANGED faults
           \/ ~hit /\ Goto(w, "hash") /\ UNCHANGED <<metrics, faults>>
           \/ Fault /\ Goto(w, "walk") /\ UNCHANGED metrics
        /\ UNCHANGED <<owner, tree, cache, disk, temp, edits>>

\* hashEntry reads the file as it is now; a file that is gone or cannot be
\* read is passed over.
Hash(w) ==
    /\ At(w, "hash")
    /\ \/ /\ walk[w].file \in Present
          /\ walk' = [walk EXCEPT ![w].pc = "update", ![w].hash = tree[walk[w].file]]
          /\ UNCHANGED faults
       \/ /\ walk[w].file \notin Present
          /\ Goto(w, "walk") /\ UNCHANGED faults
       \/ Fault /\ Goto(w, "walk")
    /\ UNCHANGED <<owner, tree, cache, disk, temp, metrics, edits>>

\* Mutant of Update: the entry gets the stat the file has now.
UpdateRestat(w) ==
    /\ At(w, "update")
    /\ cache' = [cache EXCEPT ![owner[w]] =
                    With(@, walk[w].file,
                         IF walk[w].file \in Present THEN tree[walk[w].file]
                                                     ELSE walk[w].stat, walk[w].hash)]
    /\ Count(w, "hashed")
    /\ Goto(w, "walk")
    /\ UNCHANGED <<owner, tree, disk, temp, edits, faults>>

\* The entry gets the stat seen before the file was read.
Update(w) ==
    /\ At(w, "update")
    /\ cache' = [cache EXCEPT ![owner[w]] =
                    With(@, walk[w].file, walk[w].stat, walk[w].hash)]
    /\ Count(w, "hashed")
    /\ Goto(w, "walk")
    /\ UNCHANGED <<owner, tree, disk, temp, edits, faults>>

\* After a complete walk: entries of files it has not seen are dropped.
Prune(w) ==
    /\ At(w, "prune")
    /\ cache' = [cache EXCEPT ![owner[w]] = Without(@, Files \ walk[w].seen)]
    /\ Goto(w, "snapshot")
    /\ UNCHANGED <<owner, tree, disk, temp, metrics, edits, faults>>

\* The message of a complete walk takes the counters as they are now.
SendSync(w) ==
    /\ At(w, "send")
    /\ walk' = [walk EXCEPT ![w] =
                   [Idle("done") EXCEPT !.sent = IF walk[w].failed THEN NoCounts
                                                 ELSE metrics[owner[w]]]]
    /\ UNCHANGED <<owner, tree, cache, disk, temp, metrics, edits, faults>>

-----------------------------------------------------------------------------
(* HashCache.Save: snapshot, temporary file, sync, rename.                 *)

SaveSnapshot(w) ==
    /\ At(w, "snapshot")
    /\ walk' = [walk EXCEPT ![w].pc = "create", ![w].snap = cache[owner[w]]]
    /\ UNCHANGED <<owner, tree, cache, disk, temp, metrics, edits, faults>>

SaveCreate(w) ==
    /\ At(w, "create")
    /\ temp' = [temp EXCEPT ![w] = [Corrupt EXCEPT !.synced = FALSE]]
    /\ Goto(w, "write")
    /\ UNCHANGED <<owner, tree, cache, disk, metrics, edits, faults>>

\* Mutant of SaveWrite: the file is not synced before the rename.
SaveWriteUnsynced(w) ==
    /\ At(w, "write")
    /\ temp' = [temp EXCEPT ![w] = [Whole(walk[w].snap) EXCEPT !.synced = FALSE]]
    /\ Goto(w, "rename")
    /\ UNCHANGED <<owner, tree, cache, disk, metrics, edits, faults>>

SaveWrite(w) ==
    /\ At(w, "write")
    /\ temp' = [temp EXCEPT ![w] = [Whole(walk[w].snap) EXCEPT !.synced = FALSE]]
    /\ Goto(w, "sync")
    /\ UNCHANGED <<owner, tree, cache, disk, metrics, edits, faults>>

SaveSync(w) ==
    /\ At(w, "sync")
    /\ temp' = [temp EXCEPT ![w].synced = TRUE]
    /\ Goto(w, "rename")
    /\ UNCHANGED <<owner, tree, cache, disk, metrics, edits, faults>>

SaveRename(w) ==
    /\ At(w, "rename")
    /\ disk' = temp[w]
    /\ temp' = [temp EXCEPT ![w] = Missing]
    /\ Goto(w, "send")
    /\ UNCHANGED <<owner, tree, cache, metrics, edits, faults>>

\* Any step of Save fails: the temporary file is removed and the old cache
\* file stays.
SaveFails(w) ==
    /\ \E l \in {"create", "write", "sync", "rename"} : At(w, l)
    /\ Fault
    /\ temp' = [temp EXCEPT ![w] = Missing]
    /\ Goto(w, "send")
    /\ UNCHANGED <<owner, tree, cache, disk, metrics, edits>>

-----------------------------------------------------------------------------
(* The environment.                                                        *)

\* A file is written, created or deleted.
Edit(f) ==
    /\ edits < MaxEdits
    /\ edits' = edits + 1
    /\ tree' \in {[tree EXCEPT ![f] = edits + 2], [tree EXCEPT ![f] = 0]}
    /\ solo' = Nobody
    /\ UNCHANGED <<owner, cache, disk, temp, walk, metrics, faults>>

\* What is left of a file that was being written when the process ended, or
\* that was not synced when the power failed.
Torn(file) == IF file.synced THEN file ELSE Corrupt

Killed(S) ==
    /\ walk' = [w \in Walks |->
                   IF owner[w] \in S /\ walk[w].pc \in Begun
                      THEN Idle("killed") ELSE walk[w]]
    /\ cache' = [p \in Procs |-> IF p \in S THEN NoEntries ELSE cache[p]]
    /\ metrics' = [p \in Procs |-> IF p \in S THEN NoCounts ELSE metrics[p]]

\* A process is killed.  What it wrote stays, its temporary files too; walks
\* it has not begun are those of the next process.
Kill(p) ==
    /\ Fault /\ Killed({p})
    /\ solo' = Nobody
    /\ UNCHANGED <<owner, tree, disk, temp, edits>>

\* The power fails: all processes end and data that was not synced is lost.
PowerLoss ==
    /\ Fault /\ Killed(Procs)
    /\ disk' = Torn(disk)
    /\ temp' = [w \in Walks |-> Torn(temp[w])]
    /\ solo' = Nobody
    /\ UNCHANGED <<owner, tree, edits>>

-----------------------------------------------------------------------------
Save(w) == \/ SaveSnapshot(w) \/ SaveCreate(w) \/ SaveWrite(w) \/ SaveSync(w)
           \/ SaveRename(w) \/ SaveFails(w)

WalkStep(w) ==
    \/ Begin(w) \/ Load(w) \/ (\E f \in Files : Visit(w, f)) \/ WalkEnds(w)
    \/ Lookup(w) \/ Hash(w) \/ Update(w) \/ Prune(w) \/ Save(w) \/ SendSync(w)

Next == \/ \E w \in Walks : WalkStep(w)
        \/ \E f \in Files : Edit(f)
        \/ \E p \in Procs : Kill(p)
        \/ PowerLoss

Spec == Init /\ [][Next]_vars

-----------------------------------------------------------------------------
(* Properties.                                                             *)

\* The cache file is replaced as a whole: whatever is killed, fails or loses
\* power when, a file that could be loaded before can be loaded after, with
\* the entries of the cache it had or of one a walk took a snapshot of.
CacheFileIntact ==
    [][disk' # disk =>
          /\ disk'.kind = "whole"
          /\ \E w \in Walks : disk'.entries = walk[w].snap]_vars

\* No entry, in memory, on disk or on its way there, pairs a stat with content
\* older than it: a later lookup that finds the file's stat in the cache never
\* takes an edited file for the old one.
NeverOlderThanStat ==
    LET Fresh(e) == \A f \in DOMAIN e : e[f].hash >= e[f].stat
    IN  /\ \A p \in Procs : Fresh(cache[p])
        /\ \A w \in Walks : Fresh(walk[w].snap)
        /\ Fresh(disk.entries)

\* A walk that nothing disturbs leaves a cache file that agrees with the tree,
\* file by file and without leftovers, and reports each file once, as a hit or
\* as hashed.
SoloWalkIsExact ==
    [][\A w \in Walks :
          solo = w /\ faults = 0 /\ walk[w].pc = "send" /\ walk'[w].pc = "done" =>
             /\ disk.kind = "whole" /\ DOMAIN disk.entries = Present
             /\ \A f \in Present : disk.entries[f].stat = tree[f]
             /\ walk'[w].sent.walked = Cardinality(Present)
             /\ walk'[w].sent.hashed + walk'[w].sent.hits = Cardinality(Present)]_vars
=============================================================================
