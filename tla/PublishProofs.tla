--------------------------- MODULE PublishProofs ----------------------------
(***************************************************************************)
(* Theorems about image publishes, for every list of publishes, any number *)
(* of images and variants and tar streams of any length.                   *)
(***************************************************************************)
EXTENDS Publish, TLAPS

States == {"running", "ok", "failed"}
Results == {"", "ok", "rejected", "failed"}

(* runPublishes has started the goroutines of its groups, which agree on      *)
(* their settings and of which no list is loaded into docker.                 *)
Started ==
  /\ groups = groupPublishes(pubs)
  /\ ~Conflict(groups) /\ ~DockerMulti(groups)

Domains ==
  /\ asked \in Seq(ImagePublish)
  /\ pubs \subseteq DOMAIN asked
  /\ DOMAIN task = Groups /\ DOMAIN solved = Groups /\ DOMAIN pipe = Groups
  /\ DOMAIN store = Groups /\ DOMAIN loaded = Groups
  /\ Groups # {} => Started
  /\ result \in Results

GroupTypes(k) ==
  /\ task[k] \in [Tasks(groups[k]) -> States]
  /\ solved[k] \subseteq groups[k]
  /\ pipe[k] \in 0 .. Chunks

Stored(k) == [platforms |-> Platforms(groups[k]), push |-> First(groups[k]).push]

Ok(k, t) == t \in DOMAIN task[k] /\ task[k][t] = "ok"

(* What the success of a goroutine stands for.  A loader that ended well      *)
(* before it had the whole archive did so because the solve failed.           *)
Delivered(k) ==
  /\ store[k].platforms \in {{}, Platforms(groups[k])}
  /\ Ok(k, "multi") \/ Ok(k, "publish") => store[k] = Stored(k)
  /\ Ok(k, "solve") => pipe[k] = Chunks
  /\ Ok(k, "load") => loaded[k] = "whole" \/ Failed(k, "solve")

(* A result is given when every goroutine has returned, "ok" when each ended  *)
(* well; without groups nothing was to be published.                          *)
Verdict ==
  /\ result # "" => \A k \in Groups : Returned(k)
  /\ result = "ok" => \A k \in Groups : \A t \in DOMAIN task[k] : task[k][t] = "ok"
  /\ result = "ok" /\ Groups = {} => pubs = {}

PublishInv ==
  /\ Domains
  /\ \A k \in Groups : GroupTypes(k) /\ Delivered(k)
  /\ Verdict
LEMMA PublishInit == Init => PublishInv
<1> SUFFICES ASSUME Init PROVE PublishInv
  OBVIOUS
<1>1. Groups = {} /\ DOMAIN Nothing = {}
  BY DEF Init, Groups, Nothing
<1>2. Domains
  BY <1>1, InputsAssumption DEF Init, Domains, Results
<1> QED BY <1>1, <1>2 DEF Init, PublishInv, Verdict

-----------------------------------------------------------------------------
(* runPublishes up to its errgroup.                                          *)

LEMMA RunPublishesInv ==
  ASSUME PublishInv, RunPublishes
  PROVE  PublishInv'
<1> DEFINE gs == groupPublishes(pubs')
           Bad == pubs' = {} \/ Conflict(gs) \/ DockerMulti(gs)
<1>0. UNCHANGED asked /\ pubs' \subseteq DOMAIN asked /\ Groups = {}
  BY DEF RunPublishes, filterSuccessful
<1>1. gs = groupPublishes(pubs)'
  BY <1>0 DEF groupPublishes, Variants
<1> HIDE DEF gs
<1>2. CASE Bad
  <2>1. /\ result' = IF pubs' = {} THEN "ok" ELSE "rejected"
        /\ UNCHANGED <<groups, task, solved, pipe, store, loaded>>
    BY <1>2 DEF RunPublishes, gs
  <2>2. Groups' = {}
    BY <1>0, <2>1 DEF Groups
  <2>3. Domains'
    BY <1>0, <2>1, <2>2 DEF PublishInv, Domains, Results, Groups
  <2> QED BY <2>1, <2>2, <2>3 DEF PublishInv, Verdict
<1>3. CASE ~Bad
  <2>1. /\ groups' = gs
        /\ task' = [k \in DOMAIN gs |-> [t \in Tasks(gs[k]) |-> NewTask(gs[k], t)]]
        /\ solved' = [k \in DOMAIN gs |-> {}]
        /\ pipe' = [k \in DOMAIN gs |-> 0]
        /\ store' = [k \in DOMAIN gs |-> [platforms |-> {}, push |-> "no"]]
        /\ loaded' = [k \in DOMAIN gs |-> "no"]
        /\ result = "" /\ UNCHANGED result
    BY <1>3 DEF RunPublishes, gs
  <2>2. Started'
    <3>1. ~Conflict(groups)'
      BY <1>0, <1>3, <2>1 DEF Conflict, First
    <3>2. ~DockerMulti(groups)'
      BY <1>0, <1>3, <2>1 DEF DockerMulti, First
    <3> QED BY <1>1, <2>1, <3>1, <3>2 DEF Started
  <2>3. Domains'
    BY <1>0, <2>1, <2>2 DEF PublishInv, Domains, Groups
  <2>4. ASSUME NEW k \in Groups' PROVE GroupTypes(k)' /\ Delivered(k)'
    <3>0. k \in DOMAIN gs /\ groups'[k] = gs[k]
      BY <2>1 DEF Groups
    <3>1. Tasks(groups[k])' = Tasks(gs[k])
      BY <1>0, <3>0 DEF Tasks, First
    <3>2. \A t \in Tasks(gs[k]) : task'[k][t] \in {"running", "failed"}
      BY <2>1, <3>0 DEF NewTask
    <3>3. DOMAIN task'[k] = Tasks(gs[k]) /\ task'[k] = [t \in Tasks(gs[k]) |-> task'[k][t]]
      BY <2>1, <3>0
    <3>4. GroupTypes(k)'
      <4>1. task'[k] \in [Tasks(gs[k]) -> States]
        BY <3>2, <3>3 DEF States
      <4>2. solved'[k] = {} /\ pipe'[k] \in 0 .. Chunks
        <5>1. 0 \in 0 .. Chunks
          BY ChunksAssumption
        <5> QED BY <2>1, <3>0, <5>1
      <4> QED BY <3>1, <4>1, <4>2 DEF GroupTypes
    <3>5. \A t : ~Ok(k, t)'
      BY <3>2, <3>3 DEF Ok
    <3>6. store'[k].platforms = {}
      BY <2>1, <3>0
    <3> QED BY <3>4, <3>5, <3>6 DEF Delivered
  <2> QED BY <2>1, <2>3, <2>4 DEF PublishInv, Verdict
<1> QED BY <1>2, <1>3
-----------------------------------------------------------------------------
(* The goroutines of a group.                                                *)

(* What a goroutine of another group sees of group h. *)
Fields(h) == <<task[h], solved[h], pipe[h], store[h], loaded[h]>>

(* A step of group k: the groups and the result stay, and so do the fields of *)
(* every other group.                                                         *)
OnlyGroup(k) ==
  /\ UNCHANGED <<asked, pubs, groups, result>>
  /\ DOMAIN task' = DOMAIN task /\ DOMAIN solved' = DOMAIN solved
  /\ DOMAIN pipe' = DOMAIN pipe /\ DOMAIN store' = DOMAIN store
  /\ DOMAIN loaded' = DOMAIN loaded
  /\ \A h \in Groups \ {k} : UNCHANGED Fields(h)

(* Nothing that is decided by the list and the grouping changes. *)
LEMMA SameGroups ==
  ASSUME UNCHANGED <<asked, pubs, groups>>
  PROVE  /\ Groups' = Groups /\ Started' = Started
         /\ \A k \in Groups : /\ Tasks(groups[k])' = Tasks(groups[k])
                              /\ Platforms(groups[k])' = Platforms(groups[k])
                              /\ Stored(k)' = Stored(k)
<1>1. Groups' = Groups
  BY DEF Groups
<1>2. Started' = Started
  BY DEF Started, groupPublishes, Variants, Conflict, DockerMulti, First
<1>3. ASSUME NEW k \in Groups
      PROVE  /\ Tasks(groups[k])' = Tasks(groups[k])
             /\ Platforms(groups[k])' = Platforms(groups[k])
             /\ Stored(k)' = Stored(k)
  BY DEF Tasks, Platforms, Stored, First
<1> QED BY <1>1, <1>2, <1>3

(* A step of one group keeps the invariant if it keeps the group's own part. *)
LEMMA OneGroup ==
  ASSUME PublishInv, NEW k \in Groups, NEW t, Running(k, t), OnlyGroup(k),
         GroupTypes(k)', Delivered(k)'
  PROVE  PublishInv'
<1>0. UNCHANGED <<asked, pubs, groups>> /\ result = "" /\ UNCHANGED result
  BY DEF OnlyGroup, PublishInv, Verdict, Returned, Running
<1>1. /\ Groups' = Groups /\ Started' = Started
      /\ \A h \in Groups : /\ Tasks(groups[h])' = Tasks(groups[h])
                           /\ Platforms(groups[h])' = Platforms(groups[h])
                           /\ Stored(h)' = Stored(h)
  BY <1>0, SameGroups
<1>2. Domains'
  BY <1>0, <1>1 DEF PublishInv, Domains, OnlyGroup
<1>3. ASSUME NEW h \in Groups \ {k} PROVE GroupTypes(h)' /\ Delivered(h)'
  <2>1. /\ task'[h] = task[h] /\ solved'[h] = solved[h] /\ pipe'[h] = pipe[h]
        /\ store'[h] = store[h] /\ loaded'[h] = loaded[h] /\ groups'[h] = groups[h]
    BY <1>0 DEF OnlyGroup, Fields
  <2>2. GroupTypes(h)'
    BY <1>1, <2>1 DEF PublishInv, GroupTypes
  <2>3. Delivered(h)'
    BY <1>1, <2>1 DEF PublishInv, Delivered, Ok, Failed
  <2> QED BY <2>2, <2>3
<1>4. Verdict'
  BY <1>0 DEF Verdict
<1> QED BY <1>1, <1>2, <1>3, <1>4 DEF PublishInv

(* A goroutine that returns. *)
LEMMA TaskEnds ==
  ASSUME PublishInv, NEW k \in Groups, NEW t, Running(k, t), NEW how \in {"ok", "failed"},
         Ends(k, t, how), UNCHANGED <<asked, pubs, groups>>
  PROVE  /\ task'[k] \in [Tasks(groups[k])' -> States]
         /\ task'[k][t] = how
         /\ \A u \in DOMAIN task[k] \ {t} : task'[k][u] = task[k][u]
         /\ DOMAIN task'[k] = DOMAIN task[k]
         /\ DOMAIN task' = DOMAIN task
         /\ \A h \in Groups \ {k} : task'[h] = task[h]
<1>1. k \in DOMAIN task /\ t \in DOMAIN task[k] /\ task[k] \in [Tasks(groups[k]) -> States]
  BY DEF PublishInv, Domains, GroupTypes, Running
<1>2. task' = [task EXCEPT ![k] = [task[k] EXCEPT ![t] = how]]
  BY DEF Ends
<1>3. Tasks(groups[k])' = Tasks(groups[k])
  BY SameGroups
<1>4. task'[k] = [task[k] EXCEPT ![t] = how]
  BY <1>1, <1>2
<1>5. task'[k] \in [Tasks(groups[k]) -> States]
  BY <1>1, <1>4 DEF States
<1>6. DOMAIN task' = DOMAIN task /\ \A h \in Groups \ {k} : task'[h] = task[h]
  BY <1>2 DEF PublishInv, Domains
<1> QED BY <1>1, <1>3, <1>4, <1>5, <1>6

(* A call that fails says nothing about what was delivered. *)
LEMMA FailsInv ==
  ASSUME PublishInv, NEW k \in Groups, NEW t, Running(k, t), Ends(k, t, "failed"),
         UNCHANGED <<asked, pubs, groups, solved, pipe, store, loaded, result>>
  PROVE  PublishInv'
<1>1. /\ task'[k] \in [Tasks(groups[k])' -> States]
      /\ task'[k][t] = "failed"
      /\ \A u \in DOMAIN task[k] \ {t} : task'[k][u] = task[k][u]
      /\ DOMAIN task'[k] = DOMAIN task[k]
      /\ DOMAIN task' = DOMAIN task
      /\ \A h \in Groups \ {k} : task'[h] = task[h]
  BY TaskEnds
<1>2. OnlyGroup(k)
  BY <1>1 DEF OnlyGroup, Fields
<1>3. GroupTypes(k)'
  BY <1>1 DEF PublishInv, GroupTypes
<1>4. /\ \A u : Ok(k, u)' => Ok(k, u)
      /\ \A u : Failed(k, u) => Failed(k, u)'
  BY <1>1 DEF Ok, Failed
<1>5. Delivered(k)'
  <2>1. Platforms(groups[k])' = Platforms(groups[k]) /\ Stored(k)' = Stored(k)
    BY SameGroups
  <2> QED BY <1>4, <2>1 DEF PublishInv, Delivered
<1> QED BY <1>2, <1>3, <1>5, OneGroup

LEMMA SolveVariantInv ==
  ASSUME PublishInv, NEW k \in Groups, SolveVariant(k)
  PROVE  PublishInv'
<1>1. PICK i \in groups[k] : solved' = [solved EXCEPT ![k] = @ \cup {i}]
  BY DEF SolveVariant, ToSolve
<1>2. k \in DOMAIN solved /\ solved'[k] = solved[k] \cup {i}
  BY <1>1 DEF PublishInv, Domains
<1>3. OnlyGroup(k)
  BY <1>1 DEF SolveVariant, OnlyGroup, Fields, PublishInv, Domains
<1>4. Tasks(groups[k])' = Tasks(groups[k]) /\ Platforms(groups[k])' = Platforms(groups[k])
      /\ Stored(k)' = Stored(k)
  BY SameGroups DEF SolveVariant
<1>5. GroupTypes(k)'
  BY <1>2, <1>4 DEF SolveVariant, PublishInv, GroupTypes
<1>6. Delivered(k)'
  BY <1>4 DEF SolveVariant, PublishInv, Delivered, Ok, Failed
<1> QED BY <1>3, <1>5, <1>6, OneGroup DEF SolveVariant

(* An export that succeeds leaves the platforms of all variants in the store: *)
(* for a list because every variant has been solved.                          *)
LEMMA ExportInv ==
  ASSUME PublishInv, NEW k \in Groups, NEW t \in {"multi", "publish"}, Running(k, t),
         NEW variants, variants = groups[k], Export(k, t, variants)
  PROVE  PublishInv'
<1>0. UNCHANGED <<asked, pubs, groups, solved, pipe, loaded, result>>
  BY DEF Export
<1>1. /\ task'[k] \in [Tasks(groups[k])' -> States]
      /\ task'[k][t] = "ok"
      /\ \A u \in DOMAIN task[k] \ {t} : task'[k][u] = task[k][u]
      /\ DOMAIN task'[k] = DOMAIN task[k]
      /\ DOMAIN task' = DOMAIN task
      /\ \A h \in Groups \ {k} : task'[h] = task[h]
  BY <1>0, TaskEnds DEF Export
<1>2. store' = [store EXCEPT ![k] = Stored(k)]
  BY DEF Export, Stored
<1>3. OnlyGroup(k)
  BY <1>0, <1>1, <1>2 DEF OnlyGroup, Fields, PublishInv, Domains
<1>4. GroupTypes(k)'
  BY <1>0, <1>1 DEF PublishInv, GroupTypes
<1>5. Delivered(k)'
  <2>1. Platforms(groups[k])' = Platforms(groups[k]) /\ Stored(k)' = Stored(k)
    BY <1>0, SameGroups
  <2>2. store'[k] = Stored(k) /\ store'[k].platforms = Platforms(groups[k])
    BY <1>2 DEF PublishInv, Domains, Stored
  <2>3. \A u \in {"solve", "load"} : /\ Ok(k, u)' = Ok(k, u)
                                     /\ Failed(k, u)' = Failed(k, u)
    BY <1>1 DEF Ok, Failed
  <2> QED BY <1>0, <2>1, <2>2, <2>3 DEF PublishInv, Delivered
<1> QED BY <1>3, <1>4, <1>5, OneGroup
LEMMA TransferInv ==
  ASSUME PublishInv, NEW k \in Groups, Transfer(k)
  PROVE  PublishInv'
<1>0. UNCHANGED <<asked, pubs, groups, task, solved, store, loaded, result>>
  BY DEF Transfer
<1>1. pipe' = [pipe EXCEPT ![k] = pipe[k] + 1] /\ k \in DOMAIN pipe /\ pipe[k] \in 0 .. Chunks
  BY DEF Transfer, PublishInv, Domains, GroupTypes
<1>2. pipe'[k] \in 0 .. Chunks
  BY <1>1, ChunksAssumption DEF Transfer
<1>3. OnlyGroup(k)
  BY <1>0, <1>1 DEF OnlyGroup, Fields, PublishInv, Domains
<1>4. /\ Tasks(groups[k])' = Tasks(groups[k]) /\ Platforms(groups[k])' = Platforms(groups[k])
      /\ Stored(k)' = Stored(k)
  BY <1>0, SameGroups
<1>5. GroupTypes(k)'
  BY <1>0, <1>2, <1>4 DEF PublishInv, GroupTypes
<1>6. ~Ok(k, "solve")'
  BY <1>0 DEF Transfer, Running, Ok
<1>7. Delivered(k)'
  BY <1>0, <1>4, <1>6 DEF PublishInv, Delivered, Ok, Failed
<1> QED BY <1>3, <1>5, <1>7, OneGroup DEF Transfer

LEMMA SolveReturnsInv ==
  ASSUME PublishInv, NEW k \in Groups, SolveReturns(k)
  PROVE  PublishInv'
<1>0. /\ UNCHANGED <<asked, pubs, groups, solved, pipe, store, loaded, result>>
      /\ Running(k, "solve") /\ pipe[k] = Chunks
  BY DEF SolveReturns
<1>1. /\ task'[k] \in [Tasks(groups[k])' -> States]
      /\ task'[k]["solve"] = "ok"
      /\ \A u \in DOMAIN task[k] \ {"solve"} : task'[k][u] = task[k][u]
      /\ DOMAIN task'[k] = DOMAIN task[k]
      /\ DOMAIN task' = DOMAIN task
      /\ \A h \in Groups \ {k} : task'[h] = task[h]
  BY <1>0, TaskEnds DEF SolveReturns
<1>2. OnlyGroup(k)
  BY <1>0, <1>1 DEF OnlyGroup, Fields
<1>3. GroupTypes(k)'
  BY <1>0, <1>1 DEF PublishInv, GroupTypes
<1>4. Delivered(k)'
  <2>1. Platforms(groups[k])' = Platforms(groups[k]) /\ Stored(k)' = Stored(k)
    BY <1>0, SameGroups
  <2>2. \A u \in {"multi", "publish", "load"} : Ok(k, u)' = Ok(k, u)
    BY <1>1 DEF Ok
  <2>3. ~Failed(k, "solve")
    BY <1>0 DEF Running, Failed
  <2> QED BY <1>0, <2>1, <2>2, <2>3 DEF PublishInv, Delivered
<1> QED BY <1>0, <1>2, <1>3, <1>4, OneGroup

(* docker load sees the end of the stream when the solve has returned: it has *)
(* the whole archive if the solve ended well.                                 *)
LEMMA LoadReturnsInv ==
  ASSUME PublishInv, NEW k \in Groups, LoadReturns(k)
  PROVE  PublishInv'
<1>0. /\ UNCHANGED <<asked, pubs, groups, solved, pipe, store, result>>
      /\ Running(k, "load") /\ k \in DOMAIN loaded
  BY DEF LoadReturns, PublishInv, Domains
<1>1. /\ task'[k] \in [Tasks(groups[k])' -> States]
      /\ task'[k]["load"] = "ok"
      /\ \A u \in DOMAIN task[k] \ {"load"} : task'[k][u] = task[k][u]
      /\ DOMAIN task'[k] = DOMAIN task[k]
      /\ DOMAIN task' = DOMAIN task
      /\ \A h \in Groups \ {k} : task'[h] = task[h]
  BY <1>0, TaskEnds DEF LoadReturns
<1>2. /\ loaded' = [loaded EXCEPT ![k] = IF pipe[k] >= Chunks - 1 THEN "whole" ELSE "part"]
      /\ loaded'[k] = IF pipe[k] >= Chunks - 1 THEN "whole" ELSE "part"
  BY <1>0 DEF LoadReturns
<1>3. OnlyGroup(k)
  BY <1>0, <1>1, <1>2 DEF OnlyGroup, Fields
<1>4. GroupTypes(k)'
  BY <1>0, <1>1 DEF PublishInv, GroupTypes
<1>5. \A u \in {"multi", "publish", "solve"} : Ok(k, u)' = Ok(k, u) /\ Failed(k, u)' = Failed(k, u)
  BY <1>1 DEF Ok, Failed
<1>6. loaded'[k] = "whole" \/ Failed(k, "solve")
  <2>1. CASE pipe[k] >= Chunks - 1
    BY <1>2, <2>1
  <2>2. CASE ~(pipe[k] >= Chunks - 1)
    <3>1. "solve" \in DOMAIN task[k] /\ task[k]["solve"] \in States
      <4>1. task[k] \in [Tasks(groups[k]) -> States] /\ "load" \in Tasks(groups[k])
        BY <1>0 DEF PublishInv, GroupTypes, Running
      <4>2. "solve" \in Tasks(groups[k])
        BY <4>1 DEF Tasks
      <4> QED BY <4>1, <4>2
    <3>2. ~Running(k, "solve")
      BY <2>2 DEF LoadReturns, WriterGone
    <3>3. pipe[k] # Chunks
      BY <2>2, ChunksAssumption
    <3>4. ~Ok(k, "solve")
      BY <3>3 DEF PublishInv, Delivered
    <3> QED BY <3>1, <3>2, <3>4 DEF Running, Ok, Failed, States
  <2> QED BY <2>1, <2>2
<1>7. Delivered(k)'
  <2>1. Platforms(groups[k])' = Platforms(groups[k]) /\ Stored(k)' = Stored(k)
    BY <1>0, SameGroups
  <2> QED BY <1>0, <1>5, <1>6, <2>1 DEF PublishInv, Delivered
<1> QED BY <1>0, <1>3, <1>4, <1>7, OneGroup

LEMMA ReturnInv ==
  ASSUME PublishInv, Return
  PROVE  PublishInv'
<1>0. /\ UNCHANGED <<asked, pubs, groups, task, solved, pipe, store, loaded>>
      /\ Groups # {} /\ \A k \in Groups : Returned(k)
      /\ result' = IF \E k \in Groups : GroupFailed(k) THEN "failed" ELSE "ok"
  BY DEF Return
<1>1. /\ Groups' = Groups /\ Started' = Started
      /\ \A k \in Groups : /\ Tasks(groups[k])' = Tasks(groups[k])
                           /\ Platforms(groups[k])' = Platforms(groups[k])
                           /\ Stored(k)' = Stored(k)
  BY <1>0, SameGroups
<1>2. Domains'
  BY <1>0, <1>1 DEF PublishInv, Domains, Results
<1>3. \A k \in Groups : GroupTypes(k)' /\ Delivered(k)'
  BY <1>0, <1>1 DEF PublishInv, GroupTypes, Delivered, Ok, Failed
<1>4. ASSUME result' = "ok", NEW k \in Groups, NEW t \in DOMAIN task[k]
      PROVE  task[k][t] = "ok"
  <2>1. task[k][t] \in States
    BY DEF PublishInv, GroupTypes
  <2>2. task[k][t] # "running" /\ task[k][t] # "failed"
    BY <1>0, <1>4 DEF Returned, GroupFailed, Failed
  <2> QED BY <2>1, <2>2 DEF States
<1>5. Verdict'
  BY <1>0, <1>1, <1>4 DEF Verdict, Returned
<1> QED BY <1>1, <1>2, <1>3, <1>5 DEF PublishInv

LEMMA SameInv ==
  ASSUME PublishInv, UNCHANGED <<asked, pubs, groups, task, solved, pipe, store, loaded, result>>
  PROVE  PublishInv'
<1>1. /\ Groups' = Groups /\ Started' = Started
      /\ \A k \in Groups : /\ Tasks(groups[k])' = Tasks(groups[k])
                           /\ Platforms(groups[k])' = Platforms(groups[k])
                           /\ Stored(k)' = Stored(k)
  BY SameGroups
<1>2. Domains' /\ Verdict'
  BY <1>1 DEF PublishInv, Domains, Verdict, Returned
<1>3. \A k \in Groups : GroupTypes(k)' /\ Delivered(k)'
  BY <1>1 DEF PublishInv, GroupTypes, Delivered, Ok, Failed
<1> QED BY <1>1, <1>2, <1>3 DEF PublishInv

LEMMA GroupStepInv ==
  ASSUME PublishInv, NEW k \in Groups,
         GroupStep(k) \/ \E t \in DOMAIN task[k] : TaskFails(k, t)
  PROVE  PublishInv'
<1>1. CASE SolveVariant(k)
  BY <1>1, SolveVariantInv
<1>2. CASE ExportList(k)
  <2>1. solved[k] = groups[k]
    BY <1>2 DEF ExportList, ToSolve, PublishInv, GroupTypes
  <2> QED BY <1>2, <2>1, ExportInv DEF ExportList
<1>3. CASE ExportImage(k)
  BY <1>3, ExportInv DEF ExportImage
<1>4. CASE Transfer(k)
  BY <1>4, TransferInv
<1>5. CASE SolveReturns(k)
  BY <1>5, SolveReturnsInv
<1>6. CASE WriteFails(k)
  BY <1>6, FailsInv DEF WriteFails
<1>7. CASE LoadReturns(k)
  BY <1>7, LoadReturnsInv
<1>8. ASSUME NEW t, TaskFails(k, t) PROVE PublishInv'
  BY <1>8, FailsInv DEF TaskFails
<1> QED BY <1>1, <1>2, <1>3, <1>4, <1>5, <1>6, <1>7, <1>8 DEF GroupStep, MustFail

LEMMA PublishStep ==
  ASSUME PublishInv, [Next]_vars
  PROVE  PublishInv'
<1>1. CASE RunPublishes
  BY <1>1, RunPublishesInv
<1>2. CASE Cancel \/ Terminated \/ UNCHANGED vars
  BY <1>2, SameInv DEF Cancel, Terminated, vars
<1>3. CASE Return
  BY <1>3, ReturnInv
<1>4. ASSUME NEW k \in Groups, GroupStep(k) \/ \E t \in DOMAIN task[k] : TaskFails(k, t)
      PROVE  PublishInv'
  BY <1>4, GroupStepInv
<1> QED BY <1>1, <1>2, <1>3, <1>4 DEF Next

-----------------------------------------------------------------------------
(* A publish that is left belongs to the group of its image, whose settings   *)
(* are its own.                                                               *)
LEMMA InItsGroup ==
  ASSUME PublishInv, Groups # {}, NEW i \in pubs
  PROVE  /\ asked[i].image \in Groups
         /\ Platforms(groups[asked[i].image]) = OfImage(asked[i].image)
         /\ asked[i].push = First(groups[asked[i].image]).push
         /\ asked[i].docker = First(groups[asked[i].image]).docker
         /\ Several(groups[asked[i].image]) => ~asked[i].docker
<1> DEFINE k == asked[i].image
<1>1. /\ groups = [image \in {asked[x].image : x \in pubs} |-> Variants(pubs, image)]
      /\ ~Conflict(groups) /\ ~DockerMulti(groups)
  BY DEF PublishInv, Domains, Started, groupPublishes
<1>2. k \in Groups /\ groups[k] = Variants(pubs, k)
  BY <1>1 DEF Groups
<1>3. i \in groups[k]
  BY <1>2 DEF Variants
<1>4. Agree(asked[i], First(groups[k]))
  BY <1>1, <1>2, <1>3 DEF Conflict, Groups
<1>5. Several(groups[k]) => ~First(groups[k]).docker
  BY <1>1, <1>2 DEF DockerMulti, Groups
<1>6. Platforms(groups[k]) = OfImage(k)
  BY <1>2 DEF Platforms, OfImage
<1> QED BY <1>2, <1>4, <1>5, <1>6 DEF Agree

(* runPublishes returns nil only if, for every publish of a successful job,   *)
(* the image was stored with the platforms of all its variants, pushed if and *)
(* as asked, and loaded as a whole if asked: neither a sibling's failure, nor *)
(* a cancellation, nor a stream that ends early is taken for success.         *)
THEOREM SuccessMeansDelivered == Spec => []OkMeansDelivered
<1>1. PublishInv => OkMeansDelivered
  <2> SUFFICES ASSUME PublishInv, result = "ok", NEW i \in pubs
               PROVE  /\ asked[i].push # "no" \/ ~asked[i].docker =>
                           store[asked[i].image] = [platforms |-> OfImage(asked[i].image),
                                                    push |-> asked[i].push]
                      /\ asked[i].docker => loaded[asked[i].image] = "whole"
    BY DEF OkMeansDelivered
  <2> DEFINE k == asked[i].image
  <2>1. Groups # {}
    BY DEF PublishInv, Verdict
  <2>2. /\ k \in Groups /\ Platforms(groups[k]) = OfImage(k)
        /\ asked[i].push = First(groups[k]).push /\ asked[i].docker = First(groups[k]).docker
        /\ Several(groups[k]) => ~asked[i].docker
    BY <2>1, InItsGroup
  <2> HIDE DEF k
  <2>3. \A t \in Tasks(groups[k]) : Ok(k, t)
    BY <2>2 DEF PublishInv, Verdict, GroupTypes, Ok
  <2>4. ASSUME asked[i].push # "no" \/ ~asked[i].docker
        PROVE  store[k] = [platforms |-> OfImage(k), push |-> asked[i].push]
    <3>1. "multi" \in Tasks(groups[k]) \/ "publish" \in Tasks(groups[k])
      BY <2>2, <2>4 DEF Tasks
    <3>2. store[k] = Stored(k)
      BY <2>2, <2>3, <3>1 DEF PublishInv, Delivered
    <3> QED BY <2>2, <3>2 DEF Stored
  <2>5. ASSUME asked[i].docker PROVE loaded[k] = "whole"
    <3>1. "solve" \in Tasks(groups[k]) /\ "load" \in Tasks(groups[k])
      BY <2>2, <2>5 DEF Tasks
    <3>2. Ok(k, "load") /\ ~Failed(k, "solve")
      BY <2>3, <3>1 DEF Ok, Failed
    <3> QED BY <2>2, <3>2 DEF PublishInv, Delivered
  <2> QED BY <2>4, <2>5 DEF k
<1> QED BY <1>1, PublishInit, PublishStep, PTL DEF Spec

(* Whatever fails or is cancelled when, a manifest list is never stored with  *)
(* some of its successful variants only.                                      *)
THEOREM NoPartialList == Spec => []ListsComplete
<1>1. PublishInv => ListsComplete
  <2> SUFFICES ASSUME PublishInv, NEW k \in Groups
               PROVE  store[k].platforms \in {{}, OfImage(k)}
    BY DEF ListsComplete
  <2>1. groups[k] = Variants(pubs, k)
    BY DEF PublishInv, Domains, Started, groupPublishes, Groups
  <2> QED BY <2>1 DEF PublishInv, Delivered, Platforms, OfImage
<1> QED BY <1>1, PublishInit, PublishStep, PTL DEF Spec
=============================================================================
