------------------------------ MODULE Publish -------------------------------
(***************************************************************************)
(* Image publishes (internal/runner/export.go): runPublishes after the     *)
(* jobs have ended.  The publishes of the jobs that succeeded are grouped  *)
(* by image; a group of several variants is assembled into one manifest    *)
(* list, a single one is published, loaded into the local docker daemon    *)
(* through a pipe, or both.  Groups run concurrently and the first that    *)
(* fails cancels the others.                                               *)
(*                                                                         *)
(* BuildKit, docker load and the errgroups are external.  A tar stream is  *)
(* a number of chunks; a write to the unbuffered pipe is a joint step of   *)
(* the solve and the loader.                                               *)
(***************************************************************************)
EXTENDS Integers, Sequences

CONSTANTS Inputs,    \* lists of publishes as the builder makes them
          Chunks     \* length of a tar stream; the last is padding, without
                     \* which the archive is complete

Attrs == {"no", "push", "insecure"}   \* push and registry.insecure
ImagePublish == [job : Nat, image : STRING, platform : STRING, push : Attrs,
                 docker : BOOLEAN, def : BOOLEAN]

ASSUME InputsAssumption == Inputs \subseteq Seq(ImagePublish)
ASSUME ChunksAssumption == Chunks \in Nat \ {0}

VARIABLES asked,      \* RunInput.ImagePublishes
          good,       \* jobs that ended without error and were not skipped
          pubs,       \* the publishes filterSuccessful left, as positions in asked
          groups,     \* publishGroups: image to its variants, as positions
          task,       \* state of each goroutine of each group
          solved,     \* variants of a group's manifest list solved so far
          pipe,       \* chunks through each group's pipe
          store,      \* what was exported for a group: platforms and attribute
          loaded,     \* what docker load made of a group's stream
          cancelled,  \* the caller's context
          result      \* "" while running, "ok" or an error

vars == <<asked, good, pubs, groups, task, solved, pipe, store, loaded,
          cancelled, result>>

Nothing == [k \in {} |-> {}]

Init ==
    /\ asked \in Inputs
    /\ good \in SUBSET {asked[i].job : i \in DOMAIN asked}
    /\ pubs = {} /\ groups = Nothing /\ task = Nothing /\ solved = Nothing
    /\ pipe = Nothing /\ store = Nothing /\ loaded = Nothing
    /\ cancelled = FALSE /\ result = ""

-----------------------------------------------------------------------------
(* Filtering, grouping and dispatch.                                       *)

filterSuccessful(items) == {i \in DOMAIN items : items[i].job \in good}

\* Mutant of Agree: the push attribute is not compared.
AgreeOnDocker(x, y) == x.docker = y.docker

Agree(x, y) == x.push = y.push /\ x.docker = y.docker

\* groupPublishes: one group per image, with its variants in the order of the
\* list.  A group's settings are those of its first variant.
Variants(ps, image) == {i \in ps : asked[i].image = image}
groupPublishes(ps) == [image \in {asked[i].image : i \in ps} |-> Variants(ps, image)]
IsFirst(g, i) == i \in g /\ \A j \in g : i <= j
First(g) == asked[CHOOSE i \in g : IsFirst(g, i)]
Several(g) == \E i, j \in g : i # j

Conflict(gs) == \E k \in DOMAIN gs : \E i \in gs[k] : ~Agree(asked[i], First(gs[k]))
DockerMulti(gs) == \E k \in DOMAIN gs : Several(gs[k]) /\ First(gs[k]).docker

\* The goroutines of a group.
Tasks(g) ==
    IF Several(g) THEN {"multi"}
    ELSE (IF First(g).docker THEN {"solve", "load"} ELSE {})
         \cup (IF First(g).push # "no" \/ ~First(g).docker THEN {"publish"} ELSE {})

\* A docker export without a definition fails before its goroutines start.
NewTask(g, t) ==
    IF t \in {"solve", "load"} /\ ~First(g).def THEN "failed" ELSE "running"

Groups == DOMAIN groups

\* Run filters, runPublishes groups; a bad grouping is an error before
\* anything starts.
RunPublishes ==
    /\ result = "" /\ Groups = {}
    /\ pubs' = filterSuccessful(asked)
    /\ LET gs == groupPublishes(pubs')
       IN  IF pubs' = {} \/ Conflict(gs) \/ DockerMulti(gs)
              THEN /\ result' = IF pubs' = {} THEN "ok" ELSE "rejected"
                   /\ UNCHANGED <<groups, task, solved, pipe, store, loaded>>
              ELSE /\ groups' = gs
                   /\ task' = [k \in DOMAIN gs |-> [t \in Tasks(gs[k]) |-> NewTask(gs[k], t)]]
                   /\ solved' = [k \in DOMAIN gs |-> {}]
                   /\ pipe' = [k \in DOMAIN gs |-> 0]
                   /\ store' = [k \in DOMAIN gs |-> [platforms |-> {}, push |-> "no"]]
                   /\ loaded' = [k \in DOMAIN gs |-> "no"]
                   /\ UNCHANGED result
    /\ UNCHANGED <<asked, good, cancelled>>

-----------------------------------------------------------------------------
(* Errgroups.                                                              *)

Running(k, t) == t \in DOMAIN task[k] /\ task[k][t] = "running"
Failed(k, t) == t \in DOMAIN task[k] /\ task[k][t] = "failed"
Returned(k) == \A t \in DOMAIN task[k] : task[k][t] # "running"
GroupFailed(k) == Returned(k) /\ \E t \in DOMAIN task[k] : Failed(k, t)

\* The context of a goroutine is done: the caller's is, another group has
\* failed, or a sibling has; the two ends of the pipe count as one sibling of
\* the publish, which fails when both have returned.
Done(k, t) ==
    \/ cancelled
    \/ \E h \in Groups \ {k} : GroupFailed(h)
    \/ t = "solve" /\ (Failed(k, "load") \/ Failed(k, "publish"))
    \/ t = "load" /\ (Failed(k, "solve") \/ Failed(k, "publish"))
    \/ t = "publish" /\ ~Running(k, "solve") /\ ~Running(k, "load")
                     /\ (Failed(k, "solve") \/ Failed(k, "load"))

Ends(k, t, how) == task' = [task EXCEPT ![k][t] = how]

\* Any call may fail; one whose context is done may just make it.
TaskFails(k, t) ==
    /\ Running(k, t)
    /\ Ends(k, t, "failed")
    /\ UNCHANGED <<asked, good, pubs, groups, solved, pipe, store, loaded,
                   cancelled, result>>

-----------------------------------------------------------------------------
(* Manifest lists and single images.                                       *)

Platforms(g) == {asked[i].platform : i \in g}

\* validateVariants
Valid(g) == \A i, j \in g : asked[i].def /\ (asked[i].platform = asked[j].platform => i = j)

ToSolve(k) == groups[k] \ solved[k]

\* Mutant of SolveVariant: a variant that cannot be solved is left out.
SolveVariantOrSkip(k) ==
    /\ Running(k, "multi") /\ Valid(groups[k])
    /\ \E i \in ToSolve(k) :
         /\ IsFirst(ToSolve(k), i)
         /\ \/ solved' = [solved EXCEPT ![k] = @ \cup {i}] /\ UNCHANGED groups
            \/ groups' = [groups EXCEPT ![k] = @ \ {i}] /\ UNCHANGED solved
    /\ UNCHANGED <<asked, good, pubs, task, pipe, store, loaded, cancelled, result>>

\* The variants are solved one after the other.
SolveVariant(k) ==
    /\ Running(k, "multi") /\ Valid(groups[k])
    /\ \E i \in ToSolve(k) :
         /\ IsFirst(ToSolve(k), i)
         /\ solved' = [solved EXCEPT ![k] = @ \cup {i}]
    /\ UNCHANGED <<asked, good, pubs, groups, task, pipe, store, loaded,
                   cancelled, result>>

\* The image exporter stores, and with the attribute pushes, an image of the
\* given variants.
Export(k, t, variants) ==
    /\ store' = [store EXCEPT ![k] = [platforms |-> Platforms(variants),
                                      push |-> First(groups[k]).push]]
    /\ Ends(k, t, "ok")
    /\ UNCHANGED <<asked, good, pubs, groups, solved, pipe, loaded, cancelled, result>>

\* The list has the references of the variants that were solved.
ExportList(k) ==
    /\ Running(k, "multi") /\ Valid(groups[k]) /\ ToSolve(k) = {}
    /\ Export(k, "multi", solved[k])

ExportImage(k) ==
    /\ Running(k, "publish") /\ First(groups[k]).def
    /\ Export(k, "publish", groups[k])

-----------------------------------------------------------------------------
(* solveImageExportDocker: the solve writes into the pipe, docker load     *)
(* reads from it; each closes its end when it returns.                     *)

\* Mutant of ReaderGone: the loader leaves its end of the pipe open.
ReaderNeverGone(k) == FALSE

WriterGone(k) == ~Running(k, "solve")
ReaderGone(k) == ~Running(k, "load")

\* A chunk is written and read.
Transfer(k) ==
    /\ Running(k, "solve") /\ Running(k, "load") /\ pipe[k] < Chunks
    /\ pipe' = [pipe EXCEPT ![k] = @ + 1]
    /\ UNCHANGED <<asked, good, pubs, groups, task, solved, store, loaded,
                   cancelled, result>>

\* The solve has written everything and returns.
SolveReturns(k) ==
    /\ Running(k, "solve") /\ pipe[k] = Chunks
    /\ Ends(k, "solve", "ok")
    /\ UNCHANGED <<asked, good, pubs, groups, solved, pipe, store, loaded,
                   cancelled, result>>

\* A write into a pipe whose reader is gone fails, and with it the solve.
WriteFails(k) ==
    /\ Running(k, "solve") /\ pipe[k] < Chunks
    /\ ReaderGone(k) \/ Done(k, "solve")
    /\ Ends(k, "solve", "failed")
    /\ UNCHANGED <<asked, good, pubs, groups, solved, pipe, store, loaded,
                   cancelled, result>>

\* docker load sees the end of the stream, which looks the same whether the
\* solve wrote everything or failed, or it exits before.  What docker makes of
\* a cut archive is its own affair: it may accept it.
LoadReturns(k) ==
    /\ Running(k, "load")
    /\ WriterGone(k) \/ pipe[k] >= Chunks - 1
    /\ loaded' = [loaded EXCEPT ![k] = IF pipe[k] >= Chunks - 1 THEN "whole" ELSE "part"]
    /\ Ends(k, "load", "ok")
    /\ UNCHANGED <<asked, good, pubs, groups, solved, pipe, store, cancelled, result>>

\* Bad variants and done contexts make a call fail; docker load also fails by
\* itself (TaskFails) or by the exec timeout, which counts from the start of
\* the solve.
MustFail(k, t) ==
    /\ \/ Done(k, t)
       \/ t = "multi" /\ ~Valid(groups[k])
       \/ t = "publish" /\ ~First(groups[k]).def
    /\ TaskFails(k, t)

-----------------------------------------------------------------------------
Cancel ==
    /\ ~cancelled /\ result = ""
    /\ cancelled' = TRUE
    /\ UNCHANGED <<asked, good, pubs, groups, task, solved, pipe, store, loaded, result>>

\* pg.Wait: every goroutine has returned.
Return ==
    /\ result = "" /\ Groups # {} /\ \A k \in Groups : Returned(k)
    /\ result' = IF \E k \in Groups : GroupFailed(k) THEN "failed" ELSE "ok"
    /\ UNCHANGED <<asked, good, pubs, groups, task, solved, pipe, store, loaded, cancelled>>

\* What the goroutines of a group do when the calls answer and contexts are
\* obeyed.
GroupStep(k) ==
    \/ SolveVariant(k) \/ ExportList(k) \/ ExportImage(k) \/ Transfer(k)
    \/ SolveReturns(k) \/ WriteFails(k) \/ LoadReturns(k)
    \/ \E t \in {"multi", "publish", "load"} : MustFail(k, t)

Terminated == result # "" /\ UNCHANGED vars

Next ==
    \/ RunPublishes \/ Cancel \/ Return \/ Terminated
    \/ \E k \in Groups : GroupStep(k) \/ \E t \in DOMAIN task[k] : TaskFails(k, t)

Images == UNION {{in[i].image : i \in DOMAIN in} : in \in Inputs}

Fairness ==
    /\ WF_vars(RunPublishes) /\ WF_vars(Return)
    /\ \A k \in Images : WF_vars(k \in Groups /\ GroupStep(k))

Spec == Init /\ [][Next]_vars /\ Fairness

-----------------------------------------------------------------------------
(* Properties.                                                             *)

OfImage(image) == {asked[i].platform : i \in Variants(pubs, image)}

\* Success is success: if runPublishes returns nil, the image of every publish
\* of a successful job was stored with all of its platforms and pushed if and
\* as that publish asked for it, and loaded as a whole if it asked for that.
OkMeansDelivered ==
    result = "ok" =>
        \A i \in pubs :
            LET p == asked[i]
            IN  /\ p.push # "no" \/ ~p.docker =>
                      store[p.image] = [platforms |-> OfImage(p.image), push |-> p.push]
                /\ p.docker => loaded[p.image] = "whole"

\* Whatever fails or is cancelled when, an image is stored with the platforms
\* of all its successful variants or not at all, never as a partial list.
ListsComplete ==
    \A k \in Groups : store[k].platforms \in {{}, OfImage(k)}

\* runPublishes returns: neither end of a pipe waits for the other for ever,
\* whichever fails or stops first.
PublishesEnd == <>(result # "")

\* docs/usage.md: with --with-docker-export, cicada returns an error before
\* solving if a multi-platform image is matched.
DockerExportRefused ==
    \A k \in Groups :
        LET variants == Variants(DOMAIN asked, k)
        IN  (\E i, j \in variants : asked[i].platform # asked[j].platform)
            /\ (\A i \in variants : asked[i].docker) =>
               store[k].platforms = {} /\ loaded[k] = "no"
=============================================================================
