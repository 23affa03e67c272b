# Cicada: a TLA+ verification project

Cicada runs CI pipelines written in KDL on BuildKit: a pipeline is parsed into
jobs with dependencies, conditions, retries and artifacts; the jobs are
translated to BuildKit definitions and solved concurrently, with a live
progress display, image exports and publishes.

This directory holds a model of the parts of the program in which a mistake
would be hard to find with a test: the scheduler, its status plumbing, the
step controller, image publishes, the resolution of includes, matrices and the
other stages that rewrite the job list before a run, the engine container that
several processes share, and the hash cache of the file synchronisation. TLC
checks the models on small instances. TLAPS proves, for instances of any size,
every safety property of these runs but those of the stages that rewrite the job
list, and that the scheduler implements its abstract specification.

- [1. The system](#1-the-system)
- [2. Modules and how they correspond to the code](#2-modules-and-how-they-correspond-to-the-code)
- [3. What is checked](#3-what-is-checked)
- [4. Bounds](#4-bounds)
- [5. Fairness](#5-fairness)
- [6. What is proved](#6-what-is-proved)
- [7. Disagreements between code and documentation](#7-disagreements-between-code-and-documentation)
- [8. What is not modelled](#8-what-is-not-modelled)
- [9. Plan](#9-plan)

To check a run: `tlc -config <file>.cfg <MC module>`; to check the proofs of a
module: `tlapm <module>.tla`. `PROJECT.json` lists the runs, the properties of
each, the theorems, the source lines every definition stands for, the hazards
the properties are aimed at, and a mutation of the model for each property
that makes it fail.

## 1. The system

The path of a pipeline through the program:

    pkg/parser          KDL files, includes, aliases         -> job list
    pkg/pipeline        ExpandAliases, Expand (matrices), Validate
                        (topological order)                  -> concrete jobs
                        FilterJobs, EvaluateConditions       -> shorter job list
    internal/builder    LLB definitions in topological order -> runner jobs
    internal/runner     one goroutine per job; solve, retry, outputs;
                        then exports, then publishes         -> error or nil
    internal/progress   plain, quiet or TUI display          <- messages
    internal/daemon     starts the BuildKit container the runner talks to,
                        through internal/runtime (docker or podman)
    internal/filesync   hashes the files a solve reads from the project directory

| Component | State | Operations | Talks to | What is hard |
|---|---|---|---|---|
| DAG scheduler, `internal/runner/runner.go`, `node.go` | per job: `dagNode` (err, skipped, outputs, done channel); semaphore; errgroup context; error list | `Run`, `runNode`, `retryJob`, `filterSuccessful` | BuildKit (solve), display (messages), exports | concurrency; cancellation; error classification; fields shared without locks |
| Retry delays, `node.go` | none | `retryDelay`, `checkedMul` | scheduler, step control | machine integers |
| Step control, `solve.go` | LLB state, last ref, attempt | `solveJobSteps`, `stepControlBuildFunc`, `solveStep` | BuildKit gateway, display | retries inside retries; allow-failure; what the next step is built on |
| Status sessions, `status.go`, `redact.go` | three goroutines and two channels per solve | `newStatusSession`, `teeStatus`, `bridgeStatus`, `drainChannel` | solver, collector, tracing observer, display | deadlock; draining on cancellation; redaction before anything else |
| Displays, `internal/progress` | a channel of 64 messages and its reader; per job the state of its vertices | `Start`, `Send`, `Shutdown`, `Update`, `consume` | sessions, scheduler | send on a closed channel; back pressure; messages of one job from three goroutines |
| Exports and publishes, `export.go` | one goroutine per export; groups of variants | `solveExport`, `runPublishes`, `groupPublishes`, `multiPlatformBuildFunc`, `solveImageExportDocker` (pipe into docker load) | BuildKit, docker | partial failure; both ends of a pipe |
| Validation and order, `pkg/pipeline/validate.go`, `runner.go` | 3-colour marks, order | `Validate`, `topoSort`, `detectCycles` | parser, builder, runner | cycles; unknown and repeated names |
| Filter, `filter.go` | none (new job list) | `FilterJobs` | CLI | windows of the graph; no side effects outside |
| Static conditions, `when.go` | none (new job list) | `EvaluateConditions` | CLI, CEL | dangling references |
| Builder, `internal/builder` | states of the jobs built so far | `Build` | CLI | relies on the order |
| Matrix expansion, `expand.go` | none | `Expand`: pipeline matrix, then job matrices | parser | variants are found by name; names are written by one phase and read back by the next |
| Includes, `pkg/parser/include.go` | cache, include stack, alias table | `resolveInclude`, `registerAlias`, merge | file system | cycles; diamonds; aliases of aliases |
| Daemon, `internal/daemon` | the engine container (outside the process) | `EnsureRunning`, `Start`, `Stop`, `Remove` | docker or podman | check-then-act by concurrent processes; calls cut off by a timeout; health deadline |
| File synchronisation, `internal/filesync` | hash cache on disk and in memory | `hashFS.Walk`; `Load`, `Lookup`, `Update`, `Prune`, `Save` | BuildKit session, display | concurrent walks and processes; files that change while they are read; crash while saving |
| Conditions language, redaction, secrets, tracing, cache statistics, image store, git information, visualisation, CLI | | | | data and I/O |

What makes each modelled component correct:

- *Scheduler*: dependency order; parallelism; failures and skips propagate and
  nothing else is affected; only what succeeded is delivered; every failure is
  reported; the run ends.
- *Sessions and displays*: nobody blocks for ever; nothing is lost, reordered or
  shown unredacted; no send after the display was shut down; the picture at the
  end is what happened, in whatever order its parts arrived.
- *Step control*: every step is built on the good steps before it; the job's
  verdict follows from the steps'; outputs come from the build that succeeded.
- *Preparation*: exactly the jobs the documentation promises are run, with the
  artifacts it promises, and no later stage rejects what an earlier one made.
- *Graph search*: dependencies first; a graph is rejected only for a cycle or an
  unknown name it has, and accepted only without.
- *Matrices*: one variant per combination, depending on the variants the
  documentation names, with caches of its own.
- *Publishes*: success means that everything asked for was delivered; a
  manifest list is complete or absent; nobody waits for the other end of a pipe.
- *Engine*: starting works from every state it can start from, stopping leaves
  nothing behind, waiting is bounded, whatever other processes do.
- *File cache*: the file on disk can always be loaded, and never vouches for
  content it does not belong to.

## 2. Modules and how they correspond to the code

| Module | Models | Checked by | Proved in |
|---|---|---|---|
| `DagRun` | the promise of `internal/runner` (abstract specification) | refined by `Runner` | |
| `Runner` | `Run`, `runNode`, `retryJob`, `filterSuccessful`, errgroup, semaphore | `MCRunner` | `RunnerProofs` |
| `Display` | the TUI's model and the plain display's trackers (operators) | through `Session` | `SessionProofs` |
| `Session` | `status.go`, the display's channel, the messages of the build function and of `runNode` around a solve | `MCSession` | `SessionProofs` |
| `Backoff` | `retryDelay`, `checkedMul` | through `Steps` | `StepsProofs` |
| `Steps` | `solve.go`: step control inside one job | `MCSteps` | `StepsProofs` |
| `TopoSort` | `topoSort` and `detectCycles` | `MCTopoSort` | `TopoSortProofs` |
| `Includes` | `resolveInclude` and what it calls, `MergeJobs`, `TerminalJobs` | `MCIncludes` | `IncludesProofs` |
| `Expand` | `Expand`, `ValidateMatrix`, `expandedName`, `Combinations` (operators) | through `Prepare` | |
| `Prepare` | `parseMatrix`, aliases, matrices, `Validate`, `FilterJobs`, `EvaluateConditions`, `Build`, the runner's graph check | `MCPrepare` | |
| `Publish` | `runPublishes` and all it calls, `LoadImage` | `MCPublish` | `PublishProofs` |
| `Daemon` | `daemon.Manager`, `CLIRuntime`, the engine commands, `resolveAddr` and `connect` | `MCDaemon` | `DaemonProofs` |
| `FileSync` | `HashCache` and `hashFS` | `MCFileSync` | `FileSyncProofs` |

Composition: `Runner` is the scheduler with a solve as one call that returns;
`Steps` and `Session` are what happens inside that call (`Steps` the build
function, `Session` the goroutines around it). `Includes` yields the job list
and the alias table that `Prepare` starts from. `Prepare` ends where `Runner`
begins, with an accepted graph, and takes from `TopoSort` that the search
returns an order exactly when there is one. `Prepare` extends `Expand`, whose
operators are one of its stages. `Runner` implements `DagRun`
(`Dag == INSTANCE DagRun WITH ...`) and has a publish as one item that is
delivered or fails; `Publish` is what happens inside, from the publishes
`filterSuccessful` leaves to the result of `runPublishes`. `Daemon` comes before
`Runner` in a run (its `connect` yields the solver), and `FileSync` is what
BuildKit calls during a solve; both are shared by processes, which the other
modules are not.

**Runner.** `pc[j]` is where the goroutine of job `j` is in `runNode`; the
other per-job variables are its locals and the fields of its `dagNode`. Every
`select` is a set of actions that are enabled together (`DepSucceeded` and
`DepWaitCancelled`, `DelayElapses` and `DelayCancelled`): Go picks either. The
defers run as actions of their own, in their order: `Release`, `CloseDone`,
then the return to the errgroup or to the error list (`Report`). That gap
matters: dependents see a failure before the group is cancelled. A context is
represented by its cause; `SolveCause` is the cause of the context derived for
a job's solve. An error keeps its kind and the job in which the innermost
error arose, which is what `errors.Is` can find out about a wrapped error.
The semaphore (`golang.org/x/sync/semaphore`) and the errgroup are external and
modelled by what the code relies on: FIFO hand-over, the first error wins.
BuildKit is external too: a solve returns success or an error at some time.
Whether the run fails fast is an input (`failFast`, chosen initially). A
step-controlled job counts as having outputs once `solveJobSteps` has stored its
map, which is empty if the output file could not be read.

**Session.** One session per solve. An unbuffered channel is a joint step of
sender and receiver; the display's channel is a bounded sequence. The defers of
`teeStatus` run in the code's order: close `out`, drain `src`, flush the
observer. Beside the status stream the build function announces allowed failures
(`NoteAllowedFailure`), and `runNode` reports the job's timeout after the session
has ended (`ReportTimeout`). A status is a number; `Statuses` says which vertex
reports it carries. The display's channel is the same in plain, quiet and tui; what
the display makes of a message (`Update`, `consume` of `Display`) depends on the
messages of one job only and is computed from the messages consumed.

**Steps.** An LLB state is the sequence of the steps it contains. What was
solved on which base is recorded, so that the properties can speak of it.

**TopoSort.** The recursive closure is an explicit stack whose frames are a job
and the position in its dependency list. Both callers are one module: they
differ in the order of the roots (a slice, a Go map) and in whether unknown
names were rejected before.

**Includes.** As in `TopoSort` the recursion is an explicit stack. A file is a
list of jobs and include directives, a fragment or a pipeline, with at most one
parameter; a job's text is what substitution works on. The reference `Meaning`
writes the jobs of an included file in place of the include, without stack or
cache. (Since substitution never touches names, two readings of one file always
bring the same job names; the cache can therefore show only in which errors are
reported and in the aliases.)

**Expand.** A job name is its base and the key=value pairs of its brackets. A
value is the sequence of its comma-separated parts, because the second phase
reads a name back by splitting its suffix at commas (`ReadSuffix`): the
conversion is not the identity. (A part behind a comma that has a "=" of its own
would be read back as a further dimension; the model has no such part.) Which
dimension names and which parts of values the two name patterns of `pipeline.go`
match is given by the constants `DimNames` and `NameParts`. Substitution is
modelled on the values of a job's own matrix, which may name the pipeline's
dimensions; of the other fields that `substituteJobVars` rewrites, a job's text is
the set of the placeholders in them. A cache ID is the ID written and the names
put behind it.

**Prepare.** The pipelines have no defaults, which fill in fields that no stage
reads. Each stage is one action that replaces the job list, as the code
does. The order in `TopoOrder` is a list of positions and therefore goes stale
when the list changes. `written`, `parsed`, `leads`, `start`, `stop` and `unmet`
are history variables: the reference definitions at the end of the module state
the documented meaning of matrices, flags and conditions in terms of the input
and of paths in the validated graph, independent of how the stages compute it.
`AmbiguousArtifact`, `UnreadableName`, `RepeatedValue` and `UnprintableValue` are
the reasons for which a pipeline that is valid without its matrices may be
rejected with them: an artifact from a job with several variants, names that
`expandedName` does not tell apart, a dimension that lists a value twice (which
`ValidateMatrix` accepts and `Validate` rejects as duplicate jobs), and a value
that `_validName` does not allow in a job name. Of `validateJob` the checks of
names, steps and artifacts are modelled, not those of images, variables, exports,
durations, shells and secrets. A flag `:` with neither job nor step is not among
the filter targets.

**Publish.** `asked` are the publishes the builder made, `good` the jobs that
succeeded; `RunPublishes` filters, groups and checks the groups. A publish is a
position in `asked`, a group the set of the positions of one image; the order of
the positions is the order of the variants, and the first one (`First`) gives the
group its settings. The order of the groups is left out: they run concurrently.
The list that is exported has the variants that were solved. Each group has a goroutine for its manifest list, for its push, or one for each end of the
pipe. `Done` is the context each of them runs under: the nested errgroups
cancel a sibling at once, another group only when all goroutines of the failed
one have returned. A tar stream is a number of chunks, and a write into
`io.Pipe` is a joint step of solve and loader. The loader sees the same end of
stream whether the solve succeeded or not, and docker may accept a cut archive:
that the run still fails is what `OkMeansDelivered` says.

**Daemon.** The container has a state and an identity (a new one each time the
name is created again). Inspect and the call that follows are separate actions,
so that other processes, the user and the container come between; `docker run`
is two steps, creation and start. Every call of the runtime may be cut off by
the 30 s exec timeout, before or after its effect. Time is counted in ticks per
process, from the start of its health check. `moved` (has anything changed the
container since this process looked?) and `target` are history variables. An
address of the user's own is returned as it is, as with `--no-daemon`.

**FileSync.** A file's content is a version, and its stat (mtime and size)
changes with it. A walk takes the stat, looks it up, reads the file and stores
the entry in four steps, with edits in between; the mutex of `HashCache` makes
each of its methods one step, except `Save`, which holds it only for the
snapshot. A file on disk is missing, corrupt or whole, and synced or not; after
a power failure what was not synced is corrupt. Walks of one process share
cache and counters, walks of different processes only the file.

Definitions headed *Mutant* are changed copies of the definition that follows.
No specification uses them; they show that a property notices the change.

## 3. What is checked

| Run | Instance | Shows |
|---|---|---|
| `runner` | `Runner.cfg` | with and without fail-fast, and with builds that may hang: Runner implements DagRun (`RefinesDagRun`); dependency order (`DepsBeforeSolve`); outputs are there when a condition reads them (`OutputsBeforeWhen`); closed nodes never change (`DoneIsFinal`); the semaphore neither exceeds its limit nor loses a wakeup (`SlotsConserved`); without fail-fast a job's failure is its own, a dependency's or the caller's, and a timeout is announced only for the job's own timer (`FailuresAreOwned`, which contains `TimeoutMsgTruthful`); messages come in the order the displays need (`MessageProtocol`); only items of successful jobs are delivered (`DeliversOnlySuccess`); the result is an error exactly if something failed (`RunReportsFailures`); a cancellation ends the run, and a job timeout ends a hanging solve (`HangingSolvesEnd`); Run ends if BuildKit answers (`Termination`) |
| `session` | `Session.cfg` | no send on a closed channel (`PanicFree`); per session JobAdded, statuses in order, one JobDone, then the timeout (`SessionOrder`); nothing lost unless cancelled; at the end the TUI shows every vertex by the first end that was reported of it, or by its progress, whether a failure or the news that it is allowed came first, and the plain log has no start twice, an end twice only for an error, and an end for every vertex with a timeout that it logged the start of (`NothingLost`); redaction first, flush last (`RedactedFirst`); everything ends, whatever is cancelled when (`EverythingEnds`) |
| `steps` | `Steps.cfg` | steps are built on the last good state (`BuiltOnGoodState`); the job's verdict, and outputs only from a successful build (`JobVerdict`); retries stay within their number, are announced before they start and wait as long as documented, saturated, but for a delay of 0 whose shift overflows, of which nothing is claimed (`RetriesAsScheduled`); the job ends (`JobEnds`) |
| `toposort` | `TopoSort.cfg` | dependencies first and no job twice (`DepsFirst`); the verdict is right (`Verdict`); the search ends (`SearchEnds`) |
| `prepare` | `Prepare.cfg` | matrices give the documented variants, dependencies, artifacts and caches, no placeholder of a variant's dimensions is left where substitution looks for them, and the modelled checks of `Validate` reject the expansion of a valid pipeline only for one of four named reasons (`ExpandsAsDocumented`); nothing that parsing accepted is rejected by a later stage, and the order is never stale (`StagesAgree`); exactly the documented jobs run and deliver (`RunsWhatWasAsked`) |
| `includes` | `Includes.cfg` | an accepted pipeline has the jobs that are written, parameters replaced, and every include passes the parameters its file wants (`ResolvesAsWritten`); an alias stands for jobs the pipeline has and, if no alias is also the name of another job (which `ExpandAliases` rejects), leaves out no terminal one (`AliasesLand`); a cycle is reported only if the root reaches one, and no pipeline whose root reaches one is accepted (another error may be reported first; `CircularVerdict`) |
| `publish` | `Publish.cfg` | a nil result means stored with all platforms, pushed as asked and loaded whole (`OkMeansDelivered`); an image is stored with all its successful variants or not at all (`ListsComplete`); runPublishes returns, whichever end of the pipe stops first (`PublishesEnd`) |
| `daemon` | `Daemon.cfg` | a start fails only for a race or a state it cannot handle (`FailuresAreRaces`); a successful stop removed what it found (`StopRemoves`); the health check overruns its deadline by at most one round (`WaitIsBounded`); every command ends (`CommandsEnd`) |
| `filesync` | `FileSync.cfg` | the cache file is replaced as a whole (`CacheFileIntact`); no hash older than its stat is kept anywhere (`NeverOlderThanStat`); an undisturbed walk leaves an exact cache and reports exact counts (`SoloWalkIsExact`) |
| `runner_timeout_msg`, `steps_zero_delay`, `publish_docker` | `RunnerTimeoutMsg.cfg`, `StepsZeroDelay.cfg`, `PublishDocker.cfg` | violations, see section 7 |

Deadlock is checked in the runner, session, step, daemon and publish runs: there a final state
has a stuttering action of its own, so any other state without a step is a
deadlock of the code. The graph search, the includes and the preparation are
sequential functions that really stop; their runs switch the deadlock check off, and
`SearchEnds` covers the search. So does the run of the file synchronisation,
whose walks end and whose edits and faults are bounded. (In `Daemon` a process
may hang in `connect` on a paused engine; that is a final state, and
`CommandsEnd` says it is the only one but for the end.)

`SoloWalkIsExact` is about a walk nothing disturbs because
the code promises no more: overlapping walks of one process reset each other's
counters (`hashfs.go:55`), and a walk's `Load` takes away entries another one has
just made. Both cost time or a wrong count on the display, never a wrong hash,
which is what the other two properties show with any overlap.

## 4. Bounds

- *Runner*: four jobs and one slot, with and without fail-fast. `Runner.cfg` has
  a join (deploy waits for lint, then for build), a chain behind it (docs), one
  retry for build and for docs, a timeout for build and for deploy (one of them
  has outputs), a deferred condition, a step-controlled job, two jobs with
  outputs and one without a definition. One slot and two
  independent roots are enough for every path of the semaphore: taken at once,
  queued, granted, granted too late, left by cancellation. A chain of three is
  enough for propagated failures and skips to be propagated again. Two exports
  (one without a job) and a publish cover every case of `filterSuccessful`.
- *Session*: two sessions, one with and one without the tee; up to three
  statuses in one (start, nil, the failure of an allow-failure step that exceeds
  its timeout) and one in the other (a cached and a failed vertex), broken off
  after any of them; a display channel of capacity 1 instead of 64, so that back
  pressure happens in every interleaving.
- *Steps*: every job of one or two steps; 0 or 4 step retries, delays 0, 1 and 3,
  all backoffs; one job retry; 4-bit words, so that linear and exponential
  delays reach the boundary at the third and fourth retry as 64-bit words do at
  the 63rd and 64th. `StepsZeroDelay.cfg` has one step and no job retry.
- *TopoSort*: all graphs of three jobs with up to two entries per list,
  repeated, unknown and self references included. The proofs cover all sizes.
- *Includes*: a root and three files; two includes in the root and one in each
  of a and b, so that c is read on two paths, at any alias, argument and conflict
  strategy; files that include themselves, each other or the root. The depth limit is 2 instead of 64, so
  that a path of three includes exceeds it.
- *Prepare*: all dependency graphs of three jobs, an unknown name or alias
  among the dependencies, six alias tables, every pair of filter targets (valid,
  unknown job, unknown step, step without a job) and every outcome of every
  condition. Three jobs give a window with something before, in and behind it.
  For matrices: two jobs, one depending on the other or on a variant of it by
  name, with and without artifacts; the pipeline has no matrix, one or two
  values, values with commas, a value twice or a value with a space; the job
  none, one or two values, a value twice, values that name the pipeline's (one
  repeats another once replaced), or a dimension that collides; six matrices at
  the border of what `ValidateMatrix` accepts, with a limit of 4 combinations instead of 10 000; a job named like a variant.
  One dimension per level is enough for both phases to meet, two in one matrix
  for the product.
- *Publish*: all pairs of publishes over two images, two platforms, push and
  docker export, single ones without a definition, and lists of three with a
  conflict or a missing definition; every set of successful jobs. Two chunks: a
  stream can be cut at its start and before its padding.
- *Daemon*: three processes in three mixes (start, run, stop; start and two
  stops; --no-daemon, start, status), the container in any of six states, one
  disturbance, cancellation or cut-off call at any step. A timeout of 4 ticks,
  pauses of 1 and 2 and probes of at most 1 let the pause reach its maximum and
  the last round pass the deadline. Three processes allow a stop between two
  starts.
- *FileSync*: two walks, by one process or by two, over two files, with one edit
  and one fault (kill, power failure, failing operation) at any step, from any
  initial cache file. Two files are needed for pruning one and keeping the
  other; two walks for every pair of steps to interleave. Processes and walks
  are symmetric; files are not, because a walk visits them in order.

## 5. Fairness

- *Goroutines* (`WF` on `NodeStep`, `MainStep`, `SessionStep`, `DisplayStep`,
  `Work`, and on the whole step of the graph search): the Go scheduler runs
  every goroutine that can run. Each of these is one sequential goroutine (or
  the goroutines of one session), so weak fairness of the disjunction is
  enough and no choice inside it is forced.
- *BuildKit*: `Fairness` in `Runner` assumes that timers fire and that a call
  whose context is done returns, no more: a build may hang. `HangingSolvesEnd` is
  checked under this assumption alone. `Termination` has the stronger one, that
  every call returns, as its premise (`BuildKitAnswers`).
- *Publishes*: `WF` per group on what its goroutines do when calls answer and
  contexts are obeyed, as for the scheduler. That the solve notices a reader
  that is gone is not assumed but follows from the code closing its end.
- *Processes* (`Daemon`): `WF` on the steps of each process. Calls of the
  runtime return because `prepareCmd` gives them 30 s, probes because
  `defaultBkDial` gives them 2 s. `connect` has no timeout and gets no such
  assumption on a paused engine. The engine is never assumed to come up.
- *Walks* (`FileSync`): none; its properties are all safety.
- *Never assumed*: that a solve succeeds, that the caller cancels, that a
  condition is true, strong fairness of a `select`'s branch.

## 6. What is proved

All theorems are about `Spec` for every value of the constants that satisfies
the modules' assumptions: any finite non-empty set of jobs, any dependency
lists over them (cyclic ones too: a cycle blocks the scheduler, it does not
make it unsafe), any parallelism, retries and options; any number of sessions
and any capacity of the display's channel; any list of steps and of publishes;
any number of processes, walks, files and faults; any set of files that include
each other in any way. Of the runs' properties that
are not liveness all are proved but those at the end of this section.

| Theorem | States | Argument |
|---|---|---|
| `RunnerProofs!TypeCorrect` | `Spec => []TypeOK` | every action keeps the domains; no job makes more than 1 + `Attempts` attempts. `TypeInv` adds to `TypeOK` what is needed to keep the last bound: who is in a delay has an attempt left |
| `RunnerProofs!DependencyOrder` | `Spec => []DepsBeforeSolve` | the property speaks of the moment a job reaches the semaphore, when all waiting is behind it; inductive is `DepsPassed`: each dependency *already passed* in the list is closed and succeeded. That this stays so needs `NodeLocal`: err and skipped are written only before done is closed |
| `RunnerProofs!ClosedNodesAreFinal` | `Spec => DoneIsFinal` | from the same invariant: a node whose channel is closed is at `report` or `returned`, and no action there writes its fields. This is the happens-before the code's lock-free reads rest on |
| `RunnerProofs!SlotSafety` | `Spec => []SlotsConserved` | `SlotInv`: the holders are exactly the owners and those handed a slot while blocked; the waiters are blocked, distinct and without a slot; with waiters all slots are taken. Distinctness is needed for the step that cuts a cancelled waiter out of the middle of the queue |
| `RunnerProofs!OutputsReady` | `Spec => []OutputsBeforeWhen` | `ResultInv` (below): whoever ended well has written its outputs before it closed its channel |
| `RunnerProofs!OwnedFailures` | `Spec => []FailuresAreOwned` | `Owned`: without fail-fast the run's context is cancelled by the caller only, and a job's error is its own or that of a dependency that is closed and therefore keeps it |
| `RunnerProofs!MessageOrder` | `Spec => []MessageProtocol` | `InOrder`, with `LastSays`: the place in `runNode` determines what the last message of the job was |
| `RunnerProofs!DeliverySafety` | `Spec => []DeliversOnlySuccess` | `ItemsInTurn`: items start only when every goroutine has returned, and a successful job is among those filtered |
| `RunnerProofs!ResultTruthful` | `Spec => []RunReportsFailures` | `ErrorsKept`: the errors collected are those of nodes that returned one, and there is one as soon as any has |
| `RunnerProofs!SchedulerImplementsDagRun` | `Spec => RefinesDagRun` | step simulation: `Init` maps to `Dag!Init` and each action to one of `DagRun` or a stutter, under `ResultInv`; the order of starts comes from `OrderInv`, the limit from `SlotInv` |
| `SessionProofs!NoSendAfterClose` | `Spec => []PanicFree` | `SessionInv`: the channel is closed only when every caller is back, a caller is back only when its goroutines are (`Channel`, `Goroutines`) |
| `SessionProofs!DisplaySeesOrder` | `Spec => []SessionOrder` | `Numbers` orders the positions of solver, tee and bridge in the stream of statuses, `Messages` says what each session has sent at each place, `InOrder` is kept because every new message may follow all earlier ones |
| `SessionProofs!RedactedBeforeShown` | `Spec => RedactedFirst` | `Redacted`: what the bridge can receive from the tee is already observed |
| `SessionProofs!StatusesArrive` | `Spec => []EveryStatusArrives` | `CompleteInv`: as long as a session is not cancelled, each status the solver sent is with the tee, with the bridge, or has been sent to the display, and was observed once if it passed the tee; when the caller is back nobody holds one (`CompleteWhenBack`) |
| `SessionProofs!NothingIsLost` | `Spec => []NothingLost` | `StatusesArrive`, and for the picture an induction over the messages consumed: `Picture` says what the TUI knows of each vertex after the first n messages, `Journal` how often the plain display has logged what. `AnnounceInv` adds that a tolerated failure was announced before its job was done, and every status that is somewhere is one the solver sent |
| `StepsProofs!StepsBuildOnGoodState` | `Spec => []BuiltOnGoodState` | `GoodState`: `currentState` and `lastRef` hold the good steps below k, and `Progress`: only the outcome of step k can still change, so that what was solved before stays right |
| `StepsProofs!VerdictOfSteps` | `Spec => []JobVerdict` | `Progress`, `AllowedReported` and `OutputsOf`; the outputs are the last good step's because `lastRef` is (`GoodState`) |
| `StepsProofs!RetriesFollowSchedule` | `Spec => []RetriesAsScheduled` | `RetryInv`: who waits was solved under its number, has announced the next one and has it left; `DelayInv`: each wait is the delay of its attempt. That `retryDelay` on machine words is the documented delay, saturated, but for a delay of 0 whose shift overflows, is a lemma for every word width, with an induction over the exponent for the powers of two |
| `IncludesProofs!CyclesFound` | `Spec => []CircularVerdict` | `IncludesInv`: the stack is a path of includes from the root (`PathInv`), and no file in the cache reaches itself (`CacheInv`), because all its includes were in the cache before it |
| `IncludesProofs!IncludesAccepted` | when the pipeline is accepted, `ArgumentsAccepted` | the files a cached one includes are cached with it, so that everything the root comes to was checked |
| `IncludesProofs!AliasesNameJobs` | when accepted, job names are unique and aliases stand for jobs that are there | what `MergeJobs` returns (`MergeFacts`), and `AliasInv`: the names an alias stands for are among those some open file has collected, and merging drops a job only for another one of its name |
| `IncludesProofs!IncludesStandForFiles` | when accepted, `SolvesEquations` | `MeaningInv`: what is in the cache for a file and its arguments is merged from its nodes and the cached results of its includes |
| `IncludesProofs!PipelineAsWritten` | `Spec => []ResolvesAsWritten` | the equations have one solution: by induction over the number of files a file reaches, the cached jobs and the reference `Written` are `Alike` (the same first job of each name, in the same order), which merging and substitution preserve |
| `IncludesProofs!AliasesComplete` | `Spec => []AliasesLand` | `OriginInv`: an alias was made from the jobs of its origin's cache entry; with `Alike` its terminal jobs are those of the reference |
| `PublishProofs!SuccessMeansDelivered` | `Spec => []OkMeansDelivered` | `Delivered`: a goroutine that ended well has done its part; for the loader only together with the solve: it may have ended well on a stream that was cut, but then the solve has failed. `Started`: the settings of a variant are those of its group |
| `PublishProofs!NoPartialList` | `Spec => []ListsComplete` | the same invariant; the list is exported when no variant is left to solve |
| `DaemonProofs!StartFailsOnlyByRaces` | `Spec => []FailuresAreRaces` | `RaceInv`: as long as nothing has moved the container since a process looked, what the process believes of it is true (`Belief`), and at each place of `Start` a true belief rules the failure out (`Failures`) |
| `DaemonProofs!StopRemovesWhatItFound` | `Spec => []StopRemoves` | `Removed`: identities are never reused, so that the container found is gone once it was removed, whoever did it |
| `DaemonProofs!WaitWithinBounds` | `Spec => WaitIsBounded` | `ClockInv`: a probe starts before the deadline, and a pause is no longer than the longest |
| `FileSyncProofs!EntriesNeverStale` | `Spec => []NeverOlderThanStat` | `FreshInv`: content versions only grow, and every local of a walk, entry in memory and entry on disk pairs a stat with content at least as new |
| `FileSyncProofs!CacheFileAtomic` | `Spec => CacheFileIntact` | from `FreshInv`: a temporary file is renamed only when it was written whole and synced |
| `FileSyncProofs!UndisturbedWalkExact` | `Spec => SoloWalkIsExact` | `SoloInv`: while nothing disturbs the walk, the files visited so far are exact in the cache and counted once |
| `TopoSortProofs!DependenciesFirst` | `Spec => []DepsFirst` | `SearchInv`: the stack is a path of jobs being visited, what a loop has passed is visited, visited jobs are closed under dependencies and listed in the order |
| `TopoSortProofs!VerdictIsRight` | `Spec => []Verdict` | acyclicity of the visited part ("every non-empty subset has a member without a dependency in it") grows with each job that returns; a job found on the stack gives the set of a cycle: the jobs of the stack from it on |

`ResultInv` of the scheduler is `OrderInv`, `SlotInv` and, for each node and for
the main goroutine, what its place says about the fields it has written: the six
theorems that rest on it need each other's parts (that a failure is reported
needs the order of the nodes' last steps, the refinement needs all of it).

Each of these invariants was checked by TLC, on the bounds of section 4, before
it was proved. The proofs have one lemma per action or per part of the
invariant, with a frame lemma for what an action leaves alone.

Assumptions used, all of them evaluated by TLC in the runs: `JobsAssumption`,
`DependsOnAssumption`, `OptionsAssumption`, `ItemsAssumption` of `Runner` and
`TopoAssumption` of `TopoSort` say what `buildDAG` establishes before the
goroutines start (names are unique, dependencies exist) and that the options are
of their types; those of `Session`, `Steps`, `Publish`, `Daemon` and `FileSync`
give the constants their types and the bounds the code has (a channel has a
capacity, a stream has a chunk, the longest interval is not below the first).
`SessionAssumption` also says that reports of one vertex name the same step (the
name is part of what BuildKit digests), and `IncludesAssumption` that there are
finitely many files and that the root, a pipeline, takes no parameter.

Some properties are stated so that they can be proved. `SessionOrder`,
`BuiltOnGoodState`, `JobVerdict` and `RetriesAnnounced` speak of the positions
of messages, solves and events, and not of the subsequences of them that a
`SelectSeq` would pick; a group of `Publish` is a set of positions for the same
reason, and `MergeJobs` numbers the jobs it keeps by their rank. The plain log of
`Display` counts each line. `Shifted`, `Written`, `tui` and `plain` are recursive
functions on numbers.

The library's induction theorems cannot be used (they take an operator as a
parameter); induction over data is done with the set of the numbers for which the
claim holds: if it has 0 and is closed under successor it is `Nat`, because its
complement has no least element (`EveryNat`, from `WFMin`).

Two properties changed because their proofs failed. That an alias leaves out no
terminal job is not true if the alias is also the name of a job it does not stand
for: the case `ExpandAliases` rejects (`NoCollision`). And the TUI does not show
the last report of a vertex but the first that says it is over, since it never
leaves a terminal status; the instance TLC checks has no vertex that ends twice in
one solve.

Only model-checked, and why:

- *Liveness*: `Termination`, `HangingSolvesEnd`, `EverythingEnds`, `JobEnds`,
  `SearchEnds`, `PublishesEnd`, `CommandsEnd`. The prover does not handle
  fairness and `ENABLED`.
- *The stages of preparation*: `ExpandsAsDocumented`, `StagesAgree` and
  `RunsWhatWasAsked` of `Prepare` compare the lists that some ten stages build
  with `SelectSeq`, folds and breadth-first searches with reference definitions
  of paths and combinations. Each stage would need an induction of its own like
  the one for includes, and the property all of them together.

## 7. Disagreements between code and documentation

1. **A sibling is announced as timed out** (`runner_timeout_msg`). With
   fail-fast, the group context is cancelled with the timed-out job's error as
   its cause. `node.go:94` asks whether the cause of the job's own context is
   `ErrJobTimeout`, which is then true in every sibling that is being solved:
   it sends `JobTimeoutMsg`, with a timeout of 0s if it has none.
   `progressmodel.go:71` says the message signals that "a job exceeded its
   configured timeout". Without fail-fast the property holds
   (`FailuresAreOwned` in `runner`).
2. **A retry without a delay waits for ever** (`steps_zero_delay`).
   `docs/schema.md:316`: the exponential strategy waits "delay × 2^n", which is 0
   for a delay of 0, the default. From the attempt at which the shift would
   overflow `retryDelay` (`node.go:216`) returns the largest duration without
   looking at the delay: after 63 immediate retries the 64th waits 292 years, or
   until the job times out.
3. **A multi-platform image is loaded into docker** (`publish_docker`).
   `docs/usage.md:228`: "Cicada will return an error before solving if a
   multi-platform image is matched by `--with-docker-export`". The check
   (`export.go:70`) is made after the jobs were solved, and on the variants that
   `filterSuccessful` left: if all but one of the variants' jobs failed (without
   fail-fast) or were skipped, the remaining one is pushed and loaded under the
   name of the image.

Met while modelling, by reading, without a run of their own:

- *Output extraction is outside the timeout.* `docs/usage.md:327`: the timeout
  "caps the total wall-clock time for a job". The outputs are extracted on
  `jobCtx` (`node.go:129`), which has no deadline; `HangingSolvesEnd` therefore
  speaks of solves only.
- *An alias may stand for jobs that are not terminal.* `docs/schema.md:405`:
  `depends-on` of an alias "resolves to the terminal jobs of the included
  fragment". They are computed (`merge.go:46`) from dependency lists whose own
  aliases are not expanded yet. The effect is a superfluous dependency, never a
  missing one, which is what `AliasesLand` says.
- *Values with commas.* Two values of a pipeline matrix that agree up to a comma
  give variants of one name in the second phase (`expand.go:244`); validation
  rejects the pipeline as having duplicate jobs (`UnreadableName`).
- *A vertex that failed stays failed on the screen.* The TUI never leaves a
  terminal status (`model.go:130`). A retried step or job has the same vertex
  digests, so a vertex that succeeds at the second attempt keeps its error mark;
  the result of the run is not affected. `NothingLost` speaks of one solve.
- *Plain lines say TIMEOUT for what was cancelled.* A vertex that has a timeout
  and was running when its job was cancelled, by a sibling's failure say, is
  logged as timed out (`plain.go:310`).
- *Substitution.* `docs/schema.md:543` says a placeholder may stand "Anywhere in
  a matrix-expanded job"; `shell` and `depends-on` are not substituted
  (`params.go:76`), so a placeholder there is left as it is. `ExpandsAsDocumented`
  speaks of the fields that are substituted.
- *Repeated values.* A dimension that lists a value twice passes `ValidateMatrix`
  (`expand.go:160`); the pipeline is then rejected as having duplicate jobs, in
  words that do not name the matrix (`RepeatedValue`).

## 8. What is not modelled

- *Data only*: the KDL parser's translation of nodes to records, the checks of
  single fields in `Validate` that no other stage depends on, which fields a parameter is replaced in, the construction of LLB
  operations, `ApplyDefaults`, the command lines of docker and podman, the ignore
  patterns of `synccontext`, the text of messages and errors, redaction of strings (that and
  where a status is redacted is modelled), cache statistics, visualisation.
- *External*: BuildKit, CEL, bubbletea, OpenTelemetry, the semaphore and
  errgroup libraries; the last two are modelled by what the code relies on.
- *Pure I/O*: secrets, the image store, git information, the choice of the
  container runtime.
- *Displays*: quiet discards every message. Of the TUI and the plain display,
  log lines, durations, rendering, the messages about skipped jobs and steps and
  about retries (`StepRetryMsg`, which is sent during a solve, among them: it
  changes no vertex), and the TUI's quit on ctrl+c; bubbletea's event loop is a
  library.
- *Corners*: without a tee a nil status would reach the display, which does not
  expect one; BuildKit sends none, and the model has them only in sessions with a
  tee. Of a publish, `insecure` without `push` is not represented. `Daemon` tells
  a missing container from a failed inspection, as the code does by the words "no
  such" in the error; that another error contains them is left out. A power
  failure does not undo the rename of the cache file, though the directory is not
  synced; the file would then be the old one, as a whole.

`PROJECT.json` lists every component with its status and the hazards that no
property covers yet.

## 9. Plan

Done, in this order because the scheduler is where the program can fail in the
most ways: `DagRun`, `Runner`, its proofs; `Session`; `Backoff` and `Steps`;
`TopoSort` and its proofs; `Prepare`; `Includes`; `Daemon`; `FileSync`;
`Publish`; `Expand` as a stage of `Prepare`; `Display` behind `Session`; the
proofs of `Session`, `Steps`, `Publish`, `Daemon` and `FileSync`.

The proofs of `Includes` and of `Display` behind `Session`, and the lengths of
waits of `Steps`, came last.

Proved: everything in section 6. Left: theorems about the stages of `Prepare`,
best one stage at a time (that `FilterJobs` keeps a window of the graph, that
`EvaluateConditions` leaves no dangling reference).
