------------------------------- MODULE Runner -------------------------------
(***************************************************************************)
(* The job scheduler of internal/runner: Run, runNode and retryJob.        *)
(*                                                                         *)
(* Run starts one goroutine per job.  Each goroutine waits for the job's   *)
(* dependencies in declaration order, evaluates the deferred `when'        *)
(* condition, acquires a slot of a FIFO weighted semaphore, solves the job *)
(* with retries under a job timeout, extracts the job's outputs, and on    *)
(* every path unwinds its defers: release the slot, close the done         *)
(* channel, hand the error to the errgroup (fail-fast) or to the error     *)
(* list.  The main goroutine waits for all of them, then runs the exports  *)
(* and then the image publishes of the jobs that succeeded.                *)
(*                                                                         *)
(* BuildKit is external: a solve is a call that returns success or an      *)
(* error at some later moment.  An error value is abstracted to the kind   *)
(* of failure and the job in which its innermost wrapped error arose.      *)
(***************************************************************************)
EXTENDS Naturals, Sequences, FiniteSets, Functions

CONSTANTS
  Jobs,               \* the names of in.Jobs; buildDAG rejects duplicates
  NoJob,              \* origin of an error that no job raised
  DependsOn,          \* Job.DependsOn, a sequence of names per job
  Parallelism,        \* RunInput.Parallelism; 0 means unlimited
  Retries,            \* Job.Retry.Attempts; 0 when Retry is nil
  TimeoutJobs,        \* jobs with Timeout > 0
  WhenJobs,           \* jobs with a deferred When condition
  StepJobs,           \* jobs with Steps # nil (solveJobSteps)
  OutputJobs,         \* jobs with OutputDef # nil
  NilDefinitionJobs,  \* monolithic jobs with Definition = nil
  Exports,            \* RunInput.Exports
  Publishes,          \* RunInput.ImagePublishes
  SourceJob           \* JobName of an export or publish; NoJob: not in the DAG

Items == Exports \cup Publishes

ASSUME JobsAssumption ==
  /\ IsFiniteSet(Jobs) /\ Jobs # {}
  /\ NoJob \notin Jobs

ASSUME DependsOnAssumption == DependsOn \in [Jobs -> Seq(Jobs)]

ASSUME OptionsAssumption ==
  /\ Parallelism \in Nat
  /\ Retries \in [Jobs -> Nat]
  /\ TimeoutJobs \subseteq Jobs
  /\ WhenJobs \subseteq Jobs
  /\ StepJobs \subseteq Jobs
  /\ OutputJobs \subseteq Jobs
  /\ NilDefinitionJobs \subseteq Jobs \ StepJobs

ASSUME ItemsAssumption ==
  /\ IsFiniteSet(Exports) /\ IsFiniteSet(Publishes)
  /\ Exports \cap Publishes = {}
  /\ SourceJob \in [Items -> Jobs \cup {NoJob}]

VARIABLES
  failFast,  \* RunInput.FailFast, chosen by the caller
  pc,        \* where each job's goroutine is in runNode
  depIdx,    \* index in DependsOn of the dependency being waited for
  attempt,   \* 0-based attempt of retryJob's loop
  solveErr,  \* the error retryJob returned
  timedOut,  \* jobs whose timer cancelled their solveCtx
  err,       \* dagNode.err
  skipped,   \* jobs whose dagNode.skipped is true
  outputs,   \* jobs whose dagNode.outputs is not nil
  done,      \* jobs whose dagNode.done channel is closed
  holders,   \* jobs that hold a semaphore slot
  waiters,   \* FIFO of jobs blocked in sem.Acquire
  cause,     \* context.Cause of the context runNode was given
  jobErrs,   \* jobs whose error the errgroup or the error list kept
  main,      \* where the goroutine that called Run is
  item,      \* progress of each export and publish
  result,    \* what Run returned
  sent       \* messages sent to the display, per job

nodeVars  == <<depIdx, attempt, solveErr, timedOut, outputs>>
semVars   == <<holders, waiters>>
mainVars  == <<failFast, main, item, result>>
vars == <<failFast, pc, depIdx, attempt, solveErr, timedOut, err, skipped, outputs,
          done, holders, waiters, cause, jobErrs, main, item, result, sent>>

-----------------------------------------------------------------------------
(* Errors.  The kind is what errors.Is can tell apart, the job is the one   *)
(* whose runNode created the innermost error.                               *)

ErrKinds == {"nil", "failed", "timeout", "cancelled", "when", "output"}
Errors   == [kind : ErrKinds, job : Jobs \cup {NoJob}]
NoErr    == [kind |-> "nil", job |-> NoJob]
Err(k, j) == [kind |-> k, job |-> j]

PCs == {"deps", "acquire", "queued", "solve", "solving", "delay", "classify",
        "outputs", "release", "close", "report", "returned"}

Messages == {"added", "done", "retry", "timeout", "skipped"}

(* The semaphore's size: runner.go computes it from Parallelism. *)
Limit == IF Parallelism > 0 THEN Parallelism ELSE Cardinality(Jobs)

Deps(j) == Range(DependsOn[j])

(* Mutant: solveCtx is not derived from the context runNode was given. *)
SolveCauseDetached(j) == IF j \in timedOut THEN Err("timeout", j) ELSE NoErr

(* context.Cause of solveCtx: its own timer if that fired first, else the   *)
(* cause of the context it was derived from.                                *)
SolveCause(j) == IF j \in timedOut THEN Err("timeout", j) ELSE cause

Succeeded(j) == err[j] = NoErr /\ j \notin skipped

Goto(j, label) == pc' = [pc EXCEPT ![j] = label]
Send(j, msgs)  == sent' = [sent EXCEPT ![j] = @ \o msgs]
SetErr(j, e)   == err' = [err EXCEPT ![j] = e]

-----------------------------------------------------------------------------
Init ==
  /\ failFast \in BOOLEAN
  /\ pc = [j \in Jobs |-> "deps"]
  /\ depIdx = [j \in Jobs |-> 1]
  /\ attempt = [j \in Jobs |-> 0]
  /\ solveErr = [j \in Jobs |-> NoErr]
  /\ timedOut = {}
  /\ err = [j \in Jobs |-> NoErr]
  /\ skipped = {}
  /\ outputs = {}
  /\ done = {}
  /\ holders = {}
  /\ waiters = << >>
  /\ cause = NoErr
  /\ jobErrs = {}
  /\ main = "jobs"
  /\ item = [i \in Items |-> "idle"]
  /\ result = "none"
  /\ sent = [j \in Jobs |-> << >>]

-----------------------------------------------------------------------------
(* Waiting for dependencies: the select of runNode's loop.                  *)

Waiting(j) == pc[j] = "deps" /\ depIdx[j] <= Len(DependsOn[j])

AwaitedDep(j) == DependsOn[j][depIdx[j]]

DepFailed(j) ==
  /\ Waiting(j)
  /\ AwaitedDep(j) \in done
  /\ err[AwaitedDep(j)] # NoErr
  /\ SetErr(j, err[AwaitedDep(j)])
  /\ Goto(j, "close")
  /\ UNCHANGED <<nodeVars, skipped, done, semVars, cause, jobErrs, mainVars, sent>>

DepSkipped(j) ==
  /\ Waiting(j)
  /\ AwaitedDep(j) \in done
  /\ err[AwaitedDep(j)] = NoErr
  /\ AwaitedDep(j) \in skipped
  /\ skipped' = skipped \cup {j}
  /\ Send(j, <<"skipped">>)
  /\ Goto(j, "close")
  /\ UNCHANGED <<nodeVars, err, done, semVars, cause, jobErrs, mainVars>>

(* Mutant: a skipped dependency counts as a successful one. *)
DepSkipIgnored(j) ==
  /\ Waiting(j)
  /\ AwaitedDep(j) \in done
  /\ err[AwaitedDep(j)] = NoErr
  /\ depIdx' = [depIdx EXCEPT ![j] = @ + 1]
  /\ UNCHANGED <<pc, attempt, solveErr, timedOut, err, skipped, outputs, done,
                 semVars, cause, jobErrs, mainVars, sent>>

DepSucceeded(j) ==
  /\ Waiting(j)
  /\ AwaitedDep(j) \in done
  /\ Succeeded(AwaitedDep(j))
  /\ depIdx' = [depIdx EXCEPT ![j] = @ + 1]
  /\ UNCHANGED <<pc, attempt, solveErr, timedOut, err, skipped, outputs, done,
                 semVars, cause, jobErrs, mainVars, sent>>

DepWaitCancelled(j) ==
  /\ Waiting(j)
  /\ cause # NoErr
  /\ SetErr(j, Err("cancelled", j))
  /\ Goto(j, "close")
  /\ UNCHANGED <<nodeVars, skipped, done, semVars, cause, jobErrs, mainVars, sent>>

-----------------------------------------------------------------------------
(* The deferred when condition, evaluated over the dependencies' outputs.   *)

DepsReady(j) == pc[j] = "deps" /\ depIdx[j] > Len(DependsOn[j])

WhenTrue(j) ==
  /\ DepsReady(j)
  /\ Goto(j, "acquire")
  /\ UNCHANGED <<nodeVars, err, skipped, done, semVars, cause, jobErrs, mainVars, sent>>

WhenFalse(j) ==
  /\ DepsReady(j)
  /\ j \in WhenJobs
  /\ skipped' = skipped \cup {j}
  /\ Send(j, <<"skipped">>)
  /\ Goto(j, "close")
  /\ UNCHANGED <<nodeVars, err, done, semVars, cause, jobErrs, mainVars>>

WhenError(j) ==
  /\ DepsReady(j)
  /\ j \in WhenJobs
  /\ SetErr(j, Err("when", j))
  /\ Goto(j, "close")
  /\ UNCHANGED <<nodeVars, skipped, done, semVars, cause, jobErrs, mainVars, sent>>

-----------------------------------------------------------------------------
(* golang.org/x/sync/semaphore (external): Acquire fails at once on a done  *)
(* context, takes a free slot when nobody waits, else queues; Release hands *)
(* the slot to the waiter at the front.                                     *)

(* Mutant: Release frees the slot without waking the first waiter. *)
ReleaseForgetsWaiters(j) ==
  /\ holders' = holders \ {j}
  /\ UNCHANGED waiters

ReleaseSlot(j) ==
  IF waiters = << >>
  THEN /\ holders' = holders \ {j}
       /\ UNCHANGED waiters
  ELSE /\ holders' = (holders \ {j}) \cup {Head(waiters)}
       /\ waiters' = Tail(waiters)

(* Mutant: Acquire only looks at the queue, not at the slots in use. *)
AcquireUncounted(j) ==
  /\ pc[j] = "acquire"
  /\ cause = NoErr
  /\ waiters = << >>
  /\ holders' = holders \cup {j}
  /\ Goto(j, "solve")
  /\ UNCHANGED <<nodeVars, err, skipped, done, waiters, cause, jobErrs, mainVars, sent>>

AcquireFree(j) ==
  /\ pc[j] = "acquire"
  /\ cause = NoErr
  /\ Cardinality(holders) < Limit /\ waiters = << >>
  /\ holders' = holders \cup {j}
  /\ Goto(j, "solve")
  /\ UNCHANGED <<nodeVars, err, skipped, done, waiters, cause, jobErrs, mainVars, sent>>

AcquireQueue(j) ==
  /\ pc[j] = "acquire"
  /\ cause = NoErr
  /\ ~(Cardinality(holders) < Limit /\ waiters = << >>)
  /\ waiters' = Append(waiters, j)
  /\ Goto(j, "queued")
  /\ UNCHANGED <<nodeVars, err, skipped, done, holders, cause, jobErrs, mainVars, sent>>

AcquireCancelled(j) ==
  /\ pc[j] = "acquire"
  /\ cause # NoErr
  /\ SetErr(j, Err("cancelled", j))
  /\ Goto(j, "close")
  /\ UNCHANGED <<nodeVars, skipped, done, semVars, cause, jobErrs, mainVars, sent>>

(* Mutant: a slot that arrives after the cancellation is used all the same. *)
GrantedAnyway(j) ==
  /\ pc[j] = "queued"
  /\ j \in holders
  /\ Goto(j, "solve")
  /\ UNCHANGED <<nodeVars, err, skipped, done, semVars, cause, jobErrs, mainVars, sent>>

Granted(j) ==
  /\ pc[j] = "queued"
  /\ j \in holders
  /\ cause = NoErr
  /\ Goto(j, "solve")
  /\ UNCHANGED <<nodeVars, err, skipped, done, semVars, cause, jobErrs, mainVars, sent>>

(* The slot arrived, but the context is done: Acquire gives it back. *)
GrantedTooLate(j) ==
  /\ pc[j] = "queued"
  /\ j \in holders
  /\ cause # NoErr
  /\ ReleaseSlot(j)
  /\ SetErr(j, Err("cancelled", j))
  /\ Goto(j, "close")
  /\ UNCHANGED <<nodeVars, skipped, done, cause, jobErrs, mainVars, sent>>

QueueCancelled(j) ==
  /\ pc[j] = "queued"
  /\ cause # NoErr
  /\ \E i \in 1..Len(waiters) :
       /\ waiters[i] = j
       /\ waiters' = SubSeq(waiters, 1, i - 1) \o SubSeq(waiters, i + 1, Len(waiters))
  /\ SetErr(j, Err("cancelled", j))
  /\ Goto(j, "close")
  /\ UNCHANGED <<nodeVars, skipped, done, holders, cause, jobErrs, mainVars, sent>>

-----------------------------------------------------------------------------
(* retryJob: the solve, its retries and the job timeout.                    *)

StartSolve(j) ==
  /\ pc[j] = "solve"
  /\ j \notin NilDefinitionJobs
  /\ Send(j, <<"added">>)
  /\ Goto(j, "solving")
  /\ UNCHANGED <<nodeVars, err, skipped, done, semVars, cause, jobErrs, mainVars>>

(* Mutant: dependents are released before the outputs are there. *)
SolveSucceedsAndCloses(j) ==
  /\ pc[j] = "solving"
  /\ outputs' = IF j \in StepJobs THEN outputs \cup {j} ELSE outputs
  /\ done' = done \cup {j}
  /\ Send(j, <<"done">>)
  /\ Goto(j, "outputs")
  /\ UNCHANGED <<depIdx, attempt, solveErr, timedOut, err, skipped, semVars,
                 cause, jobErrs, mainVars>>

SolveSucceeds(j) ==
  /\ pc[j] = "solving"
  /\ outputs' = IF j \in StepJobs THEN outputs \cup {j} ELSE outputs
  /\ Send(j, <<"done">>)
  /\ Goto(j, "outputs")
  /\ UNCHANGED <<depIdx, attempt, solveErr, timedOut, err, skipped, done, semVars,
                 cause, jobErrs, mainVars>>

(* solve() returned an error, either from the solver (its status session    *)
(* has ended, so JobDoneMsg is out) or at once for a nil definition.        *)
AttemptFailed(j) ==
  \/ pc[j] = "solving"
  \/ pc[j] = "solve" /\ j \in NilDefinitionJobs

(* Mutant: a failed attempt does not end its status session. *)
SessionLeftOpen(j) == IF pc[j] = "solving" THEN << >> ELSE << >>

SessionEnd(j) == IF pc[j] = "solving" THEN <<"done">> ELSE << >>

LastAttemptFails(j) ==
  /\ AttemptFailed(j)
  /\ attempt[j] = Retries[j]
  /\ solveErr' = [solveErr EXCEPT ![j] = Err("failed", j)]
  /\ Send(j, SessionEnd(j))
  /\ Goto(j, "classify")
  /\ UNCHANGED <<depIdx, attempt, timedOut, err, skipped, outputs, done, semVars,
                 cause, jobErrs, mainVars>>

AttemptFailsCancelled(j) ==
  /\ AttemptFailed(j)
  /\ attempt[j] < Retries[j]
  /\ SolveCause(j) # NoErr
  /\ solveErr' = [solveErr EXCEPT ![j] = SolveCause(j)]
  /\ Send(j, SessionEnd(j))
  /\ Goto(j, "classify")
  /\ UNCHANGED <<depIdx, attempt, timedOut, err, skipped, outputs, done, semVars,
                 cause, jobErrs, mainVars>>

(* Mutant: one retry too many. *)
AttemptFailsRetryAgain(j) ==
  /\ AttemptFailed(j)
  /\ attempt[j] <= Retries[j]
  /\ SolveCause(j) = NoErr
  /\ Send(j, SessionEnd(j) \o <<"retry">>)
  /\ Goto(j, "delay")
  /\ UNCHANGED <<nodeVars, err, skipped, done, semVars, cause, jobErrs, mainVars>>

AttemptFailsRetry(j) ==
  /\ AttemptFailed(j)
  /\ attempt[j] < Retries[j]
  /\ SolveCause(j) = NoErr
  /\ Send(j, SessionEnd(j) \o <<"retry">>)
  /\ Goto(j, "delay")
  /\ UNCHANGED <<nodeVars, err, skipped, done, semVars, cause, jobErrs, mainVars>>

DelayElapses(j) ==
  /\ pc[j] = "delay"
  /\ attempt' = [attempt EXCEPT ![j] = @ + 1]
  /\ Goto(j, "solve")
  /\ UNCHANGED <<depIdx, solveErr, timedOut, err, skipped, outputs, done, semVars,
                 cause, jobErrs, mainVars, sent>>

DelayCancelled(j) ==
  /\ pc[j] = "delay"
  /\ SolveCause(j) # NoErr
  /\ solveErr' = [solveErr EXCEPT ![j] = SolveCause(j)]
  /\ Goto(j, "classify")
  /\ UNCHANGED <<depIdx, attempt, timedOut, err, skipped, outputs, done, semVars,
                 cause, jobErrs, mainVars, sent>>

(* The timer of context.WithTimeoutCause.  A context keeps its first cause, *)
(* and a derived context is done when its parent is.                        *)
TimerFires(j) ==
  /\ j \in TimeoutJobs \ timedOut
  /\ pc[j] \in {"solve", "solving", "delay", "classify"}
  /\ cause = NoErr
  /\ timedOut' = timedOut \cup {j}
  /\ UNCHANGED <<pc, depIdx, attempt, solveErr, err, skipped, outputs, done, semVars,
                 cause, jobErrs, mainVars, sent>>

(* After retryJob failed, runNode looks at the context's cause as it is now. *)
Classify(j) ==
  /\ pc[j] = "classify"
  /\ \/ /\ SolveCause(j).kind = "timeout"
        /\ Send(j, <<"timeout">>)
        /\ SetErr(j, SolveCause(j))
     \/ /\ SolveCause(j).kind # "timeout"
        /\ SetErr(j, solveErr[j])
        /\ UNCHANGED sent
  /\ Goto(j, "release")
  /\ UNCHANGED <<nodeVars, skipped, done, semVars, cause, jobErrs, mainVars>>

-----------------------------------------------------------------------------
(* Output extraction, on jobCtx: the job timeout does not apply to it.      *)

(* Mutant: only step-controlled jobs have their outputs extracted. *)
NeedsExtractionSteps(j) == j \in (OutputJobs \cap StepJobs) \ outputs

NeedsExtraction(j) == j \in OutputJobs \ outputs

NothingToExtract(j) ==
  /\ pc[j] = "outputs"
  /\ ~NeedsExtraction(j)
  /\ Goto(j, "release")
  /\ UNCHANGED <<nodeVars, err, skipped, done, semVars, cause, jobErrs, mainVars, sent>>

ExtractSucceeds(j) ==
  /\ pc[j] = "outputs"
  /\ NeedsExtraction(j)
  /\ outputs' = outputs \cup {j}
  /\ Goto(j, "release")
  /\ UNCHANGED <<depIdx, attempt, solveErr, timedOut, err, skipped, done, semVars,
                 cause, jobErrs, mainVars, sent>>

ExtractFails(j) ==
  /\ pc[j] = "outputs"
  /\ NeedsExtraction(j)
  /\ SetErr(j, Err("output", j))
  /\ Goto(j, "release")
  /\ UNCHANGED <<nodeVars, skipped, done, semVars, cause, jobErrs, mainVars, sent>>

-----------------------------------------------------------------------------
(* The defers of runNode in the order they run, then the goroutine's return. *)

Release(j) ==
  /\ pc[j] = "release"
  /\ ReleaseSlot(j)
  /\ Goto(j, "close")
  /\ UNCHANGED <<nodeVars, err, skipped, done, cause, jobErrs, mainVars, sent>>

CloseDone(j) ==
  /\ pc[j] = "close"
  /\ done' = done \cup {j}
  /\ Goto(j, "report")
  /\ UNCHANGED <<nodeVars, err, skipped, semVars, cause, jobErrs, mainVars, sent>>

(* Mutant: the first failure cancels the other jobs without fail-fast too. *)
ReportCancels(j) ==
  /\ pc[j] = "report"
  /\ IF err[j] # NoErr
     THEN /\ jobErrs' = jobErrs \cup {j}
          /\ cause' = IF cause = NoErr THEN err[j] ELSE cause
     ELSE UNCHANGED <<jobErrs, cause>>
  /\ Goto(j, "returned")
  /\ UNCHANGED <<nodeVars, err, skipped, done, semVars, mainVars, sent>>

(* errgroup (external) keeps the first error and cancels the group context   *)
(* with it; without fail-fast every error is appended to errs.               *)
Report(j) ==
  /\ pc[j] = "report"
  /\ IF err[j] # NoErr /\ (failFast => jobErrs = {})
     THEN /\ jobErrs' = jobErrs \cup {j}
          /\ cause' = IF failFast /\ cause = NoErr THEN err[j] ELSE cause
     ELSE UNCHANGED <<jobErrs, cause>>
  /\ Goto(j, "returned")
  /\ UNCHANGED <<nodeVars, err, skipped, done, semVars, mainVars, sent>>

-----------------------------------------------------------------------------
(* The goroutine that called Run.                                            *)

AllReturned == \A j \in Jobs : pc[j] = "returned"

(* Mutant: a skipped job has no error, so its items are delivered. *)
SelectedIfNoErr(i) == SourceJob[i] = NoJob \/ err[SourceJob[i]] = NoErr

(* filterSuccessful: items of jobs that are not in the DAG pass through. *)
Selected(i) == SourceJob[i] = NoJob \/ Succeeded(SourceJob[i])

Start(items) == item' = [i \in Items |-> IF i \in items /\ Selected(i)
                                         THEN "running" ELSE item[i]]

Idle(items) == \A i \in items : item[i] # "running"

jobVars == <<pc, depIdx, attempt, solveErr, timedOut, err, skipped, outputs, done,
             holders, waiters, jobErrs, sent>>

FailFastReturn ==
  /\ main = "jobs" /\ AllReturned
  /\ failFast /\ jobErrs # {}
  /\ main' = "returned"
  /\ result' = "error"
  /\ UNCHANGED <<failFast, jobVars, cause, item>>

StartExports ==
  /\ main = "jobs" /\ AllReturned
  /\ ~(failFast /\ jobErrs # {})
  /\ Start(Exports)
  /\ main' = "exports"
  /\ UNCHANGED <<failFast, jobVars, cause, result>>

(* An export or publish solve ends; its error cancels its siblings, which may *)
(* still succeed or fail.                                                     *)
ItemReturns(i) ==
  /\ item[i] = "running"
  /\ \E r \in {"ok", "failed"} : item' = [item EXCEPT ![i] = r]
  /\ UNCHANGED <<failFast, jobVars, cause, main, result>>

StartPublishes ==
  /\ main = "exports" /\ Idle(Exports)
  /\ Start(Publishes)
  /\ main' = "publishes"
  /\ UNCHANGED <<failFast, jobVars, cause, result>>

(* groupPublishes rejects the whole set: no image is published. *)
RejectPublishes ==
  /\ main = "exports" /\ Idle(Exports)
  /\ \E i \in Publishes : Selected(i)
  /\ main' = "returned"
  /\ result' = "error"
  /\ UNCHANGED <<failFast, jobVars, cause, item>>

(* Mutant: errors of exports and publishes are dropped. *)
JoinedJobsOnly == IF jobErrs = {} THEN "ok" ELSE "error"

Joined ==
  IF jobErrs = {} /\ \A i \in Items : item[i] # "failed" THEN "ok" ELSE "error"

FinishRun ==
  /\ main = "publishes" /\ Idle(Publishes)
  /\ main' = "returned"
  /\ result' = Joined
  /\ UNCHANGED <<failFast, jobVars, cause, item>>

(* The caller cancels the context given to Run (interrupt signal). *)
CancelRun ==
  /\ main # "returned"
  /\ cause = NoErr
  /\ cause' = Err("cancelled", NoJob)
  /\ UNCHANGED <<jobVars, mainVars>>

-----------------------------------------------------------------------------
NodeStep(j) ==
  \/ DepFailed(j) \/ DepSkipped(j) \/ DepSucceeded(j) \/ DepWaitCancelled(j)
  \/ WhenTrue(j) \/ WhenFalse(j) \/ WhenError(j)
  \/ AcquireFree(j) \/ AcquireQueue(j) \/ AcquireCancelled(j)
  \/ Granted(j) \/ GrantedTooLate(j) \/ QueueCancelled(j)
  \/ StartSolve(j) \/ DelayElapses(j) \/ DelayCancelled(j)
  \/ Classify(j) \/ NothingToExtract(j)
  \/ Release(j) \/ CloseDone(j) \/ Report(j)

(* A call into BuildKit returns. *)
SolveReturns(j) ==
  \/ SolveSucceeds(j) \/ LastAttemptFails(j)
  \/ AttemptFailsCancelled(j) \/ AttemptFailsRetry(j)

ExtractReturns(j) == ExtractSucceeds(j) \/ ExtractFails(j)

MainStep ==
  \/ FailFastReturn \/ StartExports \/ StartPublishes \/ RejectPublishes \/ FinishRun

Terminated == main = "returned" /\ UNCHANGED vars

Next ==
  \/ \E j \in Jobs : NodeStep(j) \/ SolveReturns(j) \/ ExtractReturns(j) \/ TimerFires(j)
  \/ \E i \in Items : ItemReturns(i)
  \/ MainStep
  \/ CancelRun
  \/ Terminated

Spec == Init /\ [][Next]_vars

(* Every goroutine the Go scheduler can run is eventually run, and timers     *)
(* fire.  BuildKit is only known to answer a call whose context is done: a    *)
(* build may hang for ever.                                                   *)
Fairness ==
  /\ \A j \in Jobs : /\ WF_vars(NodeStep(j))
                     /\ WF_vars(TimerFires(j))
                     /\ WF_vars(SolveCause(j) # NoErr /\ SolveReturns(j))
                     /\ WF_vars(cause # NoErr /\ ExtractReturns(j))
  /\ \A i \in Items : WF_vars(cause # NoErr /\ ItemReturns(i))
  /\ WF_vars(MainStep)

FairSpec == Spec /\ Fairness

(* BuildKit answers every call. *)
BuildKitAnswers ==
  /\ \A j \in Jobs : WF_vars(SolveReturns(j)) /\ WF_vars(ExtractReturns(j))
  /\ \A i \in Items : WF_vars(ItemReturns(i))

-----------------------------------------------------------------------------
(* Properties.                                                               *)

(* Every variable stays in its domain.  Beyond the domains: retryJob never    *)
(* makes more than 1 + Attempts attempts, and a slot is held or awaited only  *)
(* by a job.                                                                  *)
TypeOK ==
  /\ failFast \in BOOLEAN
  /\ pc \in [Jobs -> PCs]
  /\ depIdx \in [Jobs -> Nat \ {0}]
  /\ attempt \in [Jobs -> Nat] /\ \A j \in Jobs : attempt[j] <= Retries[j]
  /\ solveErr \in [Jobs -> Errors]
  /\ timedOut \subseteq Jobs
  /\ err \in [Jobs -> Errors]
  /\ skipped \subseteq Jobs
  /\ outputs \subseteq Jobs
  /\ done \subseteq Jobs
  /\ holders \subseteq Jobs
  /\ waiters \in Seq(Jobs)
  /\ cause \in Errors
  /\ jobErrs \subseteq Jobs
  /\ main \in {"jobs", "exports", "publishes", "returned"}
  /\ item \in [Items -> {"idle", "running", "ok", "failed"}]
  /\ result \in {"none", "ok", "error"}
  /\ sent \in [Jobs -> Seq(Messages)]

(* Where a goroutine owns a semaphore slot. *)
Owning == {"solve", "solving", "delay", "classify", "outputs", "release"}

(* The goroutine has decided the job's outcome and given its slot back. *)
Decided == {"close", "report", "returned"}

Solvable(j) == pc[j] \in Owning \cup {"acquire", "queued"}

(* runNode's first promise ("errors propagate as errors, skips propagate as   *)
(* skips"): a job gets as far as the semaphore, and ends well, only if every  *)
(* dependency has closed its done channel without error and without a skip.   *)
DepsBeforeSolve ==
  \A j \in Jobs :
    Solvable(j) \/ (pc[j] \in Decided /\ Succeeded(j))
      => \A d \in Deps(j) : d \in done /\ Succeeded(d)

(* The dependency outputs a deferred condition reads are there: when a job    *)
(* stops waiting, each dependency that writes outputs has published them      *)
(* (collectDepOutputs reads them without a lock, ordered only by done).       *)
OutputsBeforeWhen ==
  \A j \in Jobs :
    DepsReady(j) \/ Solvable(j)
      => \A d \in Deps(j) : d \in OutputJobs \cup StepJobs => d \in outputs

(* Parallelism is respected and no wakeup is lost: at most Limit jobs own a   *)
(* slot, and while someone queues for one, none is free.                      *)
SlotsConserved ==
  /\ Cardinality(holders) <= Limit
  /\ waiters # << >> => Cardinality(holders) = Limit
  /\ \A j \in Jobs : pc[j] \in Owning => j \in holders

(* progressmodel.JobTimeoutMsg "signals a job exceeded its configured         *)
(* timeout": it is sent only for a job whose own timer fired.                 *)
TimeoutMsgTruthful ==
  \A j \in Jobs : "timeout" \in Range(sent[j]) => j \in timedOut

(* Without fail-fast jobs are independent: a job's failure is its own, or     *)
(* that of a dependency that ended before it, or the caller's cancellation,   *)
(* and it is announced as timed out for its own timer only.                   *)
FailuresAreOwned ==
  ~failFast =>
    /\ \A j \in Jobs : err[j] # NoErr =>
         \/ err[j].job = j
         \/ err[j].job = NoJob /\ cause.kind = "cancelled"
         \/ \E d \in Deps(j) : d \in done /\ err[j] = err[d]
    /\ TimeoutMsgTruthful

(* The happens-before that dagNode's comment claims: what a node wrote is     *)
(* final once its done channel is closed, since dependents and the main       *)
(* goroutine read it without a lock.                                          *)
DoneIsFinal ==
  [][\A j \in done : /\ j \in done'
                     /\ err'[j] = err[j]
                     /\ (j \in skipped') <=> (j \in skipped)
                     /\ (j \in outputs') <=> (j \in outputs)]_vars

(* An export or publish starts only when every goroutine has returned, for a  *)
(* job that was really solved, and never in a fail-fast run with a failure.   *)
DeliversOnlySuccess ==
  \A i \in Items : item[i] # "idle" =>
    /\ AllReturned
    /\ failFast => jobErrs = {}
    /\ SourceJob[i] \in Jobs =>
         /\ "done" \in Range(sent[SourceJob[i]])
         /\ \A j \in Deps(SourceJob[i]) \cup {SourceJob[i]} : Succeeded(j)

(* Run returns nil exactly if nothing went wrong anywhere: no job failed, and *)
(* every export and publish of a successful job was delivered.                *)
RunReportsFailures ==
  main = "returned" =>
    (result = "ok" <=> /\ \A j \in Jobs : err[j] = NoErr
                       /\ \A i \in Items : Selected(i) => item[i] = "ok")

(* The order of a job's messages the displays rely on: every JobAdded is      *)
(* closed by a JobDone before a JobRetry or JobTimeout, a timeout is the last *)
(* message, and a skipped job sends nothing else.                             *)
MessageProtocol ==
  \A j \in Jobs :
    /\ \A k \in 1..(Len(sent[j]) - 1) :
         <<sent[j][k], sent[j][k + 1]>> \in
           {<<"added", "done">>, <<"done", "retry">>, <<"retry", "added">>,
            <<"retry", "retry">>, <<"done", "timeout">>, <<"retry", "timeout">>}
    /\ sent[j] # << >> /\ j \notin NilDefinitionJobs => sent[j][1] \in {"added", "skipped"}
    /\ pc[j] \in Decided /\ sent[j] # << >> => sent[j][Len(sent[j])] # "added"

(* Run returns, if BuildKit answers. *)
Termination == BuildKitAnswers => <>(main = "returned")

(* What hangs is ended: once the context is cancelled, by fail-fast or by an  *)
(* interrupt, Run returns; and a timeout frees the slot of a job whose build  *)
(* hangs, retries included, if it has no outputs to extract.                  *)
HangingSolvesEnd ==
  /\ cause # NoErr ~> main = "returned"
  /\ \A j \in TimeoutJobs \ OutputJobs : pc[j] = "solving" ~> j \in done

-----------------------------------------------------------------------------
(* Run implements the abstract scheduler of DagRun.                          *)

Status(j) ==
  CASE pc[j] \in Owning -> "running"
    [] pc[j] \in Decided /\ err[j] # NoErr -> "failed"
    [] pc[j] \in Decided /\ err[j] = NoErr /\ j \in skipped -> "skipped"
    [] pc[j] \in Decided /\ Succeeded(j) -> "ok"
    [] OTHER -> "pending"

Dag == INSTANCE DagRun WITH
  DepsOf <- [j \in Jobs |-> Deps(j)],
  Owner <- SourceJob,
  status <- [j \in Jobs |-> Status(j)],
  stop <- cause # NoErr,
  delivered <- {i \in Items : item[i] # "idle"}

(* The scheduler refines DagRun: jobs start in dependency order, within the   *)
(* limit and never after a cancellation; skips and failures propagate.        *)
RefinesDagRun == Dag!Spec
=============================================================================
