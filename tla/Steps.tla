------------------------------- MODULE Steps --------------------------------
(***************************************************************************)
(* A step-controlled job: solveJobSteps, stepControlBuildFunc and          *)
(* solveStep of internal/runner/solve.go, with the job-level retry around  *)
(* them.                                                                   *)
(*                                                                         *)
(* The build function runs inside solver.Build.  It solves the steps one   *)
(* by one, each on top of the state the last successful one left, retries  *)
(* a failing step, and goes on past a step with allow-failure.  An LLB     *)
(* state is abstracted to the sequence of steps it contains; a step's      *)
(* configuration is chosen initially and never changes.                    *)
(***************************************************************************)
EXTENDS Backoff, Sequences

CONSTANTS
  MaxSteps,        \* bound: steps of the job
  StepRetries,     \* values of Retry.Attempts; 0: Retry is nil
  Delays,          \* values of Retry.Delay
  JobRetries       \* Retry.Attempts of the job

ASSUME StepsAssumption ==
  /\ MaxSteps \in Nat
  /\ StepRetries \subseteq Nat
  /\ Delays \subseteq 0..MaxInt
  /\ JobRetries \in Nat

StepConfigs == [retries : StepRetries, allow : BOOLEAN, delay : Delays, backoff : Backoffs]

VARIABLES
  steps,      \* Job.Steps
  jobTry,     \* attempt of the job
  cancelled,  \* the build's context is done
  pc,         \* where the build function is
  k,          \* the step being executed
  attempt,    \* its 0-based attempt
  delay,      \* the wait before its next attempt
  state,      \* currentState: the steps its LLB contains
  lastRef,    \* the step whose result is lastRef; 0: none
  outcome,    \* what became of each step in this build
  solves,     \* what was solved in this build: step, attempt, base
  events,     \* StepRetryMsg and StepAllowedFailureMsg of this build
  nodeOutputs \* dagNode.outputs: -1 nil, 0 the empty map, else the step read

vars == <<steps, jobTry, cancelled, pc, k, attempt, delay, state, lastRef,
          outcome, solves, events, nodeOutputs>>

NumSteps == Len(steps)

NoOutcome == [i \in 1..MaxSteps |-> "unrun"]

Init ==
  /\ steps \in UNION {[1..n -> StepConfigs] : n \in 1..MaxSteps}
  /\ jobTry = 0
  /\ cancelled = FALSE
  /\ pc = "step"
  /\ k = 1 /\ attempt = 0 /\ delay = 0
  /\ state = << >> /\ lastRef = 0 /\ outcome = NoOutcome
  /\ solves = << >> /\ events = << >>
  /\ nodeOutputs = -1

-----------------------------------------------------------------------------
(* solveStep.                                                                *)

Maximum == 1 + steps[k].retries

(* client.Solve of step.Build(base, attempt), evaluated; it succeeds. *)
StepSucceeds ==
  /\ pc = "step" /\ k <= NumSteps
  /\ solves' = Append(solves, [step |-> k, attempt |-> attempt, base |-> state])
  /\ outcome' = [outcome EXCEPT ![k] = "ok"]
  /\ state' = Append(state, k)
  /\ lastRef' = k
  /\ k' = k + 1
  /\ attempt' = 0
  /\ UNCHANGED <<steps, jobTry, cancelled, pc, delay, events, nodeOutputs>>

(* It fails for good: the last attempt, or the context is done. *)
StepFails ==
  /\ pc = "step" /\ k <= NumSteps
  /\ attempt = Maximum - 1 \/ cancelled
  /\ solves' = Append(solves, [step |-> k, attempt |-> attempt, base |-> state])
  /\ pc' = "failed"
  /\ UNCHANGED <<steps, jobTry, cancelled, k, attempt, delay, state, lastRef, outcome, events, nodeOutputs>>

(* Build, Marshal or SingleRef reports an error: no retry. *)
StepUnusable ==
  /\ pc = "step" /\ k <= NumSteps
  /\ pc' = "failed"
  /\ UNCHANGED <<steps, jobTry, cancelled, k, attempt, delay, state, lastRef, outcome,
                 solves, events, nodeOutputs>>

RetryEvent(n) == [kind |-> "retry", step |-> k, attempt |-> n]

StepFailsRetry ==
  /\ pc = "step" /\ k <= NumSteps
  /\ attempt < Maximum - 1 /\ ~cancelled
  /\ solves' = Append(solves, [step |-> k, attempt |-> attempt, base |-> state])
  /\ events' = Append(events, RetryEvent(attempt + 2))
  /\ delay' = RetryDelay(steps[k].delay, steps[k].backoff, attempt)
  /\ pc' = "delay"
  /\ UNCHANGED <<steps, jobTry, cancelled, k, attempt, state, lastRef, outcome, nodeOutputs>>

DelayElapses ==
  /\ pc = "delay"
  /\ attempt' = attempt + 1
  /\ pc' = "step"
  /\ UNCHANGED <<steps, jobTry, cancelled, k, delay, state, lastRef, outcome, solves,
                 events, nodeOutputs>>

DelayCancelled ==
  /\ pc = "delay"
  /\ delay > 0
  /\ cancelled
  /\ pc' = "failed"
  /\ UNCHANGED <<steps, jobTry, cancelled, k, attempt, delay, state, lastRef, outcome,
                 solves, events, nodeOutputs>>

-----------------------------------------------------------------------------
(* stepControlBuildFunc.                                                     *)

(* Mutant: the state of the failed step becomes the base of the next one. *)
AllowFailureTainted ==
  /\ pc = "failed"
  /\ steps[k].allow
  /\ outcome' = [outcome EXCEPT ![k] = "allowed"]
  /\ events' = Append(events, [kind |-> "allowed", step |-> k, attempt |-> 0])
  /\ state' = Append(state, k)
  /\ k' = k + 1
  /\ attempt' = 0
  /\ pc' = "step"
  /\ UNCHANGED <<steps, jobTry, cancelled, delay, lastRef, solves, nodeOutputs>>

AllowFailure ==
  /\ pc = "failed"
  /\ steps[k].allow
  /\ outcome' = [outcome EXCEPT ![k] = "allowed"]
  /\ events' = Append(events, [kind |-> "allowed", step |-> k, attempt |-> 0])
  /\ k' = k + 1
  /\ attempt' = 0
  /\ pc' = "step"
  /\ UNCHANGED <<steps, jobTry, cancelled, delay, state, lastRef, solves, nodeOutputs>>

(* Mutant: the build goes on after a step that must not fail. *)
StepErrorIgnored ==
  /\ pc = "failed"
  /\ ~steps[k].allow
  /\ outcome' = [outcome EXCEPT ![k] = "failed"]
  /\ k' = k + 1
  /\ attempt' = 0
  /\ pc' = "step"
  /\ UNCHANGED <<steps, jobTry, cancelled, delay, state, lastRef, solves, events, nodeOutputs>>

StepError ==
  /\ pc = "failed"
  /\ ~steps[k].allow
  /\ outcome' = [outcome EXCEPT ![k] = "failed"]
  /\ pc' = "error"
  /\ UNCHANGED <<steps, jobTry, cancelled, k, attempt, delay, state, lastRef, solves,
                 events, nodeOutputs>>

(* solver.Build returns.  extractRefOutputs reads the last ref; a missing     *)
(* file or a read error leaves the empty map.                                 *)
Sources == {0, lastRef}

BuildSucceeds ==
  /\ pc = "step" /\ k > NumSteps
  /\ nodeOutputs' \in Sources
  /\ pc' = "ok"
  /\ UNCHANGED <<steps, jobTry, cancelled, k, attempt, delay, state, lastRef, outcome,
                 solves, events>>

BuildFails ==
  /\ pc = "step" /\ k > NumSteps
  /\ pc' = "error"
  /\ UNCHANGED <<steps, jobTry, cancelled, k, attempt, delay, state, lastRef, outcome,
                 solves, events, nodeOutputs>>

(* Mutant: the job's attempts are not counted. *)
JobRetryUncounted ==
  /\ pc = "error"
  /\ jobTry < JobRetries /\ ~cancelled
  /\ pc' = "step"
  /\ k' = 1 /\ attempt' = 0 /\ delay' = 0
  /\ state' = << >> /\ lastRef' = 0 /\ outcome' = NoOutcome
  /\ solves' = << >> /\ events' = << >>
  /\ UNCHANGED <<steps, jobTry, cancelled, nodeOutputs>>

(* retryJob calls solveJobSteps again: everything but the node starts afresh. *)
JobRetry ==
  /\ pc = "error"
  /\ jobTry < JobRetries /\ ~cancelled
  /\ jobTry' = jobTry + 1
  /\ pc' = "step"
  /\ k' = 1 /\ attempt' = 0 /\ delay' = 0
  /\ state' = << >> /\ lastRef' = 0 /\ outcome' = NoOutcome
  /\ solves' = << >> /\ events' = << >>
  /\ UNCHANGED <<steps, cancelled, nodeOutputs>>

Cancel ==
  /\ pc \in {"step", "delay", "failed", "error"}
  /\ ~cancelled
  /\ cancelled' = TRUE
  /\ UNCHANGED <<steps, jobTry, pc, k, attempt, delay, state, lastRef, outcome, solves,
                 events, nodeOutputs>>

JobOver == pc = "ok" \/ (pc = "error" /\ (jobTry = JobRetries \/ cancelled))

Over == JobOver /\ UNCHANGED vars

Work ==
  \/ StepSucceeds \/ StepFails \/ StepUnusable \/ StepFailsRetry
  \/ DelayElapses \/ DelayCancelled
  \/ AllowFailure \/ StepError
  \/ BuildSucceeds \/ BuildFails
  \/ JobRetry

Next == Work \/ Cancel \/ Over

Spec == Init /\ [][Next]_vars /\ WF_vars(Work)
-----------------------------------------------------------------------------
(* Properties.                                                               *)

(* Every variable stays in its domain; no step is attempted more often than   *)
(* its configuration allows.                                                  *)
TypeOK ==
  /\ NumSteps \in 1..MaxSteps
  /\ \A i \in 1..NumSteps : steps[i] \in StepConfigs
  /\ jobTry \in 0..JobRetries
  /\ cancelled \in BOOLEAN
  /\ pc \in {"step", "delay", "failed", "error", "ok"}
  /\ k \in 1..(NumSteps + 1)
  /\ attempt \in Nat /\ (k <= NumSteps => attempt < Maximum)
  /\ delay \in 0..MaxDelay
  /\ state \in Seq(1..NumSteps) /\ lastRef \in 0..NumSteps
  /\ outcome \in [1..MaxSteps -> {"unrun", "ok", "allowed", "failed"}]
  /\ nodeOutputs \in -1..NumSteps

(* b lists the steps below n that succeeded, in order. *)
ListsGood(b, n) ==
  /\ {b[i] : i \in DOMAIN b} = {i \in 1..(n - 1) : outcome[i] = "ok"}
  /\ \A i, j \in DOMAIN b : i < j => b[i] < b[j]

(* "Subsequent steps must build from the last known-good state": whatever     *)
(* was solved, first attempt or retry, was based on exactly the earlier steps *)
(* that succeeded, in order, never on a step that was allowed to fail.        *)
BuiltOnGoodState ==
  \A i \in DOMAIN solves : ListsGood(solves[i].base, solves[i].step)

(* r is the last of the first n steps that succeeded. *)
LastGood(r, n) ==
  r \in 1..n /\ outcome[r] = "ok" /\ \A i \in (r + 1)..n : outcome[i] # "ok"

EventsOf(kind, n) == {i \in DOMAIN events : events[i].kind = kind /\ events[i].step = n}

(* "The overall job passes as long as no non-allow-failure step fails"        *)
(* (docs/usage.md): a job that passes ran every step, each ended well or was  *)
(* allowed to fail and reported so exactly once; and after a step that failed *)
(* the job, no later step was solved.  Outputs belong to the build that       *)
(* succeeded: a failed build leaves none behind for a deferred condition to   *)
(* read, and a successful one publishes those of its last good step (or       *)
(* none).                                                                     *)
JobVerdict ==
  /\ pc = "ok" =>
       \A n \in 1..NumSteps :
         \/ outcome[n] = "ok" /\ EventsOf("allowed", n) = {}
         \/ outcome[n] = "allowed" /\ steps[n].allow /\ \E i \in DOMAIN events : EventsOf("allowed", n) = {i}
  /\ \A n \in 1..NumSteps : outcome[n] = "failed" =>
       pc = "error" /\ \A i \in DOMAIN solves : solves[i].step <= n
  /\ pc # "ok" => nodeOutputs = -1
  /\ pc = "ok" => nodeOutputs = 0 \/ LastGood(nodeOutputs, NumSteps)

Announced(n) == {events[i].attempt : i \in EventsOf("retry", n)}
Solved(n) == {solves[i].attempt : i \in {x \in DOMAIN solves : solves[x].step = n}}

(* Every retry is announced, before it starts, under its own number: attempt  *)
(* a + 1 of a step (the displays show "attempt/max") precedes its solve, and  *)
(* at most the next one is announced without having been solved.              *)
RetriesAnnounced ==
  \A n \in 1..NumSteps :
    /\ \A a \in Solved(n) : a = 0 \/ a + 1 \in Announced(n)
    /\ \A a \in Announced(n) : a - 2 \in Solved(n) /\ a <= 1 + steps[n].retries

(* docs/schema.md, "Retry", of retryDelay: "delay * 2^n" and so on, as far as *)
(* a Duration can hold it.  A job that asks for no delay never waits.         *)
DelayAsDocumented ==
  pc = "delay" => delay = ScheduledDelay(steps[k].delay, steps[k].backoff, attempt)

(* Where retryDelay gives up the product before it looks at the delay. *)
ZeroShifted ==
  steps[k].delay = 0 /\ steps[k].backoff = "exponential" /\ attempt >= WordBits - 1

(* Attempts stay within their maximum (TypeOK) and are announced; the wait    *)
(* before a retry is the documented one for the strategy, saturated at the    *)
(* largest duration.  Nothing is claimed of a delay of 0 whose shift          *)
(* overflows: there DelayAsDocumented fails.                                  *)
RetriesAsScheduled ==
  /\ TypeOK
  /\ RetriesAnnounced
  /\ pc = "delay" => ZeroShifted \/ DelayAsDocumented

(* The job ends, cancelled or not. *)
JobEnds == <>JobOver
=============================================================================
