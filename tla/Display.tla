------------------------------ MODULE Display -------------------------------
(***************************************************************************)
(* What the two visible displays make of the messages about one solve:     *)
(* the TUI's model (internal/progress/tui/model.go) and the plain          *)
(* display's trackers and log (internal/progress/plain/plain.go).  The     *)
(* quiet display only drains its channel.                                  *)
(*                                                                         *)
(* A message is [kind, job, n]; what else it carries is a constant.  A     *)
(* vertex report is [digest, step, started, completed, cached, error]:     *)
(* step is the step whose "job/step/" prefix the vertex's name has, error  *)
(* is "none", "exit" or "exit124" (an exit code of `timeout`: 124, 137).   *)
(* Times, retained log lines and spinner frames are layout and left out,   *)
(* and so are the messages about skips and retries.                        *)
(***************************************************************************)
EXTENDS Naturals, Sequences

CONSTANTS
  Statuses,      \* Statuses[j][n]: the vertex reports in the nth status of job j
  StepTimeouts,  \* StepTimeouts[j]: digests of vertices with a configured timeout
  Lenient        \* Lenient[j]: j's allow-failure step, if j has one that fails

Reports ==
  [digest : STRING, step : STRING, started : BOOLEAN, completed : BOOLEAN,
   cached : BOOLEAN, error : {"none", "exit", "exit124"}]

Put(f, k, v) == [x \in DOMAIN f \cup {k} |-> IF x = k THEN v ELSE f[x]]

IsTimeoutExitCode(error, limited) == limited /\ error = "exit124"

-----------------------------------------------------------------------------
(* The TUI: one jobState per job, one stepState per vertex.                  *)

newJobState ==
  [vertices |-> << >>, done |-> FALSE, timedOut |-> FALSE, stepTimeouts |-> {},
   allowedFailureSet |-> {}]

Terminal == {"done", "cached", "error", "timeout", "allowedFailure"}

isAllowedFailure(js, step) == step \in js.allowedFailureSet

newStepState(js, v) ==
  [step |-> v.step, status |-> "pending", limited |-> v.digest \in js.stepTimeouts]

(* The switch of applyVertex: the first case that applies. *)
NextStatus(js, st, v) ==
  IF v.error # "none" THEN
    IF isAllowedFailure(js, st.step) THEN "allowedFailure"
    ELSE IF IsTimeoutExitCode(v.error, st.limited) THEN "timeout" ELSE "error"
  ELSE IF v.cached THEN "cached"
  ELSE IF v.completed THEN "done"
  ELSE IF v.started THEN "running"
  ELSE st.status

applyVertex(js, v) ==
  LET st == IF v.digest \in DOMAIN js.vertices THEN js.vertices[v.digest]
            ELSE newStepState(js, v)
  IN  [js EXCEPT !.vertices = Put(@, v.digest,
         IF st.status \in Terminal THEN st
         ELSE [st EXCEPT !.status = NextStatus(js, st, v)])]

(* One vertex after the other. *)
applyStatus(js, vertexes) ==
  LET upto[i \in 0..Len(vertexes)] ==
        IF i = 0 THEN js ELSE applyVertex(upto[i - 1], vertexes[i])
  IN  upto[Len(vertexes)]

(* Give the vertices of js for which Test holds a new status. *)
Recolour(js, Test(_), status) ==
  [js EXCEPT !.vertices = [d \in DOMAIN @ |->
     IF Test(@[d]) THEN [@[d] EXCEPT !.status = status] ELSE @[d]]]

(* Mutant: only failures that are reported later are promoted. *)
allowFailureForwardOnly(js, step) ==
  [js EXCEPT !.allowedFailureSet = @ \cup {step}]

(* JobAddedMsg. *)
addJob(js, timeouts) == [js EXCEPT !.stepTimeouts = timeouts]

(* StepAllowedFailureMsg: for failures still to come, and for those reported *)
(* already.                                                                  *)
allowFailure(js, step) ==
  Recolour([js EXCEPT !.allowedFailureSet = @ \cup {step}],
           LAMBDA st : st.status \in {"error", "timeout"} /\ st.step = step,
           "allowedFailure")

(* JobTimeoutMsg: what was running timed out. *)
timeOut(js) ==
  Recolour([js EXCEPT !.timedOut = TRUE], LAMBDA st : st.status = "running", "timeout")

newMultiModel == << >>  \* no job yet

getOrCreateJob(jobs, job) == IF job \in DOMAIN jobs THEN jobs[job] ELSE newJobState

(* multiModel.Update: JobAdded and JobTimeout create the job they name, the   *)
(* others are dropped if it is not there.                                     *)
Update(jobs, msg) ==
  LET js == getOrCreateJob(jobs, msg.job) IN
  CASE msg.kind = "added"   -> Put(jobs, msg.job, addJob(js, StepTimeouts[msg.job]))
    [] msg.kind = "timeout" -> Put(jobs, msg.job, timeOut(js))
    [] msg.kind \notin {"added", "timeout"} /\ msg.job \notin DOMAIN jobs -> jobs
    [] msg.kind \notin {"added", "timeout"} /\ msg.job \in DOMAIN jobs ->
         [jobs EXCEPT ![msg.job] =
            CASE msg.kind = "status"  -> applyStatus(js, Statuses[msg.job][msg.n])
              [] msg.kind = "allowed" -> allowFailure(js, Lenient[msg.job])
              [] msg.kind = "done"    -> [js EXCEPT !.done = TRUE]]

-----------------------------------------------------------------------------
(* The plain display: a tracker per job, and how often each vertex line was  *)
(* logged.                                                                   *)

newTracker == [seen |-> << >>, pending |-> {}, stepTimeouts |-> {}]

getJob(trackers, job) == IF job \in DOMAIN trackers THEN trackers[job] ELSE newTracker

(* The event logVertex logs, or "none", and what it records as seen.  An     *)
(* error is logged however often it is reported.                             *)
logVertex(jt, v) ==
  LET prev == IF v.digest \in DOMAIN jt.seen THEN jt.seen[v.digest] ELSE "unseen" IN
  IF v.error # "none" THEN
    [event |-> IF IsTimeoutExitCode(v.error, v.digest \in jt.stepTimeouts)
               THEN "timeout" ELSE "error",
     seen |-> "done"]
  ELSE IF v.cached /\ prev # "done" THEN [event |-> "cached", seen |-> "done"]
  ELSE IF v.completed /\ prev # "done" THEN [event |-> "done", seen |-> "done"]
  ELSE IF v.started /\ prev = "unseen" THEN [event |-> "started", seen |-> "started"]
  ELSE [event |-> "none", seen |-> prev]

trackTimeout(jt, v) ==
  IF v.digest \notin jt.stepTimeouts THEN jt
  ELSE CASE jt.seen[v.digest] = "started" -> [jt EXCEPT !.pending = @ \cup {v.digest}]
         [] jt.seen[v.digest] = "done"    -> [jt EXCEPT !.pending = @ \ {v.digest}]
         [] OTHER -> jt

Line(job, digest, event) == [job |-> job, digest |-> digest, event |-> event]

Times(log, line) == IF line \in DOMAIN log THEN log[line] ELSE 0

logLines(log, lines) ==
  [l \in DOMAIN log \cup lines |-> Times(log, l) + (IF l \in lines THEN 1 ELSE 0)]

(* One vertex of a JobStatusMsg. *)
consumeVertex(p, job, v) ==
  LET jt  == getJob(p.jobs, job)
      out == logVertex(jt, v)
  IN  [jobs |-> Put(p.jobs, job, trackTimeout([jt EXCEPT !.seen = Put(@, v.digest, out.seen)], v)),
       log  |-> IF out.event = "none" THEN p.log
                ELSE logLines(p.log, {Line(job, v.digest, out.event)})]

consumeStatus(p, job, vertexes) ==
  LET upto[i \in 0..Len(vertexes)] ==
        IF i = 0 THEN p ELSE consumeVertex(upto[i - 1], job, vertexes[i])
  IN  upto[Len(vertexes)]

logPendingTimeouts(p, job) ==
  [p EXCEPT !.log = logLines(@, {Line(job, d, "timeout") : d \in p.jobs[job].pending})]

newConsumer == [jobs |-> << >>, log |-> << >>]

(* Display.consume, one message. *)
consume(p, msg) ==
  CASE msg.kind = "added" ->
         [p EXCEPT !.jobs = Put(@, msg.job,
            [getJob(@, msg.job) EXCEPT !.stepTimeouts = StepTimeouts[msg.job]])]
    [] msg.kind = "status" ->
         consumeStatus(p, msg.job, Statuses[msg.job][msg.n])
    [] msg.kind = "done" /\ msg.job \in DOMAIN p.jobs -> logPendingTimeouts(p, msg.job)
    [] OTHER -> p
=============================================================================
