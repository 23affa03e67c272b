------------------------------- MODULE DagRun -------------------------------
(***************************************************************************)
(* What internal/runner promises its caller: the jobs of a dependency      *)
(* graph are run, at most Limit at a time, each only after all of its      *)
(* dependencies succeeded; failures and runtime skips reach the dependents *)
(* without running them; after a stop no further job starts; and only the  *)
(* artifacts of successful jobs are delivered, when every job has ended.   *)
(***************************************************************************)
EXTENDS Naturals, FiniteSets

CONSTANTS
  Jobs,       \* the jobs
  DepsOf,     \* the set of jobs a job depends on
  Limit,      \* how many may run at once
  Items,      \* the artifacts (exports and image publishes)
  Owner       \* the job an artifact comes from; outside Jobs: none

VARIABLES
  status,     \* how far each job is
  stop,       \* the run was cancelled
  delivered   \* artifacts whose delivery was started

vars == <<status, stop, delivered>>

Terminal == {"ok", "failed", "skipped"}
Running  == {j \in Jobs : status[j] = "running"}

AllDeps(j, s)  == \A d \in DepsOf[j] : status[d] = s
SomeDep(j, s)  == \E d \in DepsOf[j] : status[d] = s
Become(j, s)   == status' = [status EXCEPT ![j] = s] /\ UNCHANGED <<stop, delivered>>

Init ==
  /\ status = [j \in Jobs |-> "pending"]
  /\ stop = FALSE
  /\ delivered = {}

Start(j) ==
  /\ status[j] = "pending"
  /\ AllDeps(j, "ok")
  /\ ~stop
  /\ Cardinality(Running) < Limit
  /\ Become(j, "running")

Finish(j) ==
  /\ status[j] = "running"
  /\ \E s \in {"ok", "failed"} : Become(j, s)

(* A dependency was skipped, or the job's own condition is false. *)
Skip(j) ==
  /\ status[j] = "pending"
  /\ SomeDep(j, "skipped") \/ AllDeps(j, "ok")
  /\ Become(j, "skipped")

(* A dependency failed, the condition cannot be evaluated, or a stop. *)
FailUnrun(j) ==
  /\ status[j] = "pending"
  /\ SomeDep(j, "failed") \/ AllDeps(j, "ok") \/ stop
  /\ Become(j, "failed")

Stop ==
  /\ stop' = TRUE
  /\ UNCHANGED <<status, delivered>>

Deliver ==
  /\ \A j \in Jobs : status[j] \in Terminal
  /\ \E S \in SUBSET Items :
       /\ \A i \in S : Owner[i] \in Jobs => status[Owner[i]] = "ok"
       /\ delivered' = delivered \cup S
  /\ UNCHANGED <<status, stop>>

Next ==
  \/ \E j \in Jobs : Start(j) \/ Finish(j) \/ Skip(j) \/ FailUnrun(j)
  \/ Stop
  \/ Deliver

Spec == Init /\ [][Next]_vars
=============================================================================
