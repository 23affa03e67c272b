------------------------------- MODULE Daemon -------------------------------
(***************************************************************************)
(* The engine container (internal/daemon, driven through                   *)
(* internal/runtime) and the cicada processes that share it.  Each process *)
(* executes one command: run (also pull), nodaemon (run with --no-daemon), *)
(* start, stop or status of the engine.  Whatever a process learns from an *)
(* inspection or a probe may be out of date when it acts on it, because    *)
(* the container belongs to the container runtime and every process, the   *)
(* user and the container itself may change it.                            *)
(*                                                                         *)
(* The runtime is external: ctr is the container by the name               *)
(* "cicada-buildkitd".  "docker run" first creates and then starts it; a   *)
(* call may be cut off by the exec timeout, before or after its effect.    *)
(* Time is counted in ticks, per process, from the start of its health     *)
(* check.                                                                  *)
(***************************************************************************)
EXTENDS Integers, FiniteSets

CONSTANTS Procs,         \* cicada processes
          Timeout,       \* healthConfig of the health check
          Interval,
          Growth,
          MaxInterval,
          ProbeTime,     \* the longest a probe takes (its own timeout)
          Mixes,         \* which commands the processes execute together
          MaxFaults      \* bound: disturbances from outside

Commands == {"run", "nodaemon", "start", "stop", "status"}
DockerStates == {"none", "created", "running", "exited", "paused", "dead"}

ASSUME ProcsAssumption == IsFiniteSet(Procs) /\ Mixes \subseteq [Procs -> Commands]
ASSUME HealthAssumption ==
    /\ Timeout \in Nat \ {0} /\ Interval \in Nat \ {0} /\ Growth \in Nat \ {0}
    /\ MaxInterval \in Nat /\ Interval <= MaxInterval
    /\ ProbeTime \in Nat /\ MaxFaults \in Nat

VARIABLES cmd,       \* the command of each process
          pc,        \* where each process is
          seen,      \* the state its last inspection returned
          ctr,       \* the container: its state and which container it is
          ready,     \* buildkitd in the container answers
          elapsed,   \* ticks since waitHealthy began
          interval,  \* the next pause of waitHealthy
          result,    \* how each command ended
          stopErr,   \* Stop failed, Remove is still to come
          faults,    \* disturbances so far
          moved,     \* history: disturbed since the process last looked
          target     \* history: the container a process found or created

vars == <<cmd, pc, seen, ctr, ready, elapsed, interval, result, stopErr,
          faults, moved, target>>

\* A state of the container as Inspect returns it; a container that does not
\* exist has the zero state, and so has every state without a constant.
ParseState(st) ==
    IF st \in {"running", "exited", "created", "paused"} THEN st ELSE "unknown"

\* The first step of each command.
Entry(c) == CASE c = "run" -> "probe" [] c = "nodaemon" -> "connect"
              [] c = "start" -> "inspect" [] c = "stop" -> "stopInspect"
              [] c = "status" -> "statusInspect"

Init ==
    /\ cmd \in Mixes
    /\ pc = [p \in Procs |-> Entry(cmd[p])]
    /\ seen = [p \in Procs |-> "unknown"]
    /\ ctr \in [st : DockerStates, id : {1}]
    /\ ready \in {FALSE, ctr.st = "running"}
    /\ elapsed = [p \in Procs |-> 0]
    /\ interval = [p \in Procs |-> Interval]
    /\ result = [p \in Procs |-> ""]
    /\ stopErr = [p \in Procs |-> FALSE]
    /\ faults = 0
    /\ moved = [p \in Procs |-> FALSE]
    /\ target = [p \in Procs |-> 0]

-----------------------------------------------------------------------------
(* Pieces of the actions.                                                  *)

Goto(p, l) == pc' = [pc EXCEPT ![p] = l]

\* The command of p returns to the CLI.
Finish(p, r) ==
    /\ pc' = [pc EXCEPT ![p] = "done"]
    /\ result' = [result EXCEPT ![p] = r]

\* waitHealthy returns, and its locals are gone.
WaitOver(p) ==
    /\ elapsed' = [elapsed EXCEPT ![p] = 0]
    /\ interval' = [interval EXCEPT ![p] = Interval]

\* The container changes; whoever did not do it is disturbed.
Becomes(p, c) ==
    /\ ctr' = c
    /\ ready' = (ready /\ c = ctr)
    /\ moved' = [q \in Procs |-> moved[q] \/ (q # p /\ c # ctr)]

\* A call of the container runtime answers (lost = FALSE), or is cut off by
\* the exec timeout after it took effect.
Answer(p, lost) ==
    /\ lost => faults < MaxFaults
    /\ faults' = IF lost THEN faults + 1 ELSE faults

\* p looks at the container: what it decides next rests on this state.
Look(p) ==
    /\ seen' = [seen EXCEPT ![p] = ParseState(ctr.st)]
    /\ moved' = [moved EXCEPT ![p] = FALSE]

-----------------------------------------------------------------------------
(* run and pull: resolveAddr, EnsureRunning, connect.                      *)

\* Mutant of ProbeResults: without a timeout of its own a probe of a paused
\* engine does not return.
ProbeResultsNoTimeout == IF ctr.st = "paused" THEN {} ELSE {FALSE, ready}

\* A probe fails within its own timeout, also against a slow engine.
ProbeResults == {FALSE, ready}

\* EnsureRunning: an engine that answers is used as it is.
EnsureRunning(p) ==
    /\ pc[p] = "probe"
    /\ \E ok \in ProbeResults :
          /\ Goto(p, IF ok THEN "connect" ELSE "inspect")
          /\ moved' = [moved EXCEPT ![p] = moved[p] /\ ~ok]
    /\ UNCHANGED <<cmd, seen, ctr, ready, elapsed, interval, result, stopErr,
                   faults, target>>

\* Mutant of AfterInspect: a created container counts as missing.
AfterInspectOnlyExited(st) ==
    CASE st = "running" -> "wait" [] st = "exited" -> "rtStart" [] OTHER -> "rtRun"

\* What Start does about a container in the state it found.
AfterInspect(st) ==
    CASE st = "running" -> "wait" [] st \in {"exited", "created"} -> "rtStart"
      [] OTHER -> "rtRun"

\* Start: the state of the container decides what to do.
StartInspects(p) ==
    /\ pc[p] = "inspect"
    /\ Look(p)
    /\ Goto(p, AfterInspect(seen'[p]))
    /\ UNCHANGED <<cmd, ctr, ready, elapsed, interval, result, stopErr, faults, target>>

\* "docker start": a running container is left alone, a paused or a missing
\* one is an error.
RtStart(p) ==
    /\ pc[p] = "rtStart"
    /\ \E lost \in BOOLEAN :
          /\ Answer(p, lost)
          /\ IF ctr.st \in {"created", "exited", "running"}
                THEN /\ Becomes(p, [ctr EXCEPT !.st = "running"])
                     /\ IF lost THEN Finish(p, "interrupted")
                                ELSE Goto(p, "wait") /\ UNCHANGED result
                ELSE /\ Finish(p, IF lost THEN "interrupted" ELSE "startfailed")
                     /\ UNCHANGED <<ctr, ready, moved>>
    /\ UNCHANGED <<cmd, seen, elapsed, interval, stopErr, target>>

\* "docker run", first half: the name must be free.
RtRun(p) ==
    /\ pc[p] = "rtRun"
    /\ IF ctr.st = "none"
          THEN /\ Becomes(p, [st |-> "created", id |-> ctr.id + 1])
               /\ target' = [target EXCEPT ![p] = ctr.id + 1]
               /\ Goto(p, "rtRunStart") /\ UNCHANGED result
          ELSE /\ Finish(p, "startfailed")
               /\ UNCHANGED <<ctr, ready, moved, target>>
    /\ UNCHANGED <<cmd, seen, elapsed, interval, stopErr, faults>>

\* "docker run", second half: the container it created, by its id, is started.
RtRunStart(p) ==
    /\ pc[p] = "rtRunStart"
    /\ \E lost \in BOOLEAN :
          /\ Answer(p, lost)
          /\ IF ctr.st \in {"created", "exited", "running"} /\ ctr.id = target[p]
                THEN /\ Becomes(p, [ctr EXCEPT !.st = "running"])
                     /\ IF lost THEN Finish(p, "interrupted")
                                ELSE Goto(p, "wait") /\ UNCHANGED result
                ELSE /\ Finish(p, IF lost THEN "interrupted" ELSE "startfailed")
                     /\ UNCHANGED <<ctr, ready, moved>>
    /\ UNCHANGED <<cmd, seen, elapsed, interval, stopErr, target>>

\* waitHealthy: the deadline is looked at before each probe.
WaitExpired(p) ==
    /\ pc[p] = "wait" /\ elapsed[p] >= Timeout
    /\ Finish(p, "unhealthy") /\ WaitOver(p)
    /\ UNCHANGED <<cmd, seen, ctr, ready, stopErr, faults, moved, target>>

\* Start returns the address; run goes on to connect.  A probe that fails is
\* refused at once or takes its whole timeout.
WaitProbes(p) ==
    /\ pc[p] = "wait" /\ elapsed[p] < Timeout
    /\ \E ok \in ProbeResults :
          /\ moved' = [moved EXCEPT ![p] = moved[p] /\ ~ok]
          /\ \/ /\ ~ok
                /\ \E t \in {0, ProbeTime} : elapsed' = [elapsed EXCEPT ![p] = @ + t]
                /\ Goto(p, "pause")
                /\ UNCHANGED <<interval, result>>
             \/ /\ ok /\ WaitOver(p)
                /\ IF cmd[p] = "start" THEN Finish(p, "ok")
                                       ELSE Goto(p, "connect") /\ UNCHANGED result
    /\ UNCHANGED <<cmd, seen, ctr, ready, stopErr, faults, target>>

\* Mutant of Pauses: the interval is not limited.
PausesUnlimited(p) ==
    /\ pc[p] = "pause"
    /\ elapsed' = [elapsed EXCEPT ![p] = @ + interval[p]]
    /\ interval' = [interval EXCEPT ![p] = @ * Growth]
    /\ Goto(p, "wait")
    /\ UNCHANGED <<cmd, seen, ctr, ready, result, stopErr, faults, moved, target>>

\* The pause between two probes grows up to MaxInterval.
Pauses(p) ==
    /\ pc[p] = "pause"
    /\ elapsed' = [elapsed EXCEPT ![p] = @ + interval[p]]
    /\ interval' = [interval EXCEPT ![p] =
                       IF @ * Growth > MaxInterval THEN MaxInterval ELSE @ * Growth]
    /\ Goto(p, "wait")
    /\ UNCHANGED <<cmd, seen, ctr, ready, result, stopErr, faults, moved, target>>

\* The caller's context ends during a pause.
PauseCancelled(p) ==
    /\ pc[p] = "pause" /\ faults < MaxFaults
    /\ faults' = faults + 1
    /\ Finish(p, "cancelled") /\ WaitOver(p)
    /\ UNCHANGED <<cmd, seen, ctr, ready, stopErr, moved, target>>

\* connect lists the workers once, without a timeout: on a paused engine the
\* call does not return.
Connect(p) ==
    /\ pc[p] = "connect" /\ ctr.st # "paused"
    /\ Finish(p, IF ready THEN "ok" ELSE "unreachable")
    /\ UNCHANGED <<cmd, seen, ctr, ready, elapsed, interval, stopErr, faults,
                   moved, target>>

-----------------------------------------------------------------------------
(* engine stop (Stop, then Remove, whatever Stop returned) and status.     *)

StopInspects(p) ==
    /\ pc[p] = "stopInspect"
    /\ Look(p)
    /\ target' = [target EXCEPT ![p] = IF ctr.st = "none" THEN 0 ELSE ctr.id]
    /\ Goto(p, IF seen'[p] = "running" THEN "rtStop" ELSE "removeInspect")
    /\ UNCHANGED <<cmd, ctr, ready, elapsed, interval, result, stopErr, faults>>

\* "docker stop" of a container that does not run succeeds.
RtStop(p) ==
    /\ pc[p] = "rtStop"
    /\ \E lost \in BOOLEAN :
          /\ Answer(p, lost)
          /\ stopErr' = [stopErr EXCEPT ![p] = lost \/ ctr.st = "none"]
          /\ Becomes(p, IF ctr.st \in {"running", "paused"}
                           THEN [ctr EXCEPT !.st = "exited"] ELSE ctr)
    /\ Goto(p, "removeInspect")
    /\ UNCHANGED <<cmd, seen, elapsed, interval, result, target>>

StopResult(p) == IF stopErr[p] THEN "stopfailed" ELSE "ok"

\* Mutant of RemoveInspects: a container without a known state counts as
\* missing.
RemoveInspectsByState(p) ==
    /\ pc[p] = "removeInspect"
    /\ Look(p)
    /\ IF seen'[p] = "unknown" THEN Finish(p, StopResult(p))
                               ELSE Goto(p, "rtRemove") /\ UNCHANGED result
    /\ UNCHANGED <<cmd, ctr, ready, elapsed, interval, stopErr, faults, target>>

RemoveInspects(p) ==
    /\ pc[p] = "removeInspect"
    /\ Look(p)
    /\ IF ctr.st = "none" THEN Finish(p, StopResult(p))
                          ELSE Goto(p, "rtRemove") /\ UNCHANGED result
    /\ UNCHANGED <<cmd, ctr, ready, elapsed, interval, stopErr, faults, target>>

\* "docker rm -f"; whether a container that is gone is an error depends on
\* the runtime.
RtRemove(p) ==
    /\ pc[p] = "rtRemove"
    /\ \E lost, complain \in BOOLEAN :
          /\ Answer(p, lost)
          /\ complain => ctr.st = "none"
          /\ Becomes(p, [ctr EXCEPT !.st = "none"])
          /\ Finish(p, IF lost \/ complain THEN "stopfailed" ELSE StopResult(p))
    /\ UNCHANGED <<cmd, seen, elapsed, interval, stopErr, target>>

StatusInspects(p) ==
    /\ pc[p] = "statusInspect"
    /\ Look(p)
    /\ Finish(p, "ok")
    /\ UNCHANGED <<cmd, ctr, ready, elapsed, interval, stopErr, faults, target>>

\* A call is cut off by the exec timeout, or refused, before it has an effect.
CallFails(p) ==
    /\ pc[p] \in {"inspect", "rtStart", "rtRun", "rtRunStart", "stopInspect",
                  "rtStop", "removeInspect", "rtRemove", "statusInspect"}
    /\ faults < MaxFaults
    /\ faults' = faults + 1
    /\ IF pc[p] \in {"stopInspect", "rtStop"}
          THEN /\ Goto(p, "removeInspect")
               /\ stopErr' = [stopErr EXCEPT ![p] = TRUE]
               /\ UNCHANGED result
          ELSE /\ Finish(p, IF cmd[p] = "stop" THEN "stopfailed" ELSE "interrupted")
               /\ UNCHANGED stopErr
    /\ UNCHANGED <<cmd, seen, ctr, ready, elapsed, interval, moved, target>>

-----------------------------------------------------------------------------
(* The environment.                                                        *)

\* buildkitd comes up in a running container.
EngineUp ==
    /\ ctr.st = "running" /\ ~ready
    /\ ready' = TRUE
    /\ UNCHANGED <<cmd, pc, seen, ctr, elapsed, interval, result, stopErr,
                   faults, moved, target>>

\* The container dies, or the user stops or pauses it.
Disturb ==
    /\ ctr.st = "running" /\ faults < MaxFaults
    /\ faults' = faults + 1
    /\ \E st \in {"exited", "paused"} : ctr' = [ctr EXCEPT !.st = st]
    /\ ready' = FALSE
    /\ moved' = [p \in Procs |-> TRUE]
    /\ UNCHANGED <<cmd, pc, seen, elapsed, interval, result, stopErr, target>>

-----------------------------------------------------------------------------
Start(p) == \/ StartInspects(p) \/ RtStart(p) \/ RtRun(p) \/ RtRunStart(p)
            \/ WaitExpired(p) \/ WaitProbes(p) \/ Pauses(p) \/ PauseCancelled(p)
Stop(p) == StopInspects(p) \/ RtStop(p)
Remove(p) == RemoveInspects(p) \/ RtRemove(p)

Step(p) == \/ EnsureRunning(p) \/ Start(p) \/ Connect(p)
           \/ Stop(p) \/ Remove(p) \/ StatusInspects(p) \/ CallFails(p)

\* Every process has ended, or hangs in connect.
Ended(p) == pc[p] = "done" \/ (pc[p] = "connect" /\ ctr.st = "paused")
Finished == (\A p \in Procs : Ended(p)) /\ UNCHANGED vars

Next == (\E p \in Procs : Step(p)) \/ EngineUp \/ Disturb \/ Finished

Spec == Init /\ [][Next]_vars /\ \A p \in Procs : WF_vars(Step(p))

-----------------------------------------------------------------------------
(* Properties.                                                             *)

\* Starting is idempotent as far as one process can make it: a start fails
\* for the container's sake only if the container changed after the process
\* looked at it (a check-then-act race), or was found in a state from which
\* the code knows no way (paused, dead); and connecting to an engine that was
\* found healthy fails only if it was disturbed since.
FailuresAreRaces ==
    \A p \in Procs :
        /\ result[p] = "startfailed" =>
              moved[p] \/ (seen[p] \in {"paused", "unknown"} /\ ctr.st \in {"paused", "dead"})
        /\ result[p] = "unreachable" /\ cmd[p] = "run" => moved[p]

\* engine stop succeeds only when the container it found at its start is gone,
\* whoever removed it and whatever was created under the name since.
StopRemoves ==
    \A p \in Procs :
        cmd[p] = "stop" /\ result[p] = "ok" => ctr.st = "none" \/ ctr.id # target[p]

\* waitHealthy gives up not before its timeout, and overruns it by less than
\* one probe and one pause of the longest kind.
WaitIsBounded ==
    [][\A p \in Procs :
          /\ elapsed[p] < Timeout + ProbeTime + MaxInterval
          /\ result'[p] = "unhealthy" /\ result[p] = "" => elapsed[p] >= Timeout]_vars

\* Every command comes to an end, whatever the others do and even if the
\* engine never comes up; only connect, which has no timeout, may wait for a
\* paused engine.
CommandsEnd == \A p \in Procs : <>[]Ended(p)
=============================================================================
