---------------------------- MODULE DaemonProofs -----------------------------
(***************************************************************************)
(* Theorems about the engine container, for any number of cicada processes *)
(* with any commands, any health configuration and any number of           *)
(* disturbances: why a start or a connect fails, what a successful stop    *)
(* has removed, and how long waitHealthy waits.                            *)
(***************************************************************************)
EXTENDS Daemon, TLAPS

States == {"running", "exited", "created", "paused", "unknown"}
Labels == {"probe", "inspect", "rtStart", "rtRun", "rtRunStart", "wait", "pause", "connect",
           "stopInspect", "rtStop", "removeInspect", "rtRemove", "statusInspect", "done"}
Results == {"", "ok", "interrupted", "startfailed", "unhealthy", "cancelled", "unreachable",
            "stopfailed"}

Domains ==
    /\ cmd \in [Procs -> Commands] /\ pc \in [Procs -> Labels] /\ seen \in [Procs -> States]
    /\ ctr \in [st : DockerStates, id : Nat] /\ ready \in BOOLEAN
    /\ elapsed \in [Procs -> Nat] /\ interval \in [Procs -> Nat]
    /\ result \in [Procs -> Results] /\ stopErr \in [Procs -> BOOLEAN]
    /\ moved \in [Procs -> BOOLEAN] /\ target \in [Procs -> Nat]

(* A process ends once, and engine stop goes its own way. *)
Flow(p) ==
    /\ result[p] # "" => pc[p] = "done"
    /\ cmd[p] = "stop" => pc[p] \in {"stopInspect", "rtStop", "removeInspect", "rtRemove", "done"}

(* While nobody disturbs a process, the container is as the process believes. *)
Belief(p) ==
    moved[p] = FALSE =>
       /\ pc[p] = "rtStart" => ctr.st \in {"exited", "created"}
       /\ pc[p] = "rtRun" => /\ seen[p] \in {"paused", "unknown"}
                             /\ ctr.st \in {"none", "paused", "dead"}
       /\ pc[p] = "rtRunStart" => ctr.st = "created" /\ ctr.id = target[p]
       /\ pc[p] = "connect" /\ cmd[p] = "run" => ready = TRUE

Failures(p) ==
    /\ result[p] = "startfailed" /\ moved[p] = FALSE =>
          seen[p] \in {"paused", "unknown"} /\ ctr.st \in {"paused", "dead"}
    /\ result[p] = "unreachable" /\ cmd[p] = "run" => moved[p] = TRUE

(* The ids grow: a container created later is not the one engine stop found. *)
Removed(p) ==
    /\ target[p] <= ctr.id
    /\ cmd[p] = "stop" /\ result[p] = "ok" => ctr.st = "none" \/ ctr.id # target[p]

RaceInv ==
    Domains /\ \A p \in Procs : Flow(p) /\ Belief(p) /\ Failures(p) /\ Removed(p)

(* The clock of waitHealthy. *)
Clock(p) ==
    /\ interval[p] <= MaxInterval
    /\ pc[p] \notin {"wait", "pause"} => elapsed[p] = 0
    /\ pc[p] = "pause" => elapsed[p] < Timeout + ProbeTime
    /\ elapsed[p] < Timeout + ProbeTime + MaxInterval

ClockInv == Domains /\ \A p \in Procs : Clock(p)

-----------------------------------------------------------------------------
(* What a step leaves alone.                                                 *)

(* The locals of q are its own. *)
LocalsKept(q) ==
    /\ pc'[q] = pc[q] /\ seen'[q] = seen[q] /\ target'[q] = target[q]
    /\ result'[q] = result[q] /\ stopErr'[q] = stopErr[q]
    /\ elapsed'[q] = elapsed[q] /\ interval'[q] = interval[q]

(* A process that is not disturbed by a step finds the container unchanged. *)
Undisturbed(q) ==
    moved'[q] = FALSE =>
       moved[q] = FALSE /\ ctr' = ctr /\ (ready = TRUE => ready' = TRUE)

(* The runtime gives a new container a new id, and a removed one is gone. *)
CtrStep ==
    /\ ctr'.id = ctr.id \/ ctr'.id = ctr.id + 1
    /\ ctr.st = "none" => ctr'.st = "none" \/ ctr'.id = ctr.id + 1

LEMMA AfterInspectCases ==
  ASSUME NEW st
  PROVE  /\ AfterInspect(st) \in {"wait", "rtStart", "rtRun"}
         /\ AfterInspect(st) = "rtStart" => st \in {"exited", "created"}
         /\ AfterInspect(st) = "rtRun" => st # "running" /\ st \notin {"exited", "created"}
<1>1. CASE st = "running"
  BY <1>1, Zenon DEF AfterInspect
<1>2. CASE st # "running" /\ st \in {"exited", "created"}
  BY <1>2, Zenon DEF AfterInspect
<1>3. CASE st # "running" /\ st \notin {"exited", "created"}
  BY <1>3, Zenon DEF AfterInspect
<1> QED BY <1>1, <1>2, <1>3

LEMMA EntryCases ==
  ASSUME NEW c \in Commands
  PROVE  /\ Entry(c) \in {"probe", "connect", "inspect", "stopInspect", "statusInspect"}
         /\ c = "stop" => Entry(c) = "stopInspect"
         /\ c = "run" => Entry(c) = "probe"
<1>1. CASE c = "run" BY <1>1, Zenon DEF Entry
<1>2. CASE c = "nodaemon" BY <1>2, Zenon DEF Entry
<1>3. CASE c = "start" BY <1>3, Zenon DEF Entry
<1>4. CASE c = "stop" BY <1>4, Zenon DEF Entry
<1>5. CASE c = "status" BY <1>5, Zenon DEF Entry
<1> QED BY <1>1, <1>2, <1>3, <1>4, <1>5 DEF Commands

(* The container after a step of p that acts on it. *)
LEMMA BecomesFacts ==
  ASSUME Domains, NEW p \in Procs, NEW c \in [st : DockerStates, id : Nat], Becomes(p, c)
  PROVE  /\ ctr' = c /\ ctr' \in [st : DockerStates, id : Nat] /\ ready' \in BOOLEAN
         /\ moved' \in [Procs -> BOOLEAN] /\ moved'[p] = moved[p]
         /\ \A q \in Procs \ {p} : Undisturbed(q)
         /\ c = ctr => ready' = ready
<1>1. ctr' = c /\ ready' \in BOOLEAN /\ (c = ctr => ready' = ready)
  BY DEF Becomes, Domains
<1>2. moved' \in [Procs -> BOOLEAN]
  BY DEF Becomes, Domains
<1>3. moved'[p] = moved[p]
  BY Zenon DEF Becomes, Domains
<1>4. ASSUME NEW q \in Procs \ {p}
      PROVE  Undisturbed(q)
  <2>1. moved'[q] = (moved[q] \/ c # ctr)
    BY <1>4, Zenon DEF Becomes
  <2> QED BY <1>1, <2>1 DEF Undisturbed, Domains
<1> QED BY <1>1, <1>2, <1>3, <1>4

LEMMA StateFacts ==
  ASSUME Domains
  PROVE  /\ ctr.st \in DockerStates /\ ctr.id \in Nat /\ ParseState(ctr.st) \in States
         /\ \A s \in DockerStates : [ctr EXCEPT !.st = s] \in [st : DockerStates, id : Nat]
         /\ [st |-> "created", id |-> ctr.id + 1] \in [st : DockerStates, id : Nat]
BY DEF Domains, DockerStates, ParseState, States

(* A step of p is visible to another process only through the container. *)
LEMMA StepFrame ==
  ASSUME Domains, NEW p \in Procs, Step(p)
  PROVE  /\ cmd' = cmd /\ CtrStep
         /\ \A q \in Procs \ {p} : LocalsKept(q) /\ Undisturbed(q)
<1> USE DEF Goto, Finish, WaitOver, Look, LocalsKept
<1>1. CASE EnsureRunning(p) \/ StartInspects(p) \/ WaitExpired(p) \/ Pauses(p)
           \/ PauseCancelled(p) \/ Connect(p)
  <2> QED BY <1>1 DEF EnsureRunning, StartInspects, WaitExpired, Pauses, PauseCancelled,
                   Connect, Undisturbed, CtrStep, Domains
<1>2. CASE StopInspects(p) \/ RemoveInspects(p) \/ StatusInspects(p) \/ CallFails(p)
  <2> QED BY <1>2 DEF StopInspects, RemoveInspects, StatusInspects, CallFails,
                   Undisturbed, CtrStep, Domains
<1>3. CASE WaitProbes(p)
  BY <1>3 DEF WaitProbes, Undisturbed, CtrStep, Domains
<1>4. CASE RtStart(p)
  <2>1. cmd' = cmd /\ \A q \in Procs \ {p} : LocalsKept(q)
    BY <1>4 DEF RtStart, Domains
  <2>2. CASE UNCHANGED <<ctr, ready, moved>>
    BY <2>1, <2>2 DEF Undisturbed, CtrStep, Domains
  <2>3. CASE Becomes(p, [ctr EXCEPT !.st = "running"]) /\ ctr.st # "none"
    <3>1. [ctr EXCEPT !.st = "running"] \in [st : DockerStates, id : Nat]
      BY StateFacts DEF DockerStates
    <3>2. ctr' = [ctr EXCEPT !.st = "running"] /\ \A q \in Procs \ {p} : Undisturbed(q)
      BY <2>3, <3>1, BecomesFacts
    <3> QED BY <2>1, <2>3, <3>2 DEF CtrStep, Domains
  <2> QED BY <1>4, <2>2, <2>3 DEF RtStart
<1>5. CASE RtRunStart(p)
  <2>1. cmd' = cmd /\ \A q \in Procs \ {p} : LocalsKept(q)
    BY <1>5 DEF RtRunStart, Domains
  <2>2. CASE UNCHANGED <<ctr, ready, moved>>
    BY <2>1, <2>2 DEF Undisturbed, CtrStep, Domains
  <2>3. CASE Becomes(p, [ctr EXCEPT !.st = "running"]) /\ ctr.st # "none"
    <3>1. [ctr EXCEPT !.st = "running"] \in [st : DockerStates, id : Nat]
      BY StateFacts DEF DockerStates
    <3>2. ctr' = [ctr EXCEPT !.st = "running"] /\ \A q \in Procs \ {p} : Undisturbed(q)
      BY <2>3, <3>1, BecomesFacts
    <3> QED BY <2>1, <2>3, <3>2 DEF CtrStep, Domains
  <2> QED BY <1>5, <2>2, <2>3 DEF RtRunStart
<1>6. CASE RtRun(p)
  <2>1. cmd' = cmd /\ \A q \in Procs \ {p} : LocalsKept(q)
    BY <1>6 DEF RtRun, Domains
  <2>2. CASE UNCHANGED <<ctr, ready, moved>>
    BY <2>1, <2>2 DEF Undisturbed, CtrStep, Domains
  <2>3. CASE Becomes(p, [st |-> "created", id |-> ctr.id + 1])
    BY <2>1, <2>3, StateFacts, BecomesFacts DEF CtrStep
  <2> QED BY <1>6, <2>2, <2>3 DEF RtRun
<1>7. CASE RtStop(p)
  <2>1. cmd' = cmd /\ \A q \in Procs \ {p} : LocalsKept(q)
    BY <1>7 DEF RtStop, Domains
  <2>2. PICK c \in {ctr, [ctr EXCEPT !.st = "exited"]} :
             Becomes(p, c) /\ (c # ctr => ctr.st \in {"running", "paused"})
    BY <1>7 DEF RtStop
  <2>3. c \in [st : DockerStates, id : Nat]
    BY <2>2, StateFacts DEF DockerStates, Domains
  <2>4. ctr' = c /\ \A q \in Procs \ {p} : Undisturbed(q)
    BY <2>2, <2>3, BecomesFacts
  <2> QED BY <2>1, <2>2, <2>4 DEF CtrStep, Domains
<1>8. CASE RtRemove(p)
  <2>1. cmd' = cmd /\ \A q \in Procs \ {p} : LocalsKept(q)
    BY <1>8 DEF RtRemove, Domains
  <2>2. Becomes(p, [ctr EXCEPT !.st = "none"])
    BY <1>8 DEF RtRemove
  <2>3. [ctr EXCEPT !.st = "none"] \in [st : DockerStates, id : Nat]
    BY StateFacts DEF DockerStates
  <2>4. ctr' = [ctr EXCEPT !.st = "none"] /\ \A q \in Procs \ {p} : Undisturbed(q)
    BY <2>2, <2>3, BecomesFacts
  <2> QED BY <2>1, <2>4 DEF CtrStep, Domains
<1> QED BY <1>1, <1>2, <1>3, <1>4, <1>5, <1>6, <1>7, <1>8
        DEF Step, Start, Stop, Remove

LEMMA Product == \A m, n \in Nat : m * n \in Nat
OBVIOUS

LEMMA StepDomains ==
  ASSUME Domains, NEW p \in Procs, Step(p)
  PROVE  Domains'
<1> USE DEF Goto, Finish, WaitOver, Look, Labels, Results
<1>1. CASE EnsureRunning(p)
  <2>1. moved' \in [Procs -> BOOLEAN]
    BY <1>1, Zenon DEF EnsureRunning, Domains
  <2> QED BY <1>1, <2>1 DEF EnsureRunning, Domains
<1>2. CASE StartInspects(p)
  <2>1. AfterInspect(seen'[p]) \in Labels
    BY AfterInspectCases
  <2> QED BY <1>2, <2>1, StateFacts DEF StartInspects, Domains
<1>3. CASE WaitExpired(p) \/ PauseCancelled(p) \/ Connect(p)
  <2>1. Interval \in Nat BY HealthAssumption
  <2>2. CASE WaitExpired(p) BY <2>1, <2>2 DEF WaitExpired, Domains
  <2>3. CASE PauseCancelled(p) BY <2>1, <2>3 DEF PauseCancelled, Domains
  <2>4. CASE Connect(p) BY <2>4 DEF Connect, Domains
  <2> QED BY <1>3, <2>2, <2>3, <2>4
<1>4. CASE Pauses(p)
  <2>1. interval[p] * Growth \in Nat /\ elapsed[p] + interval[p] \in Nat
    <3>1. interval[p] \in Nat /\ elapsed[p] \in Nat BY DEF Domains
    <3>2. Growth \in Nat BY HealthAssumption
    <3> QED BY <3>1, <3>2, Product
  <2>2. MaxInterval \in Nat BY HealthAssumption
  <2> QED BY <1>4, <2>1, <2>2 DEF Pauses, Domains
<1>5. CASE WaitProbes(p)
  <2>1. moved' \in [Procs -> BOOLEAN]
    BY <1>5, Zenon DEF WaitProbes, Domains
  <2>2. Interval \in Nat /\ ProbeTime \in Nat
    BY HealthAssumption
  <2>3. elapsed' \in [Procs -> Nat] /\ interval' \in [Procs -> Nat]
    <3>1. CASE WaitOver(p)
      BY <2>2, <3>1 DEF Domains
    <3>2. CASE UNCHANGED interval /\ \E t \in {0, ProbeTime} :
                                         elapsed' = [elapsed EXCEPT ![p] = @ + t]
      <4>1. PICK t \in {0, ProbeTime} : elapsed' = [elapsed EXCEPT ![p] = elapsed[p] + t]
        BY <3>2
      <4>2. elapsed[p] \in Nat /\ elapsed \in [Procs -> Nat] /\ interval \in [Procs -> Nat]
        BY DEF Domains
      <4>3. elapsed[p] + t \in Nat
        BY <2>2, <4>2
      <4> QED BY <3>2, <4>1, <4>2, <4>3
    <3> QED BY <1>5, <3>1, <3>2 DEF WaitProbes
  <2>4. pc' \in [Procs -> Labels] /\ result' \in [Procs -> Results]
    BY <1>5 DEF WaitProbes, Domains
  <2> QED BY <1>5, <2>1, <2>3, <2>4 DEF WaitProbes, Domains
<1>6. CASE StopInspects(p) \/ StatusInspects(p)
  <2>1. CASE StopInspects(p)
    BY <2>1, StateFacts DEF StopInspects, Domains
  <2>2. CASE StatusInspects(p)
    BY <2>2, StateFacts DEF StatusInspects, Domains
  <2> QED BY <1>6, <2>1, <2>2
<1>7. CASE RemoveInspects(p)
  BY <1>7, StateFacts DEF RemoveInspects, StopResult, Domains
<1>8. CASE CallFails(p)
  BY <1>8 DEF CallFails, Domains
<1>9. CASE RtStart(p) \/ RtRunStart(p)
  <2>1. ctr' \in [st : DockerStates, id : Nat] /\ ready' \in BOOLEAN
        /\ moved' \in [Procs -> BOOLEAN]
    <3>1. CASE UNCHANGED <<ctr, ready, moved>>
      BY <3>1 DEF Domains
    <3>2. CASE Becomes(p, [ctr EXCEPT !.st = "running"])
      <4>1. [ctr EXCEPT !.st = "running"] \in [st : DockerStates, id : Nat]
        BY StateFacts DEF DockerStates
      <4> QED BY <3>2, <4>1, BecomesFacts
    <3> QED BY <1>9, <3>1, <3>2 DEF RtStart, RtRunStart
  <2> QED BY <1>9, <2>1 DEF RtStart, RtRunStart, Domains
<1>10. CASE RtRun(p)
  <2>1. ctr' \in [st : DockerStates, id : Nat] /\ ready' \in BOOLEAN
        /\ moved' \in [Procs -> BOOLEAN]
    <3>1. CASE UNCHANGED <<ctr, ready, moved>>
      BY <3>1 DEF Domains
    <3>2. CASE Becomes(p, [st |-> "created", id |-> ctr.id + 1])
      BY <3>2, StateFacts, BecomesFacts
    <3> QED BY <1>10, <3>1, <3>2 DEF RtRun
  <2> QED BY <1>10, <2>1, StateFacts DEF RtRun, Domains
<1>11. CASE RtStop(p)
  <2>1. PICK c \in {ctr, [ctr EXCEPT !.st = "exited"]} : Becomes(p, c)
    BY <1>11 DEF RtStop
  <2>2. c \in [st : DockerStates, id : Nat]
    BY <2>1, StateFacts DEF DockerStates, Domains
  <2>3. stopErr' \in [Procs -> BOOLEAN]
    BY <1>11, Zenon DEF RtStop, Domains
  <2> QED BY <1>11, <2>1, <2>2, <2>3, BecomesFacts DEF RtStop, Domains
<1>12. CASE RtRemove(p)
  <2>1. [ctr EXCEPT !.st = "none"] \in [st : DockerStates, id : Nat]
    BY StateFacts DEF DockerStates
  <2>2. Becomes(p, [ctr EXCEPT !.st = "none"])
    BY <1>12 DEF RtRemove
  <2> QED BY <1>12, <2>1, <2>2, BecomesFacts DEF RtRemove, StopResult, Domains
<1> QED BY <1>1, <1>2, <1>3, <1>4, <1>5, <1>6, <1>7, <1>8, <1>9, <1>10, <1>11, <1>12
        DEF Step, Start, Stop, Remove

(* The engine or the user acts: the processes stay where they are. *)
LEMMA OutsideFrame ==
  ASSUME Domains, EngineUp \/ Disturb
  PROVE  /\ Domains' /\ cmd' = cmd /\ CtrStep
         /\ \A q \in Procs : LocalsKept(q) /\ Undisturbed(q)
<1>1. CASE EngineUp
  BY <1>1 DEF EngineUp, Domains, CtrStep, LocalsKept, Undisturbed
<1>2. CASE Disturb
  <2>1. PICK s \in {"exited", "paused"} : ctr' = [ctr EXCEPT !.st = s]
    BY <1>2 DEF Disturb
  <2>2. ctr' \in [st : DockerStates, id : Nat] /\ ctr'.id = ctr.id /\ ctr.st = "running"
    BY <1>2, <2>1, StateFacts DEF DockerStates, Disturb, Domains
  <2>3. moved' \in [Procs -> BOOLEAN] /\ \A q \in Procs : moved'[q] = TRUE
    BY <1>2 DEF Disturb
  <2> QED BY <1>2, <2>2, <2>3 DEF Disturb, Domains, CtrStep, LocalsKept, Undisturbed
<1> QED BY <1>1, <1>2

-----------------------------------------------------------------------------
(* A process that is not the one to step keeps its part of the invariant.    *)

LEMMA OtherKeeps ==
  ASSUME Domains, Domains', NEW q \in Procs, cmd' = cmd, CtrStep, LocalsKept(q), Undisturbed(q),
         Flow(q), Belief(q), Failures(q), Removed(q)
  PROVE  Flow(q)' /\ Belief(q)' /\ Failures(q)' /\ Removed(q)'
<1>1. Flow(q)'
  BY DEF Flow, LocalsKept
<1>2. Belief(q)' /\ Failures(q)'
  <2>1. CASE moved'[q] = FALSE
    BY <2>1 DEF Undisturbed, Belief, Failures, LocalsKept, Domains
  <2>2. CASE moved'[q] = TRUE
    BY <2>2 DEF Belief, Failures, LocalsKept
  <2> QED BY <2>1, <2>2 DEF Domains
<1>3. Removed(q)'
  <2>1. target[q] \in Nat /\ ctr.id \in Nat
    BY DEF Domains
  <2> QED BY <2>1 DEF Removed, LocalsKept, CtrStep
<1> QED BY <1>1, <1>2, <1>3

-----------------------------------------------------------------------------
(* The process that steps: one lemma for each phase of the commands.         *)

Own(p) == Flow(p) /\ Belief(p) /\ Failures(p) /\ Removed(p)

(* EnsureRunning, Start's inspection, waitHealthy and connect do not touch *)
(* the container.                                                          *)
LEMMA LookersKeep ==
  ASSUME Domains, Domains', NEW p \in Procs, Own(p),
         \/ EnsureRunning(p) \/ StartInspects(p) \/ WaitExpired(p) \/ WaitProbes(p)
         \/ Pauses(p) \/ PauseCancelled(p) \/ Connect(p)
  PROVE  Own(p)'
<1> USE DEF Goto, Finish, Look
<1>0. ctr.id \in Nat /\ target[p] \in Nat /\ ready \in BOOLEAN /\ moved[p] \in BOOLEAN
  BY DEF Domains
<1>1. /\ UNCHANGED <<cmd, ctr, ready, target>> /\ pc[p] # "done" /\ result[p] = ""
      /\ cmd[p] # "stop"
  BY DEF EnsureRunning, StartInspects, WaitExpired, WaitProbes, Pauses, PauseCancelled, Connect,
         Own, Flow
<1>2. CASE EnsureRunning(p)
  <2>1. PICK ok \in {FALSE, ready} :
             /\ pc' = [pc EXCEPT ![p] = IF ok THEN "connect" ELSE "inspect"]
             /\ moved' = [moved EXCEPT ![p] = moved[p] /\ ~ok]
             /\ result' = result
    BY <1>2, Zenon DEF EnsureRunning, ProbeResults
  <2>2. CASE ok = TRUE
    BY <1>0, <1>1, <2>1, <2>2 DEF Domains, Own, Flow, Belief, Failures, Removed
  <2>3. CASE ok = FALSE
    BY <1>0, <1>1, <2>1, <2>3 DEF Domains, Own, Flow, Belief, Failures, Removed
  <2> QED BY <1>0, <2>1, <2>2, <2>3
<1>3. CASE StartInspects(p)
  <2>1. /\ seen'[p] = ParseState(ctr.st) /\ pc'[p] = AfterInspect(seen'[p])
        /\ result' = result /\ ctr.st \in DockerStates
    BY <1>3 DEF StartInspects, Domains
  <2>2. pc'[p] = "rtStart" => ctr.st \in {"exited", "created"}
    BY <2>1, AfterInspectCases DEF ParseState
  <2>3. pc'[p] = "rtRun" => seen'[p] \in {"paused", "unknown"}
                            /\ ctr.st \in {"none", "paused", "dead"}
    BY <2>1, AfterInspectCases DEF ParseState, DockerStates
  <2>4. pc'[p] \in {"wait", "rtStart", "rtRun"}
    BY <2>1, AfterInspectCases
  <2> QED BY <1>0, <1>1, <2>1, <2>2, <2>3, <2>4
          DEF Domains, Own, Flow, Belief, Failures, Removed
<1>4. CASE WaitProbes(p)
  <2>1. PICK ok \in {FALSE, ready} :
             /\ moved' = [moved EXCEPT ![p] = moved[p] /\ ~ok]
             /\ \/ ~ok /\ pc' = [pc EXCEPT ![p] = "pause"] /\ result' = result
                \/ ok /\ pc' = [pc EXCEPT ![p] = "done"] /\ result' = [result EXCEPT ![p] = "ok"]
                \/ ok /\ pc' = [pc EXCEPT ![p] = "connect"] /\ result' = result
    BY <1>4, Zenon DEF WaitProbes, ProbeResults
  <2>2. CASE ok = TRUE
    BY <1>0, <1>1, <2>1, <2>2 DEF Domains, Own, Flow, Belief, Failures, Removed
  <2>3. CASE ok = FALSE
    BY <1>0, <1>1, <2>1, <2>3 DEF Domains, Own, Flow, Belief, Failures, Removed
  <2> QED BY <1>0, <2>1, <2>2, <2>3
<1>5. CASE WaitExpired(p) \/ Pauses(p) \/ PauseCancelled(p)
  BY <1>0, <1>1, <1>5 DEF WaitExpired, Pauses, PauseCancelled, Domains,
                          Own, Flow, Belief, Failures, Removed
<1>6. CASE Connect(p)
  BY <1>0, <1>1, <1>6 DEF Connect, Domains, Own, Flow, Belief, Failures, Removed
<1> QED BY <1>2, <1>3, <1>4, <1>5, <1>6

(* The calls of Start: they fail where the belief of the process was wrong. *)
LEMMA StartersKeep ==
  ASSUME Domains, Domains', NEW p \in Procs, Own(p), RtStart(p) \/ RtRun(p) \/ RtRunStart(p)
  PROVE  Own(p)'
<1> USE DEF Goto, Finish
<1>0. ctr.id \in Nat /\ target[p] \in Nat /\ moved[p] \in BOOLEAN
  BY DEF Domains
<1>1. UNCHANGED <<cmd, seen>> /\ pc[p] # "done" /\ result[p] = "" /\ cmd[p] # "stop"
  BY DEF RtStart, RtRun, RtRunStart, Own, Flow
<1>2. CASE RtStart(p)
  <2>1. target' = target
    BY <1>2 DEF RtStart
  <2>2. CASE ctr.st \in {"created", "exited", "running"}
    <3>1. Becomes(p, [ctr EXCEPT !.st = "running"])
      BY <1>2, <2>2 DEF RtStart
    <3>2. [ctr EXCEPT !.st = "running"] \in [st : DockerStates, id : Nat]
      BY StateFacts DEF DockerStates
    <3>3. ctr'.id = ctr.id
      BY <3>1 DEF Becomes, Domains
    <3>4. \/ pc'[p] = "wait" /\ result'[p] = ""
          \/ pc'[p] = "done" /\ result'[p] = "interrupted"
      BY <1>1, <1>2, <2>2 DEF RtStart, Domains
    <3> QED BY <1>0, <1>1, <2>1, <3>3, <3>4 DEF Own, Flow, Belief, Failures, Removed
  <2>3. CASE ctr.st \notin {"created", "exited", "running"}
    <3>1. UNCHANGED <<ctr, ready, moved>> /\ pc[p] = "rtStart" /\ pc'[p] = "done"
          /\ result'[p] \in {"interrupted", "startfailed"}
      BY <1>2, <2>3 DEF RtStart, Domains
    <3>2. moved[p] = TRUE
      BY <1>0, <2>3, <3>1 DEF Own, Belief
    <3> QED BY <1>0, <1>1, <2>1, <3>1, <3>2 DEF Own, Flow, Belief, Failures, Removed
  <2> QED BY <2>2, <2>3
<1>3. CASE RtRun(p)
  <2>1. CASE ctr.st = "none"
    <3>1. target'[p] = ctr.id + 1 /\ pc'[p] = "rtRunStart" /\ result'[p] = ""
      BY <1>1, <1>3, <2>1 DEF RtRun, Domains
    <3>2. ctr' = [st |-> "created", id |-> ctr.id + 1]
      BY <1>3, <2>1 DEF RtRun, Becomes
    <3>3. ctr'.st = "created" /\ ctr'.id = target'[p] /\ target'[p] \in Nat /\ ctr'.id \in Nat
      BY <1>0, <3>1, <3>2 DEF Domains
    <3>4. Removed(p)'
      <4>1. target'[p] <= ctr'.id
        BY <3>3
      <4>2. result'[p] # "ok"
        BY <3>1
      <4> QED BY <4>1, <4>2 DEF Removed
    <3> QED BY <1>1, <3>1, <3>3, <3>4 DEF Own, Flow, Belief, Failures
  <2>2. CASE ctr.st # "none"
    <3>1. /\ UNCHANGED <<ctr, ready, moved, target>> /\ pc[p] = "rtRun" /\ pc'[p] = "done"
          /\ result'[p] = "startfailed"
      BY <1>3, <2>2 DEF RtRun, Domains
    <3> QED BY <1>0, <1>1, <2>2, <3>1 DEF Own, Flow, Belief, Failures, Removed
  <2> QED BY <2>1, <2>2
<1>4. CASE RtRunStart(p)
  <2>1. target' = target
    BY <1>4 DEF RtRunStart
  <2>2. CASE ctr.st \in {"created", "exited", "running"} /\ ctr.id = target[p]
    <3>1. Becomes(p, [ctr EXCEPT !.st = "running"])
      BY <1>4, <2>2 DEF RtRunStart
    <3>3. ctr'.id = ctr.id
      BY <3>1 DEF Becomes, Domains
    <3>4. \/ pc'[p] = "wait" /\ result'[p] = ""
          \/ pc'[p] = "done" /\ result'[p] = "interrupted"
      BY <1>1, <1>4, <2>2 DEF RtRunStart, Domains
    <3> QED BY <1>0, <1>1, <2>1, <3>3, <3>4 DEF Own, Flow, Belief, Failures, Removed
  <2>3. CASE ~(ctr.st \in {"created", "exited", "running"} /\ ctr.id = target[p])
    <3>1. UNCHANGED <<ctr, ready, moved>> /\ pc[p] = "rtRunStart" /\ pc'[p] = "done"
          /\ result'[p] \in {"interrupted", "startfailed"}
      BY <1>4, <2>3 DEF RtRunStart, Domains
    <3>2. moved[p] = TRUE
      BY <1>0, <2>3, <3>1 DEF Own, Belief
    <3> QED BY <1>0, <1>1, <2>1, <3>1, <3>2 DEF Own, Flow, Belief, Failures, Removed
  <2> QED BY <2>2, <2>3
<1> QED BY <1>2, <1>3, <1>4

(* engine stop and status, and a call that has no effect. *)
LEMMA StoppersKeep ==
  ASSUME Domains, Domains', NEW p \in Procs, Own(p),
         \/ StopInspects(p) \/ RtStop(p) \/ RemoveInspects(p) \/ RtRemove(p)
         \/ StatusInspects(p) \/ CallFails(p)
  PROVE  Own(p)'
<1> USE DEF Goto, Finish, Look
<1>0. ctr.id \in Nat /\ target[p] \in Nat /\ moved[p] \in BOOLEAN
  BY DEF Domains
<1>1. cmd' = cmd /\ pc[p] # "done" /\ result[p] = ""
  BY DEF StopInspects, RtStop, RemoveInspects, RtRemove, StatusInspects, CallFails, Own, Flow
<1>2. CASE StopInspects(p)
  <2>1. /\ ctr' = ctr /\ result' = result /\ pc'[p] \in {"rtStop", "removeInspect"}
        /\ target'[p] = IF ctr.st = "none" THEN 0 ELSE ctr.id
    BY <1>2 DEF StopInspects, Domains
  <2>2. target'[p] <= ctr'.id
    BY <1>0, <2>1
  <2> QED BY <1>1, <2>1, <2>2 DEF Own, Flow, Belief, Failures, Removed
<1>3. CASE RtStop(p)
  <2>1. /\ result' = result /\ pc'[p] = "removeInspect" /\ target' = target
    BY <1>3 DEF RtStop, Domains
  <2>2. ctr'.id = ctr.id
    BY <1>3 DEF RtStop, Becomes, Domains
  <2> QED BY <1>0, <1>1, <2>1, <2>2 DEF Own, Flow, Belief, Failures, Removed
<1>4. CASE RemoveInspects(p)
  <2>1. /\ ctr' = ctr /\ target' = target
        /\ \/ ctr.st = "none" /\ pc'[p] = "done" /\ result'[p] \in {"stopfailed", "ok"}
           \/ pc'[p] = "rtRemove" /\ result'[p] = ""
    BY <1>1, <1>4 DEF RemoveInspects, StopResult, Domains
  <2> QED BY <1>0, <1>1, <2>1 DEF Own, Flow, Belief, Failures, Removed
<1>5. CASE RtRemove(p)
  <2>1. /\ target' = target /\ pc'[p] = "done" /\ result'[p] \in {"stopfailed", "ok"}
    BY <1>5 DEF RtRemove, StopResult, Domains
  <2>2. ctr'.id = ctr.id /\ ctr'.st = "none"
    BY <1>5 DEF RtRemove, Becomes, Domains
  <2> QED BY <1>0, <1>1, <2>1, <2>2 DEF Own, Flow, Belief, Failures, Removed
<1>6. CASE StatusInspects(p)
  <2>1. /\ ctr' = ctr /\ target' = target /\ pc[p] = "statusInspect" /\ pc'[p] = "done"
        /\ result'[p] = "ok"
    BY <1>6 DEF StatusInspects, Domains
  <2> QED BY <1>0, <1>1, <2>1 DEF Own, Flow, Belief, Failures, Removed
<1>7. CASE CallFails(p)
  <2>1. /\ ctr' = ctr /\ target' = target
        /\ \/ pc'[p] = "done" /\ result'[p] \in {"stopfailed", "interrupted"}
           \/ pc'[p] = "removeInspect" /\ result'[p] = ""
    BY <1>1, <1>7 DEF CallFails, Domains
  <2> QED BY <1>0, <1>1, <2>1 DEF Own, Flow, Belief, Failures, Removed
<1> QED BY <1>2, <1>3, <1>4, <1>5, <1>6, <1>7

LEMMA InitDomains ==
  ASSUME Init
  PROVE  Domains /\ \A p \in Procs : pc[p] = Entry(cmd[p])
<1>1. cmd \in [Procs -> Commands]
  BY ProcsAssumption DEF Init
<1>2. \A p \in Procs : Entry(cmd[p]) \in Labels
  BY <1>1, EntryCases DEF Labels
<1>3. pc \in [Procs -> Labels] /\ \A p \in Procs : pc[p] = Entry(cmd[p])
  BY <1>2 DEF Init
<1>4. ctr \in [st : DockerStates, id : Nat]
  <2>1. PICK s \in DockerStates : ctr = [st |-> s, id |-> 1]
    BY DEF Init
  <2> QED BY <2>1
<1>5. ready \in BOOLEAN
  BY DEF Init
<1>6. elapsed \in [Procs -> Nat] /\ interval \in [Procs -> Nat]
  <2>1. Interval \in Nat BY HealthAssumption
  <2> QED BY <2>1 DEF Init
<1>7. /\ seen \in [Procs -> States] /\ result \in [Procs -> Results]
      /\ stopErr \in [Procs -> BOOLEAN] /\ moved \in [Procs -> BOOLEAN]
      /\ target \in [Procs -> Nat]
  BY DEF Init, States, Results
<1> QED BY <1>1, <1>3, <1>4, <1>5, <1>6, <1>7 DEF Domains

LEMMA RaceInvInit == Init => RaceInv
<1> SUFFICES ASSUME Init, NEW p \in Procs
             PROVE  Own(p)
  BY InitDomains DEF RaceInv, Own
<1>1. Domains /\ pc[p] = Entry(cmd[p]) /\ cmd[p] \in Commands
  BY InitDomains DEF Domains
<1>2. result[p] = "" /\ target[p] = 0 /\ ctr.id = 1
  BY DEF Init
<1>3. Flow(p) /\ Belief(p)
  BY <1>1, <1>2, EntryCases DEF Flow, Belief
<1>4. Failures(p) /\ Removed(p)
  <2>0. \A m, n : m = 0 /\ n = 1 => m <= n OBVIOUS
  <2>1. target[p] <= ctr.id BY <1>2, <2>0, Zenon
  <2> QED BY <1>2, <2>1 DEF Failures, Removed
<1> QED BY <1>3, <1>4 DEF Own

LEMMA RaceInvStep == RaceInv /\ [Next]_vars => RaceInv'
<1> SUFFICES ASSUME RaceInv, [Next]_vars
             PROVE  RaceInv'
  OBVIOUS
<1>0. Domains /\ \A p \in Procs : Own(p)
  BY DEF RaceInv, Own
<1>1. ASSUME NEW p \in Procs, Step(p)
      PROVE  RaceInv'
  <2>1. Domains'
    BY <1>0, <1>1, StepDomains
  <2>2. Own(p)'
    BY <1>0, <1>1, <2>1, LookersKeep, StartersKeep, StoppersKeep DEF Step, Start, Stop, Remove
  <2>3. ASSUME NEW q \in Procs \ {p}
        PROVE  Own(q)'
    <3>1. cmd' = cmd /\ CtrStep /\ LocalsKept(q) /\ Undisturbed(q)
      BY <1>0, <1>1, <2>3, StepFrame
    <3> QED BY <1>0, <2>1, <3>1, OtherKeeps DEF Own
  <2> QED BY <2>1, <2>2, <2>3 DEF RaceInv, Own
<1>2. CASE EngineUp \/ Disturb
  <2>1. /\ Domains' /\ cmd' = cmd /\ CtrStep
        /\ \A q \in Procs : LocalsKept(q) /\ Undisturbed(q)
    BY <1>0, <1>2, OutsideFrame
  <2>2. ASSUME NEW q \in Procs
        PROVE  Own(q)'
    BY <1>0, <2>1, OtherKeeps DEF Own
  <2> QED BY <2>1, <2>2 DEF RaceInv, Own
<1>3. CASE UNCHANGED vars
  BY <1>3 DEF vars, RaceInv, Domains, Flow, Belief, Failures, Removed
<1> QED BY <1>1, <1>2, <1>3 DEF Next, Finished

LEMMA RaceInvariant == Spec => []RaceInv
BY RaceInvInit, RaceInvStep, PTL DEF Spec

(* A start fails for the container's sake, and a connect to an engine that   *)
(* was found healthy fails, only if another process, the user or the engine  *)
(* itself changed the container since the process last looked at it, or if   *)
(* it was found paused or dead: check-then-act races are the only way for    *)
(* Start, Run and connect to go wrong, however many processes share the      *)
(* container (internal/daemon/daemon.go, Manager.Start).                     *)
THEOREM StartFailsOnlyByRaces == Spec => []FailuresAreRaces
<1>1. RaceInv => FailuresAreRaces
  <2> SUFFICES ASSUME RaceInv, NEW p \in Procs
               PROVE  /\ result[p] = "startfailed" =>
                            \/ moved[p]
                            \/ /\ seen[p] \in {"paused", "unknown"}
                               /\ ctr.st \in {"paused", "dead"}
                      /\ result[p] = "unreachable" /\ cmd[p] = "run" => moved[p]
    BY DEF FailuresAreRaces
  <2> QED BY DEF RaceInv, Failures, Domains
<1> QED BY <1>1, RaceInvariant, PTL

(* engine stop says that it succeeded only when the container it found is    *)
(* gone, although Inspect, Stop, Inspect and Remove are four calls between   *)
(* which any process may remove the container and create another one.        *)
THEOREM StopRemovesWhatItFound == Spec => []StopRemoves
<1>1. RaceInv => StopRemoves
  BY DEF RaceInv, Removed, StopRemoves
<1> QED BY <1>1, RaceInvariant, PTL

-----------------------------------------------------------------------------
(* waitHealthy.                                                              *)

(* The health configuration, as the provers want it. *)
LEMMA HealthFacts ==
  /\ Timeout \in Nat /\ Interval \in Nat /\ Growth \in Nat /\ MaxInterval \in Nat
  /\ ProbeTime \in Nat /\ Interval <= MaxInterval /\ 0 < Timeout
BY HealthAssumption

(* Who is not in waitHealthy after a step has no time on its clock. *)
LEMMA ClockStep ==
  ASSUME Domains, Domains', NEW p \in Procs, Clock(p), Step(p)
  PROVE  /\ Clock(p)'
         /\ result'[p] = "unhealthy" /\ result[p] = "" => elapsed[p] >= Timeout
<1> USE DEF Goto, Finish, Look
<1>0. /\ elapsed[p] \in Nat /\ interval[p] \in Nat
      /\ elapsed'[p] \in Nat /\ interval'[p] \in Nat
  BY DEF Domains
<1>1. ASSUME UNCHANGED <<elapsed, interval>>, elapsed[p] = 0,
             result'[p] \in {result[p], "ok", "interrupted", "startfailed", "unreachable",
                             "stopfailed"},
             pc'[p] # "pause"
      PROVE  Clock(p)' /\ ~(result'[p] = "unhealthy" /\ result[p] = "")
  BY <1>0, <1>1, HealthFacts DEF Clock
<1>2. CASE EnsureRunning(p) \/ Connect(p) \/ StatusInspects(p) \/ CallFails(p)
  <2>1. /\ UNCHANGED <<elapsed, interval>> /\ pc[p] \notin {"wait", "pause"}
        /\ pc'[p] # "pause"
        /\ result'[p] \in {result[p], "ok", "interrupted", "unreachable", "stopfailed"}
    BY <1>2 DEF EnsureRunning, Connect, StatusInspects, CallFails, Domains
  <2> QED BY <1>1, <2>1 DEF Clock
<1>3. CASE StartInspects(p)
  <2>1. /\ UNCHANGED <<elapsed, interval>> /\ pc[p] \notin {"wait", "pause"}
        /\ pc'[p] = AfterInspect(seen'[p]) /\ result' = result
    BY <1>3 DEF StartInspects, Domains
  <2> QED BY <1>1, <2>1, AfterInspectCases DEF Clock
<1>4. CASE RtStart(p) \/ RtRun(p) \/ RtRunStart(p)
  <2>1. /\ UNCHANGED <<elapsed, interval>> /\ pc[p] \notin {"wait", "pause"}
        /\ pc'[p] # "pause"
        /\ result'[p] \in {result[p], "interrupted", "startfailed"}
    BY <1>4 DEF RtStart, RtRun, RtRunStart, Domains
  <2> QED BY <1>1, <2>1 DEF Clock
<1>5. CASE Stop(p) \/ Remove(p)
  <2>1. /\ UNCHANGED <<elapsed, interval>> /\ pc[p] \notin {"wait", "pause"}
        /\ pc'[p] # "pause"
        /\ result'[p] \in {result[p], "ok", "stopfailed"}
    BY <1>5 DEF Stop, Remove, StopInspects, RtStop, RemoveInspects, RtRemove, StopResult, Domains
  <2> QED BY <1>1, <2>1 DEF Clock
<1>6. CASE WaitExpired(p) \/ PauseCancelled(p)
  <2>1. /\ elapsed'[p] = 0 /\ interval'[p] = Interval /\ pc'[p] = "done"
        /\ result'[p] = "cancelled" \/ elapsed[p] >= Timeout
    BY <1>6 DEF WaitExpired, PauseCancelled, WaitOver, Domains
  <2>2. 0 < Timeout + ProbeTime + MaxInterval
    BY HealthFacts
  <2> QED BY <2>1, <2>2, HealthFacts DEF Clock
<1>7. CASE WaitProbes(p)
  <2>1. elapsed[p] < Timeout /\ result'[p] \in {result[p], "ok"}
    BY <1>7 DEF WaitProbes, Domains
  <2>2. CASE WaitOver(p)
    <3>1. /\ elapsed'[p] = 0 /\ interval'[p] = Interval
          /\ pc'[p] = "pause" => elapsed'[p] < Timeout + ProbeTime
      <4>1. elapsed'[p] = 0 /\ interval'[p] = Interval
        BY <2>2 DEF WaitOver, Domains
      <4>2. pc'[p] = "pause" => elapsed'[p] < Timeout + ProbeTime
        BY <4>1, HealthFacts
      <4> QED BY <4>1, <4>2
    <3>2. 0 < Timeout + ProbeTime + MaxInterval
      BY HealthFacts
    <3> QED BY <2>1, <3>1, <3>2, HealthFacts DEF Clock
  <2>3. CASE \E t \in {0, ProbeTime} : /\ elapsed' = [elapsed EXCEPT ![p] = @ + t]
                                       /\ Goto(p, "pause") /\ interval' = interval
    <3>1. PICK t \in {0, ProbeTime} : elapsed'[p] = elapsed[p] + t
      BY <2>3 DEF Domains
    <3>2. pc'[p] = "pause" /\ interval' = interval
      BY <2>3 DEF Domains
    <3>3. elapsed'[p] < Timeout + ProbeTime
      BY <1>0, <2>1, <3>1, HealthFacts
    <3>4. elapsed'[p] < Timeout + ProbeTime + MaxInterval
      BY <1>0, <3>3, HealthFacts
    <3> QED BY <2>1, <3>2, <3>3, <3>4 DEF Clock
  <2> QED BY <1>7, <2>2, <2>3 DEF WaitProbes
<1>8. CASE Pauses(p)
  <2>1. /\ elapsed'[p] = elapsed[p] + interval[p] /\ pc[p] = "pause" /\ pc'[p] = "wait"
        /\ result' = result
    BY <1>8 DEF Pauses, Domains
  <2>2. interval'[p] = IF interval[p] * Growth > MaxInterval THEN MaxInterval
                                                             ELSE interval[p] * Growth
    BY <1>8 DEF Pauses, Domains
  <2>3. interval'[p] <= MaxInterval
    <3>1. interval[p] * Growth \in Nat
      BY <1>0, HealthFacts, Product
    <3> QED BY <2>2, <3>1, HealthFacts
  <2>4. elapsed'[p] < Timeout + ProbeTime + MaxInterval
    BY <1>0, <2>1, HealthFacts DEF Clock
  <2> QED BY <2>1, <2>3, <2>4 DEF Clock
<1> QED BY <1>2, <1>3, <1>4, <1>5, <1>6, <1>7, <1>8 DEF Step, Start

LEMMA ClockOthers ==
  ASSUME NEW q \in Procs, Clock(q), LocalsKept(q)
  PROVE  Clock(q)' /\ ~(result'[q] = "unhealthy" /\ result[q] = "")
BY DEF Clock, LocalsKept

LEMMA ClockInvInit == Init => ClockInv
<1> SUFFICES ASSUME Init, NEW p \in Procs
             PROVE  Clock(p)
  BY InitDomains DEF ClockInv
<1>1. pc[p] = Entry(cmd[p]) /\ cmd[p] \in Commands
  BY InitDomains DEF Domains
<1>2. pc[p] # "pause"
  BY <1>1, EntryCases
<1>3. elapsed[p] = 0 /\ interval[p] = Interval
  BY DEF Init
<1> QED BY <1>2, <1>3, HealthFacts DEF Clock

(* What a step of waitHealthy may do, and what it leaves. *)
LEMMA ClockInvStep ==
  ClockInv /\ [Next]_vars =>
     /\ ClockInv'
     /\ \A p \in Procs : result'[p] = "unhealthy" /\ result[p] = "" => elapsed[p] >= Timeout
<1> SUFFICES ASSUME ClockInv, [Next]_vars
             PROVE  /\ Domains'
                    /\ \A q \in Procs :
                          /\ Clock(q)'
                          /\ result'[q] = "unhealthy" /\ result[q] = "" => elapsed[q] >= Timeout
  BY DEF ClockInv
<1>0. Domains /\ \A q \in Procs : Clock(q)
  BY DEF ClockInv
<1>1. ASSUME NEW p \in Procs, Step(p)
      PROVE  /\ Domains'
             /\ \A q \in Procs :
                   /\ Clock(q)'
                   /\ result'[q] = "unhealthy" /\ result[q] = "" => elapsed[q] >= Timeout
  <2>1. Domains'
    BY <1>0, <1>1, StepDomains
  <2>2. /\ Clock(p)'
        /\ result'[p] = "unhealthy" /\ result[p] = "" => elapsed[p] >= Timeout
    BY <1>0, <1>1, <2>1, ClockStep
  <2>3. \A q \in Procs \ {p} : LocalsKept(q)
    BY <1>0, <1>1, StepFrame
  <2> QED BY <1>0, <2>1, <2>2, <2>3, ClockOthers
<1>2. CASE EngineUp \/ Disturb
  BY <1>0, <1>2, OutsideFrame, ClockOthers
<1>3. CASE UNCHANGED vars
  <2>1. Domains' /\ \A q \in Procs : LocalsKept(q)
    BY <1>0, <1>3 DEF vars, Domains, LocalsKept
  <2> QED BY <1>0, <2>1, ClockOthers
<1> QED BY <1>1, <1>2, <1>3 DEF Next, Finished

(* waitHealthy does not give up before its timeout, and its clock overruns   *)
(* the timeout by less than one probe and one pause of the longest kind,     *)
(* for every timeout, first interval, growth and longest interval.           *)
THEOREM WaitWithinBounds == Spec => WaitIsBounded
<1>1. ClockInv /\ [Next]_vars =>
         [\A p \in Procs :
             /\ elapsed[p] < Timeout + ProbeTime + MaxInterval
             /\ result'[p] = "unhealthy" /\ result[p] = "" => elapsed[p] >= Timeout]_vars
  BY ClockInvStep DEF ClockInv, Clock
<1> QED BY <1>1, ClockInvInit, ClockInvStep, PTL DEF Spec, WaitIsBounded

=============================================================================
