---------------------------- MODULE RunnerProofs ----------------------------
(***************************************************************************)
(* Theorems about the job scheduler, for every set of jobs, dependency     *)
(* graph, parallelism and option.                                          *)
(***************************************************************************)
EXTENDS Runner, FiniteSetTheorems, SequenceTheorems, TLAPS

(* Facts about the constants and the error values the proofs share. *)
LEMMA ErrFacts ==
  /\ NoErr \in Errors
  /\ \A k \in ErrKinds, j \in Jobs \cup {NoJob} : Err(k, j) \in Errors
  /\ \A k \in ErrKinds \ {"nil"}, j \in Jobs \cup {NoJob} : Err(k, j) # NoErr
  /\ \A e \in Errors : e.kind \in ErrKinds
BY DEF NoErr, Errors, Err, ErrKinds

(* Sending a message keeps every job's message sequence typed. *)
LEMMA SendType ==
  ASSUME NEW j \in Jobs, NEW msgs \in Seq(Messages),
         sent \in [Jobs -> Seq(Messages)], Send(j, msgs)
  PROVE  sent' \in [Jobs -> Seq(Messages)]
BY DEF Send

(* The messages that end an attempt. *)
LEMMA SessionEndType ==
  ASSUME NEW j \in Jobs
  PROVE  /\ SessionEnd(j) \in Seq(Messages)
         /\ SessionEnd(j) \o <<"retry">> \in Seq(Messages)
<1>1. <<"done">> \in Seq(Messages) /\ <<"retry">> \in Seq(Messages) BY DEF Messages
<1>2. SessionEnd(j) \in Seq(Messages) BY <1>1 DEF SessionEnd
<1> QED BY <1>1, <1>2

(* Handing a slot on keeps holders and waiters typed. *)
LEMMA ReleaseSlotType ==
  ASSUME NEW j \in Jobs, holders \subseteq Jobs, waiters \in Seq(Jobs), ReleaseSlot(j)
  PROVE  holders' \subseteq Jobs /\ waiters' \in Seq(Jobs)
<1>1. CASE waiters = << >>
  BY <1>1 DEF ReleaseSlot
<1>2. CASE waiters # << >>
  <2>1. Head(waiters) \in Jobs /\ Tail(waiters) \in Seq(Jobs) BY <1>2
  <2> QED BY <1>2, <2>1 DEF ReleaseSlot
<1> QED BY <1>1, <1>2

(* Cutting one element out of a sequence keeps it typed. *)
LEMMA CutType ==
  ASSUME NEW S, NEW s \in Seq(S), NEW i \in 1..Len(s)
  PROVE  SubSeq(s, 1, i - 1) \o SubSeq(s, i + 1, Len(s)) \in Seq(S)
<1>1. SubSeq(s, 1, i - 1) \in Seq(S) OBVIOUS
<1>2. SubSeq(s, i + 1, Len(s)) \in Seq(S) OBVIOUS
<1> QED BY <1>1, <1>2

-----------------------------------------------------------------------------
(* Type correctness.  TypeOK is not inductive: that attempt never passes     *)
(* Retries needs to know that a job in its retry delay has an attempt left.  *)

DelayHasRetry == \A j \in Jobs : pc[j] = "delay" => attempt[j] < Retries[j]

TypeInv == TypeOK /\ DelayHasRetry

LEMMA NodeStepType ==
  ASSUME TypeInv, NEW j \in Jobs, NodeStep(j)
  PROVE  TypeInv'
<1> USE JobsAssumption, DependsOnAssumption, OptionsAssumption, ErrFacts
<1> USE DEF TypeInv, TypeOK, DelayHasRetry, nodeVars, semVars, mainVars, Goto, SetErr,
            PCs, Messages
<1>a. ASSUME NEW e \in Errors, SetErr(j, e) PROVE err' \in [Jobs -> Errors]
  BY <1>a
<1>b. Err("cancelled", j) \in Errors /\ Err("when", j) \in Errors
  BY DEF ErrKinds
<1>1. CASE DepFailed(j)
  <2>1. AwaitedDep(j) \in Jobs BY <1>1 DEF DepFailed, Waiting, AwaitedDep
  <2> QED BY <1>1, <2>1 DEF DepFailed, Waiting
<1>2. CASE DepSkipped(j)
  <2>1. <<"skipped">> \in Seq(Messages) OBVIOUS
  <2>2. sent' \in [Jobs -> Seq(Messages)] BY <1>2, <2>1, SendType DEF DepSkipped
  <2> QED BY <1>2, <2>2 DEF DepSkipped
<1>3. CASE DepSucceeded(j)
  <2>1. depIdx' \in [Jobs -> Nat \ {0}] BY <1>3 DEF DepSucceeded
  <2> QED BY <1>3, <2>1 DEF DepSucceeded
<1>4. CASE DepWaitCancelled(j)
  BY <1>4, <1>b DEF DepWaitCancelled
<1>5. CASE WhenTrue(j)
  BY <1>5 DEF WhenTrue
<1>6. CASE WhenFalse(j)
  <2>1. <<"skipped">> \in Seq(Messages) OBVIOUS
  <2>2. sent' \in [Jobs -> Seq(Messages)] BY <1>6, <2>1, SendType DEF WhenFalse
  <2> QED BY <1>6, <2>2 DEF WhenFalse
<1>7. CASE WhenError(j)
  BY <1>7, <1>b DEF WhenError
<1>8. CASE AcquireFree(j)
  BY <1>8 DEF AcquireFree
<1>9. CASE AcquireQueue(j)
  <2>1. waiters' \in Seq(Jobs) BY <1>9 DEF AcquireQueue
  <2> QED BY <1>9, <2>1 DEF AcquireQueue
<1>10. CASE AcquireCancelled(j)
  BY <1>10, <1>b DEF AcquireCancelled
<1>11. CASE Granted(j)
  BY <1>11 DEF Granted
<1>12. CASE GrantedTooLate(j)
  <2>1. holders' \subseteq Jobs /\ waiters' \in Seq(Jobs)
    BY <1>12, ReleaseSlotType DEF GrantedTooLate
  <2> QED BY <1>12, <1>b, <2>1 DEF GrantedTooLate
<1>13. CASE QueueCancelled(j)
  <2>1. PICK i \in 1..Len(waiters) :
          waiters' = SubSeq(waiters, 1, i - 1) \o SubSeq(waiters, i + 1, Len(waiters))
    BY <1>13 DEF QueueCancelled
  <2>2. waiters' \in Seq(Jobs)
    <3> HIDE DEF Goto, SetErr, DelayHasRetry
    <3>1. waiters \in Seq(Jobs) OBVIOUS
    <3>2. SubSeq(waiters, 1, i - 1) \o SubSeq(waiters, i + 1, Len(waiters)) \in Seq(Jobs)
      BY ONLY <3>1, CutType
    <3> QED BY <2>1, <3>2
  <2> QED BY <1>13, <1>b, <2>2 DEF QueueCancelled
<1>14. CASE StartSolve(j)
  <2>1. <<"added">> \in Seq(Messages) OBVIOUS
  <2>2. sent' \in [Jobs -> Seq(Messages)] BY <1>14, <2>1, SendType DEF StartSolve
  <2> QED BY <1>14, <2>2 DEF StartSolve
<1>15. CASE DelayElapses(j)
  <2>1. attempt' \in [Jobs -> Nat] /\ \A k \in Jobs : attempt'[k] <= Retries[k]
    BY <1>15 DEF DelayElapses
  <2> QED BY <1>15, <2>1 DEF DelayElapses
<1>16. CASE DelayCancelled(j)
  <2>1. SolveCause(j) \in Errors BY DEF SolveCause, ErrKinds
  <2> QED BY <1>16, <2>1 DEF DelayCancelled
<1>17. CASE Classify(j)
  <2>1. SolveCause(j) \in Errors BY DEF SolveCause, ErrKinds
  <2>2. err' \in [Jobs -> Errors]
    <3>1. CASE SetErr(j, SolveCause(j)) BY <3>1, <2>1, <1>a
    <3>2. CASE SetErr(j, solveErr[j]) BY <3>2, <1>a
    <3> QED BY <1>17, <3>1, <3>2 DEF Classify
  <2>3. <<"timeout">> \in Seq(Messages) OBVIOUS
  <2>4. sent' \in [Jobs -> Seq(Messages)] BY <1>17, <2>3, SendType DEF Classify
  <2> QED BY <1>17, <2>2, <2>4 DEF Classify
<1>18. CASE NothingToExtract(j)
  BY <1>18 DEF NothingToExtract
<1>19. CASE Release(j)
  <2>1. holders' \subseteq Jobs /\ waiters' \in Seq(Jobs)
    BY <1>19, ReleaseSlotType DEF Release
  <2> QED BY <1>19, <2>1 DEF Release
<1>20. CASE CloseDone(j)
  BY <1>20 DEF CloseDone
<1>21. CASE Report(j)
  <2>1. cause' \in Errors /\ jobErrs' \subseteq Jobs BY <1>21 DEF Report
  <2> QED BY <1>21, <2>1 DEF Report
<1> QED
  BY <1>1, <1>2, <1>3, <1>4, <1>5, <1>6, <1>7, <1>8, <1>9, <1>10, <1>11, <1>12, <1>13,
     <1>14, <1>15, <1>16, <1>17, <1>18, <1>19, <1>20, <1>21 DEF NodeStep

LEMMA CallReturnsType ==
  ASSUME TypeInv, NEW j \in Jobs, SolveReturns(j) \/ ExtractReturns(j) \/ TimerFires(j)
  PROVE  TypeInv'
<1> USE JobsAssumption, DependsOnAssumption, OptionsAssumption, ErrFacts
<1> USE DEF TypeInv, TypeOK, DelayHasRetry, nodeVars, semVars, mainVars, Goto, SetErr,
            PCs, Messages
<1>a. SolveCause(j) \in Errors /\ Err("failed", j) \in Errors /\ Err("output", j) \in Errors
  BY DEF SolveCause, ErrKinds
<1>b. <<"done">> \in Seq(Messages) /\ SessionEnd(j) \in Seq(Messages)
      /\ SessionEnd(j) \o <<"retry">> \in Seq(Messages)
  BY SessionEndType
<1>1. CASE SolveSucceeds(j)
  <2>1. sent' \in [Jobs -> Seq(Messages)] BY <1>1, <1>b, SendType DEF SolveSucceeds
  <2> QED BY <1>1, <2>1 DEF SolveSucceeds
<1>2. CASE LastAttemptFails(j)
  <2>1. sent' \in [Jobs -> Seq(Messages)] BY <1>2, <1>b, SendType DEF LastAttemptFails
  <2> QED BY <1>2, <1>a, <2>1 DEF LastAttemptFails
<1>3. CASE AttemptFailsCancelled(j)
  <2>1. sent' \in [Jobs -> Seq(Messages)] BY <1>3, <1>b, SendType DEF AttemptFailsCancelled
  <2> QED BY <1>3, <1>a, <2>1 DEF AttemptFailsCancelled
<1>4. CASE AttemptFailsRetry(j)
  <2>1. sent' \in [Jobs -> Seq(Messages)] BY <1>4, <1>b, SendType DEF AttemptFailsRetry
  <2> QED BY <1>4, <2>1 DEF AttemptFailsRetry
<1>5. CASE ExtractSucceeds(j)
  BY <1>5 DEF ExtractSucceeds
<1>6. CASE ExtractFails(j)
  BY <1>6, <1>a DEF ExtractFails
<1>7. CASE TimerFires(j)
  BY <1>7 DEF TimerFires
<1> QED
  BY <1>1, <1>2, <1>3, <1>4, <1>5, <1>6, <1>7 DEF SolveReturns, ExtractReturns

LEMMA MainType ==
  ASSUME TypeInv, MainStep \/ CancelRun \/ \E i \in Items : ItemReturns(i)
  PROVE  TypeInv'
<1> USE ErrFacts DEF TypeInv, TypeOK, DelayHasRetry, jobVars, mainVars
<1>1. CASE FailFastReturn BY <1>1 DEF FailFastReturn
<1>2. CASE StartExports BY <1>2 DEF StartExports, Start
<1>3. CASE StartPublishes BY <1>3 DEF StartPublishes, Start
<1>4. CASE RejectPublishes BY <1>4 DEF RejectPublishes
<1>5. CASE FinishRun BY <1>5 DEF FinishRun, Joined
<1>6. CASE CancelRun BY <1>6 DEF CancelRun, ErrKinds
<1>7. ASSUME NEW i \in Items, ItemReturns(i) PROVE TypeInv'
  BY <1>7 DEF ItemReturns
<1> QED BY <1>1, <1>2, <1>3, <1>4, <1>5, <1>6, <1>7 DEF MainStep

LEMMA TypeInit == Init => TypeInv
BY JobsAssumption, OptionsAssumption, ErrFacts DEF Init, TypeInv, TypeOK, DelayHasRetry, PCs

LEMMA TypeStep ==
  ASSUME TypeInv, [Next]_vars
  PROVE  TypeInv'
<1>1. CASE UNCHANGED vars
  BY <1>1 DEF vars, TypeInv, TypeOK, DelayHasRetry
<1>2. ASSUME NEW j \in Jobs,
             NodeStep(j) \/ SolveReturns(j) \/ ExtractReturns(j) \/ TimerFires(j)
      PROVE  TypeInv'
  BY <1>2, NodeStepType, CallReturnsType
<1>3. CASE MainStep \/ CancelRun \/ \E i \in Items : ItemReturns(i)
  BY <1>3, MainType
<1>4. CASE Terminated
  BY <1>4, <1>1 DEF Terminated
<1> QED BY <1>1, <1>2, <1>3, <1>4 DEF Next

(* Type correctness of the scheduler; in particular retryJob's loop never     *)
(* makes more than 1 + Retry.Attempts attempts, whatever is cancelled when.   *)
THEOREM TypeCorrect == Spec => []TypeOK
<1>1. TypeInv => TypeOK
  BY DEF TypeInv
<1> QED BY <1>1, TypeInit, TypeStep, PTL DEF Spec

-----------------------------------------------------------------------------
(* Dependency order and the happens-before of the done channels.             *)

(* Where a node's fields may be set.  Its done channel is closed exactly in   *)
(* the last two places, an error and a skip are set only when the outcome is  *)
(* decided, and a job that may be solved, or that ended well, has passed its  *)
(* last dependency.                                                           *)
NodeLocal(j) ==
  /\ j \in done <=> pc[j] \in {"report", "returned"}
  /\ err[j] # NoErr => pc[j] \in Decided \cup {"release"}
  /\ j \in skipped => pc[j] \in Decided /\ err[j] = NoErr
  /\ Solvable(j) \/ (pc[j] \in Decided /\ Succeeded(j)) => depIdx[j] > Len(DependsOn[j])

AllLocal == \A j \in Jobs : NodeLocal(j)

(* The dependencies a node has passed succeeded before it went on. *)
DepsPassed ==
  \A j \in Jobs : \A i \in 1..Len(DependsOn[j]) :
    i < depIdx[j] => DependsOn[j][i] \in done /\ Succeeded(DependsOn[j][i])

OrderInv == TypeInv /\ AllLocal /\ DepsPassed

(* A step that leaves closed nodes as they are. *)
DoneKept ==
  \A j \in done : /\ j \in done'
                  /\ err'[j] = err[j]
                  /\ (j \in skipped') <=> (j \in skipped)
                  /\ (j \in outputs') <=> (j \in outputs)

(* A node's step keeps every node's fields in place and touches no node whose *)
(* channel is closed.                                                         *)
LEMMA NodeStepLocal ==
  ASSUME TypeInv, AllLocal, NEW j \in Jobs, NodeStep(j)
  PROVE  AllLocal' /\ DoneKept
<1> USE DependsOnAssumption
<1> USE DEF TypeInv, TypeOK, AllLocal, NodeLocal, DoneKept, nodeVars, semVars, mainVars,
            Goto, SetErr, PCs, Decided, Owning, Solvable, Succeeded
<1>b. Err("cancelled", j) # NoErr /\ Err("when", j) # NoErr
  BY DEF Err, NoErr
<1>1. CASE DepFailed(j)
  <2>1. AwaitedDep(j) \in Jobs BY <1>1 DEF DepFailed, Waiting, AwaitedDep
  <2> QED BY <1>1, <2>1 DEF DepFailed, Waiting
<1>2. CASE DepSkipped(j) BY <1>2 DEF DepSkipped, Waiting
<1>3. CASE DepSucceeded(j) BY <1>3 DEF DepSucceeded, Waiting
<1>4. CASE DepWaitCancelled(j) BY <1>4, <1>b DEF DepWaitCancelled, Waiting
<1>5. CASE WhenTrue(j) BY <1>5 DEF WhenTrue, DepsReady
<1>6. CASE WhenFalse(j) BY <1>6 DEF WhenFalse, DepsReady
<1>7. CASE WhenError(j) BY <1>7, <1>b DEF WhenError, DepsReady
<1>8. CASE AcquireFree(j) BY <1>8 DEF AcquireFree
<1>9. CASE AcquireQueue(j) BY <1>9 DEF AcquireQueue
<1>10. CASE AcquireCancelled(j) BY <1>10, <1>b DEF AcquireCancelled
<1>11. CASE Granted(j) BY <1>11 DEF Granted
<1>12. CASE GrantedTooLate(j) BY <1>12, <1>b DEF GrantedTooLate
<1>13. CASE QueueCancelled(j) BY <1>13, <1>b DEF QueueCancelled
<1>14. CASE StartSolve(j) BY <1>14 DEF StartSolve
<1>15. CASE DelayElapses(j) BY <1>15 DEF DelayElapses
<1>16. CASE DelayCancelled(j) BY <1>16 DEF DelayCancelled
<1>17. CASE Classify(j) BY <1>17 DEF Classify
<1>18. CASE NothingToExtract(j) BY <1>18 DEF NothingToExtract
<1>19. CASE Release(j) BY <1>19 DEF Release
<1>20. CASE CloseDone(j) BY <1>20 DEF CloseDone
<1>21. CASE Report(j) BY <1>21 DEF Report
<1> QED
  BY <1>1, <1>2, <1>3, <1>4, <1>5, <1>6, <1>7, <1>8, <1>9, <1>10, <1>11, <1>12, <1>13,
     <1>14, <1>15, <1>16, <1>17, <1>18, <1>19, <1>20, <1>21 DEF NodeStep

LEMMA CallReturnsLocal ==
  ASSUME TypeInv, AllLocal, NEW j \in Jobs,
         SolveReturns(j) \/ ExtractReturns(j) \/ TimerFires(j)
  PROVE  AllLocal' /\ DoneKept
<1> USE DependsOnAssumption
<1> USE DEF TypeInv, TypeOK, AllLocal, NodeLocal, DoneKept, nodeVars, semVars, mainVars,
            Goto, SetErr, PCs, Decided, Owning, Solvable, Succeeded
<1>1. CASE SolveSucceeds(j) BY <1>1 DEF SolveSucceeds
<1>2. CASE LastAttemptFails(j) BY <1>2 DEF LastAttemptFails, AttemptFailed
<1>3. CASE AttemptFailsCancelled(j) BY <1>3 DEF AttemptFailsCancelled, AttemptFailed
<1>4. CASE AttemptFailsRetry(j) BY <1>4 DEF AttemptFailsRetry, AttemptFailed
<1>5. CASE ExtractSucceeds(j) BY <1>5 DEF ExtractSucceeds
<1>6. CASE ExtractFails(j)
  <2>1. Err("output", j) # NoErr BY DEF Err, NoErr
  <2> QED BY <1>6, <2>1 DEF ExtractFails
<1>7. CASE TimerFires(j) BY <1>7 DEF TimerFires
<1> QED
  BY <1>1, <1>2, <1>3, <1>4, <1>5, <1>6, <1>7 DEF SolveReturns, ExtractReturns

(* Only DepSucceeded moves a node past a dependency. *)
LEMMA DepIdxSteps ==
  ASSUME TypeInv, [Next]_vars
  PROVE  \/ depIdx' = depIdx
         \/ \E j \in Jobs : DepSucceeded(j)
<1> USE DEF vars, jobVars, nodeVars
<1>1. ASSUME NEW j \in Jobs, NodeStep(j), ~DepSucceeded(j) PROVE depIdx' = depIdx
  BY <1>1 DEF NodeStep, DepFailed, DepSkipped, DepWaitCancelled, WhenTrue, WhenFalse,
     WhenError, AcquireFree, AcquireQueue, AcquireCancelled, Granted, GrantedTooLate,
     QueueCancelled, StartSolve, DelayElapses, DelayCancelled, Classify,
     NothingToExtract, Release, CloseDone, Report
<1>2. ASSUME NEW j \in Jobs, SolveReturns(j) \/ ExtractReturns(j) \/ TimerFires(j)
      PROVE depIdx' = depIdx
  BY <1>2 DEF SolveReturns, SolveSucceeds, LastAttemptFails, AttemptFailsCancelled,
     AttemptFailsRetry, ExtractReturns, ExtractSucceeds, ExtractFails, TimerFires
<1>3. CASE MainStep \/ CancelRun \/ \E i \in Items : ItemReturns(i)
  BY <1>3 DEF MainStep, FailFastReturn, StartExports, StartPublishes, RejectPublishes,
     FinishRun, CancelRun, ItemReturns
<1> QED BY <1>1, <1>2, <1>3 DEF Next, Terminated

(* The inductive step of both theorems below. *)
LEMMA OrderStep ==
  ASSUME OrderInv, [Next]_vars
  PROVE  OrderInv' /\ DoneKept
<1>1. TypeInv'
  BY TypeStep DEF OrderInv
<1>2. AllLocal' /\ DoneKept
  <2>1. CASE UNCHANGED <<pc, depIdx, err, skipped, outputs, done>>
    BY <2>1 DEF OrderInv, AllLocal, NodeLocal, DoneKept, Solvable, Succeeded
  <2>2. CASE \E j \in Jobs : NodeStep(j) \/ SolveReturns(j) \/ ExtractReturns(j) \/ TimerFires(j)
    BY <2>2, NodeStepLocal, CallReturnsLocal DEF OrderInv
  <2>3. CASE MainStep \/ CancelRun \/ \E i \in Items : ItemReturns(i)
    BY <2>3, <2>1 DEF MainStep, FailFastReturn, StartExports, StartPublishes,
       RejectPublishes, FinishRun, CancelRun, ItemReturns, jobVars
  <2>4. CASE UNCHANGED vars
    BY <2>4, <2>1 DEF vars
  <2> QED BY <2>2, <2>3, <2>4 DEF Next, Terminated
<1>3. DepsPassed'
  <2> SUFFICES ASSUME NEW j \in Jobs, NEW i \in 1..Len(DependsOn[j]), i < depIdx'[j]
               PROVE  DependsOn[j][i] \in done' /\ Succeeded(DependsOn[j][i])'
    BY DEF DepsPassed
  <2> DEFINE d == DependsOn[j][i]
  <2>1. d \in Jobs BY DependsOnAssumption
  <2>2. d \in done /\ Succeeded(d)
    <3>1. CASE depIdx' = depIdx
      BY <3>1 DEF OrderInv, DepsPassed
    <3>2. ASSUME NEW k \in Jobs, DepSucceeded(k) PROVE d \in done /\ Succeeded(d)
      <4>1. CASE i < depIdx[j]
        BY <4>1 DEF OrderInv, DepsPassed
      <4>2. CASE ~(i < depIdx[j])
        <5>1. k = j /\ i = depIdx[j]
          BY <3>2, <4>2 DEF DepSucceeded, OrderInv, TypeInv, TypeOK
        <5> QED BY <3>2, <5>1 DEF DepSucceeded, AwaitedDep
      <4> QED BY <4>1, <4>2
    <3> QED BY <3>1, <3>2, DepIdxSteps DEF OrderInv
  <2> QED BY <1>2, <2>1, <2>2 DEF DoneKept, Succeeded
<1> QED BY <1>1, <1>2, <1>3 DEF OrderInv

LEMMA OrderInit == Init => OrderInv
<1> SUFFICES ASSUME Init PROVE OrderInv
  OBVIOUS
<1>1. TypeInv BY TypeInit
<1>2. AllLocal
  BY DEF Init, AllLocal, NodeLocal, Decided, Owning, Solvable
<1>3. DepsPassed
  BY DependsOnAssumption DEF Init, DepsPassed
<1> QED BY <1>1, <1>2, <1>3 DEF OrderInv

(* A node past its last dependency has seen each of them end well. *)
LEMMA PassedDeps ==
  ASSUME OrderInv, NEW j \in Jobs, depIdx[j] > Len(DependsOn[j]), NEW d \in Deps(j)
  PROVE  d \in done /\ Succeeded(d)
<1>1. PICK i \in 1..Len(DependsOn[j]) : d = DependsOn[j][i]
  BY DependsOnAssumption DEF Deps, Range
<1>2. i < depIdx[j]
  BY DependsOnAssumption DEF OrderInv, TypeInv, TypeOK
<1> QED BY <1>1, <1>2 DEF OrderInv, DepsPassed

(* runNode's first promise, for every graph: a job reaches the semaphore, and *)
(* ends well, only after every dependency closed its done channel without     *)
(* error and without a skip.                                                  *)
THEOREM DependencyOrder == Spec => []DepsBeforeSolve
<1>1. OrderInv => DepsBeforeSolve
  <2> SUFFICES ASSUME OrderInv, NEW j \in Jobs,
                      Solvable(j) \/ (pc[j] \in Decided /\ Succeeded(j)),
                      NEW d \in Deps(j)
               PROVE  d \in done /\ Succeeded(d)
    BY DEF DepsBeforeSolve
  <2>1. depIdx[j] > Len(DependsOn[j])
    BY DEF OrderInv, AllLocal, NodeLocal
  <2> QED BY <2>1, PassedDeps
<1> QED BY <1>1, OrderInit, OrderStep, PTL DEF Spec

(* What a node wrote is final once its done channel is closed: dependents and *)
(* the main goroutine read err, skipped and outputs without a lock.           *)
THEOREM ClosedNodesAreFinal == Spec => DoneIsFinal
<1>1. OrderInv /\ [Next]_vars =>
        [\A j \in done : /\ j \in done'
                         /\ err'[j] = err[j]
                         /\ (j \in skipped') <=> (j \in skipped)
                         /\ (j \in outputs') <=> (j \in outputs)]_vars
  BY OrderStep DEF DoneKept
<1> QED BY <1>1, OrderInit, OrderStep, PTL DEF Spec, DoneIsFinal

-----------------------------------------------------------------------------
(* The semaphore: parallelism is respected and no wakeup is lost.            *)

(* Who holds a slot and who queues.  A holder owns the slot or was handed it  *)
(* while it is still blocked in Acquire; a waiter is blocked in Acquire, has  *)
(* no slot and is in the queue once.                                          *)
SlotOwners ==
  /\ \A j \in Jobs : pc[j] \in Owning => j \in holders
  /\ \A j \in holders : pc[j] \in Owning \cup {"queued"}

Queue ==
  /\ \A i \in 1..Len(waiters) : pc[waiters[i]] = "queued" /\ waiters[i] \notin holders
  /\ \A i, k \in 1..Len(waiters) : waiters[i] = waiters[k] => i = k

SlotCount ==
  /\ Cardinality(holders) <= Limit
  /\ waiters # << >> => Cardinality(holders) = Limit

SlotInv == SlotOwners /\ Queue /\ SlotCount

LEMMA LimitType == Limit \in Nat
BY FS_CardinalityType, JobsAssumption, OptionsAssumption DEF Limit

LEMMA HoldersFinite ==
  ASSUME TypeInv
  PROVE  IsFiniteSet(holders) /\ Cardinality(holders) \in Nat
BY FS_Subset, FS_CardinalityType, JobsAssumption DEF TypeInv, TypeOK

(* What is left of a sequence when its i-th element is cut out. *)
LEMMA CutElements ==
  ASSUME NEW S, NEW s \in Seq(S), NEW i \in 1..Len(s), NEW t,
         t = SubSeq(s, 1, i - 1) \o SubSeq(s, i + 1, Len(s))
  PROVE  /\ t \in Seq(S)
         /\ Len(t) = Len(s) - 1
         /\ \A k \in 1..Len(t) : t[k] = IF k < i THEN s[k] ELSE s[k + 1]
<1> DEFINE a == SubSeq(s, 1, i - 1)
           b == SubSeq(s, i + 1, Len(s))
<1>1. a \in Seq(S) /\ Len(a) = i - 1 /\ \A k \in 1..Len(a) : a[k] = s[k]
  OBVIOUS
<1>2. b \in Seq(S) /\ Len(b) = Len(s) - i /\ \A k \in 1..Len(b) : b[k] = s[k + i]
  OBVIOUS
<1> HIDE DEF a, b
<1>3. t = a \o b BY DEF a, b
<1>4. t \in Seq(S) /\ Len(t) = Len(a) + Len(b)
  BY ONLY <1>1, <1>2, <1>3, ConcatProperties
<1>5. \A k \in 1..(Len(a) + Len(b)) : (a \o b)[k] = IF k <= Len(a) THEN a[k] ELSE b[k - Len(a)]
  BY <1>1, <1>2, ConcatProperties
<1>6. i \in Nat /\ Len(s) \in Nat /\ i <= Len(s) /\ 1 <= i
  OBVIOUS
<1>7. Len(t) = Len(s) - 1
  BY ONLY <1>1, <1>2, <1>4, <1>6
<1>8. ASSUME NEW k \in 1..Len(t) PROVE t[k] = IF k < i THEN s[k] ELSE s[k + 1]
  <2>0. k \in Nat /\ 1 <= k /\ k <= Len(s) - 1 /\ k \in 1..(Len(a) + Len(b))
    BY ONLY <1>4, <1>6, <1>7, <1>8
  <2>1. CASE k < i
    <3>1. k \in 1..Len(a) /\ k <= Len(a) BY ONLY <2>0, <2>1, <1>1, <1>6
    <3>2. t[k] = a[k] BY ONLY <2>0, <3>1, <1>3, <1>5
    <3> QED BY ONLY <2>1, <3>1, <3>2, <1>1
  <2>2. CASE ~(k < i)
    <3>1. k - Len(a) \in 1..Len(b) /\ ~(k <= Len(a)) BY ONLY <2>0, <2>2, <1>1, <1>2, <1>6
    <3>2. t[k] = b[k - Len(a)] BY ONLY <2>0, <3>1, <1>3, <1>5
    <3>3. b[k - Len(a)] = s[(k - Len(a)) + i] BY ONLY <3>1, <1>2
    <3>4. (k - Len(a)) + i = k + 1 BY ONLY <2>0, <1>1, <1>6
    <3> QED BY ONLY <2>2, <3>2, <3>3, <3>4
  <2> QED BY <2>1, <2>2
<1> QED BY <1>4, <1>7, <1>8

(* A step of a job that neither takes nor gives back a slot. *)
LEMMA SlotsKept ==
  ASSUME TypeInv, SlotInv, NEW j \in Jobs, NEW l, Goto(j, l), UNCHANGED semVars,
         \/ pc[j] \in Owning /\ l \in Owning
         \/ pc[j] \notin Owning \cup {"queued"} /\ l \notin Owning
         \/ pc[j] = "queued" /\ j \in holders /\ l \in Owning
  PROVE  SlotInv'
<1>1. SlotOwners'
  BY DEF TypeInv, TypeOK, SlotInv, SlotOwners, Goto, semVars, Owning
<1>2. Queue'
  BY DEF TypeInv, TypeOK, SlotInv, SlotOwners, Queue, Goto, semVars, Owning
<1>3. SlotCount'
  BY DEF SlotInv, SlotCount, semVars
<1> QED BY <1>1, <1>2, <1>3 DEF SlotInv

(* Release: the slot becomes free, or goes to the front of the queue. *)
LEMMA SlotReleased ==
  ASSUME TypeInv, SlotInv, NEW j \in Jobs, j \in holders, Goto(j, "close"), ReleaseSlot(j)
  PROVE  SlotInv'
<1>1. CASE waiters = << >>
  <2>1. holders' = holders \ {j} /\ waiters' = waiters BY <1>1 DEF ReleaseSlot
  <2>2. SlotOwners'
    BY <2>1 DEF TypeInv, TypeOK, SlotInv, SlotOwners, Goto, Owning
  <2>3. Queue'
    BY <1>1, <2>1 DEF Queue
  <2>4. SlotCount'
    <3>1. Cardinality(holders \ {j}) = Cardinality(holders) - 1
      BY HoldersFinite, FS_RemoveElement
    <3> QED BY <1>1, <2>1, <3>1, HoldersFinite, LimitType DEF SlotInv, SlotCount
  <2> QED BY <2>2, <2>3, <2>4 DEF SlotInv
<1>2. CASE waiters # << >>
  <2> DEFINE h == Head(waiters)
  <2>1. /\ h = waiters[1] /\ 1 \in 1..Len(waiters)
        /\ Len(Tail(waiters)) = Len(waiters) - 1
        /\ \A k \in 1..Len(Tail(waiters)) : Tail(waiters)[k] = waiters[k + 1]
    BY <1>2 DEF TypeInv, TypeOK
  <2>2. h \in Jobs /\ pc[h] = "queued" /\ h \notin holders /\ h # j
    BY <2>1 DEF SlotInv, Queue, TypeInv, TypeOK
  <2>3. holders' = (holders \ {j}) \cup {h} /\ waiters' = Tail(waiters)
    BY <1>2 DEF ReleaseSlot
  <2> HIDE DEF h
  <2>4. SlotOwners'
    BY <2>2, <2>3 DEF TypeInv, TypeOK, SlotInv, SlotOwners, Goto, Owning
  <2>5. Queue'
    <3>1. ASSUME NEW k \in 1..Len(waiters')
          PROVE  /\ k + 1 \in 1..Len(waiters) /\ waiters'[k] = waiters[k + 1]
                 /\ waiters'[k] \in Jobs /\ waiters'[k] # h /\ waiters'[k] \notin holders
                 /\ pc[waiters'[k]] = "queued"
      <4>0. Len(waiters) \in Nat /\ \A m \in 1..Len(waiters) : waiters[m] \in Jobs
        BY DEF TypeInv, TypeOK
      <4>1. k + 1 \in 1..Len(waiters) /\ k + 1 # 1 /\ waiters'[k] = waiters[k + 1]
        BY <4>0, <2>1, <2>3
      <4>2. waiters[k + 1] # waiters[1]
        BY <4>1, <2>1 DEF SlotInv, Queue
      <4> QED BY <4>0, <4>1, <4>2, <2>1 DEF SlotInv, Queue, h
    <3>2. ASSUME NEW k \in 1..Len(waiters')
          PROVE  pc'[waiters'[k]] = "queued" /\ waiters'[k] \notin holders'
      BY <3>1, <2>3 DEF Goto, TypeInv, TypeOK
    <3>3. ASSUME NEW k \in 1..Len(waiters'), NEW m \in 1..Len(waiters'),
                 waiters'[k] = waiters'[m]
          PROVE  k = m
      <4>1. k + 1 \in 1..Len(waiters) /\ m + 1 \in 1..Len(waiters)
            /\ waiters[k + 1] = waiters[m + 1]
        BY <3>1, <3>3
      <4>2. k + 1 = m + 1
        BY <4>1 DEF SlotInv, Queue
      <4> QED BY <4>2
    <3> QED BY <3>2, <3>3 DEF Queue
  <2>6. SlotCount'
    <3>1. Cardinality(holders \ {j}) = Cardinality(holders) - 1 /\ IsFiniteSet(holders \ {j})
      BY HoldersFinite, FS_RemoveElement
    <3>2. Cardinality((holders \ {j}) \cup {h}) = Cardinality(holders \ {j}) + 1
      BY <3>1, <2>2, FS_AddElement
    <3> QED BY <1>2, <2>3, <3>1, <3>2, HoldersFinite, LimitType DEF SlotInv, SlotCount
  <2> QED BY <2>4, <2>5, <2>6 DEF SlotInv
<1> QED BY <1>1, <1>2

LEMMA SlotTaken ==
  ASSUME TypeInv, SlotInv, NEW j \in Jobs, AcquireFree(j)
  PROVE  SlotInv'
<1> USE DEF AcquireFree, Goto
<1>1. j \notin holders BY DEF SlotInv, SlotOwners, Owning
<1>2. SlotOwners'
  BY DEF TypeInv, TypeOK, SlotInv, SlotOwners, Owning
<1>3. Queue'
  BY DEF Queue
<1>4. SlotCount'
  <2>1. Cardinality(holders \cup {j}) = Cardinality(holders) + 1
    BY <1>1, HoldersFinite, FS_AddElement
  <2> QED BY <2>1, HoldersFinite, LimitType DEF SlotCount
<1> QED BY <1>2, <1>3, <1>4 DEF SlotInv

LEMMA SlotQueued ==
  ASSUME TypeInv, SlotInv, NEW j \in Jobs, AcquireQueue(j)
  PROVE  SlotInv'
<1> USE DEF AcquireQueue, Goto
<1>1. j \notin holders BY DEF SlotInv, SlotOwners, Owning
<1>2. SlotOwners'
  BY DEF TypeInv, TypeOK, SlotInv, SlotOwners, Owning
<1>3. /\ Len(waiters') = Len(waiters) + 1
      /\ waiters'[Len(waiters) + 1] = j
      /\ \A k \in 1..Len(waiters) : waiters'[k] = waiters[k]
  BY DEF TypeInv, TypeOK
<1>4. \A k \in 1..Len(waiters) : waiters[k] # j /\ waiters[k] \in Jobs
  BY DEF SlotInv, Queue, TypeInv, TypeOK
<1>5. Queue'
  <2>0. Len(waiters) \in Nat BY DEF TypeInv, TypeOK
  <2>1. ASSUME NEW k \in 1..Len(waiters')
        PROVE  pc'[waiters'[k]] = "queued" /\ waiters'[k] \notin holders'
    <3>1. CASE k = Len(waiters) + 1 BY <3>1, <1>1, <1>3 DEF TypeInv, TypeOK
    <3>2. CASE k \in 1..Len(waiters)
      BY <3>2, <1>3, <1>4 DEF SlotInv, Queue, TypeInv, TypeOK
    <3> QED BY <3>1, <3>2, <1>3, <2>0
  <2>2. ASSUME NEW k \in 1..Len(waiters'), NEW m \in 1..Len(waiters'), waiters'[k] = waiters'[m]
        PROVE  k = m
    BY <2>0, <2>2, <1>3, <1>4 DEF SlotInv, Queue
  <2> QED BY <2>1, <2>2 DEF Queue
<1>6. SlotCount'
  BY HoldersFinite, LimitType DEF SlotInv, SlotCount
<1> QED BY <1>2, <1>5, <1>6 DEF SlotInv

LEMMA QueueLeft ==
  ASSUME TypeInv, SlotInv, NEW j \in Jobs, QueueCancelled(j)
  PROVE  SlotInv'
<1>1. PICK i \in 1..Len(waiters) :
        waiters[i] = j /\ waiters' = SubSeq(waiters, 1, i - 1) \o SubSeq(waiters, i + 1, Len(waiters))
  BY DEF QueueCancelled
<1>2. waiters \in Seq(Jobs) BY DEF TypeInv, TypeOK
<1>3. /\ waiters' \in Seq(Jobs) /\ Len(waiters') = Len(waiters) - 1
      /\ \A k \in 1..Len(waiters') : waiters'[k] = IF k < i THEN waiters[k] ELSE waiters[k + 1]
  BY <1>1, <1>2, CutElements
<1>4. pc' = [pc EXCEPT ![j] = "close"] /\ holders' = holders /\ j \notin holders
  BY <1>1 DEF QueueCancelled, Goto, SlotInv, Queue
<1>5. SlotOwners'
  BY <1>4 DEF TypeInv, TypeOK, SlotInv, SlotOwners, Owning
<1>6. Queue'
  <2> DEFINE o(k) == IF k < i THEN k ELSE k + 1
  <2>1. ASSUME NEW k \in 1..Len(waiters')
        PROVE  o(k) \in 1..Len(waiters) /\ o(k) # i /\ waiters'[k] = waiters[o(k)]
    BY <1>2, <1>3
  <2>2. ASSUME NEW k \in 1..Len(waiters')
        PROVE  pc'[waiters'[k]] = "queued" /\ waiters'[k] \notin holders'
    <3>1. waiters[o(k)] # j /\ waiters[o(k)] \in Jobs
      <4> HIDE DEF o
      <4>1. \A m \in 1..Len(waiters) : waiters[m] \in Jobs BY <1>2
      <4> QED BY <1>1, <2>1, <4>1 DEF SlotInv, Queue
    <3>2. pc[waiters[o(k)]] = "queued" /\ waiters[o(k)] \notin holders
      BY <2>1 DEF SlotInv, Queue
    <3> HIDE DEF o
    <3> QED BY <1>4, <2>1, <3>1, <3>2 DEF TypeInv, TypeOK
  <2>3. ASSUME NEW k \in 1..Len(waiters'), NEW m \in 1..Len(waiters'), waiters'[k] = waiters'[m]
        PROVE  k = m
    <3>1. o(k) = o(m)
      <4> HIDE DEF o
      <4> QED BY <2>1, <2>3 DEF SlotInv, Queue
    <3> QED BY <3>1, <1>2, <1>3
  <2> QED BY <2>2, <2>3 DEF Queue
<1>7. SlotCount'
  BY <1>1, <1>2, <1>4 DEF SlotInv, SlotCount
<1> QED BY <1>5, <1>6, <1>7 DEF SlotInv

LEMMA SlotStep ==
  ASSUME TypeInv, SlotInv, [Next]_vars
  PROVE  SlotInv'
<1>0. CASE UNCHANGED <<pc, holders, waiters>>
  BY <1>0 DEF SlotInv, SlotOwners, Queue, SlotCount
<1>1. ASSUME NEW j \in Jobs, NodeStep(j) PROVE SlotInv'
  <2> USE DEF Owning, semVars
  <2>1. CASE DepFailed(j) BY <2>1, SlotsKept DEF DepFailed, Waiting
  <2>2. CASE DepSkipped(j) BY <2>2, SlotsKept DEF DepSkipped, Waiting
  <2>3. CASE DepSucceeded(j) BY <2>3, <1>0 DEF DepSucceeded
  <2>4. CASE DepWaitCancelled(j) BY <2>4, SlotsKept DEF DepWaitCancelled, Waiting
  <2>5. CASE WhenTrue(j) BY <2>5, SlotsKept DEF WhenTrue, DepsReady
  <2>6. CASE WhenFalse(j) BY <2>6, SlotsKept DEF WhenFalse, DepsReady
  <2>7. CASE WhenError(j) BY <2>7, SlotsKept DEF WhenError, DepsReady
  <2>8. CASE AcquireFree(j) BY <2>8, SlotTaken
  <2>9. CASE AcquireQueue(j) BY <2>9, SlotQueued
  <2>10. CASE AcquireCancelled(j) BY <2>10, SlotsKept DEF AcquireCancelled
  <2>11. CASE Granted(j) BY <2>11, SlotsKept DEF Granted
  <2>12. CASE GrantedTooLate(j) BY <2>12, SlotReleased DEF GrantedTooLate
  <2>13. CASE QueueCancelled(j) BY <2>13, QueueLeft
  <2>14. CASE StartSolve(j) BY <2>14, SlotsKept DEF StartSolve
  <2>15. CASE DelayElapses(j) BY <2>15, SlotsKept DEF DelayElapses
  <2>16. CASE DelayCancelled(j) BY <2>16, SlotsKept DEF DelayCancelled
  <2>17. CASE Classify(j) BY <2>17, SlotsKept DEF Classify
  <2>18. CASE NothingToExtract(j) BY <2>18, SlotsKept DEF NothingToExtract
  <2>19. CASE Release(j)
    BY <2>19, SlotReleased DEF Release, SlotInv, SlotOwners
  <2>20. CASE CloseDone(j) BY <2>20, SlotsKept DEF CloseDone
  <2>21. CASE Report(j) BY <2>21, SlotsKept DEF Report
  <2> QED
    BY <1>1, <2>1, <2>2, <2>3, <2>4, <2>5, <2>6, <2>7, <2>8, <2>9, <2>10, <2>11, <2>12,
       <2>13, <2>14, <2>15, <2>16, <2>17, <2>18, <2>19, <2>20, <2>21 DEF NodeStep
<1>2. ASSUME NEW j \in Jobs, SolveReturns(j) \/ ExtractReturns(j) \/ TimerFires(j)
      PROVE  SlotInv'
  <2> USE DEF Owning, semVars
  <2>1. CASE SolveSucceeds(j) BY <2>1, SlotsKept DEF SolveSucceeds
  <2>2. CASE LastAttemptFails(j) BY <2>2, SlotsKept DEF LastAttemptFails, AttemptFailed
  <2>3. CASE AttemptFailsCancelled(j)
    BY <2>3, SlotsKept DEF AttemptFailsCancelled, AttemptFailed
  <2>4. CASE AttemptFailsRetry(j) BY <2>4, SlotsKept DEF AttemptFailsRetry, AttemptFailed
  <2>5. CASE ExtractSucceeds(j) BY <2>5, SlotsKept DEF ExtractSucceeds
  <2>6. CASE ExtractFails(j) BY <2>6, SlotsKept DEF ExtractFails
  <2>7. CASE TimerFires(j) BY <2>7, <1>0 DEF TimerFires
  <2> QED
    BY <1>2, <2>1, <2>2, <2>3, <2>4, <2>5, <2>6, <2>7 DEF SolveReturns, ExtractReturns
<1>3. CASE MainStep \/ CancelRun \/ \E i \in Items : ItemReturns(i)
  BY <1>3, <1>0 DEF MainStep, FailFastReturn, StartExports, StartPublishes,
     RejectPublishes, FinishRun, CancelRun, ItemReturns, jobVars
<1>4. CASE UNCHANGED vars
  BY <1>4, <1>0 DEF vars
<1> QED BY <1>1, <1>2, <1>3, <1>4 DEF Next, Terminated

LEMMA SlotInit == Init => SlotInv
<1> SUFFICES ASSUME Init PROVE SlotInv
  OBVIOUS
<1>1. Cardinality(holders) = 0 BY FS_EmptySet DEF Init
<1> QED BY <1>1, LimitType DEF Init, SlotInv, SlotOwners, Queue, SlotCount, Owning

(* At most Limit jobs own a slot, every job that solves owns one, and a job   *)
(* never queues while a slot is free: Release and the two ways a queued job   *)
(* gives up hand every slot on.                                               *)
THEOREM SlotSafety == Spec => []SlotsConserved
<1>1. SlotInv => SlotsConserved
  BY DEF SlotInv, SlotOwners, SlotCount, SlotsConserved
<1> QED BY <1>1, SlotInit, TypeInit, TypeStep, SlotStep, PTL DEF Spec

-----------------------------------------------------------------------------
(***************************************************************************)
(* What a run reports and delivers: the outputs a condition reads, whose   *)
(* failure a job's error is, the order of the display messages, what is    *)
(* exported and published, what Run returns, and that the scheduler        *)
(* implements DagRun.                                                      *)
(***************************************************************************)


(* The job's goroutine got past the solve without an error or a skip. *)
EndedWell(j) == pc[j] \in Decided \cup {"release"} /\ Succeeded(j)

LastMessage(j) == sent[j][Len(sent[j])]

-----------------------------------------------------------------------------
(* The inductive invariant, in parts.                                        *)

(* retryJob leaves only with an error, and a solve that went well leaves the  *)
(* outputs behind that the job has.                                           *)
OutputsWritten(j) ==
  /\ pc[j] = "classify" => solveErr[j] # NoErr
  /\ pc[j] = "outputs" /\ j \in StepJobs => j \in outputs
  /\ EndedWell(j) /\ j \in OutputJobs \cup StepJobs => j \in outputs

(* The pairs of messages that may follow each other. *)
Follows ==
  {<<"added", "done">>, <<"done", "retry">>, <<"retry", "added">>,
   <<"retry", "retry">>, <<"done", "timeout">>, <<"retry", "timeout">>}

(* A job's last message says where its goroutine is. *)
LastSays(j) ==
  /\ pc[j] \in {"deps", "acquire", "queued"} => sent[j] = << >>
  /\ sent[j] # << >> =>
       /\ pc[j] \in {"solve", "delay"} => LastMessage(j) = "retry"
       /\ pc[j] = "solving" => LastMessage(j) = "added"
       /\ pc[j] = "classify" => LastMessage(j) \in {"done", "retry"}
       /\ pc[j] \in {"release"} \cup Decided => LastMessage(j) # "added"
  /\ pc[j] = "outputs" \/ EndedWell(j) => sent[j] # << >> /\ LastMessage(j) = "done"
  /\ pc[j] = "solving" => sent[j] # << >>
  /\ pc[j] \in {"delay", "classify"} /\ j \notin NilDefinitionJobs => sent[j] # << >>

InOrder(j, s) ==
  /\ \A k \in 1..(Len(s) - 1) : <<s[k], s[k + 1]>> \in Follows
  /\ s # << >> /\ j \notin NilDefinitionJobs => s[1] \in {"added", "skipped"}

(* Without fail-fast an error is the job's own, the caller's cancellation, or *)
(* a dependency's.                                                            *)
OwnError(j, e) == e = NoErr \/ e.job = j \/ (e.job = NoJob /\ cause.kind = "cancelled")

ErrorsOwned(j) ==
  /\ OwnError(j, solveErr[j])
  /\ OwnError(j, err[j]) \/ \E d \in Deps(j) : d \in done /\ err[j] = err[d]
  /\ \A k \in 1..Len(sent[j]) : sent[j][k] = "timeout" => j \in timedOut

CauseOfCaller == cause \in {NoErr, Err("cancelled", NoJob)}

Owned == ~failFast => CauseOfCaller /\ \A j \in Jobs : ErrorsOwned(j)

NodesInv ==
  /\ \A j \in Jobs : OutputsWritten(j) /\ LastSays(j) /\ InOrder(j, sent[j])
  /\ Owned

(* The goroutine that called Run goes on only when every job has returned;    *)
(* every selected item is started in its turn and none is left running.       *)
ErrorsKept ==
  /\ \A j \in jobErrs : pc[j] = "returned" /\ err[j] # NoErr
  /\ \A j \in Jobs : pc[j] = "returned" /\ err[j] # NoErr => jobErrs # {}

ItemsInTurn ==
  /\ main # "jobs" => AllReturned
  /\ main \in {"exports", "publishes"} => (failFast => jobErrs = {})
  /\ main = "jobs" => \A i \in Items : item[i] = "idle"
  /\ main = "exports" => /\ \A i \in Publishes : item[i] = "idle"
                         /\ \A i \in Exports : Selected(i) => item[i] # "idle"
  /\ main = "publishes" => /\ Idle(Exports)
                           /\ \A i \in Items : Selected(i) => item[i] # "idle"
  /\ main = "returned" => Idle(Items)
  /\ \A i \in Items : item[i] # "idle" => Selected(i) /\ (failFast => jobErrs = {})

MainInv == ErrorsKept /\ ItemsInTurn /\ RunReportsFailures

ResultInv == OrderInv /\ SlotInv /\ NodesInv /\ MainInv
-----------------------------------------------------------------------------
(* Frames and message sequences.                                             *)

(* A step of one job's goroutine leaves every other job and Run's goroutine   *)
(* as they are, and a goroutine that has returned takes no step.              *)
OthersKept(j) ==
  /\ pc[j] # "returned"
  /\ UNCHANGED mainVars
  /\ \A k \in Jobs \ {j} : /\ pc'[k] = pc[k]
                           /\ err'[k] = err[k]
                           /\ solveErr'[k] = solveErr[k]
                           /\ sent'[k] = sent[k]
                           /\ (k \in skipped') <=> (k \in skipped)
                           /\ (k \in outputs') <=> (k \in outputs)
                           /\ (k \in timedOut') <=> (k \in timedOut)

LEMMA NodeFrame ==
  ASSUME TypeInv, NEW j \in Jobs,
         NodeStep(j) \/ SolveReturns(j) \/ ExtractReturns(j) \/ TimerFires(j)
  PROVE  OthersKept(j)
<1> USE DEF TypeInv, TypeOK, nodeVars, mainVars, Goto, SetErr, Send, OthersKept
<1>1. CASE NodeStep(j)
  <2>1. CASE DepFailed(j) \/ DepSkipped(j) \/ DepSucceeded(j) \/ DepWaitCancelled(j)
    BY <2>1 DEF DepFailed, DepSkipped, DepSucceeded, DepWaitCancelled, Waiting
  <2>2. CASE WhenTrue(j) \/ WhenFalse(j) \/ WhenError(j)
    BY <2>2 DEF WhenTrue, WhenFalse, WhenError, DepsReady
  <2>3. CASE AcquireFree(j) \/ AcquireQueue(j) \/ AcquireCancelled(j) \/ Granted(j)
             \/ GrantedTooLate(j) \/ QueueCancelled(j)
    BY <2>3 DEF AcquireFree, AcquireQueue, AcquireCancelled, Granted, GrantedTooLate,
       QueueCancelled
  <2>4. CASE StartSolve(j) \/ DelayElapses(j) \/ DelayCancelled(j)
    BY <2>4 DEF StartSolve, DelayElapses, DelayCancelled
  <2>5. CASE Classify(j) BY <2>5 DEF Classify
  <2>6. CASE NothingToExtract(j) \/ Release(j) \/ CloseDone(j) \/ Report(j)
    BY <2>6 DEF NothingToExtract, Release, CloseDone, Report
  <2> QED BY <1>1, <2>1, <2>2, <2>3, <2>4, <2>5, <2>6 DEF NodeStep
<1>2. CASE SolveReturns(j)
  BY <1>2 DEF SolveReturns, SolveSucceeds, LastAttemptFails, AttemptFailsCancelled,
     AttemptFailsRetry, AttemptFailed
<1>3. CASE ExtractReturns(j) \/ TimerFires(j)
  BY <1>3 DEF ExtractReturns, ExtractSucceeds, ExtractFails, TimerFires
<1> QED BY <1>1, <1>2, <1>3

(* One more message that may follow the last one. *)
LEMMA OneMore ==
  ASSUME NEW j \in Jobs, NEW s \in Seq(Messages), NEW m \in Messages, InOrder(j, s),
         \/ s = << >> /\ (j \in NilDefinitionJobs \/ m \in {"added", "skipped"})
         \/ s # << >> /\ <<s[Len(s)], m>> \in Follows
  PROVE  LET t == s \o <<m>>
         IN  /\ t \in Seq(Messages) /\ t # << >> /\ t[Len(t)] = m
             /\ InOrder(j, t)
             /\ \A k \in 1..Len(t) : t[k] = m \/ \E i \in 1..Len(s) : t[k] = s[i]
<1> DEFINE t == s \o <<m>>
<1>1. t \in Seq(Messages) /\ Len(t) = Len(s) + 1 /\ t[Len(s) + 1] = m
      /\ \A k \in 1..Len(s) : t[k] = s[k]
  OBVIOUS
<1>2. Len(s) \in Nat /\ (s = << >> <=> Len(s) = 0)
  OBVIOUS
<1> HIDE DEF t
<1>3. t # << >> /\ t[Len(t)] = m
  BY <1>1, <1>2
<1>4. ASSUME NEW k \in 1..(Len(t) - 1) PROVE <<t[k], t[k + 1]>> \in Follows
  <2>1. CASE k = Len(s)
    BY <1>1, <1>2, <2>1
  <2>2. CASE k # Len(s)
    <3>1. k \in 1..(Len(s) - 1) /\ k \in 1..Len(s) /\ k + 1 \in 1..Len(s)
      BY <1>1, <1>2, <2>2
    <3> QED BY <1>1, <3>1 DEF InOrder
  <2> QED BY <2>1, <2>2
<1>5. t # << >> /\ j \notin NilDefinitionJobs => t[1] \in {"added", "skipped"}
  <2>1. CASE s = << >> BY <2>1, <1>1, <1>2
  <2>2. CASE s # << >>
    <3>1. 1 \in 1..Len(s) BY <1>2, <2>2
    <3> QED BY <1>1, <2>2, <3>1 DEF InOrder
  <2> QED BY <2>1, <2>2
<1>6. \A k \in 1..Len(t) : t[k] = m \/ \E i \in 1..Len(s) : t[k] = s[i]
  BY <1>1, <1>2
<1> QED BY <1>1, <1>3, <1>4, <1>5, <1>6 DEF t, InOrder
-----------------------------------------------------------------------------
(* The outputs of the job that takes the step.                               *)

LEMMA OutputsStep ==
  ASSUME TypeInv, NEW j \in Jobs, NodeLocal(j), OutputsWritten(j),
         NodeStep(j) \/ SolveReturns(j) \/ ExtractReturns(j) \/ TimerFires(j)
  PROVE  OutputsWritten(j)'
<1> USE OptionsAssumption
<1> USE DEF TypeInv, TypeOK, NodeLocal, OutputsWritten, EndedWell, Succeeded, Decided,
            nodeVars, mainVars, Goto, SetErr
<1>a. /\ Err("cancelled", j) # NoErr /\ Err("when", j) # NoErr
      /\ Err("failed", j) # NoErr /\ Err("output", j) # NoErr
  BY DEF Err, NoErr
<1>1. CASE NodeStep(j)
  <2>1. CASE DepFailed(j)
    BY <2>1 DEF DepFailed, Waiting
  <2>2. CASE DepSkipped(j) \/ DepSucceeded(j) \/ DepWaitCancelled(j)
    BY <2>2, <1>a DEF DepSkipped, DepSucceeded, DepWaitCancelled, Waiting
  <2>3. CASE WhenTrue(j) \/ WhenFalse(j) \/ WhenError(j)
    BY <2>3, <1>a DEF WhenTrue, WhenFalse, WhenError, DepsReady
  <2>4. CASE AcquireFree(j) \/ AcquireQueue(j) \/ AcquireCancelled(j) \/ Granted(j)
             \/ GrantedTooLate(j) \/ QueueCancelled(j)
    BY <2>4, <1>a DEF AcquireFree, AcquireQueue, AcquireCancelled, Granted,
       GrantedTooLate, QueueCancelled
  <2>5. CASE StartSolve(j) \/ DelayElapses(j) \/ DelayCancelled(j)
    BY <2>5 DEF StartSolve, DelayElapses, DelayCancelled
  <2>6. CASE Classify(j)
    <3>1. \A e : e.kind = "timeout" => e # NoErr BY DEF NoErr
    <3> QED BY <2>6, <3>1 DEF Classify
  <2>7. CASE NothingToExtract(j)
    BY <2>7 DEF NothingToExtract, NeedsExtraction
  <2>8. CASE Release(j) \/ CloseDone(j) \/ Report(j)
    BY <2>8 DEF Release, CloseDone, Report
  <2> QED BY <1>1, <2>1, <2>2, <2>3, <2>4, <2>5, <2>6, <2>7, <2>8 DEF NodeStep
<1>2. CASE SolveReturns(j)
  BY <1>2, <1>a DEF SolveReturns, SolveSucceeds, LastAttemptFails, AttemptFailsCancelled,
     AttemptFailsRetry, AttemptFailed
<1>3. CASE ExtractReturns(j) \/ TimerFires(j)
  BY <1>3, <1>a DEF ExtractReturns, ExtractSucceeds, ExtractFails, TimerFires
<1> QED BY <1>1, <1>2, <1>3

-----------------------------------------------------------------------------
(* The messages of the job that takes the step.                              *)

(* A timeout is announced only where runNode classifies a failed solve. *)
TimeoutsAnnounced(j) ==
  \A k \in 1..Len(sent'[j]) : sent'[j][k] = "timeout" =>
    \/ \E i \in 1..Len(sent[j]) : sent[j][i] = "timeout"
    \/ pc[j] = "classify" /\ SolveCause(j).kind = "timeout"

(* A step that sends nothing. *)
LEMMA NothingSent ==
  ASSUME TypeInv, NEW j \in Jobs, InOrder(j, sent[j]), UNCHANGED sent
  PROVE  InOrder(j, sent[j])' /\ TimeoutsAnnounced(j)
BY DEF InOrder, TimeoutsAnnounced

(* A step that sends one message. *)
LEMMA OneSent ==
  ASSUME TypeInv, NEW j \in Jobs, NEW m \in Messages, InOrder(j, sent[j]), Send(j, <<m>>),
         \/ sent[j] = << >> /\ (j \in NilDefinitionJobs \/ m \in {"added", "skipped"})
         \/ sent[j] # << >> /\ <<LastMessage(j), m>> \in Follows,
         m # "timeout" \/ (pc[j] = "classify" /\ SolveCause(j).kind = "timeout")
  PROVE  /\ InOrder(j, sent[j])' /\ TimeoutsAnnounced(j)
         /\ sent'[j] # << >> /\ LastMessage(j)' = m
<1>1. sent[j] \in Seq(Messages) /\ sent'[j] = sent[j] \o <<m>>
  BY DEF TypeInv, TypeOK, Send
<1> QED BY <1>1, OneMore DEF LastMessage, TimeoutsAnnounced

(* The end of a session and the retry message in one step. *)
LEMMA RetrySent ==
  ASSUME TypeInv, NEW j \in Jobs, InOrder(j, sent[j]), Send(j, SessionEnd(j) \o <<"retry">>),
         LastSays(j), AttemptFailed(j)
  PROVE  /\ InOrder(j, sent[j])' /\ TimeoutsAnnounced(j)
         /\ sent'[j] # << >> /\ LastMessage(j)' = "retry"
<1> USE DEF Messages
<1>1. sent[j] \in Seq(Messages)
  BY DEF TypeInv, TypeOK
<1>2. CASE pc[j] = "solving"
  <2> DEFINE s == sent[j] \o <<"done">>
  <2>1. /\ s \in Seq(Messages) /\ s # << >> /\ s[Len(s)] = "done" /\ InOrder(j, s)
        /\ \A k \in 1..Len(s) : s[k] = "done" \/ \E i \in 1..Len(sent[j]) : s[k] = sent[j][i]
    BY <1>1, <1>2, OneMore DEF LastSays, LastMessage, Follows
  <2>2. sent'[j] = s \o <<"retry">>
    <3>1. SessionEnd(j) = <<"done">> BY <1>2 DEF SessionEnd
    <3>2. sent'[j] = sent[j] \o (<<"done">> \o <<"retry">>)
      BY <3>1 DEF Send, TypeInv, TypeOK
    <3>3. sent[j] \o (<<"done">> \o <<"retry">>) = s \o <<"retry">>
      BY <1>1
    <3> QED BY <3>2, <3>3
  <2> HIDE DEF s
  <2>3. /\ sent'[j] # << >> /\ sent'[j][Len(sent'[j])] = "retry" /\ InOrder(j, sent'[j])
        /\ \A k \in 1..Len(sent'[j]) :
             sent'[j][k] = "retry" \/ \E i \in 1..Len(s) : sent'[j][k] = s[i]
    BY <2>1, <2>2, OneMore DEF Follows
  <2> QED BY <2>1, <2>3 DEF TimeoutsAnnounced, LastMessage
<1>3. CASE pc[j] = "solve" /\ j \in NilDefinitionJobs
  <2>1. SessionEnd(j) \o <<"retry">> = <<"retry">>
    BY <1>3 DEF SessionEnd
  <2>2. sent[j] # << >> => LastMessage(j) = "retry"
    BY <1>3 DEF LastSays
  <2> QED BY <1>3, <2>1, <2>2, OneSent DEF Follows
<1> QED BY <1>2, <1>3 DEF AttemptFailed

(* Each step sends what may follow the job's last message. *)
LEMMA MessageStep ==
  ASSUME TypeInv, NEW j \in Jobs, NodeLocal(j), OutputsWritten(j), LastSays(j), InOrder(j, sent[j]),
         NodeStep(j) \/ SolveReturns(j) \/ ExtractReturns(j) \/ TimerFires(j)
  PROVE  LastSays(j)' /\ InOrder(j, sent[j])' /\ TimeoutsAnnounced(j)
<1> USE DEF TypeInv, TypeOK, NodeLocal, LastSays, EndedWell, Succeeded, Decided,
            nodeVars, mainVars, Goto, SetErr
<1> USE DEF Messages
<1>0. ASSUME UNCHANGED sent PROVE LastMessage(j)' = LastMessage(j)
  BY <1>0 DEF LastMessage
<1>a. /\ Err("cancelled", j) # NoErr /\ Err("when", j) # NoErr
      /\ Err("failed", j) # NoErr /\ Err("output", j) # NoErr
  BY DEF Err, NoErr
<1>b. \A e : e.kind = "timeout" => e # NoErr
  BY DEF NoErr
<1>1. CASE UNCHANGED sent
  <2>1. InOrder(j, sent[j])' /\ TimeoutsAnnounced(j)
    BY <1>1, NothingSent
  <2>2. LastSays(j)'
    <3>1. CASE NodeStep(j)
      <4>1. CASE DepFailed(j) \/ DepSucceeded(j) \/ DepWaitCancelled(j)
        BY <4>1, <1>a DEF DepFailed, DepSucceeded, DepWaitCancelled, Waiting
      <4>2. CASE WhenTrue(j) \/ WhenError(j)
        BY <4>2, <1>a DEF WhenTrue, WhenError, DepsReady
      <4>3. CASE AcquireFree(j) \/ AcquireQueue(j) \/ AcquireCancelled(j) \/ Granted(j)
                 \/ GrantedTooLate(j) \/ QueueCancelled(j)
        BY <4>3, <1>a DEF AcquireFree, AcquireQueue, AcquireCancelled, Granted,
           GrantedTooLate, QueueCancelled
      <4>4. CASE DelayElapses(j) \/ DelayCancelled(j)
        BY <4>4, <1>0, <1>1 DEF DelayElapses, DelayCancelled
      <4>5. CASE Classify(j)
        BY <4>5, <1>0, <1>1, <1>b DEF Classify, OutputsWritten
      <4>6. CASE NothingToExtract(j) \/ Release(j) \/ CloseDone(j) \/ Report(j)
        BY <4>6, <1>0, <1>1 DEF NothingToExtract, Release, CloseDone, Report
      <4>7. CASE DepSkipped(j) \/ WhenFalse(j) \/ StartSolve(j)
        BY <4>7, <1>1 DEF DepSkipped, WhenFalse, StartSolve, Send, Waiting, DepsReady
      <4> QED BY <3>1, <4>1, <4>2, <4>3, <4>4, <4>5, <4>6, <4>7 DEF NodeStep
    <3>2. CASE SolveReturns(j)
      BY <3>2, <1>0, <1>1 DEF SolveReturns, SolveSucceeds, LastAttemptFails,
         AttemptFailsCancelled, AttemptFailsRetry, AttemptFailed, SessionEnd, Send
    <3>3. CASE ExtractReturns(j) \/ TimerFires(j)
      BY <3>3, <1>0, <1>1, <1>a DEF ExtractReturns, ExtractSucceeds, ExtractFails, TimerFires
    <3> QED BY <3>1, <3>2, <3>3
  <2> QED BY <2>1, <2>2
<1>2. CASE sent' # sent
  <2>1. CASE DepSkipped(j) \/ WhenFalse(j)
    <3>1. /\ InOrder(j, sent[j])' /\ TimeoutsAnnounced(j)
          /\ sent'[j] # << >> /\ LastMessage(j)' = "skipped"
      BY <2>1, OneSent DEF DepSkipped, WhenFalse, Waiting, DepsReady
    <3> QED BY <2>1, <3>1 DEF DepSkipped, WhenFalse, Waiting, DepsReady
  <2>2. CASE StartSolve(j)
    <3>1. /\ InOrder(j, sent[j])' /\ TimeoutsAnnounced(j)
          /\ sent'[j] # << >> /\ LastMessage(j)' = "added"
      BY <2>2, OneSent DEF StartSolve, Follows
    <3> QED BY <2>2, <3>1 DEF StartSolve
  <2>3. CASE SolveSucceeds(j) \/ LastAttemptFails(j) \/ AttemptFailsCancelled(j)
    <3>1. CASE pc[j] = "solving"
      <4>1. Send(j, <<"done">>)
        BY <2>3, <3>1 DEF SolveSucceeds, LastAttemptFails, AttemptFailsCancelled, SessionEnd
      <4>2. /\ InOrder(j, sent[j])' /\ TimeoutsAnnounced(j)
            /\ sent'[j] # << >> /\ LastMessage(j)' = "done"
        BY <3>1, <4>1, OneSent DEF Follows
      <4> QED BY <2>3, <3>1, <4>2 DEF SolveSucceeds, LastAttemptFails, AttemptFailsCancelled
    <3>2. CASE pc[j] # "solving"
      <4>1. Send(j, << >>)
        BY <2>3, <3>2 DEF SolveSucceeds, LastAttemptFails, AttemptFailsCancelled, SessionEnd
      <4>2. sent[j] \o << >> = sent[j]
        OBVIOUS
      <4> QED BY <4>1, <4>2, <1>2 DEF Send
    <3> QED BY <3>1, <3>2
  <2>4. CASE AttemptFailsRetry(j)
    <3>1. /\ InOrder(j, sent[j])' /\ TimeoutsAnnounced(j)
          /\ sent'[j] # << >> /\ LastMessage(j)' = "retry"
      BY <2>4, RetrySent DEF AttemptFailsRetry
    <3> QED BY <2>4, <3>1 DEF AttemptFailsRetry
  <2>5. CASE Classify(j)
    <3>1. Send(j, <<"timeout">>) /\ SolveCause(j).kind = "timeout" /\ pc[j] = "classify"
          /\ SetErr(j, SolveCause(j)) /\ pc'[j] = "release"
      BY <2>5, <1>2 DEF Classify
    <3>2. /\ InOrder(j, sent[j])' /\ TimeoutsAnnounced(j)
          /\ sent'[j] # << >> /\ LastMessage(j)' = "timeout"
      <4>1. CASE sent[j] = << >>
        BY <3>1, <4>1, OneSent
      <4>2. CASE sent[j] # << >>
        BY <3>1, <4>2, OneSent DEF Follows
      <4> QED BY <4>1, <4>2
    <3> QED BY <3>1, <3>2, <1>b
  <2> QED
    BY <2>1, <2>2, <2>3, <2>4, <2>5, <1>2 DEF NodeStep, SolveReturns, ExtractReturns, DepFailed,
       DepSucceeded, DepWaitCancelled, WhenTrue, WhenError, AcquireFree, AcquireQueue,
       AcquireCancelled, Granted, GrantedTooLate, QueueCancelled, DelayElapses,
       DelayCancelled, NothingToExtract, Release, CloseDone, Report, ExtractSucceeds,
       ExtractFails, TimerFires
<1> QED BY <1>1, <1>2

-----------------------------------------------------------------------------
(* Whose failure an error is.                                                *)

(* Where a step takes the errors and the cancellation cause from. *)
LEMMA ErrorSources ==
  ASSUME TypeInv, NEW j \in Jobs,
         NodeStep(j) \/ SolveReturns(j) \/ ExtractReturns(j) \/ TimerFires(j)
  PROVE  /\ \/ err'[j] \in {err[j], SolveCause(j), solveErr[j]}
            \/ err'[j].job = j
            \/ \E d \in Deps(j) : d \in done /\ err'[j] = err[d]
         /\ solveErr'[j] \in {solveErr[j], SolveCause(j), Err("failed", j)}
         /\ timedOut \subseteq timedOut'
         /\ cause' = cause \/ failFast
<1> USE DEF TypeInv, TypeOK, nodeVars, Goto, SetErr
<1>a. \A k : Err(k, j).job = j
  BY DEF Err
<1>1. CASE NodeStep(j)
  <2>1. CASE DepFailed(j)
    <3>1. AwaitedDep(j) \in Deps(j)
      BY <2>1, DependsOnAssumption DEF DepFailed, Waiting, AwaitedDep, Deps, Range
    <3> QED BY <2>1, <3>1 DEF DepFailed
  <2>2. CASE DepSkipped(j) \/ DepSucceeded(j) \/ DepWaitCancelled(j)
    BY <2>2, <1>a DEF DepSkipped, DepSucceeded, DepWaitCancelled
  <2>3. CASE WhenTrue(j) \/ WhenFalse(j) \/ WhenError(j)
    BY <2>3, <1>a DEF WhenTrue, WhenFalse, WhenError
  <2>4. CASE AcquireFree(j) \/ AcquireQueue(j) \/ AcquireCancelled(j) \/ Granted(j)
    BY <2>4, <1>a DEF AcquireFree, AcquireQueue, AcquireCancelled, Granted
  <2>8. CASE GrantedTooLate(j) \/ QueueCancelled(j)
    <3>1. SetErr(j, Err("cancelled", j)) /\ UNCHANGED <<nodeVars, cause>>
      BY <2>8 DEF GrantedTooLate, QueueCancelled
    <3> QED BY <3>1, <1>a
  <2>5. CASE StartSolve(j) \/ DelayElapses(j) \/ DelayCancelled(j)
    BY <2>5 DEF StartSolve, DelayElapses, DelayCancelled
  <2>6. CASE Classify(j) BY <2>6 DEF Classify
  <2>7. CASE NothingToExtract(j) \/ Release(j) \/ CloseDone(j) \/ Report(j)
    BY <2>7, OptionsAssumption DEF NothingToExtract, Release, CloseDone, Report
  <2> QED BY <1>1, <2>1, <2>2, <2>3, <2>4, <2>5, <2>6, <2>7, <2>8 DEF NodeStep
<1>2. CASE SolveReturns(j)
  BY <1>2 DEF SolveReturns, SolveSucceeds, LastAttemptFails, AttemptFailsCancelled,
     AttemptFailsRetry
<1>3. CASE ExtractReturns(j) \/ TimerFires(j)
  BY <1>3, <1>a DEF ExtractReturns, ExtractSucceeds, ExtractFails, TimerFires
<1> QED BY <1>1, <1>2, <1>3

(* Without fail-fast only the caller's cancellation reaches the context, so   *)
(* what a job can get from it is its own timer or that cancellation.          *)
LEMMA OwnedStep ==
  ASSUME OrderInv, NodesInv, ~failFast, NEW j \in Jobs,
         NodeStep(j) \/ SolveReturns(j) \/ ExtractReturns(j) \/ TimerFires(j),
         DoneKept, TimeoutsAnnounced(j)
  PROVE  CauseOfCaller' /\ \A k \in Jobs : ErrorsOwned(k)'
<1>0. TypeInv /\ CauseOfCaller /\ \A k \in Jobs : ErrorsOwned(k)
  BY DEF NodesInv, Owned, OrderInv
<1>1. cause' = cause
  BY <1>0, ErrorSources
<1>2. CauseOfCaller'
  BY <1>0, <1>1 DEF CauseOfCaller
<1>3. \A k, e : OwnError(k, e) => OwnError(k, e)'
  BY <1>1 DEF OwnError
<1>4. OwnError(j, SolveCause(j)) /\ (SolveCause(j).kind = "timeout" => j \in timedOut)
  BY <1>0 DEF OwnError, SolveCause, CauseOfCaller, Err, NoErr
<1>5. ErrorsOwned(j)'
  <2>1. OwnError(j, solveErr[j])'
    <3>1. OwnError(j, Err("failed", j)) BY DEF OwnError, Err
    <3>2. OwnError(j, solveErr'[j])
      BY <1>0, <1>4, <3>1, ErrorSources DEF ErrorsOwned
    <3> QED BY <1>1, <3>2 DEF OwnError
  <2>2. OwnError(j, err[j])' \/ \E d \in Deps(j) : d \in done' /\ err'[j] = err'[d]
    <3>1. OwnError(j, err'[j]) \/ \E d \in Deps(j) : d \in done /\ err'[j] = err[d]
      <4>1. CASE err'[j] \in {err[j], SolveCause(j), solveErr[j]}
        BY <1>0, <1>4, <4>1 DEF ErrorsOwned
      <4>2. CASE err'[j].job = j BY <4>2 DEF OwnError
      <4> QED BY <1>0, <4>1, <4>2, ErrorSources
    <3> QED BY <1>1, <3>1 DEF OwnError, DoneKept
  <2>3. ASSUME NEW k \in 1..Len(sent'[j]), sent'[j][k] = "timeout" PROVE j \in timedOut'
    <3>1. j \in timedOut
      BY <1>0, <1>4, <2>3 DEF TimeoutsAnnounced, ErrorsOwned
    <3> QED BY <1>0, <3>1, ErrorSources
  <2> QED BY <2>1, <2>2, <2>3 DEF ErrorsOwned
<1>6. ASSUME NEW k \in Jobs, k # j PROVE ErrorsOwned(k)'
  <2>1. /\ solveErr'[k] = solveErr[k] /\ err'[k] = err[k] /\ sent'[k] = sent[k]
        /\ (k \in timedOut') <=> (k \in timedOut)
    BY <1>0, <1>6, NodeFrame DEF OthersKept
  <2>2. OwnError(k, err[k])' \/ \E d \in Deps(k) : d \in done' /\ err'[k] = err'[d]
    BY <1>0, <1>1, <2>1 DEF ErrorsOwned, OwnError, DoneKept
  <2> QED BY <1>0, <1>1, <2>1, <2>2 DEF ErrorsOwned, OwnError
<1> QED BY <1>2, <1>5, <1>6

(* The three parts together, for a step of a job's goroutine. *)
LEMMA NodesStep ==
  ASSUME OrderInv, NodesInv, NEW j \in Jobs,
         NodeStep(j) \/ SolveReturns(j) \/ ExtractReturns(j) \/ TimerFires(j),
         DoneKept
  PROVE  NodesInv'
<1>0. TypeInv /\ NodeLocal(j)
  BY DEF OrderInv, AllLocal
<1>1. OutputsWritten(j)' /\ LastSays(j)' /\ InOrder(j, sent[j])' /\ TimeoutsAnnounced(j)
  BY <1>0, OutputsStep, MessageStep DEF NodesInv
<1>2. ASSUME NEW k \in Jobs, k # j
      PROVE  OutputsWritten(k)' /\ LastSays(k)' /\ InOrder(k, sent[k])'
  <2>1. /\ solveErr'[k] = solveErr[k] /\ err'[k] = err[k] /\ sent'[k] = sent[k]
        /\ pc'[k] = pc[k]
        /\ (k \in skipped') <=> (k \in skipped)
        /\ (k \in outputs') <=> (k \in outputs)
    BY <1>0, <1>2, NodeFrame DEF OthersKept
  <2>2. OutputsWritten(k) /\ LastSays(k) /\ InOrder(k, sent[k])
    BY DEF NodesInv
  <2>3. OutputsWritten(k)'
    BY <2>1, <2>2 DEF OutputsWritten, EndedWell, Succeeded
  <2>4. LastSays(k)'
    BY <2>1, <2>2 DEF LastSays, LastMessage, EndedWell, Succeeded
  <2>5. InOrder(k, sent[k])'
    BY <2>1, <2>2 DEF InOrder
  <2> QED BY <2>3, <2>4, <2>5
<1>3. Owned'
  <2>1. failFast' = failFast
    BY <1>0, NodeFrame DEF OthersKept, mainVars
  <2> QED BY <1>1, <2>1, OwnedStep DEF Owned
<1> QED BY <1>1, <1>2, <1>3 DEF NodesInv

(* ... and for a step of the goroutine that called Run, or a cancellation. *)
LEMMA NodesMainStep ==
  ASSUME NodesInv, UNCHANGED <<failFast, jobVars>>,
         cause' = cause \/ (cause = NoErr /\ cause' = Err("cancelled", NoJob))
  PROVE  NodesInv'
<1> USE DEF jobVars
<1>1. ASSUME NEW j \in Jobs
      PROVE  OutputsWritten(j)' /\ LastSays(j)' /\ InOrder(j, sent[j])'
  BY DEF NodesInv, OutputsWritten, LastSays, LastMessage, InOrder, EndedWell, Succeeded
<1>2. Owned'
  <2>1. \A j, e : OwnError(j, e) => OwnError(j, e)'
    BY DEF OwnError, NoErr
  <2>2. CauseOfCaller => CauseOfCaller'
    BY DEF CauseOfCaller
  <2>3. ASSUME NEW j \in Jobs, ErrorsOwned(j) PROVE ErrorsOwned(j)'
    <3>1. OwnError(j, solveErr[j])' BY <2>1, <2>3 DEF ErrorsOwned, OwnError
    <3>2. OwnError(j, err[j])' \/ \E d \in Deps(j) : d \in done' /\ err'[j] = err'[d]
      BY <2>1, <2>3 DEF ErrorsOwned, OwnError
    <3> QED BY <2>3, <3>1, <3>2 DEF ErrorsOwned
  <2> QED BY <2>2, <2>3 DEF NodesInv, Owned
<1> QED BY <1>1, <1>2 DEF NodesInv

-----------------------------------------------------------------------------
(* The goroutine that called Run.                                            *)

(* What a step of a job's goroutine does to the errors that were kept. *)
LEMMA ErrorsKeptStep ==
  ASSUME TypeInv, ErrorsKept, NEW j \in Jobs,
         NodeStep(j) \/ SolveReturns(j) \/ ExtractReturns(j) \/ TimerFires(j)
  PROVE  ErrorsKept'
<1>0. OthersKept(j)
  BY NodeFrame
<1>1. CASE Report(j)
  BY <1>0, <1>1 DEF Report, Goto, TypeInv, TypeOK, ErrorsKept, OthersKept
<1>2. CASE ~Report(j)
  <2>1. jobErrs' = jobErrs /\ pc'[j] # "returned"
    <3> USE DEF TypeInv, TypeOK, Goto
    <3>1. CASE NodeStep(j)
      BY <1>2, <3>1 DEF NodeStep, DepFailed, DepSkipped, DepSucceeded, DepWaitCancelled, Waiting,
         WhenTrue, WhenFalse, WhenError, AcquireFree, AcquireQueue, AcquireCancelled, Granted,
         GrantedTooLate, QueueCancelled, StartSolve, DelayElapses, DelayCancelled, Classify,
         NothingToExtract, Release, CloseDone
    <3>2. CASE SolveReturns(j)
      BY <3>2 DEF SolveReturns, SolveSucceeds, LastAttemptFails, AttemptFailsCancelled,
         AttemptFailsRetry
    <3>3. CASE ExtractReturns(j) \/ TimerFires(j)
      BY <3>3 DEF ExtractReturns, ExtractSucceeds, ExtractFails, TimerFires
    <3> QED BY <3>1, <3>2, <3>3
  <2> QED BY <1>0, <2>1 DEF ErrorsKept, OthersKept, TypeInv, TypeOK
<1> QED BY <1>1, <1>2

LEMMA MainInvNode ==
  ASSUME TypeInv, MainInv, NEW j \in Jobs,
         NodeStep(j) \/ SolveReturns(j) \/ ExtractReturns(j) \/ TimerFires(j)
  PROVE  MainInv'
<1>1. pc[j] # "returned" /\ UNCHANGED mainVars
  BY NodeFrame DEF OthersKept
<1>2. main = "jobs" /\ main' = "jobs" /\ item' = item
  BY <1>1 DEF MainInv, ItemsInTurn, AllReturned, mainVars
<1>3. ErrorsKept'
  BY ErrorsKeptStep DEF MainInv
<1>4. ItemsInTurn' /\ RunReportsFailures'
  BY <1>2 DEF MainInv, ItemsInTurn, RunReportsFailures
<1> QED BY <1>3, <1>4 DEF MainInv

LEMMA MainInvMain ==
  ASSUME TypeInv, TypeInv', MainInv, MainStep \/ CancelRun \/ \E i \in Items : ItemReturns(i)
  PROVE  MainInv'
<1>0. UNCHANGED jobVars
  BY DEF MainStep, FailFastReturn, StartExports, StartPublishes, RejectPublishes, FinishRun,
     CancelRun, ItemReturns
<1>1. ErrorsKept'
  BY <1>0 DEF MainInv, ErrorsKept, jobVars
<1>2. \A i \in Items : Selected(i)' <=> Selected(i)
  BY <1>0 DEF Selected, Succeeded, jobVars
<1>3. AllReturned' <=> AllReturned
  BY <1>0 DEF AllReturned, jobVars
<1>4. Exports \subseteq Items /\ Publishes \subseteq Items /\ Exports \cap Publishes = {}
  BY ItemsAssumption DEF Items
<1>5. item \in [Items -> {"idle", "running", "ok", "failed"}]
  BY DEF TypeInv, TypeOK
<1>6. ItemsInTurn' /\ RunReportsFailures'
  <2> USE <1>0, <1>2, <1>3, <1>4, <1>5
  <2> USE DEF MainInv, ItemsInTurn, Idle, jobVars
  <2>1. CASE FailFastReturn
    <3>1. ItemsInTurn' BY <2>1 DEF FailFastReturn
    <3>2. \E j \in Jobs : err[j] # NoErr
      BY <2>1 DEF FailFastReturn, ErrorsKept, TypeInv, TypeOK
    <3> QED BY <2>1, <3>1, <3>2 DEF FailFastReturn, RunReportsFailures
  <2>2. CASE StartExports
    <3>1. /\ main = "jobs" /\ main' = "exports" /\ AllReturned /\ (failFast => jobErrs = {})
          /\ failFast' = failFast /\ \A i \in Items : item[i] = "idle"
      BY <2>2 DEF StartExports
    <3>2. \A i \in Items : item'[i] = IF i \in Exports /\ Selected(i) THEN "running" ELSE "idle"
      BY <2>2, <3>1 DEF StartExports, Start
    <3> QED BY <3>1, <3>2 DEF RunReportsFailures
  <2>3. CASE StartPublishes
    <3>1. /\ main = "exports" /\ main' = "publishes" /\ AllReturned /\ (failFast => jobErrs = {})
          /\ failFast' = failFast /\ Idle(Exports)
      BY <2>3 DEF StartPublishes
    <3>2. \A i \in Items : item'[i] = IF i \in Publishes /\ Selected(i) THEN "running" ELSE item[i]
      BY <2>3 DEF StartPublishes, Start
    <3>3. \A i \in Items : i \in Exports \/ i \in Publishes
      BY DEF Items
    <3> QED BY <3>1, <3>2, <3>3 DEF RunReportsFailures
  <2>4. CASE RejectPublishes
    <3>1. \A i \in Items : item[i] # "running"
      BY <2>4 DEF RejectPublishes, Items
    <3>2. PICK i \in Publishes : Selected(i)
      BY <2>4 DEF RejectPublishes
    <3>3. item[i] = "idle" /\ i \in Items
      BY <2>4 DEF RejectPublishes
    <3>4. /\ main = "exports" /\ main' = "returned" /\ result' = "error" /\ item' = item
          /\ failFast' = failFast
      BY <2>4 DEF RejectPublishes
    <3> QED BY <3>1, <3>2, <3>3, <3>4 DEF RunReportsFailures
  <2>5. CASE FinishRun
    <3>1. ItemsInTurn' BY <2>5 DEF FinishRun, Items
    <3>2. jobErrs = {} <=> \A j \in Jobs : err[j] = NoErr
      BY <2>5 DEF FinishRun, ErrorsKept, AllReturned, TypeInv, TypeOK
    <3>3. (\A i \in Items : item[i] # "failed") <=> (\A i \in Items : Selected(i) => item[i] = "ok")
      BY <2>5 DEF FinishRun, Items
    <3>4. result' = "ok" <=> jobErrs = {} /\ \A i \in Items : item[i] # "failed"
      BY <2>5 DEF FinishRun, Joined
    <3>5. main' = "returned" /\ item' = item /\ err' = err
      BY <2>5 DEF FinishRun
    <3> QED BY <3>1, <3>2, <3>3, <3>4, <3>5 DEF RunReportsFailures
  <2>6. CASE CancelRun
    BY <2>6 DEF CancelRun, mainVars, RunReportsFailures
  <2>7. ASSUME NEW i \in Items, ItemReturns(i) PROVE ItemsInTurn' /\ RunReportsFailures'
    <3>1. main # "jobs" /\ main # "returned" /\ main' = main
      BY <2>7 DEF ItemReturns
    <3> QED BY <2>7, <3>1 DEF ItemReturns, RunReportsFailures
  <2> QED BY <2>1, <2>2, <2>3, <2>4, <2>5, <2>6, <2>7 DEF MainStep
<1> QED BY <1>1, <1>6 DEF MainInv

-----------------------------------------------------------------------------
(* The inductive invariant holds.                                            *)

LEMMA ResultInit == Init => ResultInv
<1> SUFFICES ASSUME Init PROVE ResultInv
  OBVIOUS
<1>1. OrderInv /\ SlotInv
  BY OrderInit, SlotInit
<1>2. ASSUME NEW j \in Jobs PROVE OutputsWritten(j) /\ LastSays(j) /\ InOrder(j, sent[j])
  BY DEF Init, OutputsWritten, LastSays, InOrder, EndedWell, Decided
<1>3. Owned
  BY DEF Init, Owned, CauseOfCaller, ErrorsOwned, OwnError
<1>4. MainInv
  BY DEF Init, MainInv, ErrorsKept, ItemsInTurn, RunReportsFailures
<1> QED BY <1>1, <1>2, <1>3, <1>4 DEF ResultInv, NodesInv

LEMMA ResultStep ==
  ASSUME ResultInv, [Next]_vars
  PROVE  ResultInv' /\ DoneKept
<1> USE DEF ResultInv
<1>1. OrderInv' /\ DoneKept
  BY OrderStep
<1>2. SlotInv'
  BY SlotStep DEF OrderInv
<1>3. NodesInv' /\ MainInv'
  <2>1. TypeInv /\ TypeInv'
    BY <1>1 DEF OrderInv
  <2>2. ASSUME NEW j \in Jobs,
               NodeStep(j) \/ SolveReturns(j) \/ ExtractReturns(j) \/ TimerFires(j)
        PROVE  NodesInv' /\ MainInv'
    BY <1>1, <2>1, <2>2, NodesStep, MainInvNode
  <2>3. CASE MainStep \/ CancelRun \/ \E i \in Items : ItemReturns(i)
    <3>1. /\ UNCHANGED <<failFast, jobVars>>
          /\ cause' = cause \/ (cause = NoErr /\ cause' = Err("cancelled", NoJob))
      BY <2>3 DEF MainStep, FailFastReturn, StartExports, StartPublishes, RejectPublishes,
         FinishRun, CancelRun, ItemReturns, mainVars
    <3> QED BY <2>1, <2>3, <3>1, NodesMainStep, MainInvMain
  <2>4. CASE UNCHANGED vars
    <3>1. UNCHANGED <<failFast, jobVars, cause, main, item, result>>
      BY <2>4 DEF vars, jobVars
    <3>2. NodesInv'
      BY <3>1, NodesMainStep
    <3>3. MainInv'
      BY <3>1 DEF MainInv, ErrorsKept, ItemsInTurn, RunReportsFailures, AllReturned, Selected,
         Succeeded, Idle, jobVars
    <3> QED BY <3>2, <3>3
  <2> QED BY <2>2, <2>3, <2>4 DEF Next, Terminated
<1> QED BY <1>1, <1>2, <1>3

-----------------------------------------------------------------------------
(* What follows from it.                                                     *)

(* A job whose channel is closed without error or skip has ended well. *)
LEMMA ClosedWell ==
  ASSUME OrderInv, NEW d \in Jobs, d \in done, Succeeded(d)
  PROVE  EndedWell(d)
BY DEF OrderInv, AllLocal, NodeLocal, EndedWell, Decided

(* collectDepOutputs never reads outputs that are not there yet: a job that   *)
(* has stopped waiting finds those of each dependency that writes any.        *)
THEOREM OutputsReady == Spec => []OutputsBeforeWhen
<1>1. ResultInv => OutputsBeforeWhen
  <2> SUFFICES ASSUME ResultInv, NEW j \in Jobs, DepsReady(j) \/ Solvable(j),
                      NEW d \in Deps(j), d \in OutputJobs \cup StepJobs
               PROVE  d \in outputs
    BY DEF OutputsBeforeWhen
  <2>1. depIdx[j] > Len(DependsOn[j])
    BY DEF ResultInv, OrderInv, AllLocal, NodeLocal, DepsReady
  <2>2. d \in done /\ Succeeded(d) /\ d \in Jobs
    BY <2>1, PassedDeps DEF ResultInv, OrderInv, TypeInv, TypeOK
  <2>3. EndedWell(d)
    BY <2>2, ClosedWell DEF ResultInv
  <2> QED BY <2>2, <2>3 DEF ResultInv, NodesInv, OutputsWritten
<1> QED BY <1>1, ResultInit, ResultStep, PTL DEF Spec

(* Without fail-fast a job fails by itself, by its dependency or by the       *)
(* caller, and JobTimeoutMsg is sent for the job's own timer only.            *)
THEOREM OwnedFailures == Spec => []FailuresAreOwned
<1>1. ResultInv => FailuresAreOwned
  <2> SUFFICES ASSUME ResultInv, ~failFast
               PROVE  /\ \A j \in Jobs : err[j] # NoErr =>
                           \/ err[j].job = j
                           \/ err[j].job = NoJob /\ cause.kind = "cancelled"
                           \/ \E d \in Deps(j) : d \in done /\ err[j] = err[d]
                      /\ TimeoutMsgTruthful
    BY DEF FailuresAreOwned
  <2>1. \A j \in Jobs : ErrorsOwned(j)
    BY DEF ResultInv, NodesInv, Owned
  <2>2. ASSUME NEW j \in Jobs, "timeout" \in Range(sent[j]) PROVE j \in timedOut
    <3>1. sent[j] \in Seq(Messages) BY DEF ResultInv, OrderInv, TypeInv, TypeOK
    <3>2. PICK k \in 1..Len(sent[j]) : sent[j][k] = "timeout"
      BY <2>2, <3>1 DEF Range
    <3> QED BY <2>1, <3>2 DEF ErrorsOwned
  <2> QED BY <2>1, <2>2 DEF ErrorsOwned, OwnError, TimeoutMsgTruthful
<1> QED BY <1>1, ResultInit, ResultStep, PTL DEF Spec

(* Whatever is cancelled when, the displays see a job's messages in order:    *)
(* every session is closed before a retry, a timeout comes last, and a        *)
(* skipped job says nothing else.                                             *)
THEOREM MessageOrder == Spec => []MessageProtocol
<1>1. ResultInv => MessageProtocol
  BY DEF ResultInv, NodesInv, InOrder, Follows, LastSays, LastMessage, MessageProtocol
<1> QED BY <1>1, ResultInit, ResultStep, PTL DEF Spec

(* Nothing is exported or published before every goroutine has returned, for  *)
(* a job that was not solved, or in a fail-fast run with a failure.           *)
THEOREM DeliverySafety == Spec => []DeliversOnlySuccess
<1>1. ResultInv => DeliversOnlySuccess
  <2> SUFFICES ASSUME ResultInv, NEW i \in Items, item[i] # "idle"
               PROVE  /\ AllReturned
                      /\ failFast => jobErrs = {}
                      /\ SourceJob[i] \in Jobs =>
                           /\ "done" \in Range(sent[SourceJob[i]])
                           /\ \A j \in Deps(SourceJob[i]) \cup {SourceJob[i]} : Succeeded(j)
    BY DEF DeliversOnlySuccess
  <2>1. AllReturned /\ Selected(i) /\ (failFast => jobErrs = {})
    BY DEF ResultInv, MainInv, ItemsInTurn
  <2>2. ASSUME SourceJob[i] \in Jobs
        PROVE  /\ "done" \in Range(sent[SourceJob[i]])
               /\ \A j \in Deps(SourceJob[i]) \cup {SourceJob[i]} : Succeeded(j)
    <3> DEFINE s == SourceJob[i]
    <3>1. Succeeded(s) /\ pc[s] = "returned"
      BY <2>1, <2>2, JobsAssumption DEF Selected, AllReturned
    <3>2. EndedWell(s)
      BY <3>1 DEF EndedWell, Decided
    <3>3. "done" \in Range(sent[s])
      <4>1. sent[s] \in Seq(Messages) /\ sent[s] # << >> /\ LastMessage(s) = "done"
        BY <2>2, <3>2 DEF ResultInv, NodesInv, LastSays, OrderInv, TypeInv, TypeOK
      <4>2. Len(sent[s]) \in DOMAIN sent[s]
        BY <4>1
      <4> QED BY <4>1, <4>2 DEF LastMessage, Range
    <3>4. depIdx[s] > Len(DependsOn[s])
      BY <2>2, <3>1 DEF ResultInv, OrderInv, AllLocal, NodeLocal, Decided
    <3> QED BY <2>2, <3>1, <3>3, <3>4, PassedDeps DEF ResultInv
  <2> QED BY <2>1, <2>2
<1> QED BY <1>1, ResultInit, ResultStep, PTL DEF Spec

(* Run returns nil exactly if no job failed and every export and publish of a *)
(* successful job was delivered: no error is lost on the way to the caller.   *)
THEOREM ResultTruthful == Spec => []RunReportsFailures
<1>1. ResultInv => RunReportsFailures
  BY DEF ResultInv, MainInv
<1> QED BY <1>1, ResultInit, ResultStep, PTL DEF Spec

-----------------------------------------------------------------------------
(* The scheduler implements DagRun.                                          *)

(* The status of DagRun, as a function of where the goroutine is. *)
LEMMA StatusValues ==
  ASSUME NEW j \in Jobs
  PROVE  /\ pc[j] \in {"deps", "acquire", "queued"} => Status(j) = "pending"
         /\ pc[j] \in Owning => Status(j) = "running"
         /\ pc[j] \in Decided /\ err[j] # NoErr => Status(j) = "failed"
         /\ pc[j] \in Decided /\ err[j] = NoErr /\ j \in skipped => Status(j) = "skipped"
         /\ pc[j] \in Decided /\ Succeeded(j) => Status(j) = "ok"
BY DEF Status, Owning, Decided, Succeeded

LEMMA NextStatusValues ==
  ASSUME NEW j \in Jobs
  PROVE  /\ pc'[j] \in {"deps", "acquire", "queued"} => Status(j)' = "pending"
         /\ pc'[j] \in Owning => Status(j)' = "running"
         /\ pc'[j] \in Decided /\ err'[j] # NoErr => Status(j)' = "failed"
         /\ pc'[j] \in Decided /\ err'[j] = NoErr /\ j \in skipped' => Status(j)' = "skipped"
         /\ pc'[j] \in Decided /\ Succeeded(j)' => Status(j)' = "ok"
BY DEF Status, Owning, Decided, Succeeded

(* The instance's Cardinality is the one of FiniteSets. *)
LEMMA SameCardinality == \A S : Dag!Cardinality(S) = Cardinality(S)
BY DEF Dag!Cardinality, Cardinality, Dag!IsFiniteSet, IsFiniteSet

(* A job's step changes no other job's status, delivers nothing, and changes  *)
(* its own status as the abstract job does.                                   *)
LEMMA StatusFrame ==
  ASSUME TypeInv, NEW j \in Jobs,
         NodeStep(j) \/ SolveReturns(j) \/ ExtractReturns(j) \/ TimerFires(j)
  PROVE  /\ [k \in Jobs |-> Status(k)]' = [[k \in Jobs |-> Status(k)] EXCEPT ![j] = Status(j)']
         /\ {i \in Items : item[i] # "idle"}' = {i \in Items : item[i] # "idle"}
<1>1. ASSUME NEW k \in Jobs, k # j PROVE Status(k)' = Status(k)
  BY <1>1, NodeFrame DEF OthersKept, Status, Succeeded
<1>2. item' = item
  BY NodeFrame DEF OthersKept, mainVars
<1> QED BY <1>1, <1>2

(* The running jobs own slots. *)
LEMMA RunningBelowLimit ==
  ASSUME TypeInv, SlotInv, NEW j \in Jobs, pc[j] \in {"acquire", "queued"},
         j \in holders \/ Cardinality(holders) < Limit
  PROVE  Cardinality(Dag!Running) < Limit
<1>1. Dag!Running \subseteq holders \ {j}
  <2> SUFFICES ASSUME NEW k \in Dag!Running PROVE k \in holders /\ k # j
    OBVIOUS
  <2>1. k \in Jobs /\ Status(k) = "running" BY DEF Dag!Running
  <2>2. pc[k] \in Owning BY <2>1 DEF Status
  <2> QED BY <2>1, <2>2 DEF SlotInv, SlotOwners, Owning
<1>2. /\ IsFiniteSet(holders) /\ Cardinality(holders) \in Nat /\ Limit \in Nat
      /\ Cardinality(holders) <= Limit
  BY HoldersFinite, LimitType DEF SlotInv, SlotCount
<1>3. CASE j \in holders
  <2>1. IsFiniteSet(holders \ {j}) /\ Cardinality(holders \ {j}) = Cardinality(holders) - 1
    BY <1>2, <1>3, FS_RemoveElement
  <2>2. Cardinality(Dag!Running) <= Cardinality(holders \ {j}) /\ Cardinality(Dag!Running) \in Nat
    BY <1>1, <2>1, FS_Subset, FS_CardinalityType
  <2> QED BY <1>2, <2>1, <2>2
<1>4. CASE Cardinality(holders) < Limit
  <2>1. Dag!Running \subseteq holders BY <1>1
  <2>2. Cardinality(Dag!Running) <= Cardinality(holders) /\ Cardinality(Dag!Running) \in Nat
    BY <1>2, <2>1, FS_Subset, FS_CardinalityType
  <2> QED BY <1>2, <1>4, <2>2
<1> QED BY <1>3, <1>4

(* A dependency's status, as its dependents see it through its channel. *)
LEMMA ClosedStatus ==
  ASSUME OrderInv, NEW d \in Jobs, d \in done
  PROVE  /\ err[d] # NoErr => Status(d) = "failed"
         /\ err[d] = NoErr /\ d \in skipped => Status(d) = "skipped"
         /\ Succeeded(d) => Status(d) = "ok"
<1>1. pc[d] \in Decided
  BY DEF OrderInv, AllLocal, NodeLocal, Decided
<1> QED BY <1>1, StatusValues DEF OrderInv

LEMMA ReadyDeps ==
  ASSUME OrderInv, NEW j \in Jobs, depIdx[j] > Len(DependsOn[j])
  PROVE  Dag!AllDeps(j, "ok")
<1> SUFFICES ASSUME NEW d \in Deps(j) PROVE Status(d) = "ok" /\ d \in Jobs
  BY DEF Dag!AllDeps
<1>1. d \in done /\ Succeeded(d)
  BY PassedDeps
<1>2. d \in Jobs
  BY <1>1 DEF OrderInv, TypeInv, TypeOK
<1> QED BY <1>1, <1>2, ClosedStatus

(* Every step of a job's goroutine is a step of the abstract job or none. *)
LEMMA NodeRefines ==
  ASSUME ResultInv, ResultInv', NEW j \in Jobs,
         NodeStep(j) \/ SolveReturns(j) \/ ExtractReturns(j) \/ TimerFires(j)
  PROVE  Dag!Next \/ UNCHANGED Dag!vars
<1>0. TypeInv /\ TypeInv' /\ OrderInv /\ SlotInv /\ NodeLocal(j) /\ NodeLocal(j)'
  BY DEF ResultInv, OrderInv, AllLocal
<1>1. /\ [k \in Jobs |-> Status(k)]' = [[k \in Jobs |-> Status(k)] EXCEPT ![j] = Status(j)']
      /\ {i \in Items : item[i] # "idle"}' = {i \in Items : item[i] # "idle"}
  BY <1>0, StatusFrame
<1>2. ASSUME Status(j)' = Status(j), cause' = cause PROVE UNCHANGED Dag!vars
  BY <1>1, <1>2 DEF Dag!vars
<1>3. ASSUME NEW s, Status(j)' = s, cause' = cause PROVE Dag!Become(j, s)
  BY <1>1, <1>3 DEF Dag!Become
<1>4. \A k : Err(k, j) # NoErr \/ k = "nil"
  BY DEF Err, NoErr
<1> USE DEF Goto, SetErr
<1>5. ASSUME Status(j) = "pending", Dag!SomeDep(j, "failed") \/ Dag!AllDeps(j, "ok") \/ cause # NoErr,
             cause' = cause, pc'[j] = "close", err'[j] # NoErr
      PROVE  Dag!Next
  <2>1. Status(j)' = "failed" BY <1>5, NextStatusValues DEF Decided
  <2>2. Dag!FailUnrun(j) BY <1>3, <1>5, <2>1 DEF Dag!FailUnrun
  <2> QED BY <2>2 DEF Dag!Next
<1>6. ASSUME Status(j) = "pending", Dag!SomeDep(j, "skipped") \/ Dag!AllDeps(j, "ok"),
             cause' = cause, pc'[j] = "close", j \in skipped'
      PROVE  Dag!Next
  <2>1. err'[j] = NoErr BY <1>0, <1>6 DEF NodeLocal
  <2>2. Status(j)' = "skipped" BY <1>6, <2>1, NextStatusValues DEF Decided
  <2>3. Dag!Skip(j) BY <1>3, <1>6, <2>2 DEF Dag!Skip
  <2> QED BY <2>3 DEF Dag!Next
<1>7. ASSUME pc[j] \in {"acquire", "queued"}, j \in holders \/ Cardinality(holders) < Limit,
             cause = NoErr, cause' = cause, pc'[j] = "solve"
      PROVE  Dag!Next
  <2>1. Status(j) = "pending" BY <1>0, <1>7, StatusValues
  <2>2. Status(j)' = "running" BY <1>7, NextStatusValues DEF Owning
  <2>3. Cardinality(Dag!Running) < Limit BY <1>0, <1>7, RunningBelowLimit
  <2>4. Dag!AllDeps(j, "ok") BY <1>0, <1>7, ReadyDeps DEF NodeLocal, Solvable
  <2>5. Dag!Start(j) BY <1>3, <1>7, <2>1, <2>2, <2>3, <2>4, SameCardinality DEF Dag!Start
  <2> QED BY <2>5 DEF Dag!Next
<1>8. ASSUME pc[j] \in Owning, pc'[j] \in Owning, cause' = cause PROVE UNCHANGED Dag!vars
  BY <1>2, <1>8, StatusValues, NextStatusValues
<1>9. ASSUME Waiting(j), AwaitedDep(j) \in done
      PROVE  /\ AwaitedDep(j) \in Deps(j) /\ AwaitedDep(j) \in Jobs
             /\ Deps(j) = [k \in Jobs |-> Deps(k)][j]
  BY <1>0, <1>9, DependsOnAssumption DEF Waiting, AwaitedDep, Deps, Range, TypeInv, TypeOK
<1>10. CASE NodeStep(j)
  <2> USE <1>0 DEF TypeInv, TypeOK
  <2>1. CASE DepFailed(j)
    <3>1. Status(AwaitedDep(j)) = "failed" BY <2>1, <1>9, ClosedStatus DEF DepFailed
    <3>2. Dag!SomeDep(j, "failed") BY <2>1, <3>1, <1>9 DEF DepFailed, Dag!SomeDep
    <3>3. Status(j) = "pending" BY <2>1, StatusValues DEF DepFailed, Waiting
    <3> QED BY <2>1, <3>2, <3>3, <1>5 DEF DepFailed
  <2>2. CASE DepSkipped(j)
    <3>1. Status(AwaitedDep(j)) = "skipped" BY <2>2, <1>9, ClosedStatus DEF DepSkipped
    <3>2. Dag!SomeDep(j, "skipped") BY <2>2, <3>1, <1>9 DEF DepSkipped, Dag!SomeDep
    <3>3. Status(j) = "pending" BY <2>2, StatusValues DEF DepSkipped, Waiting
    <3> QED BY <2>2, <3>2, <3>3, <1>6 DEF DepSkipped
  <2>3. CASE DepSucceeded(j)
    BY <2>3, <1>2 DEF DepSucceeded, Status, Succeeded
  <2>4. CASE DepWaitCancelled(j)
    <3>1. Status(j) = "pending" BY <2>4, StatusValues DEF DepWaitCancelled, Waiting
    <3> QED BY <2>4, <3>1, <1>4, <1>5 DEF DepWaitCancelled
  <2>5. CASE WhenTrue(j)
    <3>1. Status(j) = "pending" /\ Status(j)' = "pending"
      BY <2>5, StatusValues DEF WhenTrue, DepsReady, Status, Owning, Decided
    <3> QED BY <2>5, <3>1, <1>2 DEF WhenTrue
  <2>6. CASE WhenFalse(j) \/ WhenError(j)
    <3>1. Status(j) = "pending" /\ Dag!AllDeps(j, "ok")
      BY <2>6, StatusValues, ReadyDeps DEF WhenFalse, WhenError, DepsReady
    <3> QED BY <2>6, <3>1, <1>4, <1>5, <1>6 DEF WhenFalse, WhenError
  <2>7. CASE AcquireFree(j)
    BY <2>7, <1>7 DEF AcquireFree
  <2>8. CASE AcquireQueue(j)
    <3>1. Status(j) = "pending" /\ Status(j)' = "pending"
      BY <2>8, StatusValues DEF AcquireQueue, Status, Owning, Decided
    <3> QED BY <2>8, <3>1, <1>2 DEF AcquireQueue
  <2>9. CASE AcquireCancelled(j) \/ GrantedTooLate(j) \/ QueueCancelled(j)
    <3>1. Status(j) = "pending"
      BY <2>9, StatusValues DEF AcquireCancelled, GrantedTooLate, QueueCancelled
    <3>2. /\ cause # NoErr /\ cause' = cause /\ Goto(j, "close")
          /\ SetErr(j, Err("cancelled", j))
      BY <2>9 DEF AcquireCancelled, GrantedTooLate, QueueCancelled
    <3> QED BY <3>1, <3>2, <1>4, <1>5
  <2>10. CASE Granted(j)
    BY <2>10, <1>7 DEF Granted
  <2>11. CASE StartSolve(j) \/ DelayElapses(j) \/ DelayCancelled(j)
    BY <2>11, <1>8 DEF StartSolve, DelayElapses, DelayCancelled, Owning
  <2>12. CASE Classify(j) \/ NothingToExtract(j)
    BY <2>12, <1>8 DEF Classify, NothingToExtract, Owning
  <2>13. CASE Release(j)
    <3>1. Status(j) = "running" BY <2>13, StatusValues DEF Release, Owning
    <3>2. j \notin skipped' BY <2>13 DEF Release, NodeLocal, Decided
    <3>3. Status(j)' \in {"ok", "failed"}
      BY <2>13, <3>2 DEF Release, Status, Owning, Decided, Succeeded
    <3>4. cause' = cause BY <2>13 DEF Release
    <3>5. Dag!Finish(j) BY <3>1, <3>3, <3>4, <1>3 DEF Dag!Finish
    <3> QED BY <3>5 DEF Dag!Next
  <2>14. CASE CloseDone(j)
    <3>1. Status(j)' = Status(j)
      BY <2>14 DEF CloseDone, Status, Owning, Decided, Succeeded
    <3> QED BY <2>14, <3>1, <1>2 DEF CloseDone
  <2>15. CASE Report(j)
    <3>1. Status(j)' = Status(j)
      BY <2>15 DEF Report, Status, Owning, Decided, Succeeded
    <3>2. cause' = cause \/ (cause' = err[j] /\ err[j] # NoErr)
      BY <2>15 DEF Report
    <3>3. ASSUME cause' # NoErr PROVE Dag!Stop
      BY <3>1, <3>3, <1>1 DEF Dag!Stop
    <3> QED BY <3>1, <3>2, <3>3, <1>2 DEF Dag!Next
  <2> QED
    BY <1>10, <2>1, <2>2, <2>3, <2>4, <2>5, <2>6, <2>7, <2>8, <2>9, <2>10, <2>11, <2>12,
       <2>13, <2>14, <2>15 DEF NodeStep
<1>11. CASE SolveReturns(j)
  <2>1. pc[j] \in Owning /\ pc'[j] \in Owning /\ cause' = cause
    BY <1>0, <1>11 DEF SolveReturns, SolveSucceeds, LastAttemptFails, AttemptFailsCancelled,
       AttemptFailsRetry, AttemptFailed, Owning, TypeInv, TypeOK
  <2> QED BY <2>1, <1>8
<1>12. CASE ExtractReturns(j)
  <2>1. pc[j] \in Owning /\ pc'[j] \in Owning /\ cause' = cause
    BY <1>0, <1>12 DEF ExtractReturns, ExtractSucceeds, ExtractFails, Owning, TypeInv, TypeOK
  <2> QED BY <2>1, <1>8
<1>13. CASE TimerFires(j)
  BY <1>13, <1>2 DEF TimerFires, Status, Succeeded
<1> QED BY <1>10, <1>11, <1>12, <1>13

(* The steps of Run's goroutine deliver, stop, or are invisible. *)
LEMMA MainRefines ==
  ASSUME ResultInv, ResultInv', MainStep \/ CancelRun \/ \E i \in Items : ItemReturns(i)
  PROVE  Dag!Next \/ UNCHANGED Dag!vars
<1> DEFINE delivered == {i \in Items : item[i] # "idle"}
<1>0. UNCHANGED jobVars
  BY DEF MainStep, FailFastReturn, StartExports, StartPublishes, RejectPublishes, FinishRun,
     CancelRun, ItemReturns
<1>1. [j \in Jobs |-> Status(j)]' = [j \in Jobs |-> Status(j)]
  BY <1>0 DEF Status, Succeeded, jobVars
<1>2. CASE CancelRun
  <2>1. (cause # NoErr)' = TRUE BY <1>2 DEF CancelRun, Err, NoErr
  <2>2. delivered' = delivered BY <1>2 DEF CancelRun, mainVars
  <2>3. Dag!Stop BY <1>1, <2>1, <2>2 DEF Dag!Stop
  <2> QED BY <2>3 DEF Dag!Next
<1>3. CASE FailFastReturn \/ RejectPublishes \/ FinishRun
  <2>1. item' = item /\ cause' = cause
    BY <1>3 DEF FailFastReturn, RejectPublishes, FinishRun
  <2> QED BY <1>1, <2>1 DEF Dag!vars
<1>4. ASSUME NEW i \in Items, ItemReturns(i) PROVE UNCHANGED Dag!vars
  <2>1. delivered' = delivered /\ cause' = cause
    BY <1>4 DEF ItemReturns, ResultInv, OrderInv, TypeInv, TypeOK
  <2> QED BY <1>1, <2>1 DEF Dag!vars
<1>5. CASE StartExports \/ StartPublishes
  <2>1. cause' = cause /\ main' \in {"exports", "publishes"}
    BY <1>5 DEF StartExports, StartPublishes
  <2>2. \A i \in Items : item[i] # "idle" => item'[i] # "idle"
    BY <1>5 DEF StartExports, StartPublishes, Start
  <2>3. AllReturned
    BY <1>5 DEF StartExports, StartPublishes, ResultInv, MainInv, ItemsInTurn
  <2>4. \A j \in Jobs : Status(j) \in Dag!Terminal
    BY <2>3 DEF AllReturned, Status, Owning, Decided, Succeeded, Dag!Terminal
  <2>5. ASSUME NEW i \in delivered', SourceJob[i] \in Jobs PROVE Status(SourceJob[i]) = "ok"
    <3>1. Selected(i)' BY <2>5 DEF ResultInv, MainInv, ItemsInTurn
    <3>2. Succeeded(SourceJob[i])
      BY <1>0, <2>5, <3>1, JobsAssumption DEF Selected, Succeeded, jobVars
    <3> QED BY <2>3, <2>5, <3>2 DEF AllReturned, Status, Owning, Decided, Succeeded
  <2>6. delivered' = delivered \cup delivered' /\ delivered' \in SUBSET Items
    BY <2>2
  <2>7. Dag!Deliver
    BY <1>1, <2>1, <2>4, <2>5, <2>6 DEF Dag!Deliver
  <2> QED BY <2>7 DEF Dag!Next
<1> QED BY <1>2, <1>3, <1>4, <1>5 DEF MainStep

(* The scheduler refines DagRun for every graph, limit and option: jobs start *)
(* in dependency order, within the limit and never after a cancellation;      *)
(* skips and failures reach the dependents without running them; and only     *)
(* what successful jobs built is delivered, after every job has ended.        *)
THEOREM SchedulerImplementsDagRun == Spec => RefinesDagRun
<1>1. Init => Dag!Init
  BY DEF Init, Dag!Init, Status, Owning, Decided
<1>2. ResultInv /\ ResultInv' /\ [Next]_vars => [Dag!Next]_Dag!vars
  <2> SUFFICES ASSUME ResultInv, ResultInv', [Next]_vars
               PROVE  Dag!Next \/ UNCHANGED Dag!vars
    OBVIOUS
  <2>1. CASE UNCHANGED vars
    BY <2>1 DEF vars, Dag!vars, Status, Succeeded
  <2> QED BY <2>1, NodeRefines, MainRefines DEF Next, Terminated
<1> QED BY <1>1, <1>2, ResultInit, ResultStep, PTL DEF Spec, RefinesDagRun, Dag!Spec
=============================================================================
