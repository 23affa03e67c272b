---------------------------- MODULE StepsProofs -----------------------------
(***************************************************************************)
(* Theorems about a step-controlled job, for any number of steps, any      *)
(* retries, delays and allow-failure flags, and whatever is cancelled when *)
(***************************************************************************)
EXTENDS Steps, NaturalsInduction, WellFoundedInduction, TLAPS

SolveRecords == [step : 1..MaxSteps, attempt : Nat, base : Seq(1..MaxSteps)]
EventRecords == [kind : {"retry", "allowed"}, step : 1..MaxSteps, attempt : Nat]

Domains ==
  /\ steps \in Seq(StepConfigs) /\ NumSteps \in 1..MaxSteps
  /\ jobTry \in 0..JobRetries
  /\ cancelled \in BOOLEAN
  /\ pc \in {"step", "delay", "failed", "error", "ok"}
  /\ k \in 1..(NumSteps + 1)
  /\ attempt \in Nat
  /\ state \in Seq(1..MaxSteps)
  /\ lastRef \in 0..MaxSteps
  /\ outcome \in [1..MaxSteps -> {"unrun", "ok", "allowed", "failed"}]
  /\ solves \in Seq(SolveRecords)
  /\ events \in Seq(EventRecords)
  /\ nodeOutputs \in Int

(* Where the build is: the steps below k are over, those from k on have not   *)
(* run, except that k itself may have failed the build.                       *)
Progress ==
  /\ pc \in {"delay", "failed"} => k <= NumSteps
  /\ pc = "ok" => k = NumSteps + 1
  /\ \A n \in 1..MaxSteps :
       /\ n < k => outcome[n] = "ok" \/ (outcome[n] = "allowed" /\ steps[n].allow)
       /\ n >= k => outcome[n] = "unrun" \/ (n = k /\ pc = "error" /\ outcome[n] = "failed")

(* No step of 1..n succeeded, or r is the last one that did. *)
LastOf(r, n) ==
  \/ r = 0 /\ \A i \in 1..n : outcome[i] # "ok"
  \/ LastGood(r, n)

(* currentState and lastRef always hold the good steps below k, and what was  *)
(* solved so far was solved for a step up to k.                               *)
GoodState ==
  /\ ListsGood(state, k)
  /\ LastOf(lastRef, k - 1)
  /\ \A i \in DOMAIN solves :
       solves[i].step <= k /\ ListsGood(solves[i].base, solves[i].step)

(* A failure that was allowed is reported once, nothing else is. *)
AllowedReported ==
  \A n \in 1..MaxSteps :
    /\ outcome[n] = "allowed" => \E i \in DOMAIN events : EventsOf("allowed", n) = {i}
    /\ outcome[n] # "allowed" => EventsOf("allowed", n) = {}

OutputsOf ==
  /\ pc # "ok" => nodeOutputs = -1
  /\ pc = "ok" => nodeOutputs = 0 \/ LastGood(nodeOutputs, NumSteps)

(* A step that is about to be retried has a number left, was solved under the *)
(* current one, and the next one is announced.                                *)
RetryInv ==
  /\ k <= NumSteps => attempt < Maximum
  /\ pc = "step" /\ k <= NumSteps => attempt = 0 \/ attempt + 1 \in Announced(k)
  /\ pc = "delay" =>
       attempt + 1 < Maximum /\ attempt \in Solved(k) /\ attempt + 2 \in Announced(k)
  /\ RetriesAnnounced

StepsInv == Domains /\ Progress /\ GoodState /\ AllowedReported /\ OutputsOf /\ RetryInv
-----------------------------------------------------------------------------
(* What appending does to the sequences of this module.                      *)

LEMMA AppendFacts ==
  ASSUME NEW S, NEW s \in Seq(S), NEW e \in S
  PROVE  /\ Append(s, e) \in Seq(S)
         /\ DOMAIN s = 1..Len(s) /\ Len(s) \in Nat
         /\ DOMAIN Append(s, e) = DOMAIN s \cup {Len(s) + 1}
         /\ Len(s) + 1 \notin DOMAIN s
         /\ \A i \in DOMAIN s : Append(s, e)[i] = s[i]
         /\ Append(s, e)[Len(s) + 1] = e
OBVIOUS

(* One more event. *)
LEMMA AppendedEvent ==
  ASSUME Domains, NEW e \in EventRecords, events' = Append(events, e)
  PROVE  /\ \A kind, n : EventsOf(kind, n)' =
              IF e.kind = kind /\ e.step = n THEN EventsOf(kind, n) \cup {Len(events) + 1}
                                             ELSE EventsOf(kind, n)
         /\ \A n : Announced(n)' =
              IF e.kind = "retry" /\ e.step = n THEN Announced(n) \cup {e.attempt} ELSE Announced(n)
<1>1. /\ DOMAIN events' = DOMAIN events \cup {Len(events) + 1}
      /\ Len(events) + 1 \notin DOMAIN events
      /\ \A i \in DOMAIN events : events'[i] = events[i]
      /\ events'[Len(events) + 1] = e
  BY AppendFacts DEF Domains
<1>2. ASSUME NEW kind, NEW n
      PROVE  EventsOf(kind, n)' =
               IF e.kind = kind /\ e.step = n THEN EventsOf(kind, n) \cup {Len(events) + 1}
                                              ELSE EventsOf(kind, n)
  BY <1>1 DEF EventsOf
<1>3. ASSUME NEW n
      PROVE  Announced(n)' =
               IF e.kind = "retry" /\ e.step = n THEN Announced(n) \cup {e.attempt} ELSE Announced(n)
  <2>1. \A i \in EventsOf("retry", n) : events'[i] = events[i]
    BY <1>1 DEF EventsOf
  <2>2. CASE e.kind = "retry" /\ e.step = n
    <3>1. EventsOf("retry", n)' = EventsOf("retry", n) \cup {Len(events) + 1}
      BY <1>2, <2>2
    <3>2. events'[Len(events) + 1].attempt = e.attempt
      BY <1>1
    <3> QED BY <2>1, <2>2, <3>1, <3>2, ZenonT(60) DEF Announced
  <2>3. CASE ~(e.kind = "retry" /\ e.step = n)
    <3>1. EventsOf("retry", n)' = EventsOf("retry", n)
      BY <1>2, <2>3
    <3> QED BY <2>1, <2>3, <3>1 DEF Announced
  <2> QED BY <2>2, <2>3
<1> QED BY <1>2, <1>3

(* The step being executed is one of the job's. *)
LEMMA HereInRange ==
  ASSUME Domains, k <= NumSteps
  PROVE  k \in 1..MaxSteps /\ k \in 1..NumSteps
<1>1. MaxSteps \in Nat /\ NumSteps \in Nat /\ NumSteps <= MaxSteps /\ k \in Nat /\ 1 <= k
  BY StepsAssumption DEF Domains
<1> QED BY <1>1

(* One more solve: the current step, attempt and state. *)
ThisSolve == [step |-> k, attempt |-> attempt, base |-> state]

LEMMA AppendedSolve ==
  ASSUME Domains, k <= NumSteps, solves' = Append(solves, ThisSolve)
  PROVE  /\ solves' \in Seq(SolveRecords)
         /\ DOMAIN solves' = DOMAIN solves \cup {Len(solves) + 1}
         /\ \A i \in DOMAIN solves : solves'[i] = solves[i]
         /\ solves'[Len(solves) + 1] = ThisSolve
         /\ \A n : Solved(n)' = IF n = k THEN Solved(n) \cup {attempt} ELSE Solved(n)
<1>1. ThisSolve \in SolveRecords
  <2>1. k \in 1..MaxSteps
    BY HereInRange
  <2> QED BY <2>1 DEF ThisSolve, SolveRecords, Domains
<1>2. /\ solves' \in Seq(SolveRecords)
      /\ DOMAIN solves' = DOMAIN solves \cup {Len(solves) + 1}
      /\ Len(solves) + 1 \notin DOMAIN solves
      /\ \A i \in DOMAIN solves : solves'[i] = solves[i]
      /\ solves'[Len(solves) + 1] = ThisSolve
  BY <1>1, AppendFacts DEF Domains
<1>3. ASSUME NEW n
      PROVE  Solved(n)' = IF n = k THEN Solved(n) \cup {attempt} ELSE Solved(n)
  BY <1>2 DEF Solved, ThisSolve
<1> QED BY <1>2, <1>3

(* ListsGood, of the outcomes o. *)
Lists(o, b, n) ==
  /\ {b[i] : i \in DOMAIN b} = {i \in 1..(n - 1) : o[i] = "ok"}
  /\ \A i, j \in DOMAIN b : i < j => b[i] < b[j]

LEMMA ListsBelow ==
  ASSUME NEW o, NEW b, NEW n \in Nat,
         {b[i] : i \in DOMAIN b} = {i \in 1..n : o[i] = "ok"},
         \A i, j \in DOMAIN b : i < j => b[i] < b[j]
  PROVE  Lists(o, b, n + 1)
<1>1. 1..(n + 1 - 1) = 1..n
  OBVIOUS
<1>2. {i \in 1..(n + 1 - 1) : o[i] = "ok"} = {i \in 1..n : o[i] = "ok"}
  BY <1>1, Zenon
<1>3. {b[i] : i \in DOMAIN b} = {i \in 1..(n + 1 - 1) : o[i] = "ok"}
  BY <1>2, Zenon
<1> QED BY <1>3 DEF Lists

(* b still lists the good steps below n when no outcome below n has changed. *)
LEMMA ListsKept ==
  ASSUME NEW o, NEW p, NEW b, NEW n \in Nat, Lists(o, b, n), \A i \in 1..(n - 1) : p[i] = o[i]
  PROVE  Lists(p, b, n)
BY DEF Lists

-----------------------------------------------------------------------------
(* The inductive invariant, part by part, one step per action.               *)

LEMMA StepsInit == Init => StepsInv
<1> SUFFICES ASSUME Init PROVE StepsInv
  OBVIOUS
<1>1. PICK n \in 1..MaxSteps : steps \in [1..n -> StepConfigs]
  BY DEF Init
<1>2. steps \in Seq(StepConfigs) /\ NumSteps = n /\ n \in Nat /\ 1 <= n /\ n <= MaxSteps
  BY <1>1, StepsAssumption DEF NumSteps
<1>3. Domains
  <2>1. k \in 1..(NumSteps + 1) /\ NumSteps \in 1..MaxSteps /\ jobTry \in 0..JobRetries
    BY <1>2, StepsAssumption DEF Init
  <2>2. nodeOutputs \in Int /\ lastRef \in 0..MaxSteps
    BY StepsAssumption DEF Init
  <2>3. outcome \in [1..MaxSteps -> {"unrun", "ok", "allowed", "failed"}]
    BY DEF Init, NoOutcome
  <2>4. state \in Seq(1..MaxSteps) /\ solves \in Seq(SolveRecords) /\ events \in Seq(EventRecords)
    BY DEF Init
  <2> QED BY <1>2, <2>1, <2>2, <2>3, <2>4 DEF Init, Domains
<1>4. Progress
  BY <1>2, StepsAssumption DEF Init, Progress, NoOutcome
<1>5. GoodState
  <2>1. ListsGood(state, k)
    BY DEF Init, ListsGood
  <2>2. LastOf(lastRef, k - 1)
    BY DEF Init, LastOf
  <2> QED BY <2>1, <2>2 DEF Init, GoodState
<1>6. AllowedReported
  BY DEF Init, AllowedReported, EventsOf, NoOutcome
<1>7. OutputsOf
  BY DEF Init, OutputsOf
<1>8. RetryInv
  <2>1. steps[1] \in StepConfigs
    BY <1>2 DEF NumSteps
  <2>2. steps[1].retries \in Nat
    BY <2>1, StepsAssumption DEF StepConfigs
  <2>3. RetriesAnnounced
    BY DEF Init, RetriesAnnounced, Announced, Solved, EventsOf
  <2> QED BY <2>2, <2>3 DEF Init, RetryInv, Maximum
<1> QED BY <1>3, <1>4, <1>5, <1>6, <1>7, <1>8 DEF StepsInv

(* The events the actions append. *)
LEMMA EventTypes ==
  ASSUME Domains, k <= NumSteps
  PROVE  /\ RetryEvent(attempt + 2) \in EventRecords
         /\ [kind |-> "allowed", step |-> k, attempt |-> 0] \in EventRecords
         /\ k \in 1..MaxSteps
<1>1. k \in 1..MaxSteps /\ attempt + 2 \in Nat
  BY HereInRange DEF Domains
<1> QED BY <1>1 DEF RetryEvent, EventRecords

LEMMA DomainsStep ==
  ASSUME StepsInv, Next
  PROVE  Domains'
<1> USE DEF StepsInv, NumSteps
<1>1. CASE StepSucceeds
  <2>1. solves' \in Seq(SolveRecords)
    BY <1>1, AppendedSolve DEF StepSucceeds, ThisSolve
  <2>2. k \in 1..MaxSteps /\ k' \in 1..(NumSteps + 1)
    BY <1>1, EventTypes DEF StepSucceeds, Domains
  <2> QED BY <1>1, <2>1, <2>2 DEF StepSucceeds, Domains
<1>2. CASE StepFails
  <2>1. solves' \in Seq(SolveRecords)
    BY <1>2, AppendedSolve DEF StepFails, ThisSolve
  <2> QED BY <1>2, <2>1 DEF StepFails, Domains
<1>3. CASE StepUnusable
  BY <1>3 DEF StepUnusable, Domains
<1>4. CASE StepFailsRetry
  <2>1. solves' \in Seq(SolveRecords)
    BY <1>4, AppendedSolve DEF StepFailsRetry, ThisSolve
  <2>2. events' \in Seq(EventRecords)
    BY <1>4, EventTypes DEF StepFailsRetry, Domains
  <2> QED BY <1>4, <2>1, <2>2 DEF StepFailsRetry, Domains
<1>5. CASE DelayElapses
  BY <1>5 DEF DelayElapses, Domains
<1>6. CASE DelayCancelled
  BY <1>6 DEF DelayCancelled, Domains
<1>7. CASE AllowFailure
  <2>1. k <= NumSteps
    BY <1>7 DEF AllowFailure, Progress
  <2>2. events' \in Seq(EventRecords) /\ k \in 1..MaxSteps
    BY <1>7, <2>1, EventTypes DEF AllowFailure, Domains
  <2> QED BY <1>7, <2>1, <2>2 DEF AllowFailure, Domains
<1>8. CASE StepError
  <2>1. k \in 1..MaxSteps
    BY <1>8, EventTypes DEF StepError, Progress
  <2> QED BY <1>8, <2>1 DEF StepError, Domains
<1>9. CASE BuildSucceeds
  BY <1>9 DEF BuildSucceeds, Domains, Sources
<1>10. CASE BuildFails
  BY <1>10 DEF BuildFails, Domains
<1>11. CASE JobRetry
  BY <1>11, StepsAssumption DEF JobRetry, Domains, NoOutcome
<1>12. CASE Cancel
  BY <1>12 DEF Cancel, Domains
<1>13. CASE Over
  BY <1>13 DEF Over, vars, Domains
<1> QED BY <1>1, <1>2, <1>3, <1>4, <1>5, <1>6, <1>7, <1>8, <1>9, <1>10, <1>11, <1>12, <1>13
        DEF Next, Work
LEMMA ProgressStep ==
  ASSUME StepsInv, Next
  PROVE  Progress'
<1> USE DEF StepsInv, NumSteps
<1>0. /\ NumSteps \in Nat /\ MaxSteps \in Nat /\ NumSteps <= MaxSteps
      /\ k \in Nat /\ 1 <= k /\ k <= NumSteps + 1
      /\ outcome \in [1..MaxSteps -> {"unrun", "ok", "allowed", "failed"}]
  BY StepsAssumption DEF Domains
<1>1. CASE StepSucceeds
  <2>1. ASSUME NEW n \in 1..MaxSteps
        PROVE  /\ n < k' => outcome'[n] = "ok" \/ (outcome'[n] = "allowed" /\ steps'[n].allow)
               /\ n >= k' => outcome'[n] = "unrun"
    BY <1>0, <1>1 DEF StepSucceeds, Progress
  <2> QED BY <1>1, <2>1 DEF StepSucceeds, Progress
<1>2. CASE StepFails
  BY <1>0, <1>2 DEF StepFails, Progress
<1>3. CASE StepUnusable
  BY <1>0, <1>3 DEF StepUnusable, Progress
<1>4. CASE StepFailsRetry
  BY <1>0, <1>4 DEF StepFailsRetry, Progress
<1>5. CASE DelayElapses
  BY <1>0, <1>5 DEF DelayElapses, Progress
<1>6. CASE DelayCancelled
  BY <1>0, <1>6 DEF DelayCancelled, Progress
<1>7. CASE AllowFailure
  <2>1. ASSUME NEW n \in 1..MaxSteps
        PROVE  /\ n < k' => outcome'[n] = "ok" \/ (outcome'[n] = "allowed" /\ steps'[n].allow)
               /\ n >= k' => outcome'[n] = "unrun"
    BY <1>0, <1>7 DEF AllowFailure, Progress
  <2> QED BY <1>7, <2>1 DEF AllowFailure, Progress
<1>8. CASE StepError
  <2>1. ASSUME NEW n \in 1..MaxSteps
        PROVE  /\ n < k => outcome'[n] = "ok" \/ (outcome'[n] = "allowed" /\ steps'[n].allow)
               /\ n >= k => outcome'[n] = "unrun" \/ (n = k /\ outcome'[n] = "failed")
    BY <1>0, <1>8 DEF StepError, Progress
  <2> QED BY <1>8, <2>1 DEF StepError, Progress
<1>9. CASE BuildSucceeds
  BY <1>0, <1>9 DEF BuildSucceeds, Progress
<1>10. CASE BuildFails
  BY <1>0, <1>10 DEF BuildFails, Progress
<1>11. CASE JobRetry
  <2>1. ASSUME NEW n \in 1..MaxSteps
        PROVE  n >= 1 /\ outcome'[n] = "unrun"
    BY <1>0, <1>11 DEF JobRetry, NoOutcome
  <2> QED BY <1>11, <2>1 DEF JobRetry, Progress
<1>12. CASE Cancel
  BY <1>12 DEF Cancel, Progress
<1>13. CASE Over
  BY <1>13 DEF Over, vars, Progress
<1> QED BY <1>1, <1>2, <1>3, <1>4, <1>5, <1>6, <1>7, <1>8, <1>9, <1>10, <1>11, <1>12, <1>13
        DEF Next, Work

(* A state that lists the good steps below k lists those below k + 1 when k   *)
(* is appended to it, because k succeeded ...                                 *)
LEMMA ListsExtended ==
  ASSUME Domains, k <= NumSteps, Lists(outcome, state, k),
         outcome' = [outcome EXCEPT ![k] = "ok"]
  PROVE  Lists(outcome', Append(state, k), k + 1)
<1>0. k \in 1..MaxSteps /\ k \in Nat /\ state \in Seq(1..MaxSteps)
  BY HereInRange DEF Domains
<1> DEFINE a == Append(state, k)
<1>1. /\ DOMAIN state = 1..Len(state) /\ Len(state) \in Nat
      /\ DOMAIN a = DOMAIN state \cup {Len(state) + 1}
      /\ \A i \in DOMAIN state : a[i] = state[i]
      /\ a[Len(state) + 1] = k
  BY <1>0, AppendFacts
<1>2. \A i \in DOMAIN state : state[i] \in 1..(k - 1)
  BY DEF Lists
<1>3. {a[i] : i \in DOMAIN a} = {state[i] : i \in DOMAIN state} \cup {k}
  BY <1>1
<1>4. {i \in 1..k : outcome'[i] = "ok"} = {i \in 1..(k - 1) : outcome[i] = "ok"} \cup {k}
  BY <1>0 DEF Domains
<1>5. {a[i] : i \in DOMAIN a} = {i \in 1..k : outcome'[i] = "ok"}
  BY <1>3, <1>4 DEF Lists
<1>6. ASSUME NEW i \in DOMAIN a, NEW j \in DOMAIN a, i < j
      PROVE  a[i] < a[j]
  <2>1. i \in DOMAIN state
    BY <1>1, <1>6
  <2>2. CASE j \in DOMAIN state
    BY <1>1, <1>6, <2>1, <2>2 DEF Lists
  <2>3. CASE j = Len(state) + 1
    BY <1>0, <1>1, <1>2, <2>1, <2>3
  <2> QED BY <1>1, <2>2, <2>3
<1> QED BY <1>0, <1>5, <1>6, ListsBelow

(* ... and lists them as it is when k was allowed to fail. *)
LEMMA ListsSkipped ==
  ASSUME Domains, k <= NumSteps, Lists(outcome, state, k),
         outcome' = [outcome EXCEPT ![k] = "allowed"]
  PROVE  Lists(outcome', state, k + 1)
<1>0. k \in 1..MaxSteps /\ k \in Nat
  BY HereInRange DEF Domains
<1>1. {i \in 1..k : outcome'[i] = "ok"} = {i \in 1..(k - 1) : outcome[i] = "ok"}
  BY <1>0 DEF Domains
<1>2. /\ {state[i] : i \in DOMAIN state} = {i \in 1..k : outcome'[i] = "ok"}
      /\ \A i, j \in DOMAIN state : i < j => state[i] < state[j]
  BY <1>1 DEF Lists
<1> QED BY <1>0, <1>2, ListsBelow

(* What was solved stays solved on the good steps below it: the only outcome  *)
(* a build still changes is that of step k.                                   *)
LEMMA BasesKept ==
  ASSUME Domains, GoodState, \A i \in 1..(k - 1) : outcome'[i] = outcome[i]
  PROVE  \A i \in DOMAIN solves :
           solves[i].step <= k /\ Lists(outcome', solves[i].base, solves[i].step)
<1> SUFFICES ASSUME NEW i \in DOMAIN solves
             PROVE  solves[i].step <= k /\ Lists(outcome', solves[i].base, solves[i].step)
  OBVIOUS
<1>1. solves[i] \in SolveRecords
  BY DEF Domains
<1>2. solves[i].step \in Nat /\ k \in Nat
  BY <1>1, StepsAssumption DEF SolveRecords, Domains
<1>3. solves[i].step <= k /\ Lists(outcome, solves[i].base, solves[i].step)
  BY DEF GoodState, ListsGood, Lists
<1>4. \A x \in 1..(solves[i].step - 1) : outcome'[x] = outcome[x]
  BY <1>2, <1>3
<1> QED BY <1>2, <1>3, <1>4, ListsKept

(* A solve of step k on currentState is as good as the state. *)
LEMMA BasesAppended ==
  ASSUME Domains, GoodState, k <= NumSteps, solves' = Append(solves, ThisSolve),
         \A i \in 1..(k - 1) : outcome'[i] = outcome[i]
  PROVE  \A i \in DOMAIN solves' :
           solves'[i].step <= k /\ Lists(outcome', solves'[i].base, solves'[i].step)
<1>1. k \in Nat /\ Lists(outcome, state, k)
  BY DEF Domains, GoodState, ListsGood, Lists
<1>2. Lists(outcome', state, k)
  BY <1>1, ListsKept
<1> SUFFICES ASSUME NEW i \in DOMAIN solves'
             PROVE  solves'[i].step <= k /\ Lists(outcome', solves'[i].base, solves'[i].step)
  OBVIOUS
<1>3. CASE i \in DOMAIN solves
  BY <1>3, AppendedSolve, BasesKept
<1>4. CASE i = Len(solves) + 1
  <2>1. solves'[i].step = k /\ solves'[i].base = state
    BY <1>4, AppendedSolve DEF ThisSolve
  <2> QED BY <1>1, <1>2, <2>1
<1> QED BY <1>3, <1>4, AppendedSolve

LEMMA GoodStateStep ==
  ASSUME StepsInv, Next
  PROVE  GoodState'
<1> USE DEF StepsInv
<1>0. /\ k \in Nat /\ 1 <= k /\ k + 1 - 1 = k /\ Lists(outcome, state, k)
      /\ outcome \in [1..MaxSteps -> {"unrun", "ok", "allowed", "failed"}]
  BY DEF Domains, GoodState, ListsGood, Lists
<1>1. CASE StepSucceeds
  <2>0. k \in 1..MaxSteps
    BY <1>1, HereInRange DEF StepSucceeds
  <2>1. Lists(outcome', state', k')
    BY <1>0, <1>1, ListsExtended DEF StepSucceeds
  <2>2. \A i \in 1..(k - 1) : outcome'[i] = outcome[i]
    BY <1>0, <1>1, <2>0 DEF StepSucceeds
  <2>3. \A i \in DOMAIN solves' :
          solves'[i].step <= k /\ Lists(outcome', solves'[i].base, solves'[i].step)
    BY <1>1, <2>2, BasesAppended DEF StepSucceeds, ThisSolve
  <2>4. \A i \in DOMAIN solves' : solves'[i].step \in Nat
    <3>1. \A i \in DOMAIN solves' : solves'[i] \in SolveRecords
      BY DomainsStep, SMTT(30) DEF Domains
    <3> QED BY <3>1, StepsAssumption DEF SolveRecords
  <2>5. LastGood(lastRef, k - 1)'
    BY <1>0, <1>1, <2>0 DEF StepSucceeds, LastGood
  <2> QED BY <1>0, <1>1, <2>1, <2>3, <2>4, <2>5, SMTT(30) DEF StepSucceeds, GoodState, LastOf, ListsGood, Lists
<1>2. CASE StepFails
  <2>1. \A i \in DOMAIN solves' :
          solves'[i].step <= k /\ Lists(outcome', solves'[i].base, solves'[i].step)
    BY <1>2, BasesAppended DEF StepFails, ThisSolve
  <2> QED BY <1>0, <1>2, <2>1 DEF StepFails, GoodState, LastOf, LastGood, ListsGood, Lists
<1>3. CASE StepFailsRetry
  <2>1. \A i \in DOMAIN solves' :
          solves'[i].step <= k /\ Lists(outcome', solves'[i].base, solves'[i].step)
    BY <1>3, BasesAppended DEF StepFailsRetry, ThisSolve
  <2> QED BY <1>0, <1>3, <2>1 DEF StepFailsRetry, GoodState, LastOf, LastGood, ListsGood, Lists
<1>4. CASE AllowFailure
  <2>0. k <= NumSteps /\ k \in 1..MaxSteps
    BY <1>4, HereInRange DEF AllowFailure, Progress
  <2>1. Lists(outcome', state', k')
    BY <1>0, <1>4, <2>0, ListsSkipped DEF AllowFailure
  <2>2. \A i \in 1..(k - 1) : outcome'[i] = outcome[i]
    BY <1>0, <1>4, <2>0 DEF AllowFailure
  <2>3. \A i \in DOMAIN solves' :
          solves'[i].step <= k /\ Lists(outcome', solves'[i].base, solves'[i].step)
    BY <1>4, <2>2, BasesKept DEF AllowFailure
  <2>4. \A i \in DOMAIN solves' : solves'[i].step \in Nat
    <3>1. \A i \in DOMAIN solves' : solves'[i] \in SolveRecords
      BY DomainsStep DEF Domains
    <3> QED BY <3>1, StepsAssumption DEF SolveRecords
  <2>5. LastOf(lastRef, k - 1)'
    BY <1>0, <1>4, <2>0, <2>2 DEF AllowFailure, LastOf, LastGood, GoodState, Domains
  <2> QED BY <1>0, <1>4, <2>1, <2>3, <2>4, <2>5 DEF AllowFailure, GoodState, ListsGood, Lists
<1>5. CASE StepError
  <2>0. k \in 1..MaxSteps
    BY <1>5, HereInRange DEF StepError, Progress
  <2>2. \A i \in 1..(k - 1) : outcome'[i] = outcome[i]
    BY <1>0, <1>5, <2>0 DEF StepError
  <2>1. Lists(outcome', state', k')
    BY <1>0, <1>5, <2>2, ListsKept DEF StepError
  <2>3. \A i \in DOMAIN solves' :
          solves'[i].step <= k /\ Lists(outcome', solves'[i].base, solves'[i].step)
    BY <1>5, <2>2, BasesKept DEF StepError
  <2>4. LastOf(lastRef, k - 1)'
    BY <1>0, <1>5, <2>2 DEF StepError, LastOf, LastGood, GoodState, Domains
  <2> QED BY <1>5, <2>1, <2>3, <2>4 DEF StepError, GoodState, ListsGood, Lists
<1>6. CASE JobRetry
  <2>1. ListsGood(state, k)'
    BY <1>6 DEF JobRetry, ListsGood
  <2>2. LastOf(lastRef, k - 1)'
    BY <1>6 DEF JobRetry, LastOf
  <2> QED BY <1>6, <2>1, <2>2 DEF JobRetry, GoodState
<1>7. CASE UNCHANGED <<k, state, lastRef, outcome, solves>>
  BY <1>7 DEF GoodState, LastOf, LastGood, ListsGood
<1>8. ASSUME StepUnusable \/ DelayElapses \/ DelayCancelled \/ BuildSucceeds \/ BuildFails
             \/ Cancel \/ Over
      PROVE  UNCHANGED <<k, state, lastRef, outcome, solves>>
  BY <1>8 DEF StepUnusable, DelayElapses, DelayCancelled, BuildSucceeds, BuildFails, Cancel, Over, vars
<1> QED BY <1>1, <1>2, <1>3, <1>4, <1>5, <1>6, <1>7, <1>8 DEF Next, Work
LEMMA ReportedStep ==
  ASSUME StepsInv, Next
  PROVE  AllowedReported'
<1> USE DEF StepsInv
<1>0. outcome \in [1..MaxSteps -> {"unrun", "ok", "allowed", "failed"}]
  BY DEF Domains
<1>1. CASE StepSucceeds
  <2>1. k \in 1..MaxSteps /\ outcome[k] # "allowed"
    BY <1>1, HereInRange DEF StepSucceeds, Progress, Domains
  <2>2. \A n \in 1..MaxSteps : outcome'[n] = "allowed" <=> outcome[n] = "allowed"
    BY <1>0, <1>1, <2>1 DEF StepSucceeds
  <2> QED BY <1>1, <2>2 DEF StepSucceeds, AllowedReported, EventsOf
<1>2. CASE StepFailsRetry
  <2>1. RetryEvent(attempt + 2) \in EventRecords /\ RetryEvent(attempt + 2).kind = "retry"
    BY <1>2, EventTypes DEF StepFailsRetry, RetryEvent
  <2>2. \A n : EventsOf("allowed", n)' = EventsOf("allowed", n)
    BY <1>2, <2>1, AppendedEvent DEF StepFailsRetry
  <2>3. DOMAIN events \subseteq DOMAIN events'
    BY <1>2, <2>1, AppendFacts DEF StepFailsRetry, Domains
  <2> QED BY <1>2, <2>2, <2>3 DEF StepFailsRetry, AllowedReported
<1>3. CASE AllowFailure
  <2> DEFINE e == [kind |-> "allowed", step |-> k, attempt |-> 0]
  <2>1. e \in EventRecords /\ k \in 1..MaxSteps /\ outcome[k] # "allowed"
    BY <1>3, EventTypes DEF AllowFailure, Progress, Domains
  <2>2. e.kind = "allowed" /\ e.step = k /\ events' = Append(events, e)
    BY <1>3 DEF AllowFailure
  <2>3. DOMAIN events' = DOMAIN events \cup {Len(events) + 1}
    BY <2>1, <2>2, AppendFacts DEF Domains
  <2> HIDE DEF e
  <2>4. ASSUME NEW n \in 1..MaxSteps
        PROVE  /\ outcome'[n] = "allowed" => \E i \in DOMAIN events' : EventsOf("allowed", n)' = {i}
               /\ outcome'[n] # "allowed" => EventsOf("allowed", n)' = {}
    <3>1. CASE n = k
      <4>1. EventsOf("allowed", n)' = EventsOf("allowed", n) \cup {Len(events) + 1}
        BY <2>1, <2>2, <3>1, AppendedEvent
      <4>2. EventsOf("allowed", n) = {}
        BY <2>1, <3>1 DEF AllowedReported
      <4> QED BY <1>0, <1>3, <2>3, <3>1, <4>1, <4>2 DEF AllowFailure
    <3>2. CASE n # k
      <4>1. EventsOf("allowed", n)' = EventsOf("allowed", n)
        BY <2>1, <2>2, <3>2, AppendedEvent
      <4>2. outcome'[n] = outcome[n]
        BY <1>0, <1>3, <3>2 DEF AllowFailure
      <4> QED BY <2>3, <4>1, <4>2 DEF AllowedReported
    <3> QED BY <3>1, <3>2
  <2> QED BY <2>4 DEF AllowedReported
<1>4. CASE StepError
  <2>1. k \in 1..MaxSteps /\ outcome[k] # "allowed"
    BY <1>4, HereInRange DEF StepError, Progress, Domains
  <2>2. \A n \in 1..MaxSteps : outcome'[n] = "allowed" <=> outcome[n] = "allowed"
    BY <1>0, <1>4, <2>1 DEF StepError
  <2> QED BY <1>4, <2>2 DEF StepError, AllowedReported, EventsOf
<1>5. CASE JobRetry
  BY <1>5 DEF JobRetry, AllowedReported, EventsOf, NoOutcome
<1>6. CASE UNCHANGED <<outcome, events>>
  BY <1>6 DEF AllowedReported, EventsOf
<1>7. ASSUME StepFails \/ StepUnusable \/ DelayElapses \/ DelayCancelled \/ BuildSucceeds
             \/ BuildFails \/ Cancel \/ Over
      PROVE  UNCHANGED <<outcome, events>>
  BY <1>7 DEF StepFails, StepUnusable, DelayElapses, DelayCancelled, BuildSucceeds, BuildFails,
              Cancel, Over, vars
<1> QED BY <1>1, <1>2, <1>3, <1>4, <1>5, <1>6, <1>7 DEF Next, Work

LEMMA OutputsStep ==
  ASSUME StepsInv, Next
  PROVE  OutputsOf'
<1> USE DEF StepsInv
<1>1. CASE BuildSucceeds
  <2>1. k = NumSteps + 1 /\ k - 1 = NumSteps
    BY <1>1, StepsAssumption DEF BuildSucceeds, Domains
  <2>2. lastRef = 0 \/ LastGood(lastRef, NumSteps)
    BY <2>1 DEF GoodState, LastOf
  <2>3. nodeOutputs' = 0 \/ nodeOutputs' = lastRef
    BY <1>1 DEF BuildSucceeds, Sources
  <2>4. nodeOutputs' = 0 \/ LastGood(nodeOutputs, NumSteps)'
    BY <1>1, <2>2, <2>3 DEF BuildSucceeds, LastGood, NumSteps
  <2> QED BY <1>1, <2>4 DEF BuildSucceeds, OutputsOf
<1>2. CASE StepSucceeds \/ StepFails \/ StepUnusable \/ StepFailsRetry \/ DelayElapses
           \/ DelayCancelled \/ AllowFailure \/ StepError \/ BuildFails \/ JobRetry \/ Cancel
  <2>1. pc # "ok" /\ pc' # "ok" /\ UNCHANGED nodeOutputs
    BY <1>2 DEF StepSucceeds, StepFails, StepUnusable, StepFailsRetry, DelayElapses,
                DelayCancelled, AllowFailure, StepError, BuildFails, JobRetry, Cancel
  <2> QED BY <2>1 DEF OutputsOf
<1>3. CASE Over
  BY <1>3 DEF Over, vars, OutputsOf, LastGood, NumSteps
<1> QED BY <1>1, <1>2, <1>3 DEF Next, Work

(* What one step of the build's retry loop does to the numbers of step n. *)
LEMMA RetryStep ==
  ASSUME StepsInv, Next
  PROVE  RetryInv'
<1> USE DEF StepsInv
<1>0. /\ k \in Nat /\ 1 <= k /\ NumSteps \in Nat /\ attempt \in Nat
      /\ \A n \in 1..NumSteps : steps[n].retries \in Nat
  <2>1. \A n \in 1..NumSteps : steps[n] \in StepConfigs
    BY DEF Domains, NumSteps
  <2>2. \A n \in 1..NumSteps : steps[n].retries \in Nat
    BY <2>1, StepsAssumption DEF StepConfigs
  <2>3. NumSteps \in Nat
    BY StepsAssumption DEF Domains
  <2> QED BY <2>2, <2>3 DEF Domains
<1>1. CASE StepSucceeds
  <2>1. \A n : Solved(n)' = IF n = k THEN Solved(n) \cup {attempt} ELSE Solved(n)
    BY <1>1, AppendedSolve DEF StepSucceeds, ThisSolve
  <2>2. \A n : Announced(n)' = Announced(n)
    BY <1>1 DEF StepSucceeds, Announced, EventsOf
  <2>3. RetriesAnnounced'
    BY <1>1, <2>1, <2>2 DEF StepSucceeds, RetryInv, RetriesAnnounced, NumSteps
  <2>4. (k <= NumSteps => attempt < Maximum)'
    BY <1>0, <1>1 DEF StepSucceeds, Maximum, NumSteps
  <2> QED BY <1>1, <2>3, <2>4 DEF StepSucceeds, RetryInv
<1>2. CASE StepFails
  <2>1. \A n : Solved(n)' = IF n = k THEN Solved(n) \cup {attempt} ELSE Solved(n)
    BY <1>2, AppendedSolve DEF StepFails, ThisSolve
  <2>2. \A n : Announced(n)' = Announced(n)
    BY <1>2 DEF StepFails, Announced, EventsOf
  <2>3. RetriesAnnounced'
    BY <1>2, <2>1, <2>2 DEF StepFails, RetryInv, RetriesAnnounced, NumSteps
  <2> QED BY <1>2, <2>3 DEF StepFails, RetryInv, Maximum, NumSteps
<1>3. CASE StepFailsRetry
  <2> DEFINE e == RetryEvent(attempt + 2)
  <2>1. \A n : Solved(n)' = IF n = k THEN Solved(n) \cup {attempt} ELSE Solved(n)
    BY <1>3, AppendedSolve DEF StepFailsRetry, ThisSolve
  <2>2. e \in EventRecords /\ e.kind = "retry" /\ e.step = k /\ e.attempt = attempt + 2
    BY <1>3, EventTypes DEF StepFailsRetry, RetryEvent
  <2>3. events' = Append(events, e)
    BY <1>3 DEF StepFailsRetry
  <2> HIDE DEF e
  <2>4. \A n : Announced(n)' = IF n = k THEN Announced(n) \cup {attempt + 2} ELSE Announced(n)
    BY <2>2, <2>3, AppendedEvent
  <2>5. attempt + 1 < Maximum /\ attempt + 2 <= 1 + steps[k].retries /\ attempt + 2 - 2 = attempt
    BY <1>0, <1>3 DEF StepFailsRetry, Maximum
  <2>6. UNCHANGED <<steps, NumSteps, k, attempt, Maximum>> /\ pc' = "delay"
    BY <1>3 DEF StepFailsRetry, NumSteps, Maximum
  <2>7. attempt = 0 \/ attempt + 1 \in Announced(k)
    BY <1>3 DEF StepFailsRetry, RetryInv
  <2>8. ASSUME NEW n \in 1..NumSteps
        PROVE  /\ \A a \in Solved(n)' : a = 0 \/ a + 1 \in Announced(n)'
               /\ \A a \in Announced(n)' : a - 2 \in Solved(n)' /\ a <= 1 + steps[n].retries
    <3>1. /\ \A a \in Solved(n) : a = 0 \/ a + 1 \in Announced(n)
          /\ \A a \in Announced(n) : a - 2 \in Solved(n) /\ a <= 1 + steps[n].retries
      BY DEF RetryInv, RetriesAnnounced
    <3>2. CASE n = k
      <4>1. /\ Solved(n)' = Solved(n) \cup {attempt} /\ attempt + 2 - 2 = attempt
            /\ Announced(n)' = Announced(n) \cup {attempt + 2}
        BY <2>1, <2>4, <2>5, <3>2
      <4>2. \A a \in Solved(n)' : a = 0 \/ a + 1 \in Announced(n)'
        BY <2>7, <3>1, <3>2, <4>1
      <4>3. \A a \in Announced(n)' : a - 2 \in Solved(n)'
        <5> SUFFICES ASSUME NEW a \in Announced(n)' PROVE a - 2 \in Solved(n)'
          OBVIOUS
        <5>1. CASE a \in Announced(n)
          BY <3>1, <4>1, <5>1, Zenon
        <5>2. CASE a = attempt + 2
          <6>1. a - 2 = attempt
            BY <1>0, <5>2
          <6> QED BY <4>1, <6>1, Zenon
        <5> QED BY <4>1, <5>1, <5>2
      <4>4. \A a \in Announced(n)' : a <= 1 + steps[n].retries
        BY <2>5, <3>1, <3>2, <4>1
      <4> QED BY <4>2, <4>3, <4>4
    <3>3. CASE n # k
      BY <2>1, <2>4, <3>1, <3>3
    <3> QED BY <3>2, <3>3
  <2>9. RetriesAnnounced'
    BY <2>6, <2>8 DEF RetriesAnnounced
  <2>10. attempt \in Solved(k)' /\ attempt + 2 \in Announced(k)'
    BY <2>1, <2>4, <2>6
  <2>11. (k <= NumSteps => attempt < Maximum)'
    BY <1>0, <2>6, <1>3 DEF RetryInv, StepFailsRetry
  <2> QED BY <2>5, <2>6, <2>9, <2>10, <2>11 DEF RetryInv
<1>4. CASE DelayElapses
  <2>1. \A n : Announced(n)' = Announced(n) /\ Solved(n)' = Solved(n)
    BY <1>4 DEF DelayElapses, Announced, EventsOf, Solved
  <2>2. UNCHANGED <<steps, NumSteps, k, Maximum>> /\ attempt' = attempt + 1 /\ pc' = "step"
    BY <1>4 DEF DelayElapses, NumSteps, Maximum
  <2>3. RetriesAnnounced'
    BY <2>1, <2>2 DEF RetryInv, RetriesAnnounced
  <2>4. attempt' < Maximum' /\ attempt' + 1 \in Announced(k)'
    <3>1. attempt + 1 < Maximum /\ attempt + 2 \in Announced(k) /\ attempt + 1 + 1 = attempt + 2
      BY <1>0, <1>4 DEF DelayElapses, RetryInv
    <3> QED BY <2>1, <2>2, <3>1
  <2> QED BY <2>2, <2>3, <2>4 DEF RetryInv
<1>5. CASE AllowFailure
  <2>1. k <= NumSteps
    BY <1>5 DEF AllowFailure, Progress
  <2> DEFINE e == [kind |-> "allowed", step |-> k, attempt |-> 0]
  <2>2. e \in EventRecords /\ e.kind # "retry" /\ events' = Append(events, e)
    BY <1>5, <2>1, EventTypes DEF AllowFailure
  <2> HIDE DEF e
  <2>3. \A n : Announced(n)' = Announced(n)
    BY <2>2, AppendedEvent
  <2>4. \A n : Solved(n)' = Solved(n)
    BY <1>5 DEF AllowFailure, Solved
  <2>5. RetriesAnnounced'
    BY <1>5, <2>3, <2>4 DEF AllowFailure, RetryInv, RetriesAnnounced, NumSteps
  <2>6. (k <= NumSteps => attempt < Maximum)'
    BY <1>0, <1>5 DEF AllowFailure, Maximum, NumSteps
  <2> QED BY <1>5, <2>5, <2>6 DEF AllowFailure, RetryInv
<1>6. CASE JobRetry
  <2>1. \A n : Announced(n)' = {} /\ Solved(n)' = {}
    BY <1>6 DEF JobRetry, Announced, EventsOf, Solved
  <2>2. (k <= NumSteps => attempt < Maximum)'
    BY <1>0, <1>6 DEF JobRetry, Maximum, NumSteps
  <2> QED BY <1>6, <2>1, <2>2 DEF JobRetry, RetryInv, RetriesAnnounced
<1>7. CASE /\ UNCHANGED <<steps, k, attempt, events, solves>>
           /\ pc' \in {"failed", "error", "ok"} \/ UNCHANGED pc
  <2>1. \A n : Announced(n)' = Announced(n) /\ Solved(n)' = Solved(n)
    BY <1>7 DEF Announced, EventsOf, Solved
  <2>2. RetriesAnnounced'
    BY <1>7, <2>1 DEF RetryInv, RetriesAnnounced, NumSteps
  <2>3. UNCHANGED <<NumSteps, Maximum>>
    BY <1>7 DEF NumSteps, Maximum
  <2> QED BY <1>7, <2>1, <2>2, <2>3 DEF RetryInv
<1>8. ASSUME StepUnusable \/ DelayCancelled \/ StepError \/ BuildSucceeds \/ BuildFails
             \/ Cancel \/ Over
      PROVE  /\ UNCHANGED <<steps, k, attempt, events, solves>>
             /\ pc' \in {"failed", "error", "ok"} \/ UNCHANGED pc
  BY <1>8 DEF StepUnusable, DelayCancelled, StepError, BuildSucceeds, BuildFails, Cancel, Over, vars
<1> QED BY <1>1, <1>2, <1>3, <1>4, <1>5, <1>6, <1>7, <1>8 DEF Next, Work

LEMMA StepsStep ==
  ASSUME StepsInv, [Next]_vars
  PROVE  StepsInv'
<1>1. CASE Next
  BY <1>1, DomainsStep, ProgressStep, GoodStateStep, ReportedStep, OutputsStep, RetryStep DEF StepsInv
<1>2. CASE UNCHANGED vars
  <2> USE <1>2 DEF vars, StepsInv, NumSteps
  <2>1. Domains' /\ Progress'
    BY DEF Domains, Progress
  <2>2. GoodState' /\ OutputsOf'
    BY DEF GoodState, OutputsOf, LastOf, LastGood, ListsGood
  <2>3. AllowedReported'
    BY DEF AllowedReported, EventsOf
  <2>4. \A n : Announced(n)' = Announced(n) /\ Solved(n)' = Solved(n)
    BY DEF Announced, Solved, EventsOf
  <2>5. RetryInv'
    BY <2>4 DEF RetryInv, RetriesAnnounced, Maximum
  <2> QED BY <2>1, <2>2, <2>3, <2>5
<1> QED BY <1>1, <1>2

-----------------------------------------------------------------------------
(* Whatever stepControlBuildFunc solves, first attempt or retry, is based on  *)
(* exactly the earlier steps that succeeded, in order.                        *)
THEOREM StepsBuildOnGoodState == Spec => []BuiltOnGoodState
<1>1. StepsInv => BuiltOnGoodState
  BY DEF StepsInv, GoodState, BuiltOnGoodState
<1> QED BY <1>1, StepsInit, StepsStep, PTL DEF Spec

(* What a passing job ran and reported, where a failing one stopped, and whose *)
(* outputs are left for deferred conditions.                                   *)
THEOREM VerdictOfSteps == Spec => []JobVerdict
<1>1. StepsInv => JobVerdict
  <2> SUFFICES ASSUME StepsInv PROVE JobVerdict
    OBVIOUS
  <2>0. /\ NumSteps \in Nat /\ k \in Nat /\ 1..NumSteps \subseteq 1..MaxSteps
    BY StepsAssumption DEF StepsInv, Domains
  <2>1. ASSUME pc = "ok", NEW n \in 1..NumSteps
        PROVE  \/ outcome[n] = "ok" /\ EventsOf("allowed", n) = {}
               \/ /\ outcome[n] = "allowed" /\ steps[n].allow
                  /\ \E i \in DOMAIN events : EventsOf("allowed", n) = {i}
    <3>1. n < k /\ n \in 1..MaxSteps
      BY <2>0, <2>1 DEF StepsInv, Progress
    <3>2. outcome[n] = "ok" \/ (outcome[n] = "allowed" /\ steps[n].allow)
      BY <3>1 DEF StepsInv, Progress
    <3> QED BY <3>1, <3>2 DEF StepsInv, AllowedReported
  <2>2. ASSUME NEW n \in 1..NumSteps, outcome[n] = "failed"
        PROVE  pc = "error" /\ \A i \in DOMAIN solves : solves[i].step <= n
    <3>1. n \in 1..MaxSteps /\ (n < k \/ n >= k)
      BY <2>0
    <3>2. n = k /\ pc = "error"
      BY <2>2, <3>1 DEF StepsInv, Progress
    <3> QED BY <3>2 DEF StepsInv, GoodState
  <2> QED BY <2>1, <2>2 DEF JobVerdict, StepsInv, OutputsOf
<1> QED BY <1>1, StepsInit, StepsStep, PTL DEF Spec

-----------------------------------------------------------------------------
(* Delays: what 1 << n is, what checkedMul computes, and the documented wait. *)

(* Induction, for a set of numbers: the least number outside it has no        *)
(* predecessor outside it.                                                    *)
LEMMA EveryNat ==
  ASSUME NEW S, 0 \in S, \A n \in Nat : n \in S => n + 1 \in S
  PROVE  \A n \in Nat : n \in S
<1> DEFINE Rest == Nat \ S
<1> SUFFICES ASSUME Rest # {} PROVE FALSE
  OBVIOUS
<1>1. \E q \in Rest : \A p \in Rest : ~ (<<p, q>> \in OpToRel(<, Nat))
  <2>1. Rest \subseteq Nat
    OBVIOUS
  <2> HIDE DEF Rest
  <2> QED BY <2>1, WFMin, NatLessThanWellFounded
<1>2. \A p, q \in Nat : p < q => <<p, q>> \in OpToRel(<, Nat)
  BY DEF OpToRel
<1>3. PICK q \in Rest : \A p \in Rest : ~(p < q)
  BY <1>1, <1>2, Zenon
<1>4. q \in Nat \ {0} /\ q - 1 \in Nat /\ q - 1 < q /\ (q - 1) + 1 = q
  OBVIOUS
<1>5. q - 1 \in S
  BY <1>3, <1>4
<1> QED BY <1>4, <1>5
(* The first values of the shift, as a table. *)
Table(n, g) == /\ g \in [0..n -> Nat] /\ g[0] = 1
               /\ \A i \in 1..n : g[i] = 2 * g[i - 1]

(* There is a table of every length, by induction. *)
LEMMA TableExists == \A n \in Nat : \E g : Table(n, g)
<1> DEFINE S == {n \in Nat : \E g : Table(n, g)}
<1>1. 0 \in S
  <2>1. Table(0, [i \in 0..0 |-> 1])
    BY DEF Table
  <2> QED BY <2>1
<1>2. ASSUME NEW n \in Nat, n \in S
      PROVE  n + 1 \in S
  <2>1. PICK g : Table(n, g)
    BY <1>2
  <2> DEFINE h == [i \in 0..(n + 1) |-> IF i = n + 1 THEN 2 * g[n] ELSE g[i]]
  <2>2. \A i \in 0..n : g[i] \in Nat /\ h[i] = g[i]
    BY <2>1 DEF Table
  <2>3. h \in [0..(n + 1) -> Nat] /\ h[0] = 1 /\ h[n + 1] = 2 * g[n]
    BY <2>1, <2>2 DEF Table
  <2>4. ASSUME NEW i \in 1..(n + 1)
        PROVE  h[i] = 2 * h[i - 1]
    <3>1. i - 1 \in 0..n
      OBVIOUS
    <3>2. CASE i = n + 1
      BY <2>2, <2>3, <3>1, <3>2
    <3>3. CASE i \in 1..n
      BY <2>1, <2>2, <3>1, <3>3 DEF Table
    <3> QED BY <3>2, <3>3
  <2>5. Table(n + 1, h)
    BY <2>3, <2>4 DEF Table
  <2> QED BY <2>5
<1> HIDE DEF S
<1>3. \A n \in Nat : n \in S
  BY <1>1, <1>2, EveryNat
<1> QED BY <1>3 DEF S

(* Two tables agree as far as both go. *)
LEMMA TablesAgree ==
  ASSUME NEW m \in Nat, NEW n \in Nat, NEW g, NEW h, Table(m, g), Table(n, h)
  PROVE  \A i \in Nat : i <= m /\ i <= n => g[i] = h[i]
<1> DEFINE S == {i \in Nat : i <= m /\ i <= n => g[i] = h[i]}
<1>1. 0 \in S
  BY DEF Table
<1>2. ASSUME NEW i \in Nat, i \in S
      PROVE  i + 1 \in S
  <2> SUFFICES ASSUME i + 1 <= m, i + 1 <= n
               PROVE  g[i + 1] = h[i + 1]
    OBVIOUS
  <2>1. i + 1 \in 1..m /\ i + 1 \in 1..n /\ (i + 1) - 1 = i /\ i <= m /\ i <= n
    OBVIOUS
  <2>2. g[i + 1] = 2 * g[i] /\ h[i + 1] = 2 * h[i]
    BY <2>1 DEF Table
  <2> QED BY <1>2, <2>1, <2>2
<1> HIDE DEF S
<1>3. \A i \in Nat : i \in S
  BY <1>1, <1>2, EveryNat
<1> QED BY <1>3 DEF S

(* Hence the recursion of Shifted has a solution. *)
LEMMA ShiftedFacts ==
  /\ \A n \in Nat : Shifted[n] \in Nat
  /\ Shifted[0] = 1 /\ \A n \in Nat : Shifted[n + 1] = 2 * Shifted[n]
<1> DEFINE table(n) == CHOOSE g : Table(n, g)
           f == [n \in Nat |-> table(n)[n]]
<1>1. \A n \in Nat : Table(n, table(n))
  BY TableExists
<1> HIDE DEF table
<1>2. \A n \in Nat : f[n] \in Nat
  BY <1>1 DEF Table
<1>3. f[0] = 1
  BY <1>1 DEF Table
<1>4. ASSUME NEW n \in Nat \ {0}
      PROVE  f[n] = 2 * f[n - 1]
  <2>1. n - 1 \in Nat /\ n - 1 <= n /\ n \in 1..n /\ n - 1 <= n - 1
    OBVIOUS
  <2>2. table(n)[n] = 2 * table(n)[n - 1]
    BY <1>1, <2>1 DEF Table
  <2>3. table(n)[n - 1] = table(n - 1)[n - 1]
    BY <1>1, <2>1, TablesAgree
  <2> QED BY <2>1, <2>2, <2>3
<1>5. f = [n \in Nat |-> IF n = 0 THEN 1 ELSE 2 * f[n - 1]]
  <2>1. \A n \in Nat : f[n] = IF n = 0 THEN 1 ELSE 2 * f[n - 1]
    BY <1>3, <1>4
  <2>2. f = [n \in Nat |-> f[n]]
    OBVIOUS
  <2> HIDE DEF f
  <2> QED BY <2>1, <2>2
<1> HIDE DEF f
<1>6. Shifted = [n \in Nat |-> IF n = 0 THEN 1 ELSE 2 * Shifted[n - 1]]
  BY <1>5 DEF Shifted
<1>7. Shifted[0] = 1 /\ \A n \in Nat : Shifted[n + 1] = 2 * Shifted[n]
  <2>1. \A n \in Nat : n + 1 \in Nat /\ n + 1 # 0 /\ (n + 1) - 1 = n
    OBVIOUS
  <2> QED BY <1>6, <2>1
<1> DEFINE S == {n \in Nat : Shifted[n] \in Nat}
<1>8. 0 \in S /\ \A n \in Nat : n \in S => n + 1 \in S
  BY <1>7
<1> HIDE DEF S
<1>9. \A n \in Nat : n \in S
  BY <1>8, EveryNat
<1> QED BY <1>7, <1>9 DEF S

(* Shifting further never makes less. *)
LEMMA ShiftedGrows ==
  ASSUME NEW m \in Nat, NEW n \in Nat, m <= n
  PROVE  Shifted[m] <= Shifted[n] /\ 1 <= Shifted[m]
<1> DEFINE S == {d \in Nat : \A i \in Nat : 1 <= Shifted[i + d] /\ Shifted[i] <= Shifted[i + d]}
<1> DEFINE T == {i \in Nat : 1 <= Shifted[i]}
<1>1. \A i \in Nat : i \in T
  <2>1. 0 \in T
    BY ShiftedFacts
  <2>2. \A i \in Nat : i \in T => i + 1 \in T
    BY ShiftedFacts
  <2> HIDE DEF T
  <2> QED BY <2>1, <2>2, EveryNat
<1>2. 0 \in S
  BY <1>1, ShiftedFacts
<1>3. ASSUME NEW d \in Nat, d \in S
      PROVE  d + 1 \in S
  <2> SUFFICES ASSUME NEW i \in Nat
               PROVE  1 <= Shifted[i + (d + 1)] /\ Shifted[i] <= Shifted[i + (d + 1)]
    OBVIOUS
  <2>1. i + d \in Nat /\ i + (d + 1) = (i + d) + 1
    OBVIOUS
  <2>2. Shifted[i + (d + 1)] = 2 * Shifted[i + d] /\ Shifted[i + d] \in Nat /\ Shifted[i] \in Nat
    BY <2>1, ShiftedFacts
  <2>3. 1 <= Shifted[i + d] /\ Shifted[i] <= Shifted[i + d]
    BY <1>3
  <2> QED BY <2>2, <2>3
<1>4. n - m \in Nat /\ m + (n - m) = n
  OBVIOUS
<1>5. n - m \in S
  <2> HIDE DEF S
  <2> QED BY <1>2, <1>3, <1>4, EveryNat
<1>6. Shifted[m] <= Shifted[m + (n - m)]
  BY <1>5
<1> QED BY <1>1, <1>4, <1>6

LEMMA OverQuotient ==
  ASSUME NEW d \in Nat, NEW n \in Nat \ {0}, NEW m \in Nat
  PROVE  d > m \div n <=> d * n > m
OBVIOUS

LEMMA MaxIntFacts == MaxInt \in Nat /\ MaxDelay = MaxInt /\ MaxInt + 1 = Shifted[WordBits - 1]
<1>1. WordBits - 1 \in Nat
  BY WordBitsAssumption
<1>2. Shifted[WordBits - 1] \in Nat /\ 1 <= Shifted[WordBits - 1]
  BY <1>1, ShiftedFacts, ShiftedGrows
<1> QED BY <1>2 DEF MaxInt, MaxDelay

(* checkedMul is the product, cut off at the largest duration. *)
LEMMA CheckedProduct ==
  ASSUME NEW d \in 0..MaxInt, NEW n \in Nat \ {0}
  PROVE  CheckedMul(d, n) = IF d * n > MaxDelay THEN MaxDelay ELSE d * n
<1>1. MaxInt \in Nat /\ MaxDelay = MaxInt /\ d \in Nat /\ d <= MaxInt
  BY MaxIntFacts
<1> HIDE DEF MaxInt, MaxDelay
<1>2. CASE d = 0
  BY <1>1, <1>2 DEF CheckedMul
<1>3. CASE n = 1
  BY <1>1, <1>3 DEF CheckedMul
<1>4. CASE d # 0 /\ n # 1
  <2>1. d > MaxInt \div n <=> d * n > MaxInt
    BY <1>1, OverQuotient
  <2>2. CheckedMul(d, n) = IF d > MaxInt \div n THEN MaxDelay ELSE d * n
    BY <1>1, <1>4 DEF CheckedMul
  <2> QED BY <1>1, <2>1, <2>2
<1> QED BY <1>2, <1>3, <1>4

LEMMA Strategies ==
  ASSUME NEW d, NEW n
  PROVE  /\ RetryDelay(d, "linear", n) = CheckedMul(d, n + 1)
         /\ RetryDelay(d, "exponential", n) =
              IF n >= WordBits - 1 THEN MaxDelay ELSE CheckedMul(d, Shifted[n])
         /\ RetryDelay(d, "none", n) = d
         /\ ScheduledDelay(d, "linear", n) =
              IF d * (n + 1) > MaxDelay THEN MaxDelay ELSE d * (n + 1)
         /\ ScheduledDelay(d, "exponential", n) =
              IF d * Shifted[n] > MaxDelay THEN MaxDelay ELSE d * Shifted[n]
         /\ ScheduledDelay(d, "none", n) = IF d > MaxDelay THEN MaxDelay ELSE d
BY Zenon DEF RetryDelay, ScheduledDelay

(* The delay computed is the documented one, saturated, but for a delay of 0  *)
(* whose shift overflows.                                                     *)
LEMMA DelayAsScheduled ==
  ASSUME NEW d \in 0..MaxInt, NEW b \in Backoffs, NEW n \in Nat
  PROVE  /\ RetryDelay(d, b, n) \in 0..MaxDelay
         /\ RetryDelay(d, b, n) =
              IF d = 0 /\ b = "exponential" /\ n >= WordBits - 1
              THEN MaxDelay ELSE ScheduledDelay(d, b, n)
<1>1. /\ MaxInt \in Nat /\ MaxDelay = MaxInt /\ MaxInt + 1 = Shifted[WordBits - 1]
      /\ d \in Nat /\ d <= MaxInt /\ WordBits - 1 \in Nat
  BY MaxIntFacts, WordBitsAssumption
<1>2. CASE b = "linear"
  <2>1. n + 1 \in Nat \ {0}
    OBVIOUS
  <2>2. CheckedMul(d, n + 1) = IF d * (n + 1) > MaxDelay THEN MaxDelay ELSE d * (n + 1)
    BY <2>1, CheckedProduct
  <2>3. d * (n + 1) \in Nat
    BY <1>1
  <2>4. RetryDelay(d, b, n) = ScheduledDelay(d, b, n)
    BY <1>2, <2>2, Strategies
  <2> QED BY <1>1, <1>2, <2>2, <2>3, <2>4, Strategies
<1>3. CASE b = "exponential"
  <2>1. Shifted[n] \in Nat \ {0} /\ d * Shifted[n] \in Nat
    <3>1. Shifted[n] \in Nat /\ 1 <= Shifted[n]
      BY ShiftedFacts, ShiftedGrows
    <3> QED BY <1>1, <3>1
  <2>2. CASE n >= WordBits - 1
    <3>1. RetryDelay(d, b, n) = MaxDelay
      BY <1>3, <2>2, Strategies
    <3>2. ASSUME d # 0
          PROVE  ScheduledDelay(d, b, n) = MaxDelay
      <4>1. Shifted[WordBits - 1] <= Shifted[n]
        BY <1>1, <2>2, ShiftedGrows
      <4>2. Shifted[n] <= d * Shifted[n]
        BY <1>1, <2>1, <3>2
      <4>3. d * Shifted[n] > MaxDelay
        BY <1>1, <2>1, <4>1, <4>2
      <4> QED BY <1>3, <4>3, Strategies
    <3> QED BY <1>1, <1>3, <2>2, <3>1, <3>2
  <2>3. CASE ~(n >= WordBits - 1)
    <3>1. CheckedMul(d, Shifted[n]) = IF d * Shifted[n] > MaxDelay THEN MaxDelay ELSE d * Shifted[n]
      BY <2>1, CheckedProduct
    <3>2. RetryDelay(d, b, n) = ScheduledDelay(d, b, n)
      BY <1>3, <2>3, <3>1, Strategies
    <3> QED BY <1>1, <1>3, <2>1, <2>3, <3>1, <3>2, Strategies
  <2> QED BY <2>2, <2>3
<1>4. CASE b = "none"
  BY <1>1, <1>4, Strategies
<1> QED BY <1>2, <1>3, <1>4 DEF Backoffs

(* The wait belongs to the step and the attempt that failed. *)
DelayInv ==
  /\ delay \in 0..MaxDelay
  /\ pc = "delay" => delay = RetryDelay(steps[k].delay, steps[k].backoff, attempt)

LEMMA ConfigOf ==
  ASSUME Domains, k <= NumSteps
  PROVE  steps[k].delay \in 0..MaxInt /\ steps[k].backoff \in Backoffs
<1>1. steps \in Seq(StepConfigs) /\ k \in 1..Len(steps)
  BY HereInRange DEF Domains, NumSteps
<1>2. steps[k] \in StepConfigs
  BY <1>1
<1> QED BY <1>2, StepsAssumption DEF StepConfigs

LEMMA DelayStep ==
  ASSUME StepsInv, DelayInv, [Next]_vars
  PROVE  DelayInv'
<1>1. CASE StepFailsRetry
  <2>1. /\ k <= NumSteps /\ UNCHANGED <<steps, k, attempt>>
        /\ delay' = RetryDelay(steps[k].delay, steps[k].backoff, attempt)
    BY <1>1 DEF StepFailsRetry
  <2>2. Domains /\ attempt \in Nat
    BY DEF StepsInv, Domains
  <2>3. delay' \in 0..MaxDelay
    BY <2>1, <2>2, ConfigOf, DelayAsScheduled
  <2>4. RetryDelay(steps[k].delay, steps[k].backoff, attempt)' =
          RetryDelay(steps[k].delay, steps[k].backoff, attempt)
    BY <2>1
  <2> QED BY <2>1, <2>3, <2>4 DEF DelayInv
<1>2. CASE Cancel \/ Over \/ UNCHANGED vars
  <2>1. UNCHANGED <<pc, delay, steps, k, attempt>>
    BY <1>2 DEF Cancel, Over, vars
  <2>2. RetryDelay(steps[k].delay, steps[k].backoff, attempt)' =
          RetryDelay(steps[k].delay, steps[k].backoff, attempt)
    BY <2>1
  <2> QED BY <2>1, <2>2 DEF DelayInv
<1>3. CASE JobRetry
  <2>1. 0 \in 0..MaxDelay
    BY MaxIntFacts
  <2> QED BY <1>3, <2>1 DEF JobRetry, DelayInv
<1>4. CASE \/ StepSucceeds \/ StepFails \/ StepUnusable \/ DelayElapses \/ DelayCancelled
           \/ AllowFailure \/ StepError \/ BuildSucceeds \/ BuildFails
  <2>1. delay' = delay /\ pc' # "delay"
    BY <1>4 DEF StepSucceeds, StepFails, StepUnusable, DelayElapses, DelayCancelled, AllowFailure,
                StepError, BuildSucceeds, BuildFails
  <2> QED BY <2>1 DEF DelayInv
<1> QED BY <1>1, <1>2, <1>3, <1>4 DEF Next, Work

(* A sequence over S whose members are in T is one over T. *)
LEMMA SeqOver ==
  ASSUME NEW S, NEW T, NEW q \in Seq(S), \A i \in DOMAIN q : q[i] \in T
  PROVE  q \in Seq(T)
OBVIOUS

LEMMA InvTypes == StepsInv /\ DelayInv => TypeOK
<1> SUFFICES ASSUME StepsInv, DelayInv
             PROVE  TypeOK
  OBVIOUS
<1>1. Domains /\ DelayInv /\ GoodState /\ OutputsOf /\ RetryInv
  BY DEF StepsInv
<1>2. NumSteps \in Nat /\ k \in Nat /\ k - 1 <= NumSteps /\ MaxSteps \in Nat
  BY <1>1, StepsAssumption DEF Domains
<1>3. state \in Seq(1..NumSteps)
  <2>1. state \in Seq(1..MaxSteps) /\ ListsGood(state, k)
    BY <1>1 DEF Domains, GoodState
  <2>2. \A i \in DOMAIN state : state[i] \in 1..NumSteps
    <3> SUFFICES ASSUME NEW i \in DOMAIN state
                 PROVE  state[i] \in 1..NumSteps
      OBVIOUS
    <3>1. state[i] \in 1..(k - 1)
      BY <2>1 DEF ListsGood
    <3> QED BY <1>2, <3>1
  <2> QED BY <2>1, <2>2, SeqOver
<1>4. lastRef \in 0..NumSteps
  BY <1>1, <1>2 DEF GoodState, LastOf, LastGood
<1>5. nodeOutputs \in -1..NumSteps
  BY <1>1, <1>2 DEF OutputsOf, LastGood, Domains
<1>6. \A i \in 1..NumSteps : steps[i] \in StepConfigs
  BY <1>1 DEF Domains, NumSteps
<1> QED BY <1>1, <1>3, <1>4, <1>5, <1>6 DEF Domains, DelayInv, RetryInv, TypeOK

(* No step is attempted more often than its configuration allows, every retry *)
(* is announced under its number before solveStep makes it, and the wait      *)
(* before it is the documented one for any width of integers, but for a delay *)
(* of 0 whose shift overflows: checkedMul and the guard of the shift          *)
(* (internal/runner/node.go, retryDelay) saturate exactly when the product of *)
(* a positive delay would not fit.                                            *)
THEOREM RetriesFollowSchedule == Spec => []RetriesAsScheduled
<1>1. Init => DelayInv
  BY MaxIntFacts DEF Init, DelayInv
<1>2. StepsInv /\ DelayInv => RetriesAsScheduled
  <2> SUFFICES ASSUME StepsInv, DelayInv, pc = "delay", ~ZeroShifted
               PROVE  delay = ScheduledDelay(steps[k].delay, steps[k].backoff, attempt)
    BY InvTypes DEF RetriesAsScheduled, DelayAsDocumented, StepsInv, RetryInv
  <2>1. Domains /\ k <= NumSteps /\ attempt \in Nat
    BY DEF StepsInv, Domains, Progress
  <2>2. steps[k].delay \in 0..MaxInt /\ steps[k].backoff \in Backoffs
    BY <2>1, ConfigOf
  <2>3. delay = RetryDelay(steps[k].delay, steps[k].backoff, attempt)
    BY DEF DelayInv
  <2> QED BY <2>1, <2>2, <2>3, DelayAsScheduled DEF ZeroShifted
<1> QED BY <1>1, <1>2, StepsInit, StepsStep, DelayStep, PTL DEF Spec
=============================================================================
