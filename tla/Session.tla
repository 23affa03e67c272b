------------------------------ MODULE Session -------------------------------
(***************************************************************************)
(* The status sessions of internal/runner/status.go and the message        *)
(* channel of a progress display (plain, quiet and tui all have the same). *)
(*                                                                         *)
(* One session per solve:                                                  *)
(*                                                                         *)
(*    solver --src--> tee --out--> bridge --ch--> display consumer         *)
(*                                                                         *)
(* src and out are unbuffered, so a send is a rendezvous; ch is buffered   *)
(* and shared by all sessions.  The tee is left out when there is no       *)
(* collector, no secret and no observer; the bridge then reads src.  The   *)
(* solver (BuildKit, external) blocks in each send, closes src when it has *)
(* sent everything, and then returns; the caller then waits for the bridge *)
(* only.  executePipeline shuts the display down after every caller is     *)
(* back.                                                                   *)
(***************************************************************************)
EXTENDS Naturals, Sequences, FiniteSets, Display

CONSTANTS
  Sessions,     \* concurrent solves (jobs, exports, publishes)
  Interposed,   \* sessions with a tee
  NilStatus,    \* <<s, n>>: the nth status of s is a nil pointer
  Capacity      \* capacity of the display's channel (64 in the code)

(* The positions of the reports in the statuses N of s, and the reports. *)
Positions(s, N) == UNION {{<<n, i>> : i \in DOMAIN Statuses[s][n]} : n \in N}
ReportAt(s, p)  == Statuses[s][p[1]][p[2]]
ReportsIn(s, N) == {ReportAt(s, p) : p \in Positions(s, N)}

ASSUME SessionAssumption ==
  /\ IsFiniteSet(Sessions)
  /\ Interposed \subseteq Sessions
  /\ DOMAIN Statuses = Sessions
  /\ \A s \in Sessions : Statuses[s] \in Seq(Seq(Reports))
  /\ \A s \in Sessions : \A v, w \in ReportsIn(s, DOMAIN Statuses[s]) :
       v.digest = w.digest => v.step = w.step   \* a vertex has one name
  /\ StepTimeouts \in [Sessions -> SUBSET STRING]
  /\ DOMAIN Lenient \subseteq Sessions
  /\ NilStatus \subseteq {sn \in Interposed \X Nat : sn[2] \in DOMAIN Statuses[sn[1]]}
  /\ Capacity \in Nat \ {0}

VARIABLES
  total,      \* how many statuses each solver will send
  emitted,    \* how many it has sent
  srcClosed,  \* sessions whose src is closed
  outClosed,  \* sessions whose out is closed
  caller,     \* the goroutine in solveJob
  tee,        \* the goroutine of teeStatus
  teeItem,    \* the status it is forwarding
  bridge,     \* the goroutine of bridgeStatus
  bridgeItem, \* the status it is sending
  observed,   \* statuses redacted and given to collector and observer
  flushed,    \* sessions whose observer was flushed
  noted,      \* sessions whose build function announced an allowed failure
  cancelled,  \* sessions whose context is done
  ch,         \* the display's channel
  chClosed,   \* Shutdown closed it
  shown,      \* messages of each session that the display consumed
  display     \* the consumer and executePipeline's Shutdown

teeVars    == <<outClosed, tee, teeItem, observed, flushed>>
bridgeVars == <<bridge, bridgeItem>>
solverVars == <<total, emitted, srcClosed, noted>>
chVars     == <<ch, chClosed, shown, display>>
vars == <<total, emitted, srcClosed, noted, outClosed, caller, tee, teeItem, bridge,
          bridgeItem, observed, flushed, cancelled, ch, chClosed, shown, display>>

Added(s)     == [kind |-> "added", job |-> s, n |-> 0]
Status(s, n) == [kind |-> "status", job |-> s, n |-> n]
Done(s)      == [kind |-> "done", job |-> s, n |-> 0]
Allowed(s)   == [kind |-> "allowed", job |-> s, n |-> 0]
Timeout(s)   == [kind |-> "timeout", job |-> s, n |-> 0]

Msgs == [kind : {"added", "status", "done", "allowed", "timeout"}, job : Sessions, n : Nat]

(* A solver sends all its statuses, or breaks off after some of them. *)
Totals ==
  {f \in [Sessions -> UNION {0..Len(Statuses[s]) : s \in Sessions}] :
     \A s \in Sessions : f[s] <= Len(Statuses[s])}

Init ==
  /\ total \in Totals
  /\ emitted = [s \in Sessions |-> 0]
  /\ srcClosed = {}
  /\ noted = {}
  /\ outClosed = {}
  /\ caller = [s \in Sessions |-> "start"]
  /\ tee = [s \in Sessions |-> "none"]
  /\ teeItem = [s \in Sessions |-> 0]
  /\ bridge = [s \in Sessions |-> "none"]
  /\ bridgeItem = [s \in Sessions |-> 0]
  /\ observed = [s \in Sessions |-> << >>]
  /\ flushed = {}
  /\ cancelled = {}
  /\ ch = << >>
  /\ chClosed = FALSE
  /\ shown = [s \in Sessions |-> << >>]
  /\ display = "consuming"

(* A send on ch blocks while it is full; on a closed channel it panics, which *)
(* PanicFree excludes.                                                        *)
Send(msg) ==
  /\ Len(ch) < Capacity
  /\ ch' = Append(ch, msg)
  /\ UNCHANGED <<chClosed, shown, display>>

-----------------------------------------------------------------------------
(* newStatusSession, the Solve call and sess.Wait.                           *)

OpenSession(s) ==
  /\ caller[s] = "start"
  /\ Send(Added(s))
  /\ caller' = [caller EXCEPT ![s] = "solving"]
  /\ tee' = [tee EXCEPT ![s] = IF s \in Interposed THEN "recv" ELSE "none"]
  /\ bridge' = [bridge EXCEPT ![s] = "recv"]
  /\ UNCHANGED <<solverVars, outClosed, teeItem, observed, flushed, bridgeItem, cancelled>>

SolveReturns(s) ==
  /\ caller[s] = "solving"
  /\ s \in srcClosed
  /\ caller' = [caller EXCEPT ![s] = "waiting"]
  /\ UNCHANGED <<solverVars, teeVars, bridgeVars, cancelled, chVars>>

(* Mutant: the caller does not wait for the bridge. *)
WaitSkipped(s) ==
  /\ caller[s] = "waiting"
  /\ caller' = [caller EXCEPT ![s] = "returned"]
  /\ UNCHANGED <<solverVars, teeVars, bridgeVars, cancelled, chVars>>

(* Back in runNode: if the solve failed because the job's time was up, its    *)
(* timeout is reported.                                                       *)
Wait(s) ==
  /\ caller[s] = "waiting"
  /\ bridge[s] = "exited"
  /\ \E pc \in {"returned"} \cup (IF s \in cancelled THEN {"timedOut"} ELSE {}) :
       caller' = [caller EXCEPT ![s] = pc]
  /\ UNCHANGED <<solverVars, teeVars, bridgeVars, cancelled, chVars>>

ReportTimeout(s) ==
  /\ caller[s] = "timedOut"
  /\ Send(Timeout(s))
  /\ caller' = [caller EXCEPT ![s] = "returned"]
  /\ UNCHANGED <<solverVars, teeVars, bridgeVars, cancelled>>

Cancel(s) ==
  /\ s \notin cancelled
  /\ caller[s] \notin {"timedOut", "returned"}
  /\ cancelled' = cancelled \cup {s}
  /\ UNCHANGED <<solverVars, teeVars, bridgeVars, caller, chVars>>

(* The build function runs in this process, beside the status stream: the     *)
(* vertex's error may reach the display before or after this message.  An     *)
(* allow-failure step that a cancellation ends is announced as well.          *)
FailureTolerated(s) == s \in DOMAIN Lenient /\ total[s] = Len(Statuses[s])

NoteAllowedFailure(s) ==
  /\ caller[s] = "solving"
  /\ s \notin srcClosed
  /\ s \in DOMAIN Lenient
  /\ s \notin noted
  /\ FailureTolerated(s) \/ s \in cancelled
  /\ Send(Allowed(s))
  /\ noted' = noted \cup {s}
  /\ UNCHANGED <<total, emitted, srcClosed, teeVars, bridgeVars, caller, cancelled>>

(* BuildKit ends the solve when the build function has returned. *)
CloseSrc(s) ==
  /\ caller[s] = "solving"
  /\ s \notin srcClosed
  /\ emitted[s] = total[s]
  /\ FailureTolerated(s) => s \in noted \cup cancelled
  /\ srcClosed' = srcClosed \cup {s}
  /\ UNCHANGED <<total, emitted, noted, teeVars, bridgeVars, caller, cancelled, chVars>>

-----------------------------------------------------------------------------
(* teeStatus.  The solver's send and the receive are one step.               *)

CanEmit(s) == caller[s] = "solving" /\ emitted[s] < total[s]

Emit(s) ==
  /\ CanEmit(s)
  /\ emitted' = [emitted EXCEPT ![s] = @ + 1]

(* Mutant: a status is forwarded without having been redacted. *)
TeeForwardsRaw(s) ==
  /\ tee[s] = "recv"
  /\ Emit(s)
  /\ IF <<s, emitted'[s]>> \in NilStatus
     THEN UNCHANGED <<tee, teeItem>>
     ELSE /\ tee' = [tee EXCEPT ![s] = "forward"]
          /\ teeItem' = [teeItem EXCEPT ![s] = emitted'[s]]
  /\ UNCHANGED <<total, srcClosed, noted, outClosed, observed, flushed, bridgeVars, caller,
                 cancelled, chVars>>

TeeReceives(s) ==
  /\ tee[s] = "recv"
  /\ Emit(s)
  /\ IF <<s, emitted'[s]>> \in NilStatus
     THEN UNCHANGED <<tee, teeItem, observed>>
     ELSE /\ tee' = [tee EXCEPT ![s] = "forward"]
          /\ teeItem' = [teeItem EXCEPT ![s] = emitted'[s]]
          /\ observed' = [observed EXCEPT ![s] = Append(@, emitted'[s])]
  /\ UNCHANGED <<total, srcClosed, noted, outClosed, flushed, bridgeVars, caller, cancelled, chVars>>

(* Mutant: the tee returns without draining src. *)
TeeLeavesUndrained(s) ==
  /\ \/ tee[s] = "recv" /\ s \in srcClosed
     \/ tee[s] \in {"recv", "forward"} /\ s \in cancelled
  /\ tee' = [tee EXCEPT ![s] = "exited"]
  /\ outClosed' = outClosed \cup {s}
  /\ flushed' = flushed \cup {s}
  /\ UNCHANGED <<solverVars, teeItem, observed, bridgeVars, caller, cancelled, chVars>>

(* The loop ends: src is closed, or the context is done (also while a status  *)
(* waits to be forwarded, which is then dropped).  First defer: close(out).   *)
TeeLeaves(s) ==
  /\ \/ tee[s] = "recv" /\ s \in srcClosed
     \/ tee[s] \in {"recv", "forward"} /\ s \in cancelled
  /\ tee' = [tee EXCEPT ![s] = "draining"]
  /\ outClosed' = outClosed \cup {s}
  /\ UNCHANGED <<solverVars, teeItem, observed, flushed, bridgeVars, caller, cancelled, chVars>>

(* Second defer: drainChannel(src), until src is closed. *)
TeeDrains(s) ==
  /\ tee[s] = "draining"
  /\ Emit(s)
  /\ UNCHANGED <<total, srcClosed, noted, teeVars, bridgeVars, caller, cancelled, chVars>>

(* Third defer: observer.Flush. *)
TeeFlushes(s) ==
  /\ tee[s] = "draining"
  /\ s \in srcClosed
  /\ tee' = [tee EXCEPT ![s] = "exited"]
  /\ flushed' = flushed \cup {s}
  /\ UNCHANGED <<solverVars, outClosed, teeItem, observed, bridgeVars, caller, cancelled, chVars>>

-----------------------------------------------------------------------------
(* bridgeStatus.                                                             *)

(* Mutant: the bridge watches the solver's channel, not its own. *)
DisplayClosedAtSource(s) == s \in srcClosed

DisplayClosed(s) == IF s \in Interposed THEN s \in outClosed ELSE s \in srcClosed

(* A receive from displayCh: from the tee, or straight from the solver. *)
Receive(s, n) ==
  IF s \in Interposed
  THEN /\ tee[s] = "forward"
       /\ n = teeItem[s]
       /\ tee' = [tee EXCEPT ![s] = "recv"]
       /\ UNCHANGED <<solverVars, outClosed, teeItem, observed, flushed>>
  ELSE /\ Emit(s)
       /\ n = emitted[s] + 1
       /\ UNCHANGED <<total, srcClosed, noted, teeVars>>

BridgeReceives(s) ==
  /\ bridge[s] = "recv"
  /\ \E n \in DOMAIN Statuses[s] :
       /\ Receive(s, n)
       /\ bridgeItem' = [bridgeItem EXCEPT ![s] = n]
  /\ bridge' = [bridge EXCEPT ![s] = "send"]
  /\ UNCHANGED <<caller, cancelled, chVars>>

BridgeSends(s) ==
  /\ bridge[s] = "send"
  /\ Send(Status(s, bridgeItem[s]))
  /\ bridge' = [bridge EXCEPT ![s] = "recv"]
  /\ UNCHANGED <<solverVars, teeVars, bridgeItem, caller, cancelled>>

(* Mutant: a cancelled bridge returns without its deferred JobDone. *)
BridgeCancelledSilently(s) ==
  /\ bridge[s] = "recv"
  /\ s \in cancelled
  /\ bridge' = [bridge EXCEPT ![s] = "exited"]
  /\ UNCHANGED <<solverVars, teeVars, bridgeItem, caller, cancelled, chVars>>

BridgeCancelled(s) ==
  /\ bridge[s] = "recv"
  /\ s \in cancelled
  /\ bridge' = [bridge EXCEPT ![s] = "draining"]
  /\ UNCHANGED <<solverVars, teeVars, bridgeItem, caller, cancelled, chVars>>

BridgeDrains(s) ==
  /\ bridge[s] = "draining"
  /\ \E n \in DOMAIN Statuses[s] : Receive(s, n)
  /\ UNCHANGED <<bridgeVars, caller, cancelled, chVars>>

BridgeLeaves(s) ==
  /\ bridge[s] \in {"recv", "draining"}
  /\ DisplayClosed(s)
  /\ bridge' = [bridge EXCEPT ![s] = "finish"]
  /\ UNCHANGED <<solverVars, teeVars, bridgeItem, caller, cancelled, chVars>>

(* The deferred JobDoneMsg; then wg.Done. *)
BridgeFinishes(s) ==
  /\ bridge[s] = "finish"
  /\ Send(Done(s))
  /\ bridge' = [bridge EXCEPT ![s] = "exited"]
  /\ UNCHANGED <<solverVars, teeVars, bridgeItem, caller, cancelled>>

-----------------------------------------------------------------------------
(* The display: its consumer goroutine and Shutdown.                         *)

sessionVars == <<solverVars, teeVars, bridgeVars, caller, cancelled>>

Consume ==
  /\ display \in {"consuming", "stopping"}
  /\ ch # << >>
  /\ ch' = Tail(ch)
  /\ shown' = [shown EXCEPT ![Head(ch).job] = Append(@, Head(ch))]
  /\ UNCHANGED <<sessionVars, chClosed, display>>

(* What the display made of what it consumed: the TUI's jobs, or the plain    *)
(* display's trackers and lines.  Neither lets one job's messages touch       *)
(* another's, and both are determined by the messages, so they are computed   *)
(* from the messages of one session.                                          *)
tui(s) ==
  LET upto[i \in 0..Len(shown[s])] ==
        IF i = 0 THEN newMultiModel ELSE Update(upto[i - 1], shown[s][i])
  IN  upto[Len(shown[s])]

plain(s) ==
  LET upto[i \in 0..Len(shown[s])] ==
        IF i = 0 THEN newConsumer ELSE consume(upto[i - 1], shown[s][i])
  IN  upto[Len(shown[s])]

AllBack == \A s \in Sessions : caller[s] = "returned"

Shutdown ==
  /\ display = "consuming"
  /\ AllBack
  /\ chClosed' = TRUE
  /\ display' = "stopping"
  /\ UNCHANGED <<sessionVars, ch, shown>>

(* The consumer sees the closed, empty channel; Shutdown's wg.Wait returns. *)
ShutdownReturns ==
  /\ display = "stopping"
  /\ ch = << >>
  /\ display' = "stopped"
  /\ UNCHANGED <<sessionVars, ch, chClosed, shown>>

-----------------------------------------------------------------------------
SessionStep(s) ==
  \/ OpenSession(s) \/ SolveReturns(s) \/ Wait(s) \/ ReportTimeout(s)
  \/ NoteAllowedFailure(s) \/ CloseSrc(s)
  \/ TeeReceives(s) \/ TeeLeaves(s) \/ TeeDrains(s) \/ TeeFlushes(s)
  \/ BridgeReceives(s) \/ BridgeSends(s) \/ BridgeCancelled(s)
  \/ BridgeDrains(s) \/ BridgeLeaves(s) \/ BridgeFinishes(s)

DisplayStep == Consume \/ Shutdown \/ ShutdownReturns

Exited(s) == tee[s] \in {"none", "exited"}

Terminated == display = "stopped" /\ (\A s \in Sessions : Exited(s)) /\ UNCHANGED vars

Next ==
  \/ \E s \in Sessions : SessionStep(s) \/ Cancel(s)
  \/ DisplayStep
  \/ Terminated

Fairness ==
  /\ \A s \in Sessions : WF_vars(SessionStep(s))
  /\ WF_vars(DisplayStep)

Spec == Init /\ [][Next]_vars

FairSpec == Spec /\ Fairness

-----------------------------------------------------------------------------
(* Properties.                                                               *)

(* Every variable stays in its domain, and the channel within its capacity. *)
TypeOK ==
  /\ total \in Totals
  /\ \A s \in Sessions :
       /\ emitted[s] \in 0..total[s]
       /\ teeItem[s] \in 0..total[s] /\ bridgeItem[s] \in 0..total[s]
       /\ observed[s] \in Seq(1..total[s])
  /\ \A S \in {srcClosed, outClosed, flushed, noted, cancelled} : S \subseteq Sessions
  /\ caller \in [Sessions -> {"start", "solving", "waiting", "timedOut", "returned"}]
  /\ tee \in [Sessions -> {"none", "recv", "forward", "draining", "exited"}]
  /\ bridge \in [Sessions -> {"none", "recv", "send", "draining", "finish", "exited"}]
  /\ ch \in Seq(Msgs) /\ Len(ch) <= Capacity
  /\ chClosed \in BOOLEAN
  /\ shown \in [Sessions -> Seq(Msgs)]
  /\ display \in {"consuming", "stopping", "stopped"}

(* Everything a session sent to the display. *)
Sent(s) ==
  {shown[s][i] : i \in DOMAIN shown[s]} \cup {ch[i] : i \in {j \in DOMAIN ch : ch[j].job = s}}

(* No goroutine sends on a closed channel (a panic in Go): once Shutdown has  *)
(* closed ch, no bridge and no caller is about to send or can become so.      *)
PanicFree ==
  chClosed => \A s \in Sessions : caller[s] = "returned" /\ bridge[s] = "exited"

(* Session s may send x at some time before y. *)
MayPrecede(s, x, y) ==
  /\ y.kind # "added" /\ x.kind # "timeout"
  /\ y.kind = "status" => x.kind # "done" /\ x.n < y.n
  /\ y.kind = "done" => x.kind # "done"
  /\ y.kind = "allowed" => x.kind # "allowed" /\ (x.kind = "done" => s \in cancelled)

(* The messages of s that were consumed and those in the channel, in order. *)
InOrder(s) ==
  /\ \A i, j \in DOMAIN shown[s] : i < j => MayPrecede(s, shown[s][i], shown[s][j])
  /\ \A i \in DOMAIN shown[s], j \in DOMAIN ch :
       ch[j].job = s => MayPrecede(s, shown[s][i], ch[j])
  /\ \A i, j \in DOMAIN ch :
       i < j /\ ch[i].job = s /\ ch[j].job = s => MayPrecede(s, ch[i], ch[j])

(* What a display sees of a session is in order, cancelled or not: first      *)
(* JobAdded; then statuses in the order the solver sent them; then one        *)
(* JobDone; last the job's timeout, if that is what ended it.  An allowed     *)
(* failure may be announced anywhere after JobAdded (if the session was       *)
(* cancelled even after JobDone), but not after the timeout.                  *)
SessionOrder ==
  /\ TypeOK
  /\ \A s \in Sessions :
       /\ InOrder(s)
       /\ Sent(s) # {} => Added(s) \in Sent(s)
       /\ Timeout(s) \in Sent(s) => Done(s) \in Sent(s) /\ s \in cancelled
       /\ caller[s] = "returned" => Done(s) \in Sent(s)

(* The statuses of s that a display is sent. *)
Real(s) == {n \in 1..total[s] : <<s, n>> \notin NilStatus}

(* Nothing is lost: when an uncancelled session's caller is back, every       *)
(* non-nil status was redacted and collected, and reached the display.        *)
EveryStatusArrives ==
  \A s \in Sessions : caller[s] = "returned" /\ s \notin cancelled =>
    /\ {m.n : m \in {x \in Sent(s) : x.kind = "status"}} = Real(s)
    /\ s \in Interposed => Len(observed[s]) = Cardinality(Real(s))

(* A vertex that was reported like this is over. *)
Ended(v) == v.error # "none" \/ v.cached \/ v.completed

Before(p, q) == p[1] < q[1] \/ (p[1] = q[1] /\ p[2] < q[2])

(* Of the reports of vertex d at positions P, the one at p counts: it is the  *)
(* first to say that d is over, or none does and p says that d has started if *)
(* any does.                                                                  *)
Decides(s, d, p, P) ==
  LET v     == ReportAt(s, p)
      about == {q \in P : ReportAt(s, q).digest = d}
  IN  /\ v.digest = d
      /\ Ended(v) => \A q \in about : Ended(ReportAt(s, q)) => ~Before(q, p)
      /\ ~Ended(v) => \A q \in about :
                        ~Ended(ReportAt(s, q)) /\ (ReportAt(s, q).started => v.started)

(* The status that v deserves, if the failures of the steps in lenient are    *)
(* allowed.                                                                   *)
Deserved(s, v, lenient) ==
  IF v.error # "none"
  THEN IF v.step \in lenient THEN "allowedFailure"
       ELSE IF v.error = "exit124" /\ v.digest \in StepTimeouts[s] THEN "timeout"
       ELSE "error"
  ELSE IF v.cached THEN "cached"
  ELSE IF v.completed THEN "done"
  ELSE IF v.started THEN "running" ELSE "pending"

Tolerated(s) == IF FailureTolerated(s) THEN {Lenient[s]} ELSE {}

Digests(s, P) == {ReportAt(s, p).digest : p \in P}

(* How often the plain display logged the start and the end of a vertex. *)
Starts(s, d) == Times(plain(s).log, Line(s, d, "started"))
Ends(s, d) ==
  Times(plain(s).log, Line(s, d, "done")) + Times(plain(s).log, Line(s, d, "cached"))
    + Times(plain(s).log, Line(s, d, "error")) + Times(plain(s).log, Line(s, d, "timeout"))

(* The screen tells the truth when the display has stopped.  The TUI shows    *)
(* every job as done; every vertex of an uncancelled one as BuildKit first    *)
(* reported its end, or its progress if it reported no end, with its failure  *)
(* as allowed if it was, whether that was announced before or after the       *)
(* failure arrived (model.go promises "order-independent promotion"); and no  *)
(* vertex of a timed-out job as still running.  The plain display logs no     *)
(* start twice, no end twice that is not an error, and an end of every vertex *)
(* with a timeout that it logged the start of, also if BuildKit never         *)
(* reported that end.                                                         *)
ScreenIsTrue ==
  display = "stopped" => \A s \in Sessions :
    LET js == tui(s)[s]
        P  == Positions(s, Real(s))
    IN
    /\ js.done
    /\ s \notin cancelled =>
         /\ DOMAIN js.vertices = Digests(s, P)
         /\ \A d \in Digests(s, P) : \E p \in P :
              /\ Decides(s, d, p, P)
              /\ js.vertices[d].status = Deserved(s, ReportAt(s, p), Tolerated(s))
    /\ js.timedOut => \A d \in DOMAIN js.vertices : js.vertices[d].status # "running"
    /\ \A d \in Digests(s, P) :
         /\ Starts(s, d) <= 1
         /\ Ends(s, d) > 1 => \E p \in P : ReportAt(s, p).digest = d /\ ReportAt(s, p).error # "none"
         /\ d \in StepTimeouts[s] /\ Starts(s, d) = 1 => Ends(s, d) >= 1

(* Nothing the solver said gets lost on its way to collector and display, and *)
(* the display draws the right picture from it, whatever overtook what.       *)
NothingLost == EveryStatusArrives /\ ScreenIsTrue

(* The statuses that were redacted and given to collector and observer. *)
Observed(s) == {observed[s][i] : i \in DOMAIN observed[s]}

(* No plaintext secret is displayed: with a tee, whatever reaches the display *)
(* was redacted before, and the observer hears nothing after its Flush.       *)
RedactedFirst ==
  [][\A s \in Interposed :
       /\ \A m \in Sent(s)' : m.kind = "status" => m.n \in Observed(s)
       /\ s \in flushed => observed'[s] = observed[s]]_vars

(* Nobody waits for ever, whatever is cancelled when: every solver gets rid   *)
(* of its statuses, every caller returns, Shutdown returns, and every         *)
(* observer is flushed and its goroutine gone.                                *)
EverythingEnds ==
  <>(display = "stopped" /\ \A s \in Sessions : Exited(s) /\ (s \in Interposed => s \in flushed))
=============================================================================
