---------------------------- MODULE SessionProofs ----------------------------
(***************************************************************************)
(* Theorems about the status sessions, for any number of sessions, with or *)
(* without a tee, any statuses and any capacity of the display's channel:  *)
(* no goroutine sends on the closed channel, every display sees a session  *)
(* in order, nothing is shown that was not redacted before, nothing is     *)
(* lost, and the displays draw the right picture from what they are sent.  *)
(***************************************************************************)
EXTENDS Session, FiniteSetTheorems, NaturalsInduction, WellFoundedInduction, TLAPS

Callers == {"start", "solving", "waiting", "timedOut", "returned"}
Tees == {"none", "recv", "forward", "draining", "exited"}
Bridges == {"none", "recv", "send", "draining", "finish", "exited"}

Domains ==
  /\ total \in [Sessions -> Nat]
  /\ \A s \in Sessions : total[s] <= Len(Statuses[s])
  /\ emitted \in [Sessions -> Nat] /\ teeItem \in [Sessions -> Nat]
  /\ bridgeItem \in [Sessions -> Nat] /\ observed \in [Sessions -> Seq(Nat)]
  /\ srcClosed \subseteq Sessions /\ outClosed \subseteq Sessions /\ flushed \subseteq Sessions
  /\ noted \subseteq Sessions /\ cancelled \subseteq Sessions
  /\ caller \in [Sessions -> Callers] /\ tee \in [Sessions -> Tees]
  /\ bridge \in [Sessions -> Bridges]
  /\ ch \in Seq(Msgs) /\ Len(ch) <= Capacity
  /\ shown \in [Sessions -> Seq(Msgs)]
  /\ chClosed \in BOOLEAN /\ display \in {"consuming", "stopping", "stopped"}

(* The goroutines of a session: when they run and how they end. *)
Goroutines(s) ==
  /\ caller[s] = "start" => bridge[s] = "none" /\ tee[s] = "none" /\ s \notin srcClosed
  /\ caller[s] # "start" => bridge[s] # "none"
  /\ caller[s] # "start" /\ s \in Interposed => tee[s] # "none"
  /\ s \notin Interposed => tee[s] = "none"
  /\ caller[s] \in {"timedOut", "returned"} => bridge[s] = "exited"
  /\ caller[s] = "timedOut" => s \in cancelled
  /\ bridge[s] \in {"finish", "exited"} => DisplayClosed(s)
  /\ s \in outClosed => s \in srcClosed \/ s \in cancelled

(* The statuses on their way: what is further along has a smaller number. *)
Numbers(s) ==
  /\ emitted[s] <= total[s]
  /\ teeItem[s] <= emitted[s] /\ bridgeItem[s] <= emitted[s]
  /\ s \in Interposed => bridgeItem[s] <= teeItem[s]
  /\ tee[s] = "forward" => bridgeItem[s] < teeItem[s]
  /\ \A m \in Sent(s) : m.n <= bridgeItem[s]
  /\ bridge[s] = "send" => \A m \in Sent(s) : m.n < bridgeItem[s]
  /\ \A n \in Observed(s) : n \in 1..emitted[s]

(* What has been sent follows from where the goroutines are. *)
Messages(s) ==
  /\ \A m \in Sent(s) :
       /\ m \in Msgs /\ m.job = s /\ (m.kind # "status" => m.n = 0)
       /\ caller[s] # "start"
       /\ m.kind = "done" => bridge[s] = "exited"
       /\ m.kind = "allowed" => s \in noted
       /\ m.kind = "timeout" => caller[s] = "returned" /\ s \in cancelled
  /\ caller[s] # "start" => Added(s) \in Sent(s)
  /\ bridge[s] = "exited" => Done(s) \in Sent(s)

(* With a tee, everything beyond it was redacted. *)
Redacted(s) ==
  s \in Interposed =>
    /\ \A m \in Sent(s) : m.kind = "status" => m.n \in Observed(s)
    /\ bridge[s] = "send" => bridgeItem[s] \in Observed(s)
    /\ tee[s] = "forward" => teeItem[s] \in Observed(s)
    /\ s \in flushed => tee[s] = "exited"

Channel ==
  /\ chClosed = TRUE <=> display # "consuming"
  /\ chClosed = TRUE => AllBack

SessionInv ==
  /\ Domains /\ Channel
  /\ \A s \in Sessions : Goroutines(s) /\ Numbers(s) /\ Messages(s) /\ Redacted(s) /\ InOrder(s)
-----------------------------------------------------------------------------
(* The channel: what a send and a receive do to the messages of a session.   *)

LEMMA SentWhenQuiet ==
  ASSUME NEW t \in Sessions, UNCHANGED <<ch, shown>>
  PROVE  /\ Sent(t)' = Sent(t)
         /\ InOrder(t) /\ (t \in cancelled => t \in cancelled') => InOrder(t)'
<1>1. Sent(t)' = Sent(t)
  BY DEF Sent
<1>2. ASSUME InOrder(t), t \in cancelled => t \in cancelled'
      PROVE  InOrder(t)'
  BY <1>2 DEF InOrder, MayPrecede
<1> QED BY <1>1, <1>2

LEMMA SendSent ==
  ASSUME Domains, NEW m \in Msgs, Send(m), NEW t \in Sessions
  PROVE  Sent(t)' = IF m.job = t THEN Sent(t) \cup {m} ELSE Sent(t)
<1>1. shown' = shown /\ ch \in Seq(Msgs) /\ ch' = Append(ch, m)
  BY DEF Send, Domains
<1>2. /\ DOMAIN ch' = 1..(Len(ch) + 1) /\ DOMAIN ch = 1..Len(ch) /\ Len(ch) \in Nat
      /\ ch'[Len(ch) + 1] = m /\ \A i \in 1..Len(ch) : ch'[i] = ch[i]
  BY <1>1
<1>3. {ch'[i] : i \in {j \in DOMAIN ch' : ch'[j].job = t}} =
        IF m.job = t THEN {ch[i] : i \in {j \in DOMAIN ch : ch[j].job = t}} \cup {m}
                     ELSE {ch[i] : i \in {j \in DOMAIN ch : ch[j].job = t}}
  BY <1>2
<1> QED BY <1>1, <1>3 DEF Sent

LEMMA SendOrder ==
  ASSUME Domains, NEW m \in Msgs, Send(m), NEW t \in Sessions, InOrder(t),
         cancelled' = cancelled, m.job = t => \A x \in Sent(t) : MayPrecede(t, x, m)
  PROVE  InOrder(t)'
<1>1. shown' = shown /\ ch \in Seq(Msgs) /\ ch' = Append(ch, m)
  BY DEF Send, Domains
<1>2. /\ DOMAIN ch' = 1..(Len(ch) + 1) /\ DOMAIN ch = 1..Len(ch) /\ Len(ch) \in Nat
      /\ ch'[Len(ch) + 1] = m /\ \A i \in 1..Len(ch) : ch'[i] = ch[i]
  BY <1>1
<1>3. \A x, y : MayPrecede(t, x, y)' <=> MayPrecede(t, x, y)
  BY DEF MayPrecede
<1>4. \A i \in DOMAIN shown[t], j \in DOMAIN ch' :
         ch'[j].job = t => MayPrecede(t, shown[t][i], ch'[j])
  BY <1>2 DEF InOrder, Sent
<1>5. \A i, j \in DOMAIN ch' :
         i < j /\ ch'[i].job = t /\ ch'[j].job = t => MayPrecede(t, ch'[i], ch'[j])
  BY <1>2 DEF InOrder, Sent
<1> QED BY <1>1, <1>3, <1>4, <1>5 DEF InOrder, MayPrecede
(* The head of the channel becomes the last message shown of its session. *)
LEMMA ConsumeFacts ==
  ASSUME Domains, Consume, NEW t \in Sessions
  PROVE  /\ ch' \in Seq(Msgs) /\ Len(ch') <= Len(ch) /\ shown' \in [Sessions -> Seq(Msgs)]
         /\ DOMAIN ch = 1..Len(ch) /\ DOMAIN ch' = 1..(Len(ch) - 1)
         /\ Len(ch) \in Nat \ {0} /\ Len(shown[t]) \in Nat
         /\ \A i \in 1..(Len(ch) - 1) : ch'[i] = ch[i + 1]
         /\ DOMAIN shown[t] = 1..Len(shown[t])
         /\ ch[1].job # t => shown'[t] = shown[t]
         /\ ch[1].job = t => /\ DOMAIN shown'[t] = 1..(Len(shown[t]) + 1)
                             /\ shown'[t][Len(shown[t]) + 1] = ch[1]
                             /\ \A i \in 1..Len(shown[t]) : shown'[t][i] = shown[t][i]
<1>1. ch \in Seq(Msgs) /\ ch # << >> /\ ch' = Tail(ch) /\ Head(ch) = ch[1]
  <2>1. ch \in Seq(Msgs) BY DEF Domains
  <2>2. ch # << >> /\ ch' = Tail(ch) BY DEF Consume
  <2> QED BY <2>1, <2>2
<1>2. /\ Len(ch) \in Nat \ {0} /\ DOMAIN ch = 1..Len(ch) /\ DOMAIN ch' = 1..(Len(ch) - 1)
      /\ \A i \in 1..(Len(ch) - 1) : ch'[i] = ch[i + 1]
      /\ ch' \in Seq(Msgs) /\ Len(ch') = Len(ch) - 1
  BY <1>1
<1>3. ch[1] \in Msgs /\ ch[1].job \in Sessions
  <2>1. 1 \in DOMAIN ch BY <1>2
  <2>2. ch[1] \in Msgs BY <1>1, <2>1
  <2> QED BY <2>2 DEF Msgs
<1>4. shown' = [shown EXCEPT ![ch[1].job] = Append(shown[ch[1].job], ch[1])]
  BY <1>1 DEF Consume
<1>5. shown \in [Sessions -> Seq(Msgs)] /\ shown[t] \in Seq(Msgs)
  BY DEF Domains
<1>6. shown' \in [Sessions -> Seq(Msgs)]
  <2>1. Append(shown[ch[1].job], ch[1]) \in Seq(Msgs)
    BY <1>3, <1>5
  <2> QED BY <1>4, <1>5, <2>1
<1>7. DOMAIN shown[t] = 1..Len(shown[t]) /\ Len(shown[t]) \in Nat
  BY <1>5
<1>8. ch[1].job # t => shown'[t] = shown[t]
  BY <1>4, <1>5
<1>9. ASSUME ch[1].job = t
      PROVE  /\ DOMAIN shown'[t] = 1..(Len(shown[t]) + 1)
             /\ shown'[t][Len(shown[t]) + 1] = ch[1]
             /\ \A i \in 1..Len(shown[t]) : shown'[t][i] = shown[t][i]
  <2>1. shown'[t] = Append(shown[t], ch[1])
    BY <1>4, <1>5, <1>9
  <2> QED BY <1>3, <1>5, <2>1
<1>10. Len(ch') <= Len(ch)
  BY <1>2
<1> QED BY <1>2, <1>6, <1>7, <1>8, <1>9, <1>10

LEMMA ConsumeSent ==
  ASSUME Domains, Consume, NEW t \in Sessions
  PROVE  Sent(t)' = Sent(t) /\ (InOrder(t) => InOrder(t)')
<1> DEFINE n == Len(shown[t])
           k == Len(ch)
<1>1. /\ DOMAIN ch = 1..k /\ DOMAIN ch' = 1..(k - 1) /\ k \in Nat \ {0} /\ n \in Nat
      /\ \A i \in 1..(k - 1) : ch'[i] = ch[i + 1]
      /\ DOMAIN shown[t] = 1..n
      /\ ch[1].job # t => shown'[t] = shown[t]
      /\ ch[1].job = t => /\ DOMAIN shown'[t] = 1..(n + 1)
                          /\ shown'[t][n + 1] = ch[1]
                          /\ \A i \in 1..n : shown'[t][i] = shown[t][i]
  BY ConsumeFacts
<1>2. cancelled' = cancelled
  BY DEF Consume, sessionVars
<1> HIDE DEF n, k
<1>3. ASSUME NEW m
      PROVE  m \in Sent(t)' <=> m \in Sent(t)
  <2>1. ASSUME m \in Sent(t)
        PROVE  m \in Sent(t)'
    <3>1. CASE \E i \in 1..n : m = shown[t][i]
      <4>1. PICK i \in 1..n : m = shown[t][i]
        BY <3>1
      <4>2. i \in DOMAIN shown'[t] /\ m = shown'[t][i]
        BY <1>1, <4>1
      <4> QED BY <4>2 DEF Sent
    <3>2. CASE \E i \in 1..k : ch[i].job = t /\ m = ch[i]
      <4>1. PICK i \in 1..k : ch[i].job = t /\ m = ch[i]
        BY <3>2
      <4>2. CASE i = 1
        BY <1>1, <4>1, <4>2 DEF Sent
      <4>3. CASE i > 1
        <5>1. i - 1 \in 1..(k - 1) /\ ch'[i - 1] = ch[i]
          BY <1>1, <4>1, <4>3
        <5> QED BY <1>1, <4>1, <5>1 DEF Sent
      <4> QED BY <1>1, <4>1, <4>2, <4>3
    <3> QED BY <1>1, <2>1, <3>1, <3>2 DEF Sent
  <2>2. ASSUME m \in Sent(t)'
        PROVE  m \in Sent(t)
    <3>1. CASE \E i \in DOMAIN shown'[t] : m = shown'[t][i]
      <4>1. PICK i \in DOMAIN shown'[t] : m = shown'[t][i]
        BY <3>1
      <4>2. CASE ch[1].job = t /\ i = n + 1
        <5>1. 1 \in DOMAIN ch /\ m = ch[1]
          BY <1>1, <4>1, <4>2
        <5> QED BY <4>2, <5>1 DEF Sent
      <4>3. CASE ~(ch[1].job = t /\ i = n + 1)
        <5>1. i \in DOMAIN shown[t] /\ m = shown[t][i]
          BY <1>1, <4>1, <4>3
        <5> QED BY <5>1 DEF Sent
      <4> QED BY <4>2, <4>3
    <3>2. CASE \E i \in DOMAIN ch' : ch'[i].job = t /\ m = ch'[i]
      <4>1. PICK i \in DOMAIN ch' : ch'[i].job = t /\ m = ch'[i]
        BY <3>2
      <4>2. i + 1 \in DOMAIN ch /\ ch[i + 1].job = t /\ m = ch[i + 1]
        BY <1>1, <4>1
      <4> QED BY <4>2 DEF Sent
    <3> QED BY <2>2, <3>1, <3>2 DEF Sent
  <2> QED BY <2>1, <2>2
<1>4. ASSUME InOrder(t)
      PROVE  InOrder(t)'
  <2>1. \A x, y : MayPrecede(t, x, y)' <=> MayPrecede(t, x, y)
    BY <1>2 DEF MayPrecede
  <2>2. \A i, j \in 1..k : i < j /\ ch[i].job = t /\ ch[j].job = t => MayPrecede(t, ch[i], ch[j])
    BY <1>1, <1>4 DEF InOrder
  <2>3. \A i \in 1..n, j \in 1..k : ch[j].job = t => MayPrecede(t, shown[t][i], ch[j])
    BY <1>1, <1>4 DEF InOrder
  <2>4. \A i, j \in 1..n : i < j => MayPrecede(t, shown[t][i], shown[t][j])
    BY <1>1, <1>4 DEF InOrder
  <2>5. \A i, j \in DOMAIN ch' :
           i < j /\ ch'[i].job = t /\ ch'[j].job = t => MayPrecede(t, ch'[i], ch'[j])
    BY <1>1, <2>2
  <2>6. \A i \in DOMAIN shown'[t], j \in DOMAIN ch' :
           ch'[j].job = t => MayPrecede(t, shown'[t][i], ch'[j])
    <3>1. CASE ch[1].job # t
      BY <1>1, <2>3, <3>1
    <3>2. CASE ch[1].job = t
      <4> SUFFICES ASSUME NEW i \in 1..(n + 1), NEW j \in 1..(k - 1), ch'[j].job = t
                   PROVE  MayPrecede(t, shown'[t][i], ch'[j])
        BY <1>1, <3>2
      <4>1. j + 1 \in 1..k /\ ch'[j] = ch[j + 1] /\ 1 < j + 1 /\ 1 \in 1..k
        BY <1>1
      <4>2. CASE i = n + 1
        BY <1>1, <2>2, <3>2, <4>1, <4>2
      <4>3. CASE i \in 1..n
        BY <1>1, <2>3, <3>2, <4>1, <4>3
      <4> QED BY <1>1, <4>2, <4>3
    <3> QED BY <3>1, <3>2
  <2>7. \A i, j \in DOMAIN shown'[t] : i < j => MayPrecede(t, shown'[t][i], shown'[t][j])
    <3>1. CASE ch[1].job # t
      BY <1>1, <2>4, <3>1
    <3>2. CASE ch[1].job = t
      <4> SUFFICES ASSUME NEW i \in 1..(n + 1), NEW j \in 1..(n + 1), i < j
                   PROVE  MayPrecede(t, shown'[t][i], shown'[t][j])
        BY <1>1, <3>2
      <4>1. i \in 1..n /\ 1 \in 1..k
        BY <1>1
      <4>2. CASE j = n + 1
        BY <1>1, <2>3, <3>2, <4>1, <4>2
      <4>3. CASE j \in 1..n
        BY <1>1, <2>4, <3>2, <4>1, <4>3
      <4> QED BY <1>1, <4>2, <4>3
    <3> QED BY <3>1, <3>2
  <2> QED BY <2>1, <2>5, <2>6, <2>7 DEF InOrder, MayPrecede
<1> QED BY <1>3, <1>4
-----------------------------------------------------------------------------
(* What a step leaves alone.                                                 *)

LocalsKept(t) ==
  /\ total'[t] = total[t] /\ emitted'[t] = emitted[t] /\ teeItem'[t] = teeItem[t]
  /\ bridgeItem'[t] = bridgeItem[t] /\ observed'[t] = observed[t]
  /\ caller'[t] = caller[t] /\ tee'[t] = tee[t] /\ bridge'[t] = bridge[t]
  /\ t \in srcClosed' <=> t \in srcClosed
  /\ t \in outClosed' <=> t \in outClosed
  /\ t \in flushed' <=> t \in flushed
  /\ t \in noted' <=> t \in noted
  /\ t \in cancelled' <=> t \in cancelled

TeeStep(s) == TeeReceives(s) \/ TeeLeaves(s) \/ TeeDrains(s) \/ TeeFlushes(s)
QuietBridgeStep(s) ==
  BridgeReceives(s) \/ BridgeCancelled(s) \/ BridgeDrains(s) \/ BridgeLeaves(s)
QuietCallerStep(s) == SolveReturns(s) \/ Wait(s) \/ CloseSrc(s) \/ Cancel(s)
Sends(s) == \/ OpenSession(s) \/ ReportTimeout(s) \/ NoteAllowedFailure(s)
            \/ BridgeSends(s) \/ BridgeFinishes(s)

LEMMA FrameLocals ==
  ASSUME Domains, NEW s \in Sessions, SessionStep(s) \/ Cancel(s), NEW t \in Sessions \ {s}
  PROVE  LocalsKept(t)
<1> USE DEF LocalsKept, Domains, solverVars, teeVars, bridgeVars, Emit, Receive
<1>1. CASE OpenSession(s) BY <1>1 DEF OpenSession
<1>2. CASE SolveReturns(s) \/ Wait(s) BY <1>2 DEF SolveReturns, Wait
<1>3. CASE ReportTimeout(s) BY <1>3 DEF ReportTimeout
<1>4. CASE NoteAllowedFailure(s) BY <1>4 DEF NoteAllowedFailure
<1>5. CASE CloseSrc(s) \/ Cancel(s) BY <1>5 DEF CloseSrc, Cancel
<1>6. CASE TeeReceives(s) BY <1>6 DEF TeeReceives
<1>7. CASE TeeLeaves(s) \/ TeeFlushes(s) BY <1>7 DEF TeeLeaves, TeeFlushes
<1>8. CASE TeeDrains(s) BY <1>8 DEF TeeDrains
<1>9. CASE BridgeReceives(s) BY <1>9, SMTT(30) DEF BridgeReceives
<1>10. CASE BridgeSends(s) \/ BridgeFinishes(s) BY <1>10 DEF BridgeSends, BridgeFinishes
<1>11. CASE BridgeCancelled(s) \/ BridgeLeaves(s) BY <1>11 DEF BridgeCancelled, BridgeLeaves
<1>12. CASE BridgeDrains(s) BY <1>12 DEF BridgeDrains
<1> QED BY <1>1, <1>2, <1>3, <1>4, <1>5, <1>6, <1>7, <1>8, <1>9, <1>10, <1>11, <1>12
        DEF SessionStep

(* The constants, as the provers want them. *)
LEMMA ConstantFacts ==
  /\ Interposed \subseteq Sessions /\ Capacity \in Nat \ {0}
  /\ \A s \in Sessions : Len(Statuses[s]) \in Nat /\ DOMAIN Statuses[s] = 1..Len(Statuses[s])
BY SessionAssumption

LEMMA SendDomains ==
  ASSUME Domains, NEW m \in Msgs, Send(m)
  PROVE  /\ ch' \in Seq(Msgs) /\ Len(ch') <= Capacity
         /\ shown' = shown /\ chClosed' = chClosed /\ display' = display
<1>1. ch \in Seq(Msgs) /\ Len(ch) < Capacity /\ ch' = Append(ch, m)
  BY DEF Send, Domains
<1>2. Len(ch') = Len(ch) + 1 /\ Len(ch) \in Nat /\ ch' \in Seq(Msgs)
  BY <1>1
<1> QED BY <1>1, <1>2, ConstantFacts DEF Send

(* The messages. *)
LEMMA MsgFacts ==
  ASSUME NEW s \in Sessions
  PROVE  /\ Added(s) \in Msgs /\ Done(s) \in Msgs /\ Allowed(s) \in Msgs /\ Timeout(s) \in Msgs
         /\ \A n \in Nat : Status(s, n) \in Msgs
BY DEF Added, Done, Allowed, Timeout, Status, Msgs

(* The message that a step of s sends. *)
LEMMA SendersSend ==
  ASSUME Domains, NEW s \in Sessions
  PROVE  /\ OpenSession(s) => Send(Added(s))
         /\ ReportTimeout(s) => Send(Timeout(s))
         /\ NoteAllowedFailure(s) => Send(Allowed(s))
         /\ BridgeSends(s) => Send(Status(s, bridgeItem[s])) /\ Status(s, bridgeItem[s]) \in Msgs
         /\ BridgeFinishes(s) => Send(Done(s))
<1>1. bridgeItem[s] \in Nat
  BY DEF Domains
<1> QED BY <1>1, MsgFacts
        DEF OpenSession, ReportTimeout, NoteAllowedFailure, BridgeSends, BridgeFinishes

LEMMA StepTalks ==
  ASSUME Domains, NEW s \in Sessions, SessionStep(s) \/ Cancel(s)
  PROVE  \/ UNCHANGED chVars
         \/ cancelled' = cancelled /\ \E m \in Msgs : m.job = s /\ Send(m)
<1>1. CASE Sends(s)
  <2>1. cancelled' = cancelled
    BY <1>1 DEF Sends, OpenSession, ReportTimeout, NoteAllowedFailure, BridgeSends, BridgeFinishes
  <2>2. /\ Added(s).job = s /\ Done(s).job = s /\ Allowed(s).job = s /\ Timeout(s).job = s
        /\ \A n \in Nat : Status(s, n).job = s
    BY DEF Added, Done, Allowed, Timeout, Status
  <2>3. bridgeItem[s] \in Nat
    BY DEF Domains
  <2> QED BY <1>1, <2>1, <2>2, <2>3, SendersSend, MsgFacts DEF Sends
<1>2. CASE TeeStep(s)
  BY <1>2 DEF TeeStep, TeeReceives, TeeLeaves, TeeDrains, TeeFlushes
<1>3. CASE QuietBridgeStep(s)
  BY <1>3 DEF QuietBridgeStep, BridgeReceives, BridgeCancelled, BridgeDrains, BridgeLeaves
<1>4. CASE QuietCallerStep(s)
  BY <1>4 DEF QuietCallerStep, SolveReturns, Wait, CloseSrc, Cancel
<1> QED BY <1>1, <1>2, <1>3, <1>4
        DEF SessionStep, Sends, TeeStep, QuietBridgeStep, QuietCallerStep
LEMMA ChannelDomains ==
  ASSUME Domains, UNCHANGED chVars \/ (\E m \in Msgs : Send(m))
  PROVE  /\ ch' \in Seq(Msgs) /\ Len(ch') <= Capacity /\ shown' \in [Sessions -> Seq(Msgs)]
         /\ chClosed' = chClosed /\ display' = display
<1>1. CASE UNCHANGED chVars
  BY <1>1 DEF chVars, Domains
<1>2. CASE \E m \in Msgs : Send(m)
  BY <1>2, SendDomains DEF Domains
<1> QED BY <1>1, <1>2

LEMMA ReceiveDomains ==
  ASSUME Domains, NEW s \in Sessions, NEW n, Receive(s, n)
  PROVE  /\ UNCHANGED <<total, srcClosed, noted, outClosed, teeItem, observed, flushed>>
         /\ emitted' \in [Sessions -> Nat] /\ tee' \in [Sessions -> Tees]
<1>1. CASE s \in Interposed
  BY <1>1 DEF Receive, Domains, Tees, solverVars
<1>2. CASE s \notin Interposed
  <2>1. emitted' = [emitted EXCEPT ![s] = emitted[s] + 1]
    BY <1>2 DEF Receive, Emit
  <2>2. emitted' \in [Sessions -> Nat]
    BY <2>1 DEF Domains
  <2> QED BY <1>2, <2>2 DEF Receive, Domains, teeVars
<1> QED BY <1>1, <1>2

LEMMA StepDomains ==
  ASSUME Domains, NEW s \in Sessions, SessionStep(s) \/ Cancel(s)
  PROVE  Domains' /\ chClosed' = chClosed /\ display' = display
<1> DEFINE Locals ==
      /\ total' = total
      /\ emitted' \in [Sessions -> Nat] /\ teeItem' \in [Sessions -> Nat]
      /\ bridgeItem' \in [Sessions -> Nat] /\ observed' \in [Sessions -> Seq(Nat)]
      /\ srcClosed' \subseteq Sessions /\ outClosed' \subseteq Sessions
      /\ flushed' \subseteq Sessions /\ noted' \subseteq Sessions
      /\ cancelled' \subseteq Sessions
      /\ caller' \in [Sessions -> Callers] /\ tee' \in [Sessions -> Tees]
      /\ bridge' \in [Sessions -> Bridges]
<1>1. /\ ch' \in Seq(Msgs) /\ Len(ch') <= Capacity /\ shown' \in [Sessions -> Seq(Msgs)]
      /\ chClosed' = chClosed /\ display' = display
  BY StepTalks, ChannelDomains
<1>2. Locals
  <2> USE DEF Callers, Tees, Bridges, solverVars, teeVars, bridgeVars
  <2>1. CASE OpenSession(s) BY <2>1 DEF OpenSession, Domains
  <2>2. CASE SolveReturns(s) \/ Wait(s) BY <2>2 DEF SolveReturns, Wait, Domains
  <2>3. CASE ReportTimeout(s) BY <2>3 DEF ReportTimeout, Domains
  <2>4. CASE NoteAllowedFailure(s) BY <2>4 DEF NoteAllowedFailure, Domains
  <2>5. CASE CloseSrc(s) \/ Cancel(s) BY <2>5 DEF CloseSrc, Cancel, Domains
  <2>6. CASE TeeReceives(s)
    <3>1. emitted[s] + 1 \in Nat /\ observed[s] \in Seq(Nat)
      BY DEF Domains
    <3>2. Append(observed[s], emitted[s] + 1) \in Seq(Nat)
      BY <3>1
    <3>3. emitted' = [emitted EXCEPT ![s] = emitted[s] + 1] /\ emitted'[s] = emitted[s] + 1
      BY <2>6 DEF TeeReceives, Emit, Domains
    <3>4. emitted' \in [Sessions -> Nat]
      BY <3>1, <3>3 DEF Domains
    <3>5. \/ UNCHANGED <<tee, teeItem, observed>>
          \/ /\ tee' = [tee EXCEPT ![s] = "forward"]
             /\ teeItem' = [teeItem EXCEPT ![s] = emitted[s] + 1]
             /\ observed' = [observed EXCEPT ![s] = Append(observed[s], emitted[s] + 1)]
      BY <2>6, <3>3 DEF TeeReceives
    <3>6. /\ tee' \in [Sessions -> Tees] /\ teeItem' \in [Sessions -> Nat]
          /\ observed' \in [Sessions -> Seq(Nat)]
      <4>1. CASE UNCHANGED <<tee, teeItem, observed>>
        BY <4>1 DEF Domains
      <4>2. CASE /\ tee' = [tee EXCEPT ![s] = "forward"]
                 /\ teeItem' = [teeItem EXCEPT ![s] = emitted[s] + 1]
                 /\ observed' = [observed EXCEPT ![s] = Append(observed[s], emitted[s] + 1)]
        <5>1. tee' \in [Sessions -> Tees]
          BY <4>2 DEF Domains
        <5>2. teeItem' \in [Sessions -> Nat]
          BY <3>1, <4>2 DEF Domains
        <5>3. observed' \in [Sessions -> Seq(Nat)]
          BY <3>2, <4>2 DEF Domains
        <5> QED BY <5>1, <5>2, <5>3
      <4> QED BY <3>5, <4>1, <4>2
    <3> QED BY <2>6, <3>4, <3>6 DEF TeeReceives, Domains
  <2>7. CASE TeeLeaves(s) \/ TeeFlushes(s) BY <2>7 DEF TeeLeaves, TeeFlushes, Domains
  <2>8. CASE TeeDrains(s) BY <2>8 DEF TeeDrains, Emit, Domains
  <2>9. CASE BridgeReceives(s)
    <3>1. PICK n \in DOMAIN Statuses[s] :
               Receive(s, n) /\ bridgeItem' = [bridgeItem EXCEPT ![s] = n]
      BY <2>9 DEF BridgeReceives
    <3>2. n \in Nat
      BY ConstantFacts
    <3>3. bridgeItem' \in [Sessions -> Nat]
      BY <3>1, <3>2 DEF Domains
    <3> QED BY <2>9, <3>1, <3>3, ReceiveDomains DEF BridgeReceives, Domains
  <2>10. CASE BridgeSends(s) \/ BridgeFinishes(s)
    BY <2>10 DEF BridgeSends, BridgeFinishes, Domains
  <2>11. CASE BridgeCancelled(s) \/ BridgeLeaves(s)
    BY <2>11 DEF BridgeCancelled, BridgeLeaves, Domains
  <2>12. CASE BridgeDrains(s)
    BY <2>12, ReceiveDomains DEF BridgeDrains, Domains
  <2> QED BY <2>1, <2>2, <2>3, <2>4, <2>5, <2>6, <2>7, <2>8, <2>9, <2>10, <2>11, <2>12
          DEF SessionStep
<1> HIDE DEF Locals
<1>3. Domains'
  BY <1>1, <1>2 DEF Locals, Domains
<1> QED BY <1>1, <1>3

(* The invariant of one session. *)
Own(s) == Goroutines(s) /\ Numbers(s) /\ Messages(s) /\ Redacted(s) /\ InOrder(s)

LEMMA KeptOwn ==
  ASSUME NEW t \in Sessions, Own(t), LocalsKept(t), Sent(t)' = Sent(t), InOrder(t)'
  PROVE  Own(t)'
<1>1. Goroutines(t)'
  BY DEF Own, Goroutines, LocalsKept, DisplayClosed
<1>2. Observed(t)' = Observed(t)
  BY DEF Observed, LocalsKept
<1>3. Numbers(t)'
  BY <1>2 DEF Own, Numbers, LocalsKept
<1>4. Messages(t)'
  BY DEF Own, Messages, LocalsKept
<1>5. Redacted(t)'
  BY <1>2 DEF Own, Redacted, LocalsKept
<1> QED BY <1>1, <1>3, <1>4, <1>5 DEF Own

LEMMA OthersOwn ==
  ASSUME Domains, NEW s \in Sessions, SessionStep(s) \/ Cancel(s), NEW t \in Sessions \ {s},
         Own(t)
  PROVE  Own(t)'
<1>1. LocalsKept(t)
  BY FrameLocals
<1>2. Sent(t)' = Sent(t) /\ InOrder(t)'
  <2>1. CASE UNCHANGED chVars
    BY <1>1, <2>1, SentWhenQuiet DEF chVars, Own, LocalsKept
  <2>2. CASE cancelled' = cancelled /\ \E m \in Msgs : m.job = s /\ Send(m)
    BY <2>2, SendSent, SendOrder DEF Own
  <2> QED BY <2>1, <2>2, StepTalks
<1> QED BY <1>1, <1>2, KeptOwn
-----------------------------------------------------------------------------
(* The session that steps.                                                   *)

(* A step that sends nothing and moves no status. *)
StatusesKept(s) ==
  /\ total'[s] = total[s] /\ emitted'[s] = emitted[s] /\ teeItem'[s] = teeItem[s]
  /\ bridgeItem'[s] = bridgeItem[s] /\ observed'[s] = observed[s]

LEMMA ControlSteps ==
  ASSUME Domains, NEW s \in Sessions, Own(s),
         \/ SolveReturns(s) \/ Wait(s) \/ CloseSrc(s) \/ Cancel(s) \/ TeeLeaves(s)
         \/ TeeFlushes(s) \/ BridgeCancelled(s) \/ BridgeLeaves(s)
  PROVE  Own(s)'
<1> USE DEF solverVars, teeVars, bridgeVars, chVars
<1>1. Sent(s)' = Sent(s) /\ InOrder(s)'
  <2>1. UNCHANGED <<ch, shown>> /\ (s \in cancelled => s \in cancelled')
    BY DEF SolveReturns, Wait, CloseSrc, Cancel, TeeLeaves, TeeFlushes, BridgeCancelled,
           BridgeLeaves
  <2> QED BY <2>1, SentWhenQuiet DEF Own
<1>2. StatusesKept(s)
  BY DEF StatusesKept, SolveReturns, Wait, CloseSrc, Cancel, TeeLeaves, TeeFlushes,
         BridgeCancelled, BridgeLeaves
<1>3. Observed(s)' = Observed(s)
  BY <1>2 DEF Observed, StatusesKept
<1>4. /\ tee'[s] \in {tee[s], "draining", "exited"} /\ bridge'[s] \in {bridge[s], "draining", "finish"}
      /\ tee'[s] # tee[s] => tee[s] # "none"
      /\ tee[s] = "exited" => tee'[s] = "exited"
      /\ bridge'[s] # bridge[s] => bridge[s] \in {"recv", "draining"}
  BY DEF SolveReturns, Wait, CloseSrc, Cancel, TeeLeaves, TeeFlushes, BridgeCancelled,
         BridgeLeaves, Domains, Tees, Bridges
<1>5. /\ caller'[s] = caller[s] \/ (caller[s] \in {"solving", "waiting"} /\ caller'[s] # "start")
      /\ caller'[s] \in {"timedOut", "returned"} => bridge'[s] = "exited"
      /\ caller'[s] = "timedOut" => s \in cancelled'
      /\ noted' = noted /\ (s \in cancelled => s \in cancelled')
      /\ srcClosed \subseteq srcClosed' /\ outClosed \subseteq outClosed'
      /\ caller[s] = "start" => s \notin srcClosed'
      /\ s \in outClosed' => s \in srcClosed' \/ s \in cancelled'
      /\ s \in flushed' => s \in flushed \/ tee'[s] = "exited"
      /\ bridge'[s] = "finish" => bridge[s] = "finish" \/ DisplayClosed(s)
  BY DEF SolveReturns, Wait, CloseSrc, Cancel, TeeLeaves, TeeFlushes, BridgeCancelled,
         BridgeLeaves, Domains, Callers, Own, Goroutines
<1>6. Goroutines(s)'
  <2>1. bridge'[s] \in {"finish", "exited"} => DisplayClosed(s)'
    BY <1>4, <1>5 DEF DisplayClosed, Own, Goroutines
  <2> QED BY <1>4, <1>5, <2>1 DEF Own, Goroutines
<1>7. Numbers(s)'
  BY <1>1, <1>2, <1>3, <1>4 DEF StatusesKept, Own, Numbers
<1>8. Messages(s)'
  BY <1>1, <1>4, <1>5 DEF Own, Messages
<1>9. Redacted(s)'
  BY <1>1, <1>2, <1>3, <1>4, <1>5 DEF StatusesKept, Own, Redacted
<1> QED BY <1>1, <1>6, <1>7, <1>8, <1>9 DEF Own
(* What the tee appends to the collector's statuses. *)
LEMMA ObservedMore ==
  ASSUME Domains, NEW s \in Sessions, NEW n \in Nat,
         observed' = [observed EXCEPT ![s] = Append(observed[s], n)]
  PROVE  Observed(s)' = Observed(s) \cup {n}
<1>1. observed[s] \in Seq(Nat) /\ observed'[s] = Append(observed[s], n)
  BY DEF Domains
<1>2. /\ DOMAIN observed'[s] = 1..(Len(observed[s]) + 1) /\ Len(observed[s]) \in Nat
      /\ DOMAIN observed[s] = 1..Len(observed[s])
      /\ observed'[s][Len(observed[s]) + 1] = n
      /\ \A i \in 1..Len(observed[s]) : observed'[s][i] = observed[s][i]
  BY <1>1
<1> QED BY <1>2 DEF Observed

(* A status is read from the solver. *)
LEMMA SolverSteps ==
  ASSUME Domains, NEW s \in Sessions, Own(s), TeeReceives(s) \/ TeeDrains(s)
  PROVE  Own(s)'
<1> USE DEF solverVars, teeVars, bridgeVars, chVars
<1>0. /\ emitted[s] \in Nat /\ teeItem[s] \in Nat /\ bridgeItem[s] \in Nat /\ total[s] \in Nat
      /\ observed[s] \in Seq(Nat)
  BY DEF Domains
<1>1. Sent(s)' = Sent(s) /\ InOrder(s)'
  <2>1. UNCHANGED <<ch, shown, cancelled>>
    BY DEF TeeReceives, TeeDrains
  <2> QED BY <2>1, SentWhenQuiet DEF Own
<1>2. /\ UNCHANGED <<total, srcClosed, noted, outClosed, flushed, bridge, bridgeItem, caller,
                     cancelled>>
      /\ emitted'[s] = emitted[s] + 1 /\ emitted[s] < total[s]
      /\ tee[s] \in {"recv", "draining"}
  BY DEF TeeReceives, TeeDrains, Emit, CanEmit, Domains
<1>3. \/ tee'[s] = tee[s] /\ teeItem'[s] = teeItem[s] /\ Observed(s)' = Observed(s)
      \/ /\ tee'[s] = "forward" /\ teeItem'[s] = emitted[s] + 1
         /\ Observed(s)' = Observed(s) \cup {emitted[s] + 1}
  <2>1. CASE UNCHANGED <<tee, teeItem, observed>>
    BY <2>1 DEF Observed
  <2>2. CASE /\ tee' = [tee EXCEPT ![s] = "forward"]
             /\ teeItem' = [teeItem EXCEPT ![s] = emitted'[s]]
             /\ observed' = [observed EXCEPT ![s] = Append(observed[s], emitted'[s])]
    <3>1. observed' = [observed EXCEPT ![s] = Append(observed[s], emitted[s] + 1)]
      BY <1>2, <2>2
    <3>2. emitted[s] + 1 \in Nat
      BY <1>0
    <3>3. Observed(s)' = Observed(s) \cup {emitted[s] + 1}
      BY <3>1, <3>2, ObservedMore
    <3>4. tee'[s] = "forward" /\ teeItem'[s] = emitted[s] + 1
      BY <1>2, <2>2 DEF Domains
    <3> QED BY <3>3, <3>4
  <2> QED BY <2>1, <2>2 DEF TeeReceives, TeeDrains
<1>4. Goroutines(s)'
  <2>1. s \in Interposed
    BY <1>2 DEF Own, Goroutines
  <2>2. tee'[s] # "none" /\ (caller[s] # "start")
    BY <1>2, <1>3 DEF Own, Goroutines
  <2> QED BY <1>2, <2>1, <2>2 DEF Own, Goroutines, DisplayClosed
<1>5. Numbers(s)'
  <2>1. /\ emitted'[s] <= total'[s] /\ teeItem'[s] <= emitted'[s] /\ bridgeItem'[s] <= emitted'[s]
        /\ s \in Interposed => bridgeItem'[s] <= teeItem'[s]
        /\ tee'[s] = "forward" => bridgeItem'[s] < teeItem'[s]
    BY <1>0, <1>2, <1>3 DEF Own, Numbers
  <2>2. \A n \in Observed(s)' : n \in 1..emitted'[s]
    BY <1>0, <1>2, <1>3 DEF Own, Numbers
  <2> QED BY <1>1, <1>2, <2>1, <2>2 DEF Own, Numbers
<1>6. Messages(s)'
  BY <1>1, <1>2 DEF Own, Messages
<1>7. Redacted(s)'
  BY <1>1, <1>2, <1>3 DEF Own, Redacted
<1> QED BY <1>1, <1>4, <1>5, <1>6, <1>7 DEF Own

(* The bridge takes a status, from the tee or from the solver. *)
LEMMA ReceiveFacts ==
  ASSUME Domains, NEW s \in Sessions, Own(s), NEW n, Receive(s, n)
  PROVE  /\ UNCHANGED <<total, srcClosed, noted, outClosed, teeItem, observed, flushed>>
         /\ bridgeItem[s] < n /\ n <= emitted'[s] /\ n \in Nat
         /\ emitted'[s] <= total[s] /\ emitted[s] <= emitted'[s]
         /\ s \in Interposed => /\ n = teeItem[s] /\ tee[s] = "forward" /\ tee'[s] = "recv"
                                /\ n \in Observed(s)
         /\ s \notin Interposed => tee'[s] = tee[s]
<1>0. /\ emitted[s] \in Nat /\ teeItem[s] \in Nat /\ bridgeItem[s] \in Nat /\ total[s] \in Nat
  BY DEF Domains
<1>1. CASE s \in Interposed
  <2>1. /\ tee[s] = "forward" /\ n = teeItem[s] /\ tee'[s] = "recv"
        /\ UNCHANGED <<total, emitted, srcClosed, noted, outClosed, teeItem, observed, flushed>>
    BY <1>1 DEF Receive, solverVars, Domains
  <2>2. bridgeItem[s] < n /\ n <= emitted[s] /\ emitted[s] <= total[s]
    BY <1>0, <2>1 DEF Own, Numbers
  <2>3. n \in Observed(s)
    BY <1>1, <2>1 DEF Own, Redacted
  <2> QED BY <1>0, <1>1, <2>1, <2>2, <2>3
<1>2. CASE s \notin Interposed
  <2>1. /\ emitted'[s] = emitted[s] + 1 /\ emitted[s] < total[s] /\ n = emitted[s] + 1
        /\ UNCHANGED <<total, srcClosed, noted, tee, outClosed, teeItem, observed, flushed>>
    BY <1>2 DEF Receive, Emit, CanEmit, teeVars, Domains
  <2>2. bridgeItem[s] < n
    BY <1>0, <2>1 DEF Own, Numbers
  <2> QED BY <1>0, <1>2, <2>1, <2>2
<1> QED BY <1>1, <1>2

LEMMA ReceiveSteps ==
  ASSUME Domains, NEW s \in Sessions, Own(s), BridgeReceives(s) \/ BridgeDrains(s)
  PROVE  Own(s)'
<1> USE DEF bridgeVars, chVars
<1>0. /\ emitted[s] \in Nat /\ teeItem[s] \in Nat /\ bridgeItem[s] \in Nat /\ total[s] \in Nat
      /\ \A m \in Sent(s) : m.n \in Nat
  BY DEF Domains, Own, Messages, Msgs
<1>1. Sent(s)' = Sent(s) /\ InOrder(s)'
  <2>1. UNCHANGED <<ch, shown, cancelled>>
    BY DEF BridgeReceives, BridgeDrains
  <2> QED BY <2>1, SentWhenQuiet DEF Own
<1>2. PICK n : /\ Receive(s, n) /\ UNCHANGED <<caller, cancelled>>
               /\ \/ /\ bridgeItem'[s] = n /\ bridge'[s] = "send" /\ bridge[s] = "recv"
                  \/ /\ bridgeItem'[s] = bridgeItem[s] /\ bridge'[s] = "draining"
                     /\ bridge[s] = "draining"
  BY DEF BridgeReceives, BridgeDrains, Domains
<1>3. /\ UNCHANGED <<total, srcClosed, noted, outClosed, teeItem, observed, flushed>>
      /\ bridgeItem[s] < n /\ n <= emitted'[s] /\ n \in Nat
      /\ emitted'[s] <= total[s] /\ emitted[s] <= emitted'[s]
      /\ s \in Interposed => /\ n = teeItem[s] /\ tee[s] = "forward" /\ tee'[s] = "recv"
                             /\ n \in Observed(s)
      /\ s \notin Interposed => tee'[s] = tee[s]
  BY <1>2, ReceiveFacts
<1>4. emitted'[s] \in Nat
  BY <1>2, ReceiveDomains
<1>5. Observed(s)' = Observed(s)
  BY <1>3 DEF Observed
<1>6. Goroutines(s)'
  BY <1>2, <1>3 DEF Own, Goroutines, DisplayClosed
<1>7. Numbers(s)'
  <2>1. /\ emitted'[s] <= total'[s] /\ teeItem'[s] <= emitted'[s] /\ bridgeItem'[s] <= emitted'[s]
        /\ s \in Interposed => bridgeItem'[s] <= teeItem'[s]
        /\ tee'[s] # "forward"
    BY <1>0, <1>2, <1>3, <1>4 DEF Own, Numbers, Goroutines
  <2>2. \A k \in Observed(s)' : k \in 1..emitted'[s]
    BY <1>0, <1>3, <1>4, <1>5 DEF Own, Numbers
  <2>3. \A m \in Sent(s) : m.n <= bridgeItem'[s] /\ (bridge'[s] = "send" => m.n < bridgeItem'[s])
    BY <1>0, <1>2, <1>3 DEF Own, Numbers
  <2> QED BY <1>1, <2>1, <2>2, <2>3 DEF Numbers
<1>8. Messages(s)'
  BY <1>1, <1>2, <1>3 DEF Own, Messages
<1>9. Redacted(s)'
  BY <1>1, <1>2, <1>3, <1>5 DEF Own, Redacted
<1> QED BY <1>1, <1>6, <1>7, <1>8, <1>9 DEF Own
(* A step that sends: the message is in its place, and the rest follows. *)
LEMMA SendSteps ==
  ASSUME Domains, NEW s \in Sessions, Own(s), Sends(s)
  PROVE  Own(s)'
<1> USE DEF solverVars, teeVars, bridgeVars
<1>0. /\ emitted[s] \in Nat /\ teeItem[s] \in Nat /\ bridgeItem[s] \in Nat /\ total[s] \in Nat
      /\ \A m \in Sent(s) : m.n \in Nat
  BY DEF Domains, Own, Messages, Msgs
<1>1. cancelled' = cancelled
  BY DEF Sends, OpenSession, ReportTimeout, NoteAllowedFailure, BridgeSends, BridgeFinishes
<1>2. StatusesKept(s) /\ Observed(s)' = Observed(s) /\ UNCHANGED <<outClosed, srcClosed, flushed>>
  BY DEF StatusesKept, Observed, Sends, OpenSession, ReportTimeout, NoteAllowedFailure, BridgeSends,
         BridgeFinishes
<1>3. ASSUME NEW m \in Msgs, m.job = s, Send(m), \A x \in Sent(s) : MayPrecede(s, x, m)
      PROVE  Sent(s)' = Sent(s) \cup {m} /\ InOrder(s)'
  BY <1>1, <1>3, SendSent, SendOrder DEF Own
<1>4. CASE OpenSession(s)
  <2>1. /\ caller[s] = "start" /\ caller'[s] = "solving" /\ bridge'[s] = "recv"
        /\ tee'[s] = (IF s \in Interposed THEN "recv" ELSE "none") /\ noted' = noted
    BY <1>4 DEF OpenSession, Domains
  <2>2. Sent(s) = {}
    BY <2>1 DEF Own, Messages
  <2>3. Sent(s)' = {Added(s)} /\ InOrder(s)'
    <3>1. Added(s) \in Msgs /\ Added(s).job = s /\ Send(Added(s))
      BY <1>4, MsgFacts, SendersSend DEF Added
    <3> QED BY <1>3, <2>2, <3>1
  <2>4. Goroutines(s)'
    BY <1>1, <1>2, <2>1 DEF Own, Goroutines
  <2>5. Numbers(s)'
    <3>1. \A m \in Sent(s)' : m.n <= bridgeItem'[s]
      BY <1>0, <1>2, <2>3 DEF Added, StatusesKept
    <3> QED BY <1>2, <2>1, <3>1 DEF Own, Numbers, StatusesKept
  <2>6. Messages(s)'
    BY <2>1, <2>3, MsgFacts DEF Messages, Added
  <2>7. Redacted(s)'
    BY <1>2, <2>1, <2>3 DEF Own, Redacted, Goroutines, Added
  <2> QED BY <2>3, <2>4, <2>5, <2>6, <2>7 DEF Own
<1>5. CASE ReportTimeout(s)
  <2>1. /\ caller[s] = "timedOut" /\ caller'[s] = "returned" /\ UNCHANGED <<bridge, tee, noted>>
        /\ bridge[s] = "exited" /\ s \in cancelled
    BY <1>5 DEF ReportTimeout, Domains, Own, Goroutines
  <2>2. \A x \in Sent(s) : MayPrecede(s, x, Timeout(s))
    BY <2>1 DEF MayPrecede, Timeout, Own, Messages
  <2>3. Sent(s)' = Sent(s) \cup {Timeout(s)} /\ InOrder(s)'
    <3>1. Timeout(s) \in Msgs /\ Timeout(s).job = s /\ Send(Timeout(s))
      BY <1>5, MsgFacts, SendersSend DEF Timeout
    <3> QED BY <1>3, <2>2, <3>1
  <2>4. Goroutines(s)'
    BY <1>1, <1>2, <2>1 DEF Own, Goroutines, DisplayClosed
  <2>5. Numbers(s)'
    <3>1. \A m \in Sent(s)' : m.n <= bridgeItem'[s]
      BY <1>0, <1>2, <2>3 DEF Timeout, StatusesKept, Own, Numbers
    <3> QED BY <1>2, <2>1, <3>1 DEF Own, Numbers, StatusesKept
  <2>6. Messages(s)'
    BY <1>1, <2>1, <2>3, MsgFacts DEF Own, Messages, Timeout
  <2>7. Redacted(s)'
    BY <1>2, <2>1, <2>3 DEF Own, Redacted, StatusesKept, Timeout
  <2> QED BY <2>3, <2>4, <2>5, <2>6, <2>7 DEF Own
<1>6. CASE NoteAllowedFailure(s)
  <2>1. /\ caller[s] = "solving" /\ s \notin srcClosed /\ s \notin noted /\ s \in noted'
        /\ UNCHANGED <<bridge, tee, caller>>
    BY <1>6 DEF NoteAllowedFailure, Domains
  <2>2. bridge[s] = "exited" => s \in cancelled
    BY <2>1 DEF Own, Goroutines, DisplayClosed
  <2>3. \A x \in Sent(s) : MayPrecede(s, x, Allowed(s))
    BY <2>1, <2>2 DEF MayPrecede, Allowed, Own, Messages
  <2>4. Sent(s)' = Sent(s) \cup {Allowed(s)} /\ InOrder(s)'
    <3>1. Allowed(s) \in Msgs /\ Allowed(s).job = s /\ Send(Allowed(s))
      BY <1>6, MsgFacts, SendersSend DEF Allowed
    <3> QED BY <1>3, <2>3, <3>1
  <2>5. Goroutines(s)'
    BY <1>1, <1>2, <2>1 DEF Own, Goroutines, DisplayClosed
  <2>6. Numbers(s)'
    <3>1. \A m \in Sent(s)' : m.n <= bridgeItem'[s]
      BY <1>0, <1>2, <2>4 DEF Allowed, StatusesKept, Own, Numbers
    <3>2. Added(s) \in Sent(s) /\ Added(s).n = 0 /\ Allowed(s).n = 0
      BY <2>1 DEF Own, Messages, Added, Allowed
    <3>3. bridge'[s] = "send" => \A m \in Sent(s)' : m.n < bridgeItem'[s]
      BY <1>0, <1>2, <2>1, <2>4, <3>2 DEF StatusesKept, Own, Numbers
    <3> QED BY <1>2, <2>1, <3>1, <3>3 DEF Own, Numbers, StatusesKept
  <2>7. Messages(s)'
    BY <1>1, <2>1, <2>4, MsgFacts DEF Own, Messages, Allowed
  <2>8. Redacted(s)'
    BY <1>2, <2>1, <2>4 DEF Own, Redacted, StatusesKept, Allowed
  <2> QED BY <2>4, <2>5, <2>6, <2>7, <2>8 DEF Own
<1>7. CASE BridgeSends(s)
  <2> DEFINE m == Status(s, bridgeItem[s])
  <2>1. /\ bridge[s] = "send" /\ bridge'[s] = "recv" /\ UNCHANGED <<tee, caller, noted>>
    BY <1>7 DEF BridgeSends, Domains
  <2>2. m \in Msgs /\ Send(m) /\ m.job = s /\ m.kind = "status" /\ m.n = bridgeItem[s]
    BY <1>7, SendersSend DEF Status
  <2> HIDE DEF m
  <2>3. \A x \in Sent(s) : MayPrecede(s, x, m)
    <3> SUFFICES ASSUME NEW x \in Sent(s)
                 PROVE  MayPrecede(s, x, m)
      OBVIOUS
    <3>1. x.n < m.n
      BY <2>1, <2>2 DEF Own, Numbers
    <3>2. x.kind # "done" /\ x.kind # "timeout"
      BY <2>1 DEF Own, Messages, Goroutines
    <3> QED BY <2>2, <3>1, <3>2 DEF MayPrecede
  <2>4. Sent(s)' = Sent(s) \cup {m} /\ InOrder(s)'
    BY <1>3, <2>2, <2>3
  <2>5. Goroutines(s)'
    BY <1>1, <1>2, <2>1 DEF Own, Goroutines, DisplayClosed
  <2>6. Numbers(s)'
    <3>1. \A x \in Sent(s)' : x.n <= bridgeItem'[s]
      BY <1>0, <1>2, <2>2, <2>4 DEF StatusesKept, Own, Numbers
    <3> QED BY <1>2, <2>1, <3>1 DEF Own, Numbers, StatusesKept
  <2>7. Messages(s)'
    <3>1. caller[s] # "start"
      BY <2>1 DEF Own, Goroutines
    <3> QED BY <1>1, <2>1, <2>2, <2>4, <3>1 DEF Own, Messages
  <2>8. Redacted(s)'
    BY <1>2, <2>1, <2>2, <2>4 DEF Own, Redacted, StatusesKept
  <2> QED BY <2>4, <2>5, <2>6, <2>7, <2>8 DEF Own
<1>8. CASE BridgeFinishes(s)
  <2>1. /\ bridge[s] = "finish" /\ bridge'[s] = "exited" /\ UNCHANGED <<tee, caller, noted>>
    BY <1>8 DEF BridgeFinishes, Domains
  <2>2. \A x \in Sent(s) : MayPrecede(s, x, Done(s))
    BY <2>1 DEF MayPrecede, Done, Own, Messages, Goroutines
  <2>3. Sent(s)' = Sent(s) \cup {Done(s)} /\ InOrder(s)'
    <3>1. Done(s) \in Msgs /\ Done(s).job = s /\ Send(Done(s))
      BY <1>8, MsgFacts, SendersSend DEF Done
    <3> QED BY <1>3, <2>2, <3>1
  <2>4. Goroutines(s)'
    BY <1>1, <1>2, <2>1 DEF Own, Goroutines, DisplayClosed
  <2>5. Numbers(s)'
    <3>1. \A x \in Sent(s)' : x.n <= bridgeItem'[s]
      BY <1>0, <1>2, <2>3 DEF Done, StatusesKept, Own, Numbers
    <3> QED BY <1>2, <2>1, <3>1 DEF Own, Numbers, StatusesKept
  <2>6. Messages(s)'
    <3>1. caller[s] # "start"
      BY <2>1 DEF Own, Goroutines
    <3> QED BY <1>1, <2>1, <2>3, <3>1, MsgFacts DEF Own, Messages, Done
  <2>7. Redacted(s)'
    BY <1>2, <2>1, <2>3 DEF Own, Redacted, StatusesKept, Done
  <2> QED BY <2>3, <2>4, <2>5, <2>6, <2>7 DEF Own
<1> QED BY <1>4, <1>5, <1>6, <1>7, <1>8 DEF Sends
LEMMA StepOwn ==
  ASSUME Domains, NEW s \in Sessions, Own(s), SessionStep(s) \/ Cancel(s)
  PROVE  Own(s)'
BY ControlSteps, SolverSteps, ReceiveSteps, SendSteps DEF SessionStep, Sends

(* A caller that is back stays back. *)
LEMMA ReturnedStays ==
  ASSUME Domains, NEW s \in Sessions, SessionStep(s) \/ Cancel(s), caller[s] = "returned"
  PROVE  caller'[s] = "returned"
<1>1. CASE Sends(s)
  BY <1>1 DEF Sends, OpenSession, ReportTimeout, NoteAllowedFailure, BridgeSends, BridgeFinishes
<1>2. CASE TeeStep(s)
  BY <1>2 DEF TeeStep, TeeReceives, TeeLeaves, TeeDrains, TeeFlushes
<1>3. CASE QuietBridgeStep(s)
  BY <1>3 DEF QuietBridgeStep, BridgeReceives, BridgeCancelled, BridgeDrains, BridgeLeaves
<1>4. CASE QuietCallerStep(s)
  BY <1>4 DEF QuietCallerStep, SolveReturns, Wait, CloseSrc, Cancel
<1> QED BY <1>1, <1>2, <1>3, <1>4
        DEF SessionStep, Sends, TeeStep, QuietBridgeStep, QuietCallerStep

-----------------------------------------------------------------------------
(* The invariant.                                                            *)

LEMMA InitInv == Init => SessionInv
<1> SUFFICES ASSUME Init
             PROVE  SessionInv
  OBVIOUS
<1>1. total \in [Sessions -> Nat] /\ \A s \in Sessions : total[s] <= Len(Statuses[s])
  <2>1. /\ total \in [Sessions -> UNION {0..Len(Statuses[s]) : s \in Sessions}]
        /\ \A s \in Sessions : total[s] <= Len(Statuses[s])
    BY DEF Init, Totals
  <2>2. \A n \in UNION {0..Len(Statuses[s]) : s \in Sessions} : n \in Nat
    BY ConstantFacts
  <2> QED BY <2>1, <2>2
<1>2. Domains
  <2>1. ch \in Seq(Msgs) /\ Len(ch) <= Capacity /\ shown \in [Sessions -> Seq(Msgs)]
    BY ConstantFacts DEF Init
  <2>2. /\ emitted \in [Sessions -> Nat] /\ teeItem \in [Sessions -> Nat]
        /\ bridgeItem \in [Sessions -> Nat] /\ observed \in [Sessions -> Seq(Nat)]
    BY DEF Init
  <2>3. /\ caller \in [Sessions -> Callers] /\ tee \in [Sessions -> Tees]
        /\ bridge \in [Sessions -> Bridges]
    BY DEF Init, Callers, Tees, Bridges
  <2> QED BY <1>1, <2>1, <2>2, <2>3 DEF Init, Domains
<1>3. Channel
  BY DEF Init, Channel
<1>4. ASSUME NEW s \in Sessions
      PROVE  Own(s)
  <2>1. Sent(s) = {} /\ Observed(s) = {}
    BY DEF Init, Sent, Observed
  <2>2. InOrder(s)
    BY DEF Init, InOrder
  <2>3. total[s] \in Nat
    BY <1>1
  <2> QED BY <2>1, <2>2, <2>3 DEF Init, Own, Goroutines, Numbers, Messages, Redacted, DisplayClosed
<1> QED BY <1>2, <1>3, <1>4 DEF SessionInv, Own

LEMMA StepInv == SessionInv /\ [Next]_vars => SessionInv'
<1> SUFFICES ASSUME SessionInv, [Next]_vars
             PROVE  SessionInv'
  OBVIOUS
<1>0. Domains /\ Channel /\ \A s \in Sessions : Own(s)
  BY DEF SessionInv, Own
<1>1. ASSUME NEW s \in Sessions, SessionStep(s) \/ Cancel(s)
      PROVE  SessionInv'
  <2>1. Domains' /\ chClosed' = chClosed /\ display' = display
    BY <1>0, <1>1, StepDomains
  <2>2. \A t \in Sessions : Own(t)'
    BY <1>0, <1>1, StepOwn, OthersOwn
  <2>3. \A t \in Sessions : caller[t] = "returned" => caller'[t] = "returned"
    BY <1>0, <1>1, ReturnedStays, FrameLocals DEF LocalsKept
  <2>4. Channel'
    BY <1>0, <2>1, <2>3 DEF Channel, AllBack
  <2> QED BY <2>1, <2>2, <2>4 DEF SessionInv, Own
<1>2. CASE Consume
  <2>1. /\ UNCHANGED <<chClosed, display>> /\ UNCHANGED <<total, emitted, srcClosed, noted>>
        /\ UNCHANGED <<outClosed, tee, teeItem, observed, flushed, bridge, bridgeItem>>
        /\ UNCHANGED <<caller, cancelled>>
    BY <1>2 DEF Consume, sessionVars, solverVars, teeVars, bridgeVars
  <2>2. ASSUME NEW t \in Sessions
        PROVE  Own(t)'
    <3>1. LocalsKept(t)
      BY <2>1 DEF LocalsKept
    <3>2. Sent(t)' = Sent(t) /\ InOrder(t)'
      BY <1>0, <1>2, ConsumeSent DEF Own
    <3> QED BY <1>0, <3>1, <3>2, KeptOwn
  <2>3. ch' \in Seq(Msgs) /\ Len(ch') <= Capacity /\ shown' \in [Sessions -> Seq(Msgs)]
    <3>1. ch \in Seq(Msgs) /\ ch # << >> /\ ch' = Tail(ch) /\ Len(ch) <= Capacity
      BY <1>0, <1>2 DEF Consume, Domains
    <3>2. ch' \in Seq(Msgs) /\ Len(ch') <= Capacity
      BY <3>1, ConstantFacts
    <3>3. Head(ch) \in Msgs /\ Head(ch).job \in Sessions
      <4>1. Head(ch) \in Msgs
        BY <3>1
      <4> QED BY <4>1 DEF Msgs
    <3>4. shown' \in [Sessions -> Seq(Msgs)]
      <4>1. shown \in [Sessions -> Seq(Msgs)]
        BY <1>0 DEF Domains
      <4>2. shown[Head(ch).job] \in Seq(Msgs)
        BY <3>3, <4>1
      <4>3. Append(shown[Head(ch).job], Head(ch)) \in Seq(Msgs)
        BY <3>3, <4>2
      <4>4. shown' = [shown EXCEPT ![Head(ch).job] = Append(shown[Head(ch).job], Head(ch))]
        BY <1>2 DEF Consume
      <4> QED BY <4>1, <4>3, <4>4
    <3> QED BY <3>2, <3>4
  <2>4. Domains'
    BY <1>0, <2>1, <2>3 DEF Domains
  <2>5. Channel'
    BY <1>0, <2>1 DEF Channel, AllBack
  <2> QED BY <2>2, <2>4, <2>5 DEF SessionInv, Own
<1>3. CASE Shutdown \/ ShutdownReturns \/ UNCHANGED vars
  <2>1. /\ UNCHANGED <<ch, shown>> /\ UNCHANGED <<total, emitted, srcClosed, noted>>
        /\ UNCHANGED <<outClosed, tee, teeItem, observed, flushed, bridge, bridgeItem>>
        /\ UNCHANGED <<caller, cancelled>>
    BY <1>3 DEF Shutdown, ShutdownReturns, vars, sessionVars, solverVars, teeVars, bridgeVars
  <2>2. ASSUME NEW t \in Sessions
        PROVE  Own(t)'
    <3>1. LocalsKept(t)
      BY <2>1 DEF LocalsKept
    <3>2. Sent(t)' = Sent(t) /\ InOrder(t)'
      BY <1>0, <2>1, SentWhenQuiet DEF Own
    <3> QED BY <1>0, <3>1, <3>2, KeptOwn
  <2>3. Domains' /\ Channel'
    BY <1>0, <1>3, <2>1 DEF Domains, Channel, AllBack, Shutdown, ShutdownReturns, vars
  <2> QED BY <2>2, <2>3 DEF SessionInv, Own
<1> QED BY <1>1, <1>2, <1>3 DEF Next, DisplayStep, Terminated

LEMMA SessionInvariant == Spec => []SessionInv
BY InitInv, StepInv, PTL DEF Spec

(* After Shutdown has closed the display's channel no goroutine of any        *)
(* session sends on it, or ever will: executePipeline calls Shutdown when     *)
(* every caller is back, and a caller is back only after its bridge's last    *)
(* send (internal/runner/status.go, Wait and bridgeStatus).                   *)
THEOREM NoSendAfterClose == Spec => []PanicFree
<1>1. SessionInv => PanicFree
  BY DEF SessionInv, Channel, AllBack, Goroutines, PanicFree
<1> QED BY <1>1, SessionInvariant, PTL
LEMMA InvType == SessionInv => TypeOK
<1> SUFFICES ASSUME SessionInv
             PROVE  TypeOK
  OBVIOUS
<1>0. Domains /\ \A s \in Sessions : Numbers(s)
  BY DEF SessionInv
<1>1. total \in Totals
  <2>1. \A s \in Sessions : total[s] \in UNION {0..Len(Statuses[r]) : r \in Sessions}
    <3> SUFFICES ASSUME NEW s \in Sessions
                 PROVE  total[s] \in 0..Len(Statuses[s])
      OBVIOUS
    <3> QED BY <1>0, ConstantFacts DEF Domains
  <2> QED BY <1>0, <2>1 DEF Totals, Domains
<1>2. ASSUME NEW s \in Sessions
      PROVE  /\ emitted[s] \in 0..total[s]
             /\ teeItem[s] \in 0..total[s] /\ bridgeItem[s] \in 0..total[s]
             /\ observed[s] \in Seq(1..total[s])
  <2>1. /\ emitted[s] \in Nat /\ teeItem[s] \in Nat /\ bridgeItem[s] \in Nat /\ total[s] \in Nat
        /\ observed[s] \in Seq(Nat)
    BY <1>0 DEF Domains
  <2>2. /\ emitted[s] <= total[s] /\ teeItem[s] <= emitted[s] /\ bridgeItem[s] <= emitted[s]
    BY <1>0 DEF Numbers
  <2>3. \A i \in DOMAIN observed[s] : observed[s][i] \in 1..total[s]
    <3> SUFFICES ASSUME NEW i \in DOMAIN observed[s]
                 PROVE  observed[s][i] \in 1..total[s]
      OBVIOUS
    <3>1. observed[s][i] \in Observed(s)
      BY DEF Observed
    <3>2. observed[s][i] \in 1..emitted[s]
      BY <1>0, <3>1 DEF Numbers
    <3> QED BY <2>1, <2>2, <3>2
  <2>4. observed[s] \in Seq(1..total[s])
    BY <2>1, <2>3, SMTT(30)
  <2>5. emitted[s] \in 0..total[s] /\ teeItem[s] \in 0..total[s] /\ bridgeItem[s] \in 0..total[s]
    BY <2>1, <2>2
  <2> QED BY <2>4, <2>5
<1> QED BY <1>0, <1>1, <1>2 DEF Domains, TypeOK, Callers, Tees, Bridges

(* Whatever is cancelled when, and however the sessions share the channel, a  *)
(* display sees JobAdded first, the statuses in the solver's order, JobDone   *)
(* once and after them, and a timeout last: the bridge's deferred JobDone     *)
(* (internal/runner/status.go, bridgeStatus) comes after its last status, and *)
(* the caller's timeout after the bridge has exited.                          *)
THEOREM DisplaySeesOrder == Spec => []SessionOrder
<1>1. SessionInv => SessionOrder
  <2> SUFFICES ASSUME SessionInv, NEW s \in Sessions
               PROVE  /\ InOrder(s)
                      /\ Sent(s) # {} => Added(s) \in Sent(s)
                      /\ Timeout(s) \in Sent(s) => Done(s) \in Sent(s) /\ s \in cancelled
                      /\ caller[s] = "returned" => Done(s) \in Sent(s)
    BY InvType DEF SessionOrder
  <2>1. InOrder(s) /\ Goroutines(s) /\ Messages(s)
    BY DEF SessionInv
  <2>2. Timeout(s).kind = "timeout"
    BY DEF Timeout
  <2> QED BY <2>1, <2>2 DEF Goroutines, Messages
<1> QED BY <1>1, SessionInvariant, PTL

(* A step that sends does not observe. *)
LEMMA ObservedOrSent ==
  ASSUME Domains, NEW s \in Sessions, SessionStep(s) \/ Cancel(s)
  PROVE  /\ UNCHANGED chVars \/ observed' = observed
         /\ observed'[s] = observed[s] \/ tee[s] = "recv"
<1> USE DEF solverVars, teeVars
<1>1. CASE Sends(s)
  BY <1>1 DEF Sends, OpenSession, ReportTimeout, NoteAllowedFailure, BridgeSends, BridgeFinishes
<1>2. CASE TeeStep(s)
  BY <1>2 DEF TeeStep, TeeReceives, TeeLeaves, TeeDrains, TeeFlushes
<1>3. CASE BridgeReceives(s) \/ BridgeDrains(s)
  BY <1>3 DEF BridgeReceives, BridgeDrains, Receive
<1>4. CASE BridgeCancelled(s) \/ BridgeLeaves(s)
  BY <1>4 DEF BridgeCancelled, BridgeLeaves
<1>5. CASE QuietCallerStep(s)
  BY <1>5 DEF QuietCallerStep, SolveReturns, Wait, CloseSrc, Cancel
<1> QED BY <1>1, <1>2, <1>3, <1>4, <1>5 DEF SessionStep, Sends, TeeStep, QuietCallerStep

(* With a tee, a status that a display is sent was redacted in an earlier     *)
(* step, and after Flush the observer hears nothing more: teeStatus redacts   *)
(* in place before it forwards (internal/runner/status.go, teeStatus), and    *)
(* Flush is its last defer.                                                   *)
THEOREM RedactedBeforeShown == Spec => RedactedFirst
<1> DEFINE Act == \A s \in Interposed :
                     /\ \A m \in Sent(s)' : m.kind = "status" => m.n \in Observed(s)
                     /\ s \in flushed => observed'[s] = observed[s]
<1>1. ASSUME SessionInv, SessionInv', Next
      PROVE  Act
  <2> SUFFICES ASSUME NEW s \in Interposed
               PROVE  /\ \A m \in Sent(s)' : m.kind = "status" => m.n \in Observed(s)
                      /\ s \in flushed => observed'[s] = observed[s]
    OBVIOUS
  <2>0. s \in Sessions /\ Domains /\ Redacted(s) /\ Redacted(s)'
    BY <1>1, ConstantFacts DEF SessionInv
  <2>1. ASSUME NEW t \in Sessions, SessionStep(t) \/ Cancel(t)
        PROVE  /\ \A m \in Sent(s)' : m.kind = "status" => m.n \in Observed(s)
               /\ s \in flushed => observed'[s] = observed[s]
    <3>1. UNCHANGED chVars \/ observed' = observed
      BY <2>0, <2>1, ObservedOrSent
    <3>2. CASE UNCHANGED chVars
      <4>1. Sent(s)' = Sent(s)
        BY <2>0, <3>2, SentWhenQuiet DEF chVars
      <4> QED BY <2>0, <2>1, <4>1, ObservedOrSent, FrameLocals DEF Redacted, LocalsKept
    <3>3. CASE observed' = observed
      BY <2>0, <3>3 DEF Redacted, Observed
    <3> QED BY <3>1, <3>2, <3>3
  <2>2. CASE DisplayStep \/ Terminated
    <3>1. observed' = observed
      BY <2>2 DEF DisplayStep, Consume, Shutdown, ShutdownReturns, Terminated, sessionVars,
                  teeVars, vars
    <3> QED BY <2>0, <3>1 DEF Redacted, Observed
  <2> QED BY <1>1, <2>1, <2>2 DEF Next
<1>2. SessionInv /\ SessionInv' /\ [Next]_vars => [Act]_vars
  BY <1>1
<1> QED BY <1>2, SessionInvariant, PTL DEF Spec, RedactedFirst
-----------------------------------------------------------------------------
(* Nothing gets lost on the way.                                             *)

(* The statuses of s that its bridge has sent to the display. *)
Arrived(s) == {m.n : m \in {x \in Sent(s) : x.kind = "status"}}

(* Those that a goroutine of s holds and is about to pass on. *)
OnTheWay(s) ==
  (IF tee[s] = "forward" THEN {teeItem[s]} ELSE {})
    \cup (IF bridge[s] = "send" THEN {bridgeItem[s]} ELSE {})

(* Those that the solver has sent, without the nil pointers. *)
RealSoFar(s) == {n \in 1..emitted[s] : <<s, n>> \notin NilStatus}

(* As long as s is not cancelled, whatever its solver has sent is with the    *)
(* display or in the hands of a goroutine, and nothing else is; the tee       *)
(* leaves its loop only after the solver's last status.                       *)
Complete(s) ==
  /\ s \in srcClosed => emitted[s] = total[s]
  /\ \A i, j \in DOMAIN observed[s] : i < j => observed[s][i] < observed[s][j]
  /\ s \notin cancelled =>
       /\ Arrived(s) \cup OnTheWay(s) = RealSoFar(s)
       /\ s \in Interposed => Observed(s) = RealSoFar(s)
       /\ bridge[s] # "draining"
       /\ s \in outClosed => tee[s] \in {"draining", "exited"}
       /\ tee[s] \in {"draining", "exited"} => s \in srcClosed

LEMMA KeptComplete ==
  ASSUME NEW t \in Sessions, Complete(t), LocalsKept(t), Sent(t)' = Sent(t)
  PROVE  Complete(t)'
<1>1. Arrived(t)' = Arrived(t)
  BY DEF Arrived
<1>2. OnTheWay(t)' = OnTheWay(t) /\ RealSoFar(t)' = RealSoFar(t) /\ Observed(t)' = Observed(t)
  BY DEF OnTheWay, RealSoFar, Observed, LocalsKept
<1> QED BY <1>1, <1>2 DEF Complete, LocalsKept

LEMMA ControlComplete ==
  ASSUME Domains, NEW s \in Sessions, Own(s), Complete(s),
         \/ SolveReturns(s) \/ Wait(s) \/ CloseSrc(s) \/ Cancel(s) \/ TeeLeaves(s)
         \/ TeeFlushes(s) \/ BridgeCancelled(s) \/ BridgeLeaves(s)
  PROVE  Complete(s)'
<1> USE DEF solverVars, teeVars, bridgeVars, chVars
<1>1. Sent(s)' = Sent(s)
  <2>1. UNCHANGED <<ch, shown>>
    BY DEF SolveReturns, Wait, CloseSrc, Cancel, TeeLeaves, TeeFlushes, BridgeCancelled,
           BridgeLeaves
  <2> QED BY <2>1, SentWhenQuiet
<1>2. StatusesKept(s) /\ (s \in cancelled => s \in cancelled')
  BY DEF StatusesKept, SolveReturns, Wait, CloseSrc, Cancel, TeeLeaves, TeeFlushes,
         BridgeCancelled, BridgeLeaves
<1>3. Observed(s)' = Observed(s) /\ RealSoFar(s)' = RealSoFar(s) /\ Arrived(s)' = Arrived(s)
  BY <1>1, <1>2 DEF Observed, RealSoFar, Arrived, StatusesKept
<1>4. s \in srcClosed' => emitted'[s] = total'[s]
  BY <1>2 DEF StatusesKept, Complete, SolveReturns, Wait, CloseSrc, Cancel, TeeLeaves, TeeFlushes,
              BridgeCancelled, BridgeLeaves
<1>5. ASSUME s \notin cancelled'
      PROVE  /\ OnTheWay(s)' = OnTheWay(s)
             /\ bridge'[s] # "draining"
             /\ s \in outClosed' => tee'[s] \in {"draining", "exited"}
             /\ tee'[s] \in {"draining", "exited"} => s \in srcClosed'
  <2>1. s \notin cancelled /\ bridge[s] # "draining"
    BY <1>2, <1>5 DEF Complete
  <2>2. CASE SolveReturns(s) \/ Wait(s) \/ Cancel(s)
    BY <1>5, <2>1, <2>2 DEF SolveReturns, Wait, Cancel, Complete, OnTheWay
  <2>3. CASE CloseSrc(s)
    BY <2>1, <2>3 DEF CloseSrc, Complete, OnTheWay
  <2>4. CASE TeeLeaves(s)
    <3>1. /\ tee[s] = "recv" /\ s \in srcClosed /\ tee'[s] = "draining"
          /\ UNCHANGED <<srcClosed, bridge, bridgeItem>>
      BY <2>1, <2>4 DEF TeeLeaves, Domains
    <3> QED BY <2>1, <3>1 DEF OnTheWay
  <2>5. CASE TeeFlushes(s)
    <3>1. /\ tee[s] = "draining" /\ s \in srcClosed /\ tee'[s] = "exited"
          /\ UNCHANGED <<srcClosed, bridge, bridgeItem>>
      BY <2>5 DEF TeeFlushes, Domains
    <3> QED BY <2>1, <3>1 DEF OnTheWay
  <2>6. CASE BridgeCancelled(s)
    BY <2>1, <2>6 DEF BridgeCancelled
  <2>7. CASE BridgeLeaves(s)
    <3>1. /\ bridge[s] = "recv" /\ bridge'[s] = "finish"
          /\ UNCHANGED <<srcClosed, outClosed, tee, teeItem>>
      BY <2>1, <2>7 DEF BridgeLeaves, Domains
    <3> QED BY <2>1, <3>1 DEF OnTheWay, Complete
  <2> QED BY <2>2, <2>3, <2>4, <2>5, <2>6, <2>7
<1> QED BY <1>2, <1>3, <1>4, <1>5 DEF Complete, StatusesKept

(* A solver whose channel is closed has nothing more to send. *)
LEMMA ReadMore ==
  ASSUME Domains, NEW s \in Sessions, Complete(s), Emit(s)
  PROVE  /\ s \notin srcClosed /\ emitted'[s] = emitted[s] + 1
         /\ RealSoFar(s)' = IF <<s, emitted[s] + 1>> \in NilStatus
                            THEN RealSoFar(s) ELSE RealSoFar(s) \cup {emitted[s] + 1}
<1>1. emitted[s] \in Nat /\ total[s] \in Nat /\ emitted[s] < total[s]
  BY DEF Domains, Emit, CanEmit
<1>2. emitted'[s] = emitted[s] + 1
  BY DEF Domains, Emit
<1>3. s \notin srcClosed
  BY <1>1 DEF Complete
<1>4. \A n : n \in 1..(emitted[s] + 1) <=> n \in 1..emitted[s] \/ n = emitted[s] + 1
  BY <1>1
<1> QED BY <1>2, <1>3, <1>4 DEF RealSoFar

LEMMA TeeComplete ==
  ASSUME Domains, NEW s \in Sessions, Own(s), Complete(s), TeeReceives(s) \/ TeeDrains(s)
  PROVE  Complete(s)'
<1> USE DEF solverVars, teeVars, bridgeVars, chVars
<1>0. emitted[s] \in Nat /\ observed[s] \in Seq(Nat) /\ emitted[s] + 1 \in Nat
  BY DEF Domains
<1>1. Arrived(s)' = Arrived(s)
  <2>1. UNCHANGED <<ch, shown>>
    BY DEF TeeReceives, TeeDrains
  <2> QED BY <2>1, SentWhenQuiet DEF Arrived
<1>2. /\ UNCHANGED <<total, srcClosed, outClosed, bridge, bridgeItem, cancelled>>
      /\ Emit(s)
  BY DEF TeeReceives, TeeDrains
<1>3. /\ s \notin srcClosed /\ emitted'[s] = emitted[s] + 1
      /\ RealSoFar(s)' = IF <<s, emitted[s] + 1>> \in NilStatus
                         THEN RealSoFar(s) ELSE RealSoFar(s) \cup {emitted[s] + 1}
  BY <1>2, ReadMore
<1>4. CASE TeeDrains(s)
  <2>1. tee[s] = "draining" /\ UNCHANGED observed
    BY <1>4 DEF TeeDrains
  <2>2. s \in cancelled
    BY <1>3, <2>1 DEF Complete
  <2> QED BY <1>2, <1>3, <2>1, <2>2 DEF Complete
<1>5. CASE TeeReceives(s) /\ <<s, emitted[s] + 1>> \in NilStatus
  <2>1. UNCHANGED <<tee, teeItem, observed>>
    BY <1>3, <1>5 DEF TeeReceives
  <2>2. OnTheWay(s)' = OnTheWay(s) /\ Observed(s)' = Observed(s)
    BY <1>2, <2>1 DEF OnTheWay, Observed
  <2> QED BY <1>1, <1>2, <1>3, <1>5, <2>1, <2>2 DEF Complete
<1>6. CASE TeeReceives(s) /\ <<s, emitted[s] + 1>> \notin NilStatus
  <2>1. /\ tee[s] = "recv" /\ tee'[s] = "forward" /\ teeItem'[s] = emitted[s] + 1
        /\ observed' = [observed EXCEPT ![s] = Append(observed[s], emitted[s] + 1)]
    BY <1>3, <1>6 DEF TeeReceives, Domains
  <2>2. OnTheWay(s)' = OnTheWay(s) \cup {emitted[s] + 1}
    BY <1>2, <2>1 DEF OnTheWay
  <2>3. Observed(s)' = Observed(s) \cup {emitted[s] + 1}
    BY <1>0, <2>1, ObservedMore
  <2>4. ASSUME NEW i \in DOMAIN observed'[s], NEW j \in DOMAIN observed'[s], i < j
        PROVE  observed'[s][i] < observed'[s][j]
    <3> DEFINE k == Len(observed[s])
    <3>1. /\ DOMAIN observed'[s] = 1..(k + 1) /\ k \in Nat /\ DOMAIN observed[s] = 1..k
          /\ observed'[s][k + 1] = emitted[s] + 1
          /\ \A l \in 1..k : observed'[s][l] = observed[s][l]
      <4>1. observed'[s] = Append(observed[s], emitted[s] + 1)
        BY <2>1 DEF Domains
      <4> QED BY <1>0, <4>1
    <3>2. \A l \in 1..k : observed[s][l] \in 1..emitted[s]
      BY <3>1 DEF Own, Numbers, Observed
    <3> HIDE DEF k
    <3>3. i \in 1..k
      BY <2>4, <3>1
    <3>4. CASE j = k + 1
      BY <1>0, <3>1, <3>2, <3>3, <3>4, SMTT(30)
    <3>5. CASE j \in 1..k
      BY <2>4, <3>1, <3>3, <3>5 DEF Complete
    <3> QED BY <3>1, <3>4, <3>5
  <2> QED BY <1>1, <1>2, <1>3, <1>6, <2>1, <2>2, <2>3, <2>4 DEF Complete
<1> QED BY <1>4, <1>5, <1>6
(* Without a tee no status is nil: bridgeStatus is then given src itself. *)
LEMMA NilBehindTee == \A s \in Sessions \ Interposed : \A n : <<s, n>> \notin NilStatus
BY SessionAssumption

LEMMA ReceiveComplete ==
  ASSUME Domains, NEW s \in Sessions, Own(s), Complete(s), BridgeReceives(s) \/ BridgeDrains(s)
  PROVE  Complete(s)'
<1> USE DEF bridgeVars, chVars
<1>1. Arrived(s)' = Arrived(s)
  <2>1. UNCHANGED <<ch, shown>>
    BY DEF BridgeReceives, BridgeDrains
  <2> QED BY <2>1, SentWhenQuiet DEF Arrived
<1>2. PICK n : /\ Receive(s, n) /\ UNCHANGED cancelled
               /\ \/ /\ bridgeItem'[s] = n /\ bridge'[s] = "send" /\ bridge[s] = "recv"
                  \/ bridge[s] = "draining" /\ bridge'[s] = "draining"
  BY DEF BridgeReceives, BridgeDrains, Domains
<1>3. UNCHANGED <<total, srcClosed, outClosed, teeItem, observed>> /\ Observed(s)' = Observed(s)
  BY <1>2, ReceiveFacts DEF Observed
<1>4. CASE s \in Interposed
  <2>1. tee[s] = "forward" /\ n = teeItem[s] /\ tee'[s] = "recv" /\ UNCHANGED emitted
    BY <1>2, <1>4 DEF Receive, solverVars, Domains
  <2>2. RealSoFar(s)' = RealSoFar(s)
    BY <2>1 DEF RealSoFar
  <2>3. CASE s \in cancelled
    BY <1>2, <1>3, <2>1, <2>3 DEF Complete
  <2>4. CASE s \notin cancelled
    <3>1. bridge[s] = "recv" /\ bridge'[s] = "send" /\ bridgeItem'[s] = teeItem[s]
      BY <1>2, <2>1, <2>4 DEF Complete
    <3>2. OnTheWay(s)' = OnTheWay(s)
      BY <2>1, <3>1 DEF OnTheWay
    <3> QED BY <1>1, <1>2, <1>3, <2>1, <2>2, <2>4, <3>1, <3>2 DEF Complete
  <2> QED BY <2>3, <2>4
<1>5. CASE s \notin Interposed
  <2>1. Emit(s) /\ n = emitted[s] + 1 /\ UNCHANGED tee /\ tee[s] = "none"
    BY <1>2, <1>5 DEF Receive, teeVars, Own, Goroutines
  <2>2. /\ s \notin srcClosed
        /\ RealSoFar(s)' = RealSoFar(s) \cup {n}
    BY <1>5, <2>1, ReadMore, NilBehindTee
  <2>3. CASE s \in cancelled
    BY <1>2, <1>3, <2>2, <2>3 DEF Complete
  <2>4. CASE s \notin cancelled
    <3>1. bridge[s] = "recv" /\ bridge'[s] = "send" /\ bridgeItem'[s] = n
      BY <1>2, <2>4 DEF Complete
    <3>2. OnTheWay(s)' = OnTheWay(s) \cup {n}
      BY <2>1, <3>1 DEF OnTheWay
    <3> QED BY <1>1, <1>2, <1>3, <1>5, <2>1, <2>2, <2>4, <3>1, <3>2 DEF Complete
  <2> QED BY <2>3, <2>4
<1> QED BY <1>4, <1>5

LEMMA SendComplete ==
  ASSUME Domains, NEW s \in Sessions, Own(s), Complete(s), Sends(s)
  PROVE  Complete(s)'
<1> USE DEF solverVars, teeVars, bridgeVars
<1>1. /\ StatusesKept(s) /\ Observed(s)' = Observed(s) /\ RealSoFar(s)' = RealSoFar(s)
      /\ UNCHANGED <<outClosed, srcClosed, cancelled>>
  BY DEF StatusesKept, Observed, RealSoFar, Sends, OpenSession, ReportTimeout, NoteAllowedFailure,
         BridgeSends, BridgeFinishes
<1>2. ASSUME NEW m \in Msgs, m.job = s, Send(m)
      PROVE  Arrived(s)' = IF m.kind = "status" THEN Arrived(s) \cup {m.n} ELSE Arrived(s)
  <2>1. Sent(s)' = Sent(s) \cup {m}
    BY <1>2, SendSent
  <2> QED BY <2>1 DEF Arrived
<1>3. CASE OpenSession(s)
  <2>1. /\ caller[s] = "start" /\ bridge'[s] = "recv" /\ tee'[s] \in {"recv", "none"}
    BY <1>3 DEF OpenSession, Domains
  <2>2. bridge[s] = "none" /\ tee[s] = "none"
    BY <2>1 DEF Own, Goroutines
  <2>3. OnTheWay(s)' = OnTheWay(s)
    BY <2>1, <2>2 DEF OnTheWay
  <2>4. Arrived(s)' = Arrived(s)
    BY <1>2, <1>3, MsgFacts, SendersSend DEF Added
  <2> QED BY <1>1, <2>1, <2>2, <2>3, <2>4 DEF Complete, StatusesKept
<1>4. CASE ReportTimeout(s) \/ NoteAllowedFailure(s)
  <2>1. UNCHANGED <<bridge, tee>>
    BY <1>4 DEF ReportTimeout, NoteAllowedFailure
  <2>2. OnTheWay(s)' = OnTheWay(s)
    BY <1>1, <2>1 DEF OnTheWay, StatusesKept
  <2>3. Arrived(s)' = Arrived(s)
    BY <1>2, <1>4, MsgFacts, SendersSend DEF Timeout, Allowed
  <2> QED BY <1>1, <2>1, <2>2, <2>3 DEF Complete, StatusesKept
<1>5. CASE BridgeSends(s)
  <2>1. bridge[s] = "send" /\ bridge'[s] = "recv" /\ UNCHANGED tee
    BY <1>5 DEF BridgeSends, Domains
  <2>2. OnTheWay(s) = OnTheWay(s)' \cup {bridgeItem[s]}
    BY <1>1, <2>1 DEF OnTheWay, StatusesKept
  <2>3. Arrived(s)' = Arrived(s) \cup {bridgeItem[s]}
    BY <1>2, <1>5, SendersSend DEF Status
  <2> QED BY <1>1, <2>1, <2>2, <2>3 DEF Complete, StatusesKept
<1>6. CASE BridgeFinishes(s)
  <2>1. bridge[s] = "finish" /\ bridge'[s] = "exited" /\ UNCHANGED tee
    BY <1>6 DEF BridgeFinishes, Domains
  <2>2. OnTheWay(s)' = OnTheWay(s)
    BY <1>1, <2>1 DEF OnTheWay, StatusesKept
  <2>3. Arrived(s)' = Arrived(s)
    BY <1>2, <1>6, MsgFacts, SendersSend DEF Done
  <2> QED BY <1>1, <2>1, <2>2, <2>3 DEF Complete, StatusesKept
<1> QED BY <1>3, <1>4, <1>5, <1>6 DEF Sends

CompleteInv == SessionInv /\ \A s \in Sessions : Complete(s)

LEMMA InitComplete == Init => CompleteInv
<1> SUFFICES ASSUME Init, NEW s \in Sessions
             PROVE  Complete(s)
  BY InitInv DEF CompleteInv
<1>1. Sent(s) = {} /\ Observed(s) = {} /\ observed[s] = << >> /\ RealSoFar(s) = {}
  BY DEF Init, Sent, Observed, RealSoFar
<1>2. Arrived(s) = {} /\ OnTheWay(s) = {}
  BY <1>1 DEF Init, Arrived, OnTheWay
<1> QED BY <1>1, <1>2 DEF Init, Complete

LEMMA StepComplete == CompleteInv /\ [Next]_vars => CompleteInv'
<1> SUFFICES ASSUME CompleteInv, [Next]_vars
             PROVE  \A t \in Sessions : Complete(t)'
  BY StepInv DEF CompleteInv
<1>0. Domains /\ \A s \in Sessions : Own(s) /\ Complete(s)
  BY DEF CompleteInv, SessionInv, Own
<1>1. ASSUME NEW s \in Sessions, SessionStep(s) \/ Cancel(s), NEW t \in Sessions
      PROVE  Complete(t)'
  <2>1. CASE t = s
    BY <1>0, <1>1, <2>1, ControlComplete, TeeComplete, ReceiveComplete, SendComplete
       DEF SessionStep, Sends
  <2>2. CASE t # s
    <3>1. LocalsKept(t)
      BY <1>0, <1>1, <2>2, FrameLocals
    <3>2. Sent(t)' = Sent(t)
      <4>1. CASE UNCHANGED chVars
        BY <4>1, SentWhenQuiet DEF chVars
      <4>2. CASE \E m \in Msgs : m.job = s /\ Send(m)
        BY <1>0, <2>2, <4>2, SendSent
      <4> QED BY <1>0, <1>1, <4>1, <4>2, StepTalks
    <3> QED BY <1>0, <3>1, <3>2, KeptComplete
  <2> QED BY <2>1, <2>2
<1>2. ASSUME DisplayStep \/ UNCHANGED vars, NEW t \in Sessions
      PROVE  Complete(t)'
  <2>1. LocalsKept(t)
    BY <1>2 DEF DisplayStep, Consume, Shutdown, ShutdownReturns, vars, sessionVars, solverVars,
                teeVars, bridgeVars, LocalsKept
  <2>2. Sent(t)' = Sent(t)
    BY <1>0, <1>2, ConsumeSent, SentWhenQuiet DEF DisplayStep, Shutdown, ShutdownReturns, vars
  <2> QED BY <1>0, <2>1, <2>2, KeptComplete
<1> QED BY <1>1, <1>2 DEF Next, Terminated

(* A strictly increasing sequence has as many members as places. *)
LEMMA IncreasingLength ==
  ASSUME NEW q \in Seq(Nat), \A i, j \in DOMAIN q : i < j => q[i] < q[j],
         NEW S, S = {q[i] : i \in DOMAIN q}
  PROVE  Len(q) = Cardinality(S)
<1>1. Len(q) \in Nat /\ DOMAIN q = 1..Len(q) /\ q \in [1..Len(q) -> S]
  OBVIOUS
<1>2. IsInjective(q)
  <2> SUFFICES ASSUME NEW i \in DOMAIN q, NEW j \in DOMAIN q, q[i] = q[j]
               PROVE  i = j
    BY Zenon DEF IsInjective
  <2>1. q[i] \in Nat /\ i \in Nat /\ j \in Nat
    OBVIOUS
  <2>2. ~(q[i] < q[j]) /\ ~(q[j] < q[i])
    BY <2>1
  <2>3. ~(i < j) /\ ~(j < i)
    BY <2>2
  <2> QED BY <2>1, <2>3
<1>3. ExistsBijection(1..Len(q), S)
  BY <1>1, <1>2 DEF ExistsBijection, Bijection, Injection, Surjection
<1>4. IsFiniteSet(1..Len(q)) /\ Cardinality(1..Len(q)) = Len(q)
  <2>1. 1 \in Int /\ Len(q) \in Int
    BY <1>1
  <2>2. /\ IsFiniteSet(1..Len(q))
        /\ Cardinality(1..Len(q)) = IF 1 > Len(q) THEN 0 ELSE Len(q) - 1 + 1
    BY <2>1, FS_Interval
  <2> QED BY <1>1, <2>2
<1> QED BY <1>3, <1>4, FS_Bijection

LEMMA CompleteWhenBack == CompleteInv => EveryStatusArrives
<1> SUFFICES ASSUME CompleteInv, NEW s \in Sessions, caller[s] = "returned", s \notin cancelled
             PROVE  /\ Arrived(s) = Real(s)
                    /\ s \in Interposed => Len(observed[s]) = Cardinality(Real(s))
  BY DEF EveryStatusArrives, Arrived
<1>1. Domains /\ Goroutines(s) /\ Complete(s)
  BY DEF CompleteInv, SessionInv
<1>2. bridge[s] = "exited" /\ DisplayClosed(s)
  BY <1>1 DEF Goroutines
<1>3. s \in srcClosed /\ tee[s] # "forward"
  BY <1>1, <1>2 DEF DisplayClosed, Complete, Goroutines
<1>4. RealSoFar(s) = Real(s) /\ OnTheWay(s) = {}
  BY <1>1, <1>2, <1>3 DEF Complete, RealSoFar, Real, OnTheWay
<1>5. Arrived(s) = Real(s)
  BY <1>1, <1>4 DEF Complete
<1>6. ASSUME s \in Interposed
      PROVE  Len(observed[s]) = Cardinality(Real(s))
  <2>1. Observed(s) = Real(s) /\ observed[s] \in Seq(Nat)
    BY <1>1, <1>4, <1>6 DEF Complete, Domains
  <2>2. \A i, j \in DOMAIN observed[s] : i < j => observed[s][i] < observed[s][j]
    BY <1>1 DEF Complete
  <2> QED BY <2>1, <2>2, IncreasingLength DEF Observed
<1> QED BY <1>5, <1>6

(* When an uncancelled session's caller is back, every non-nil status its     *)
(* solver sent has been sent to the display, and with a tee has been redacted *)
(* and collected exactly once: with any number of sessions blocked on a full  *)
(* channel, wg.Wait (internal/runner/status.go, Wait) comes after the         *)
(* bridge's last send, and the tee closes out only after src is empty.        *)
THEOREM StatusesArrive == Spec => []EveryStatusArrives
BY CompleteWhenBack, InitComplete, StepComplete, PTL DEF Spec
-----------------------------------------------------------------------------
(* What is announced.                                                        *)

(* A status that is shown is one of the solver's; an allowed failure is       *)
(* announced for a job that has one, and unless it was cancelled exactly if   *)
(* the failure is tolerated.                                                  *)
Announced(s) ==
  /\ tee[s] = "forward" => teeItem[s] \in Real(s)
  /\ bridge[s] = "send" => bridgeItem[s] \in Real(s)
  /\ \A m \in Sent(s) : m.kind = "status" => m.n \in Real(s)
  /\ s \in noted => Allowed(s) \in Sent(s) /\ s \in DOMAIN Lenient
  /\ s \notin cancelled =>
       /\ s \in noted => FailureTolerated(s)
       /\ s \in srcClosed /\ FailureTolerated(s) => s \in noted

AnnounceInv ==
  /\ CompleteInv
  /\ display = "stopped" => ch = << >>
  /\ \A s \in Sessions : Announced(s)

LEMMA KeptAnnounced ==
  ASSUME NEW t \in Sessions, Announced(t), LocalsKept(t), Sent(t)' = Sent(t)
  PROVE  Announced(t)'
<1>1. FailureTolerated(t)' <=> FailureTolerated(t)
  BY DEF FailureTolerated, LocalsKept
<1>2. Real(t)' = Real(t)
  BY DEF Real, LocalsKept
<1> QED BY <1>1, <1>2 DEF Announced, LocalsKept

LEMMA QuietAnnounced ==
  ASSUME Domains, NEW s \in Sessions, Announced(s),
         QuietCallerStep(s) \/ TeeStep(s) \/ QuietBridgeStep(s)
  PROVE  Announced(s)'
<1> USE DEF solverVars, teeVars, bridgeVars, chVars, Emit, Receive
<1>1. Sent(s)' = Sent(s)
  <2>1. UNCHANGED <<ch, shown>>
    BY DEF QuietCallerStep, TeeStep, QuietBridgeStep, SolveReturns, Wait, CloseSrc, Cancel,
           TeeReceives, TeeLeaves, TeeDrains, TeeFlushes, BridgeReceives, BridgeCancelled,
           BridgeDrains, BridgeLeaves
  <2> QED BY <2>1, SentWhenQuiet
<1>2. UNCHANGED <<total, noted>> /\ (s \in cancelled => s \in cancelled')
  BY DEF QuietCallerStep, TeeStep, QuietBridgeStep, SolveReturns, Wait, CloseSrc, Cancel,
         TeeReceives, TeeLeaves, TeeDrains, TeeFlushes, BridgeReceives, BridgeCancelled,
         BridgeDrains, BridgeLeaves
<1>3. (FailureTolerated(s)' <=> FailureTolerated(s)) /\ Real(s)' = Real(s)
  BY <1>2 DEF FailureTolerated, Real
<1>4. /\ tee'[s] = "forward" => teeItem'[s] \in Real(s)
      /\ bridge'[s] = "send" => bridgeItem'[s] \in Real(s)
  <2>1. CASE QuietCallerStep(s)
    BY <2>1 DEF Announced, QuietCallerStep, SolveReturns, Wait, CloseSrc, Cancel
  <2>2. CASE TeeReceives(s)
    <3>1. UNCHANGED bridgeVars
      BY <2>2 DEF TeeReceives
    <3>2. emitted'[s] \in 1..total[s]
      BY <2>2 DEF TeeReceives, CanEmit, Domains
    <3>3. tee'[s] = "forward" => teeItem'[s] = emitted'[s] /\ <<s, emitted'[s]>> \notin NilStatus
      BY <2>2 DEF TeeReceives, Domains
    <3> QED BY <3>1, <3>2, <3>3 DEF Real, Announced
  <2>3. CASE TeeLeaves(s) \/ TeeDrains(s) \/ TeeFlushes(s)
    <3>1. UNCHANGED <<bridgeVars, teeItem>>
      BY <2>3 DEF TeeLeaves, TeeDrains, TeeFlushes
    <3>2. tee'[s] = "forward" => tee[s] = "forward"
      BY <2>3 DEF TeeLeaves, TeeDrains, TeeFlushes, Domains
    <3> QED BY <3>1, <3>2 DEF Announced
  <2>4. CASE BridgeReceives(s)
    <3>1. PICK n \in DOMAIN Statuses[s] : Receive(s, n) /\ bridgeItem' = [bridgeItem EXCEPT ![s] = n]
      BY <2>4 DEF BridgeReceives
    <3>2. bridgeItem'[s] = n
      BY <3>1 DEF Domains
    <3>3. CASE s \in Interposed
      BY <3>1, <3>2, <3>3 DEF Announced, Domains
    <3>4. CASE s \notin Interposed
      <4>1. UNCHANGED <<tee, teeItem>> /\ n = emitted[s] + 1 /\ emitted[s] < total[s]
        BY <3>1, <3>4 DEF CanEmit
      <4>2. n \in 1..total[s]
        BY <4>1 DEF Domains
      <4>3. <<s, n>> \notin NilStatus
        BY <3>4, SessionAssumption
      <4> QED BY <3>2, <4>1, <4>2, <4>3 DEF Announced, Real
    <3> QED BY <3>3, <3>4
  <2>5. CASE BridgeDrains(s)
    <3>1. UNCHANGED <<bridgeVars, teeItem>>
      BY <2>5 DEF BridgeDrains
    <3>2. tee'[s] = "forward" => tee[s] = "forward"
      BY <2>5 DEF BridgeDrains, Domains
    <3> QED BY <3>1, <3>2 DEF Announced
  <2>6. CASE BridgeCancelled(s) \/ BridgeLeaves(s)
    BY <2>6 DEF BridgeCancelled, BridgeLeaves, Domains, Announced
  <2> QED BY <2>1, <2>2, <2>3, <2>4, <2>5, <2>6 DEF TeeStep, QuietBridgeStep
<1>5. s \notin cancelled' /\ s \in srcClosed' /\ FailureTolerated(s) => s \in noted
  <2>1. CASE CloseSrc(s)
    BY <2>1 DEF CloseSrc
  <2>2. CASE ~CloseSrc(s)
    <3>1. UNCHANGED srcClosed
      BY <2>2 DEF QuietCallerStep, TeeStep, QuietBridgeStep, SolveReturns, Wait, Cancel,
           TeeReceives, TeeLeaves, TeeDrains, TeeFlushes, BridgeReceives, BridgeCancelled,
           BridgeDrains, BridgeLeaves
    <3> QED BY <1>2, <3>1 DEF Announced
  <2> QED BY <2>1, <2>2
<1> QED BY <1>1, <1>2, <1>3, <1>4, <1>5 DEF Announced, Allowed

LEMMA SendAnnounced ==
  ASSUME Domains, NEW s \in Sessions, Announced(s), Sends(s)
  PROVE  Announced(s)'
<1> USE DEF solverVars, teeVars, bridgeVars
<1>1. UNCHANGED <<total, srcClosed, cancelled>>
  BY DEF Sends, OpenSession, ReportTimeout, NoteAllowedFailure, BridgeSends, BridgeFinishes
<1>2. (FailureTolerated(s)' <=> FailureTolerated(s)) /\ Real(s)' = Real(s)
  BY <1>1 DEF FailureTolerated, Real
<1>3. ASSUME NEW m \in Msgs, m.job = s, Send(m)
      PROVE  Sent(s)' = Sent(s) \cup {m}
  BY <1>3, SendSent
<1>4. CASE OpenSession(s)
  <2>1. Sent(s)' = Sent(s) \cup {Added(s)} /\ Added(s).kind = "added"
    BY <1>3, <1>4, MsgFacts, SendersSend DEF Added
  <2>2. bridge'[s] = "recv" /\ UNCHANGED noted /\ tee'[s] # "forward"
    BY <1>4 DEF OpenSession, Domains
  <2> QED BY <1>1, <1>2, <2>1, <2>2 DEF Announced, Allowed
<1>5. CASE ReportTimeout(s)
  <2>1. Sent(s)' = Sent(s) \cup {Timeout(s)} /\ Timeout(s).kind = "timeout"
    BY <1>3, <1>5, MsgFacts, SendersSend DEF Timeout
  <2>2. UNCHANGED <<bridge, bridgeItem, tee, teeItem, noted>>
    BY <1>5 DEF ReportTimeout
  <2> QED BY <1>1, <1>2, <2>1, <2>2 DEF Announced, Allowed
<1>6. CASE NoteAllowedFailure(s)
  <2>1. Sent(s)' = Sent(s) \cup {Allowed(s)} /\ Allowed(s).kind = "allowed"
    BY <1>3, <1>6, MsgFacts, SendersSend DEF Allowed
  <2>2. /\ UNCHANGED <<bridge, bridgeItem, tee, teeItem>> /\ noted' = noted \cup {s}
        /\ s \in DOMAIN Lenient /\ (FailureTolerated(s) \/ s \in cancelled)
    BY <1>6 DEF NoteAllowedFailure
  <2> QED BY <1>1, <1>2, <2>1, <2>2 DEF Announced, Allowed
<1>7. CASE BridgeSends(s)
  <2>1. Sent(s)' = Sent(s) \cup {Status(s, bridgeItem[s])} /\ Status(s, bridgeItem[s]).n = bridgeItem[s]
    BY <1>3, <1>7, MsgFacts, SendersSend DEF Status
  <2>2. bridge[s] = "send" /\ bridge'[s] = "recv" /\ UNCHANGED <<noted, tee, teeItem>>
    BY <1>7 DEF BridgeSends, Domains
  <2> QED BY <1>1, <1>2, <2>1, <2>2 DEF Announced, Allowed
<1>8. CASE BridgeFinishes(s)
  <2>1. Sent(s)' = Sent(s) \cup {Done(s)} /\ Done(s).kind = "done"
    BY <1>3, <1>8, MsgFacts, SendersSend DEF Done
  <2>2. bridge'[s] = "exited" /\ UNCHANGED <<noted, tee, teeItem>>
    BY <1>8 DEF BridgeFinishes, Domains
  <2> QED BY <1>1, <1>2, <2>1, <2>2 DEF Announced, Allowed
<1> QED BY <1>4, <1>5, <1>6, <1>7, <1>8 DEF Sends

LEMMA AnnounceInvariant == Spec => []AnnounceInv
<1>1. Init => AnnounceInv
  <2> SUFFICES ASSUME Init, NEW s \in Sessions
               PROVE  Announced(s)
    BY InitComplete DEF Init, AnnounceInv
  <2>1. Sent(s) = {}
    BY DEF Init, Sent
  <2> QED BY <2>1 DEF Init, Announced
<1>2. AnnounceInv /\ [Next]_vars => AnnounceInv'
  <2> SUFFICES ASSUME AnnounceInv, [Next]_vars
               PROVE  (display' = "stopped" => ch' = << >>) /\ \A t \in Sessions : Announced(t)'
    BY StepComplete DEF AnnounceInv
  <2>0. Domains /\ Channel /\ \A s \in Sessions : Goroutines(s) /\ Announced(s)
    BY DEF AnnounceInv, CompleteInv, SessionInv
  <2>1. ASSUME NEW s \in Sessions, SessionStep(s) \/ Cancel(s), NEW t \in Sessions
        PROVE  Announced(t)'
    <3>1. CASE t = s
      BY <2>0, <2>1, <3>1, QuietAnnounced, SendAnnounced
         DEF SessionStep, Sends, QuietCallerStep, TeeStep, QuietBridgeStep
    <3>2. CASE t # s
      <4>1. LocalsKept(t)
        BY <2>0, <2>1, <3>2, FrameLocals
      <4>2. Sent(t)' = Sent(t)
        <5>1. CASE UNCHANGED chVars
          BY <5>1, SentWhenQuiet DEF chVars
        <5>2. CASE \E m \in Msgs : m.job = s /\ Send(m)
          BY <2>0, <3>2, <5>2, SendSent
        <5> QED BY <2>0, <2>1, <5>1, <5>2, StepTalks
      <4> QED BY <2>0, <4>1, <4>2, KeptAnnounced
    <3> QED BY <3>1, <3>2
  <2>2. ASSUME DisplayStep \/ UNCHANGED vars, NEW t \in Sessions
        PROVE  Announced(t)'
    <3>1. LocalsKept(t)
      BY <2>2 DEF DisplayStep, Consume, Shutdown, ShutdownReturns, vars, sessionVars, solverVars,
                  teeVars, bridgeVars, LocalsKept
    <3>2. Sent(t)' = Sent(t)
      BY <2>0, <2>2, ConsumeSent, SentWhenQuiet DEF DisplayStep, Shutdown, ShutdownReturns, vars
    <3> QED BY <2>0, <3>1, <3>2, KeptAnnounced
  <2>3. display' = "stopped" => ch' = << >>
    <3>1. ASSUME NEW s \in Sessions, SessionStep(s) \/ Cancel(s), display = "stopped"
          PROVE  UNCHANGED <<ch, display>>
      <4>1. caller[s] = "returned" /\ bridge[s] = "exited"
        BY <2>0, <3>1 DEF Channel, AllBack, Goroutines, Domains
      <4>2. ~Sends(s)
        BY <4>1 DEF Sends, OpenSession, ReportTimeout, NoteAllowedFailure, BridgeSends, BridgeFinishes
      <4> QED BY <3>1, <4>2 DEF SessionStep, Sends, SolveReturns, Wait, CloseSrc, Cancel,
           TeeReceives, TeeLeaves, TeeDrains, TeeFlushes, BridgeReceives, BridgeCancelled,
           BridgeDrains, BridgeLeaves, chVars
    <3>2. ASSUME NEW s \in Sessions, SessionStep(s) \/ Cancel(s)
          PROVE  display' = display
      <4>1. UNCHANGED chVars \/ \E m \in Msgs : Send(m)
        BY <2>0, <3>2, StepTalks
      <4> QED BY <4>1 DEF Send, chVars
    <3>3. CASE DisplayStep \/ UNCHANGED vars
      BY <3>3 DEF DisplayStep, Consume, Shutdown, ShutdownReturns, vars, AnnounceInv
    <3>4. CASE \E s \in Sessions : SessionStep(s) \/ Cancel(s)
      BY <3>1, <3>2, <3>4 DEF AnnounceInv
    <3> QED BY <3>3, <3>4 DEF Next, Terminated
  <2> QED BY <2>1, <2>2, <2>3 DEF Next, Terminated
<1> QED BY <1>1, <1>2, PTL DEF Spec
-----------------------------------------------------------------------------
(* Recursion over a list.                                                    *)

(* Induction, for a set: what has 0 and every successor has all numbers. *)
LEMMA EveryNat ==
  ASSUME NEW S, 0 \in S, \A n \in Nat : n \in S => n + 1 \in S
  PROVE  \A n \in Nat : n \in S
<1> DEFINE Rest == Nat \ S
<1> SUFFICES ASSUME Rest # {} PROVE FALSE OBVIOUS
<1>1. \E q \in Rest : \A p \in Rest : ~ (<<p, q>> \in OpToRel(<, Nat))
  <2>1. Rest \subseteq Nat OBVIOUS
  <2> HIDE DEF Rest
  <2> QED BY <2>1, WFMin, NatLessThanWellFounded
<1>2. \A p, q \in Nat : p < q => <<p, q>> \in OpToRel(<, Nat) BY DEF OpToRel
<1>3. PICK q \in Rest : \A p \in Rest : ~(p < q) BY <1>1, <1>2, Zenon
<1>4. q \in Nat \ {0} /\ q - 1 \in Nat /\ q - 1 < q /\ (q - 1) + 1 = q OBVIOUS
<1>5. q - 1 \in S BY <1>3, <1>4
<1> QED BY <1>4, <1>5

(* The values b, then each the step F from the one before it. *)
Table(V, b, F, n, g) ==
  g \in [0..n -> V] /\ g[0] = b /\ \A i \in 1..n : g[i] = F[<<i, g[i - 1]>>]

StaysIn(N, V, F) == \A i \in 1..N : \A v \in V : F[<<i, v>>] \in V

LEMMA TableExists ==
  ASSUME NEW N \in Nat, NEW V, NEW b \in V, NEW F, StaysIn(N, V, F)
  PROVE  \E g : Table(V, b, F, N, g)
<1> DEFINE S == {n \in Nat : n <= N => \E g : Table(V, b, F, n, g)}
<1>1. 0 \in S
  <2>1. Table(V, b, F, 0, [i \in 0..0 |-> b]) BY DEF Table
  <2> QED BY <2>1
<1>2. ASSUME NEW n \in Nat, n \in S PROVE n + 1 \in S
  <2> SUFFICES ASSUME n + 1 <= N PROVE \E g : Table(V, b, F, n + 1, g) OBVIOUS
  <2>1. PICK g : Table(V, b, F, n, g) BY <1>2
  <2> DEFINE v == F[<<n + 1, g[n]>>]
             h == [i \in 0..(n + 1) |-> IF i = n + 1 THEN v ELSE g[i]]
  <2>2. g \in [0..n -> V] /\ g[0] = b /\ \A i \in 1..n : g[i] = F[<<i, g[i - 1]>>]
    BY <2>1 DEF Table
  <2>3. n \in 0..n /\ g[n] \in V /\ n + 1 \in 1..N BY <2>2
  <2>4. v \in V BY <2>3 DEF StaysIn
  <2> HIDE DEF v
  <2>5. \A i \in 0..n : i \in 0..(n + 1) /\ g[i] \in V /\ h[i] = g[i] BY <2>2
  <2>6. h \in [0..(n + 1) -> V] /\ h[0] = b /\ h[n + 1] = v
    <3>1. \A i \in 0..(n + 1) : i = n + 1 \/ i \in 0..n OBVIOUS
    <3> QED BY <2>2, <2>4, <2>5, <3>1
  <2> HIDE DEF h
  <2>7. ASSUME NEW i \in 1..(n + 1) PROVE h[i] = F[<<i, h[i - 1]>>]
    <3>1. i - 1 \in 0..n OBVIOUS
    <3>2. CASE i = n + 1
      <4>1. i - 1 = n BY <3>2
      <4> QED BY <2>5, <2>6, <3>1, <3>2, <4>1 DEF v
    <3>3. CASE i \in 1..n
      <4>1. i \in 0..n BY <3>3
      <4> QED BY <2>2, <2>5, <3>1, <3>3, <4>1
    <3> QED BY <3>2, <3>3
  <2>8. Table(V, b, F, n + 1, h) BY <2>6, <2>7 DEF Table
  <2> QED BY <2>8
<1> HIDE DEF S
<1>3. N \in S BY <1>1, <1>2, EveryNat
<1> QED BY <1>3 DEF S
-----------------------------------------------------------------------------
(* The states of the displays.                                               *)

StepStatuses == Terminal \cup {"pending", "running"}
StepStates   == [step : STRING, status : StepStatuses, limited : BOOLEAN]
Leniences    == {Lenient[t] : t \in Sessions}
Maps(K, X)   == UNION {[D -> X] : D \in SUBSET K}

JobStates ==
  [vertices : Maps(STRING, StepStates), done : BOOLEAN, timedOut : BOOLEAN,
   stepTimeouts : SUBSET STRING, allowedFailureSet : SUBSET Leniences]

LEMMA MapFacts ==
  ASSUME NEW K, NEW X, NEW f
  PROVE  f \in Maps(K, X) <=>
           f = [x \in DOMAIN f |-> f[x]] /\ DOMAIN f \subseteq K /\ \A x \in DOMAIN f : f[x] \in X
<1>1. f \in Maps(K, X) <=> \E D \in SUBSET K : f \in [D -> X] BY DEF Maps
<1>2. ASSUME NEW D \in SUBSET K, f \in [D -> X]
      PROVE  f = [x \in DOMAIN f |-> f[x]] /\ DOMAIN f \subseteq K /\ \A x \in DOMAIN f : f[x] \in X
  BY <1>2
<1>3. ASSUME f = [x \in DOMAIN f |-> f[x]], DOMAIN f \subseteq K, \A x \in DOMAIN f : f[x] \in X
      PROVE  f \in [DOMAIN f -> X]
  BY <1>3
<1> QED BY <1>1, <1>2, <1>3

LEMMA EmptyMap == ASSUME NEW K, NEW X PROVE << >> \in Maps(K, X) /\ DOMAIN << >> = {}
<1>1. << >> \in [{} -> X] OBVIOUS
<1> QED BY <1>1 DEF Maps

LEMMA PutMap ==
  ASSUME NEW K, NEW X, NEW f \in Maps(K, X), NEW k \in K, NEW v \in X
  PROVE  Put(f, k, v) \in Maps(K, X)
<1> DEFINE g == Put(f, k, v)
<1>1. DOMAIN f \subseteq K /\ \A x \in DOMAIN f : f[x] \in X BY MapFacts
<1>2. DOMAIN g = DOMAIN f \cup {k} /\ g[k] = v /\ \A x \in DOMAIN f : x # k => g[x] = f[x]
  BY DEF Put
<1>3. g = [x \in DOMAIN g |-> g[x]] BY DEF Put
<1> HIDE DEF g
<1>4. DOMAIN g \subseteq K /\ \A x \in DOMAIN g : g[x] \in X BY <1>1, <1>2
<1>5. g \in Maps(K, X) BY <1>3, <1>4, MapFacts
<1> QED BY <1>5 DEF g

-----------------------------------------------------------------------------
(* The TUI: one vertex.                                                      *)

StateOf(js, v) ==
  IF v.digest \in DOMAIN js.vertices THEN js.vertices[v.digest] ELSE newStepState(js, v)

Applied(js, v) ==
  IF StateOf(js, v).status \in Terminal THEN StateOf(js, v)
  ELSE [StateOf(js, v) EXCEPT !.status = NextStatus(js, StateOf(js, v), v)]

LEMMA AppliedType ==
  ASSUME NEW js \in JobStates, NEW v \in Reports
  PROVE  StateOf(js, v) \in StepStates /\ Applied(js, v) \in StepStates
<1>1. js.vertices \in Maps(STRING, StepStates) /\ js.stepTimeouts \in SUBSET STRING BY DEF JobStates
<1>2. v.digest \in STRING /\ v.step \in STRING BY DEF Reports
<1>3. \A d \in DOMAIN js.vertices : js.vertices[d] \in StepStates BY <1>1, MapFacts
<1>4. newStepState(js, v) \in StepStates BY <1>2 DEF newStepState, StepStates, StepStatuses
<1>5. StateOf(js, v) \in StepStates BY <1>3, <1>4 DEF StateOf
<1>6. NextStatus(js, StateOf(js, v), v) \in StepStatuses
  <2>1. StateOf(js, v).status \in StepStatuses BY <1>5 DEF StepStates
  <2> QED BY <2>1 DEF NextStatus, StepStatuses, Terminal
<1>7. Applied(js, v) \in StepStates BY <1>5, <1>6 DEF Applied, StepStates
<1> QED BY <1>5, <1>7

LEMMA ApplyVertexFacts ==
  ASSUME NEW js \in JobStates, NEW v \in Reports
  PROVE  /\ applyVertex(js, v) \in JobStates
         /\ applyVertex(js, v).vertices = Put(js.vertices, v.digest, Applied(js, v))
         /\ applyVertex(js, v).done = js.done /\ applyVertex(js, v).timedOut = js.timedOut
         /\ applyVertex(js, v).stepTimeouts = js.stepTimeouts
         /\ applyVertex(js, v).allowedFailureSet = js.allowedFailureSet
<1> DEFINE w == Put(js.vertices, v.digest, Applied(js, v))
<1>1. applyVertex(js, v) = [js EXCEPT !.vertices = w]
  BY DEF applyVertex, Applied, StateOf
<1>2. w \in Maps(STRING, StepStates)
  <2>1. js.vertices \in Maps(STRING, StepStates) /\ v.digest \in STRING BY DEF JobStates, Reports
  <2> QED BY <2>1, AppliedType, PutMap
<1> HIDE DEF w
<1>3. [js EXCEPT !.vertices = w] \in JobStates /\ [js EXCEPT !.vertices = w].vertices = w
      /\ [js EXCEPT !.vertices = w].done = js.done
      /\ [js EXCEPT !.vertices = w].timedOut = js.timedOut
      /\ [js EXCEPT !.vertices = w].stepTimeouts = js.stepTimeouts
      /\ [js EXCEPT !.vertices = w].allowedFailureSet = js.allowedFailureSet
  BY <1>2 DEF JobStates
<1> QED BY <1>1, <1>3 DEF w
-----------------------------------------------------------------------------
(* The TUI: the picture that the reports at positions P give.                *)

Drawn(s, js, P) ==
  /\ DOMAIN js.vertices = Digests(s, P)
  /\ \A d \in DOMAIN js.vertices : \E p \in P :
       /\ Decides(s, d, p, P)
       /\ js.vertices[d].step = ReportAt(s, p).step
       /\ js.vertices[d].limited = TRUE <=> d \in StepTimeouts[s]
       /\ js.vertices[d].status = Deserved(s, ReportAt(s, p), js.allowedFailureSet)

AllPositions(s) == Positions(s, DOMAIN Statuses[s])

LEMMA PositionFacts ==
  ASSUME NEW s \in Sessions
  PROVE  /\ \A p \in AllPositions(s) :
              /\ p[1] \in Nat /\ p[2] \in Nat /\ ReportAt(s, p) \in Reports
              /\ p = <<p[1], p[2]>> /\ p[1] \in DOMAIN Statuses[s] /\ p[2] \in DOMAIN Statuses[s][p[1]]
         /\ \A p, q \in AllPositions(s) :
              ReportAt(s, p).digest = ReportAt(s, q).digest => ReportAt(s, p).step = ReportAt(s, q).step
<1>1. ASSUME NEW p \in AllPositions(s)
      PROVE  /\ p[1] \in Nat /\ p[2] \in Nat /\ ReportAt(s, p) \in Reports
             /\ p = <<p[1], p[2]>> /\ p[1] \in DOMAIN Statuses[s] /\ p[2] \in DOMAIN Statuses[s][p[1]]
  <2>0. PICK n \in DOMAIN Statuses[s] : \E i \in DOMAIN Statuses[s][n] : p = <<n, i>>
    BY <1>1 DEF AllPositions, Positions
  <2>1. PICK i \in DOMAIN Statuses[s][n] : p = <<n, i>>
    BY <2>0
  <2>2. Statuses[s] \in Seq(Seq(Reports)) BY SessionAssumption
  <2>3. n \in Nat /\ Statuses[s][n] \in Seq(Reports) BY <2>1, <2>2
  <2>4. i \in Nat /\ Statuses[s][n][i] \in Reports BY <2>1, <2>3
  <2>5. p[1] = n /\ p[2] = i BY <2>1
  <2> QED BY <2>1, <2>3, <2>4, <2>5 DEF ReportAt
<1>2. ASSUME NEW p \in AllPositions(s), NEW q \in AllPositions(s),
             ReportAt(s, p).digest = ReportAt(s, q).digest
      PROVE  ReportAt(s, p).step = ReportAt(s, q).step
  <2>1. ReportAt(s, p) \in ReportsIn(s, DOMAIN Statuses[s]) /\ ReportAt(s, q) \in ReportsIn(s, DOMAIN Statuses[s])
    BY DEF ReportsIn, AllPositions
  <2> QED BY <1>2, <2>1, SessionAssumption
<1> QED BY <1>1, <1>2

(* A later report p0 leaves the decision as it is. *)
LEMMA DecidesKept ==
  ASSUME NEW s, NEW d, NEW p, NEW P, NEW p0, Decides(s, d, p, P), ~Before(p0, p),
         \/ ReportAt(s, p0).digest # d
         \/ Ended(ReportAt(s, p))
         \/ ~Ended(ReportAt(s, p0)) /\ (ReportAt(s, p0).started => ReportAt(s, p).started)
  PROVE  Decides(s, d, p, P \cup {p0})
BY DEF Decides

(* Or it decides, being the first to say that the vertex is over, or that it  *)
(* has started.                                                               *)
LEMMA DecidesNew ==
  ASSUME NEW s, NEW d, NEW p, NEW P, NEW p0, Decides(s, d, p, P), ~Before(p0, p0),
         ~Ended(ReportAt(s, p)), ReportAt(s, p0).digest = d,
         Ended(ReportAt(s, p0)) \/ ReportAt(s, p0).started
  PROVE  Decides(s, d, p0, P \cup {p0})
BY DEF Decides

LEMMA DecidesFirst ==
  ASSUME NEW s, NEW d, NEW P, NEW p0, ~Before(p0, p0), ReportAt(s, p0).digest = d,
         \A q \in P : ReportAt(s, q).digest # d
  PROVE  Decides(s, d, p0, P \cup {p0})
BY DEF Decides

(* What a status says about the end of a vertex. *)
LEMMA DeservedFacts ==
  ASSUME NEW s, NEW v, NEW A
  PROVE  /\ Ended(v) => Deserved(s, v, A) \in Terminal
         /\ ~Ended(v) => Deserved(s, v, A) = IF v.started THEN "running" ELSE "pending"
         /\ ~Ended(v) => Deserved(s, v, A) \notin Terminal
BY DEF Ended, Deserved, Terminal

(* The switch of applyVertex, for a vertex that is not over. *)
LEMMA NextStatusFacts ==
  ASSUME NEW s, NEW js, NEW st, NEW v, st.step = v.step,
         st.limited = TRUE <=> v.digest \in StepTimeouts[s]
  PROVE  NextStatus(js, st, v) =
           IF Ended(v) \/ v.started THEN Deserved(s, v, js.allowedFailureSet) ELSE st.status
<1>1. CASE st.limited = TRUE
  BY <1>1 DEF NextStatus, Ended, Deserved, isAllowedFailure, IsTimeoutExitCode
<1>2. CASE st.limited # TRUE
  BY <1>2 DEF NextStatus, Ended, Deserved, isAllowedFailure, IsTimeoutExitCode
<1> QED BY <1>1, <1>2

LEMMA DrawVertex ==
  ASSUME NEW s \in Sessions, NEW js \in JobStates, js.stepTimeouts = StepTimeouts[s],
         NEW P \in SUBSET AllPositions(s), NEW p0 \in AllPositions(s),
         \A q \in P : ~Before(p0, q), Drawn(s, js, P)
  PROVE  Drawn(s, applyVertex(js, ReportAt(s, p0)), P \cup {p0})
<1> DEFINE v == ReportAt(s, p0)
           d0 == v.digest
           r == applyVertex(js, v)
           Q == P \cup {p0}
           A == js.allowedFailureSet
<1>1. v \in Reports /\ ~Before(p0, p0) BY PositionFacts DEF Before
<1>2. /\ r.vertices = Put(js.vertices, d0, Applied(js, v)) /\ r.allowedFailureSet = A
  BY <1>1, ApplyVertexFacts
<1>3. /\ DOMAIN r.vertices = DOMAIN js.vertices \cup {d0} /\ r.vertices[d0] = Applied(js, v)
      /\ \A d \in DOMAIN js.vertices : d # d0 => r.vertices[d] = js.vertices[d]
  BY <1>2 DEF Put
<1> HIDE DEF r
<1>4. DOMAIN r.vertices = Digests(s, Q) BY <1>3 DEF Drawn, Digests
<1>5. ASSUME NEW d \in DOMAIN js.vertices, d # d0
      PROVE  \E p \in Q :
               /\ Decides(s, d, p, Q)
               /\ r.vertices[d].step = ReportAt(s, p).step
               /\ r.vertices[d].limited = TRUE <=> d \in StepTimeouts[s]
               /\ r.vertices[d].status = Deserved(s, ReportAt(s, p), A)
  <2>1. PICK p \in P : /\ Decides(s, d, p, P)
                       /\ js.vertices[d].step = ReportAt(s, p).step
                       /\ js.vertices[d].limited = TRUE <=> d \in StepTimeouts[s]
                       /\ js.vertices[d].status = Deserved(s, ReportAt(s, p), A)
    BY DEF Drawn
  <2>2. Decides(s, d, p, Q) BY <1>5, <2>1, DecidesKept
  <2> QED BY <1>3, <1>5, <2>1, <2>2
<1>6. \E p \in Q :
        /\ Decides(s, d0, p, Q)
        /\ r.vertices[d0].step = ReportAt(s, p).step
        /\ r.vertices[d0].limited = TRUE <=> d0 \in StepTimeouts[s]
        /\ r.vertices[d0].status = Deserved(s, ReportAt(s, p), A)
  <2> DEFINE st == StateOf(js, v)
  <2>0. st \in StepStates BY <1>1, AppliedType
  <2>1. ASSUME st.step = v.step, st.limited = TRUE <=> d0 \in StepTimeouts[s], st.status \notin Terminal
        PROVE  /\ Applied(js, v).step = v.step
               /\ Applied(js, v).limited = TRUE <=> d0 \in StepTimeouts[s]
               /\ Applied(js, v).status = IF Ended(v) \/ v.started THEN Deserved(s, v, A) ELSE st.status
    <3> DEFINE next == NextStatus(js, st, v)
    <3>1. next = IF Ended(v) \/ v.started THEN Deserved(s, v, A) ELSE st.status
      BY <2>1, NextStatusFacts
    <3>2. Applied(js, v) = [st EXCEPT !.status = next] BY <2>1 DEF Applied
    <3> HIDE DEF next, st
    <3>3. /\ [st EXCEPT !.status = next].step = st.step
          /\ [st EXCEPT !.status = next].limited = st.limited
          /\ [st EXCEPT !.status = next].status = next
      BY <2>0 DEF StepStates
    <3> QED BY <2>1, <3>1, <3>2, <3>3
  <2>2. CASE d0 \notin DOMAIN js.vertices
    <3>1. st = newStepState(js, v) BY <2>2 DEF StateOf
    <3>2. /\ st.step = v.step /\ st.status = "pending" /\ st.status \notin Terminal
          /\ st.limited = TRUE <=> d0 \in StepTimeouts[s]
      <4>1. newStepState(js, v).limited = (d0 \in StepTimeouts[s]) BY DEF newStepState
      <4>2. newStepState(js, v).limited = TRUE <=> d0 \in StepTimeouts[s] BY <4>1
      <4>3. newStepState(js, v).step = v.step /\ newStepState(js, v).status = "pending"
        BY DEF newStepState
      <4> QED BY <3>1, <4>2, <4>3 DEF Terminal
    <3>3. \A q \in P : ReportAt(s, q).digest # d0 BY <2>2 DEF Drawn, Digests
    <3>4. Decides(s, d0, p0, Q) BY <1>1, <3>3, DecidesFirst
    <3>5. Applied(js, v).status = Deserved(s, v, A) BY <2>1, <3>2, DeservedFacts
    <3> QED BY <1>3, <2>1, <3>2, <3>4, <3>5
  <2>3. CASE d0 \in DOMAIN js.vertices
    <3>0. st = js.vertices[d0] BY <2>3 DEF StateOf
    <3>1. PICK p \in P : /\ Decides(s, d0, p, P)
                         /\ st.step = ReportAt(s, p).step
                         /\ st.limited = TRUE <=> d0 \in StepTimeouts[s]
                         /\ st.status = Deserved(s, ReportAt(s, p), A)
      BY <2>3, <3>0 DEF Drawn
    <3>2. ReportAt(s, p).digest = d0 /\ ReportAt(s, p).step = v.step
      <4>1. ReportAt(s, p).digest = d0 BY <3>1 DEF Decides
      <4> QED BY <4>1, PositionFacts
    <3>3. CASE Ended(ReportAt(s, p))
      <4>1. Applied(js, v) = st BY <3>1, <3>3, DeservedFacts DEF Applied
      <4>2. Decides(s, d0, p, Q) BY <3>1, <3>3, DecidesKept
      <4> QED BY <1>3, <3>1, <4>1, <4>2
    <3>4. CASE ~Ended(ReportAt(s, p)) /\ (Ended(v) \/ v.started)
      <4>1. st.status \notin Terminal BY <3>1, <3>4, DeservedFacts
      <4>2. Decides(s, d0, p0, Q) BY <1>1, <3>1, <3>4, DecidesNew
      <4> QED BY <1>3, <2>1, <3>1, <3>2, <3>4, <4>1, <4>2
    <3>5. CASE ~Ended(ReportAt(s, p)) /\ ~(Ended(v) \/ v.started)
      <4>1. st.status \notin Terminal BY <3>1, <3>5, DeservedFacts
      <4>2. Decides(s, d0, p, Q) BY <3>1, <3>5, DecidesKept
      <4> QED BY <1>3, <2>1, <3>1, <3>2, <3>5, <4>1, <4>2
    <3> QED BY <3>3, <3>4, <3>5
  <2> QED BY <2>2, <2>3
<1> HIDE DEF v, Q, A, d0
<1>7. Drawn(s, r, Q) BY <1>2, <1>3, <1>4, <1>5, <1>6 DEF Drawn
<1> QED BY <1>7 DEF r, v, Q

LEMMA ApplyStatusFacts ==
  ASSUME NEW js \in JobStates, NEW vs \in Seq(Reports)
  PROVE  \E u \in [0..Len(vs) -> JobStates] :
           /\ u[0] = js /\ applyStatus(js, vs) = u[Len(vs)]
           /\ \A i \in 1..Len(vs) : u[i] = applyVertex(u[i - 1], vs[i])
<1> DEFINE N == Len(vs)
           F == [p \in (1..N) \X JobStates |-> applyVertex(p[2], vs[p[1]])]
           upto[i \in 0..N] == IF i = 0 THEN js ELSE applyVertex(upto[i - 1], vs[i])
<1>1. N \in Nat /\ \A i \in 1..N : vs[i] \in Reports OBVIOUS
<1>2. ASSUME NEW i \in 1..N, NEW x \in JobStates
      PROVE  F[<<i, x>>] = applyVertex(x, vs[i]) /\ F[<<i, x>>] \in JobStates
  <2>1. F[<<i, x>>] = applyVertex(x, vs[i]) OBVIOUS
  <2> QED BY <1>1, <2>1, ApplyVertexFacts
<1>3. PICK g : Table(JobStates, js, F, N, g)
  <2>1. StaysIn(N, JobStates, F) BY <1>2 DEF StaysIn
  <2> HIDE DEF F, N
  <2> QED BY <1>1, <2>1, TableExists
<1>4. /\ g \in [0..N -> JobStates] /\ g[0] = js
      /\ \A i \in 1..N : g[i] = F[<<i, g[i - 1]>>]
  BY <1>3 DEF Table
<1>5. \A i \in 1..N : i - 1 \in 0..N /\ g[i - 1] \in JobStates
  BY <1>1, <1>4
<1>6. \A i \in 1..N : g[i] = applyVertex(g[i - 1], vs[i])
  BY <1>2, <1>4, <1>5
<1> HIDE DEF F
<1>7. g = [i \in 0..N |-> IF i = 0 THEN js ELSE applyVertex(g[i - 1], vs[i])]
  <2>1. \A i \in 0..N : g[i] = IF i = 0 THEN js ELSE applyVertex(g[i - 1], vs[i])
    <3>1. \A i \in 0..N : i = 0 \/ i \in 1..N BY <1>1
    <3> QED BY <1>4, <1>6, <3>1
  <2>2. g = [i \in 0..N |-> g[i]] BY <1>4
  <2> QED BY <2>1, <2>2
<1>8. upto = [i \in 0..N |-> IF i = 0 THEN js ELSE applyVertex(upto[i - 1], vs[i])]
  BY <1>7 DEF upto
<1>9. applyStatus(js, vs) = upto[N] BY DEF applyStatus
<1> HIDE DEF upto, N
<1>10. upto[0] = js /\ \A i \in 1..N : upto[i] = applyVertex(upto[i - 1], vs[i])
  <2>1. 0 \in 0..N /\ \A i \in 1..N : i \in 0..N /\ i # 0 BY <1>1
  <2> QED BY <1>8, <2>1
<1> DEFINE S == {i \in Nat : i <= N => upto[i] \in JobStates}
<1>11. \A i \in Nat : i \in S
  <2>1. 0 \in S BY <1>10
  <2>2. ASSUME NEW i \in Nat, i \in S PROVE i + 1 \in S
    <3> SUFFICES ASSUME i + 1 <= N PROVE upto[i + 1] \in JobStates OBVIOUS
    <3>1. i + 1 \in 1..N /\ (i + 1) - 1 = i /\ i <= N BY <1>1
    <3>2. upto[i] \in JobStates BY <2>2, <3>1
    <3>3. upto[i + 1] = applyVertex(upto[i], vs[i + 1]) BY <1>10, <3>1
    <3> QED BY <1>1, <3>1, <3>2, <3>3, ApplyVertexFacts
  <2> HIDE DEF S
  <2> QED BY <2>1, <2>2, EveryNat
<1>12. upto \in [0..N -> JobStates]
  <2>1. \A i \in 0..N : i \in Nat /\ i <= N BY <1>1
  <2>2. upto = [i \in 0..N |-> upto[i]] BY <1>8
  <2> QED BY <1>11, <2>1, <2>2
<1> QED BY <1>9, <1>10, <1>12 DEF N

LEMMA DrawStatus ==
  ASSUME NEW s \in Sessions, NEW js \in JobStates, js.stepTimeouts = StepTimeouts[s],
         NEW P \in SUBSET AllPositions(s), NEW n \in DOMAIN Statuses[s],
         \A q \in P : q[1] < n, Drawn(s, js, P),
         NEW r, r = applyStatus(js, Statuses[s][n])
  PROVE  /\ r \in JobStates /\ r.done = js.done /\ r.timedOut = js.timedOut
         /\ r.stepTimeouts = js.stepTimeouts /\ r.allowedFailureSet = js.allowedFailureSet
         /\ Drawn(s, r, P \cup Positions(s, {n}))
<1> DEFINE vs == Statuses[s][n]
           N == Len(vs)
           upTo(i) == P \cup {<<n, k>> : k \in 1..i}
<1>1. vs \in Seq(Reports) /\ n \in Nat
  <2>1. Statuses[s] \in Seq(Seq(Reports)) BY SessionAssumption
  <2> QED BY <2>1
<1>2. N \in Nat /\ DOMAIN vs = 1..N /\ \A i \in 1..N : vs[i] \in Reports BY <1>1
<1>3. PICK u \in [0..N -> JobStates] :
        /\ u[0] = js /\ applyStatus(js, vs) = u[N]
        /\ \A i \in 1..N : u[i] = applyVertex(u[i - 1], vs[i])
  BY <1>1, ApplyStatusFacts
<1> DEFINE right(i) ==
             /\ u[i].done = js.done /\ u[i].timedOut = js.timedOut
             /\ u[i].stepTimeouts = js.stepTimeouts /\ u[i].allowedFailureSet = js.allowedFailureSet
             /\ Drawn(s, u[i], upTo(i))
           S == {i \in Nat : i <= N => right(i)}
<1>4. 0 \in S
  <2>1. upTo(0) = P OBVIOUS
  <2> QED BY <1>3, <2>1
<1>5. ASSUME NEW i \in Nat, i \in S PROVE i + 1 \in S
  <2> SUFFICES ASSUME i + 1 <= N PROVE right(i + 1) OBVIOUS
  <2>1. i + 1 \in 1..N /\ (i + 1) - 1 = i /\ i <= N /\ i \in 0..N BY <1>2
  <2>2. right(i) /\ u[i] \in JobStates BY <1>3, <1>5, <2>1
  <2> DEFINE p0 == <<n, i + 1>>
  <2>3. p0 \in AllPositions(s) /\ ReportAt(s, p0) = vs[i + 1]
    BY <1>2, <2>1 DEF AllPositions, Positions, ReportAt
  <2>4. upTo(i) \in SUBSET AllPositions(s)
    BY <1>2, <2>1 DEF AllPositions, Positions
  <2>5. \A q \in upTo(i) : ~Before(p0, q)
    <3>1. \A q \in P : q[1] \in Nat /\ q[1] < n BY PositionFacts
    <3>2. p0[1] = n /\ p0[2] = i + 1 OBVIOUS
    <3>3. \A q \in P : ~Before(p0, q) BY <1>1, <3>1, <3>2 DEF Before
    <3>4. ASSUME NEW k \in 1..i PROVE ~Before(p0, <<n, k>>) BY <1>1, <3>2 DEF Before
    <3> QED BY <3>3, <3>4
  <2>6. upTo(i + 1) = upTo(i) \cup {p0}
    <3>1. \A k : k \in 1..(i + 1) <=> k \in 1..i \/ k = i + 1 OBVIOUS
    <3> QED BY <3>1
  <2>7. u[i + 1] = applyVertex(u[i], vs[i + 1]) /\ vs[i + 1] \in Reports BY <1>2, <1>3, <2>1
  <2>8. u[i].stepTimeouts = StepTimeouts[s] /\ Drawn(s, u[i], upTo(i)) BY <2>2
  <2> HIDE DEF p0, upTo
  <2>9. Drawn(s, applyVertex(u[i], vs[i + 1]), upTo(i) \cup {p0})
    BY <2>2, <2>3, <2>4, <2>5, <2>8, DrawVertex
  <2>10. /\ u[i + 1].done = u[i].done /\ u[i + 1].timedOut = u[i].timedOut
         /\ u[i + 1].stepTimeouts = u[i].stepTimeouts
         /\ u[i + 1].allowedFailureSet = u[i].allowedFailureSet
    BY <2>2, <2>7, ApplyVertexFacts
  <2>11. Drawn(s, u[i + 1], upTo(i + 1)) BY <2>6, <2>7, <2>9
  <2> QED BY <2>2, <2>10, <2>11
<1>6. N \in S
  <2> HIDE DEF S
  <2> QED BY <1>2, <1>4, <1>5, EveryNat
<1>7. right(N) /\ u[N] = r /\ r \in JobStates
  <2>1. N \in 0..N /\ N <= N BY <1>2
  <2>2. right(N) BY <1>6, <2>1
  <2>3. u[N] = r BY <1>3
  <2>4. u[N] \in JobStates BY <1>3, <2>1
  <2> QED BY <2>2, <2>3, <2>4
<1>8. upTo(N) = P \cup Positions(s, {n})
  BY <1>2 DEF Positions
<1> HIDE DEF upTo
<1> QED BY <1>7, <1>8
-----------------------------------------------------------------------------
(* The TUI: one message.                                                     *)

LEMMA AddFacts ==
  ASSUME NEW js \in JobStates, NEW T \in SUBSET STRING, NEW r, r = addJob(js, T)
  PROVE  /\ r \in JobStates /\ r.stepTimeouts = T /\ r.vertices = js.vertices
         /\ r.done = js.done /\ r.timedOut = js.timedOut
         /\ r.allowedFailureSet = js.allowedFailureSet
BY DEF addJob, JobStates

LEMMA NewJobFacts ==
  /\ newJobState \in JobStates /\ DOMAIN newJobState.vertices = {}
  /\ newJobState.done = FALSE /\ newJobState.timedOut = FALSE
  /\ newJobState.allowedFailureSet = {}
<1>1. << >> \in Maps(STRING, StepStates) /\ DOMAIN << >> = {} BY EmptyMap
<1> QED BY <1>1 DEF newJobState, JobStates

(* What Recolour does to the vertices. *)
LEMMA RecolouredMap ==
  ASSUME NEW f \in Maps(STRING, StepStates), NEW B, NEW status \in StepStatuses, NEW g,
         g = [d \in DOMAIN f |-> IF d \in B THEN [f[d] EXCEPT !.status = status] ELSE f[d]]
  PROVE  /\ g \in Maps(STRING, StepStates) /\ DOMAIN g = DOMAIN f
         /\ \A d \in DOMAIN f :
              /\ g[d].step = f[d].step /\ g[d].limited = f[d].limited
              /\ g[d].status = IF d \in B THEN status ELSE f[d].status
<1>1. DOMAIN f \subseteq STRING /\ \A d \in DOMAIN f : f[d] \in StepStates BY MapFacts
<1>2. DOMAIN g = DOMAIN f /\ g = [d \in DOMAIN g |-> g[d]] OBVIOUS
<1>3. ASSUME NEW d \in DOMAIN f
      PROVE  /\ g[d] \in StepStates /\ g[d].step = f[d].step /\ g[d].limited = f[d].limited
             /\ g[d].status = IF d \in B THEN status ELSE f[d].status
  <2>1. f[d] \in StepStates BY <1>1
  <2>2. /\ [f[d] EXCEPT !.status = status] \in StepStates
        /\ [f[d] EXCEPT !.status = status].step = f[d].step
        /\ [f[d] EXCEPT !.status = status].limited = f[d].limited
        /\ [f[d] EXCEPT !.status = status].status = status
    BY <2>1 DEF StepStates
  <2> QED BY <2>1, <2>2
<1>4. g \in Maps(STRING, StepStates) BY <1>1, <1>2, <1>3, MapFacts
<1> QED BY <1>2, <1>3, <1>4

LEMMA AllowFacts ==
  ASSUME NEW js \in JobStates, NEW step \in Leniences, NEW r, r = allowFailure(js, step)
  PROVE  /\ r \in JobStates /\ r.done = js.done /\ r.timedOut = js.timedOut
         /\ r.stepTimeouts = js.stepTimeouts
         /\ r.allowedFailureSet = js.allowedFailureSet \cup {step}
         /\ DOMAIN r.vertices = DOMAIN js.vertices
         /\ \A d \in DOMAIN js.vertices :
              /\ r.vertices[d].step = js.vertices[d].step
              /\ r.vertices[d].limited = js.vertices[d].limited
              /\ r.vertices[d].status =
                   IF js.vertices[d].status \in {"error", "timeout"} /\ js.vertices[d].step = step
                   THEN "allowedFailure" ELSE js.vertices[d].status
<1> DEFINE f == js.vertices
           B == {d \in DOMAIN f : f[d].status \in {"error", "timeout"} /\ f[d].step = step}
           g == [d \in DOMAIN f |-> IF d \in B THEN [f[d] EXCEPT !.status = "allowedFailure"] ELSE f[d]]
           k == [js EXCEPT !.allowedFailureSet = @ \cup {step}]
<1>1. f \in Maps(STRING, StepStates) BY DEF JobStates
<1>2. "allowedFailure" \in StepStatuses BY DEF StepStatuses, Terminal
<1>3. /\ g \in Maps(STRING, StepStates) /\ DOMAIN g = DOMAIN f
      /\ \A d \in DOMAIN f :
           /\ g[d].step = f[d].step /\ g[d].limited = f[d].limited
           /\ g[d].status = IF d \in B THEN "allowedFailure" ELSE f[d].status
  <2> HIDE DEF f, B
  <2> QED BY <1>1, <1>2, RecolouredMap
<1>4. /\ k \in JobStates /\ k.vertices = f /\ k.done = js.done /\ k.timedOut = js.timedOut
      /\ k.stepTimeouts = js.stepTimeouts /\ k.allowedFailureSet = js.allowedFailureSet \cup {step}
  BY DEF JobStates
<1>5. r = [k EXCEPT !.vertices = [d \in DOMAIN k.vertices |->
             IF k.vertices[d].status \in {"error", "timeout"} /\ k.vertices[d].step = step
             THEN [k.vertices[d] EXCEPT !.status = "allowedFailure"] ELSE k.vertices[d]]]
  BY DEF allowFailure, Recolour
<1>6. r = [k EXCEPT !.vertices = g]
  <2> HIDE DEF k
  <2>1. [d \in DOMAIN k.vertices |->
             IF k.vertices[d].status \in {"error", "timeout"} /\ k.vertices[d].step = step
             THEN [k.vertices[d] EXCEPT !.status = "allowedFailure"] ELSE k.vertices[d]] = g
    BY <1>4
  <2> HIDE DEF g
  <2> QED BY <1>5, <2>1
<1> HIDE DEF g, k
<1>7. /\ r \in JobStates /\ r.vertices = g /\ r.done = k.done /\ r.timedOut = k.timedOut
      /\ r.stepTimeouts = k.stepTimeouts /\ r.allowedFailureSet = k.allowedFailureSet
  BY <1>3, <1>4, <1>6 DEF JobStates
<1> QED BY <1>3, <1>4, <1>7

LEMMA TimeOutFacts ==
  ASSUME NEW js \in JobStates, NEW r, r = timeOut(js)
  PROVE  /\ r \in JobStates /\ r.done = js.done /\ r.timedOut = TRUE
         /\ r.stepTimeouts = js.stepTimeouts /\ r.allowedFailureSet = js.allowedFailureSet
         /\ DOMAIN r.vertices = DOMAIN js.vertices
         /\ \A d \in DOMAIN js.vertices : r.vertices[d].status # "running"
<1> DEFINE f == js.vertices
           B == {d \in DOMAIN f : f[d].status = "running"}
           g == [d \in DOMAIN f |-> IF d \in B THEN [f[d] EXCEPT !.status = "timeout"] ELSE f[d]]
           k == [js EXCEPT !.timedOut = TRUE]
<1>1. f \in Maps(STRING, StepStates) BY DEF JobStates
<1>2. "timeout" \in StepStatuses BY DEF StepStatuses, Terminal
<1>3. /\ g \in Maps(STRING, StepStates) /\ DOMAIN g = DOMAIN f
      /\ \A d \in DOMAIN f : g[d].status = IF d \in B THEN "timeout" ELSE f[d].status
  <2> HIDE DEF f, B
  <2> QED BY <1>1, <1>2, RecolouredMap
<1>4. /\ k \in JobStates /\ k.vertices = f /\ k.done = js.done /\ k.timedOut = TRUE
      /\ k.stepTimeouts = js.stepTimeouts /\ k.allowedFailureSet = js.allowedFailureSet
  BY DEF JobStates
<1>5. r = [k EXCEPT !.vertices = [d \in DOMAIN k.vertices |->
             IF k.vertices[d].status = "running"
             THEN [k.vertices[d] EXCEPT !.status = "timeout"] ELSE k.vertices[d]]]
  BY DEF timeOut, Recolour
<1>6. r = [k EXCEPT !.vertices = g]
  <2> HIDE DEF k
  <2>1. [d \in DOMAIN k.vertices |->
             IF k.vertices[d].status = "running"
             THEN [k.vertices[d] EXCEPT !.status = "timeout"] ELSE k.vertices[d]] = g
    BY <1>4
  <2> HIDE DEF g
  <2> QED BY <1>5, <2>1
<1>7. \A d \in DOMAIN f : g[d].status # "running" BY <1>3
<1> HIDE DEF g, k
<1>8. /\ r \in JobStates /\ r.vertices = g /\ r.done = k.done /\ r.timedOut = k.timedOut
      /\ r.stepTimeouts = k.stepTimeouts /\ r.allowedFailureSet = k.allowedFailureSet
  BY <1>3, <1>4, <1>6 DEF JobStates
<1> QED BY <1>3, <1>4, <1>7, <1>8

(* Whether a failure is announced as allowed before or after it is reported   *)
(* makes no difference.                                                       *)
LEMMA DrawAllowed ==
  ASSUME NEW s, NEW js \in JobStates, NEW P, Drawn(s, js, P), NEW step \in Leniences,
         NEW r, r = allowFailure(js, step)
  PROVE  Drawn(s, r, P)
<1> DEFINE A == js.allowedFailureSet
<1>1. /\ r.allowedFailureSet = A \cup {step} /\ DOMAIN r.vertices = DOMAIN js.vertices
      /\ \A d \in DOMAIN js.vertices :
              /\ r.vertices[d].step = js.vertices[d].step
              /\ r.vertices[d].limited = js.vertices[d].limited
              /\ r.vertices[d].status =
                   IF js.vertices[d].status \in {"error", "timeout"} /\ js.vertices[d].step = step
                   THEN "allowedFailure" ELSE js.vertices[d].status
  BY AllowFacts
<1>2. ASSUME NEW d \in DOMAIN js.vertices
      PROVE  \E p \in P :
               /\ Decides(s, d, p, P)
               /\ r.vertices[d].step = ReportAt(s, p).step
               /\ r.vertices[d].limited = TRUE <=> d \in StepTimeouts[s]
               /\ r.vertices[d].status = Deserved(s, ReportAt(s, p), A \cup {step})
  <2>1. PICK p \in P : /\ Decides(s, d, p, P)
                       /\ js.vertices[d].step = ReportAt(s, p).step
                       /\ js.vertices[d].limited = TRUE <=> d \in StepTimeouts[s]
                       /\ js.vertices[d].status = Deserved(s, ReportAt(s, p), A)
    BY DEF Drawn
  <2> DEFINE v == ReportAt(s, p)
  <2>2. Deserved(s, v, A \cup {step}) =
          IF Deserved(s, v, A) \in {"error", "timeout"} /\ v.step = step
          THEN "allowedFailure" ELSE Deserved(s, v, A)
    <3> HIDE DEF v, A
    <3> QED BY DEF Deserved
  <2> QED BY <1>1, <2>1, <2>2
<1>3. DOMAIN r.vertices = Digests(s, P) BY <1>1 DEF Drawn
<1>4. \A d \in DOMAIN r.vertices : \E p \in P :
       /\ Decides(s, d, p, P)
       /\ r.vertices[d].step = ReportAt(s, p).step
       /\ r.vertices[d].limited = TRUE <=> d \in StepTimeouts[s]
       /\ r.vertices[d].status = Deserved(s, ReportAt(s, p), r.allowedFailureSet)
  <2>1. r.allowedFailureSet = A \cup {step} BY <1>1
  <2>2. DOMAIN r.vertices = DOMAIN js.vertices BY <1>1
  <2> HIDE DEF A
  <2> QED BY ONLY <1>2, <2>1, <2>2
<1> QED BY ONLY <1>3, <1>4 DEF Drawn
-----------------------------------------------------------------------------
(* The TUI: a whole session.                                                 *)

Change(f, x, v) == [f EXCEPT ![x] = v]
Finish(js) == [js EXCEPT !.done = TRUE]

LEMMA UpdateFacts ==
  ASSUME NEW jobs, NEW m, NEW s, m.job = s
  PROVE  /\ m.kind = "added" =>
              Update(jobs, m) = Put(jobs, s, addJob(getOrCreateJob(jobs, s), StepTimeouts[s]))
         /\ m.kind = "timeout" => Update(jobs, m) = Put(jobs, s, timeOut(getOrCreateJob(jobs, s)))
         /\ m.kind \notin {"added", "timeout"} /\ s \notin DOMAIN jobs => Update(jobs, m) = jobs
         /\ m.kind = "status" /\ s \in DOMAIN jobs =>
              Update(jobs, m) = Change(jobs, s, applyStatus(jobs[s], Statuses[s][m.n]))
         /\ m.kind = "allowed" /\ s \in DOMAIN jobs =>
              Update(jobs, m) = Change(jobs, s, allowFailure(jobs[s], Lenient[s]))
         /\ m.kind = "done" /\ s \in DOMAIN jobs =>
              Update(jobs, m) = Change(jobs, s, Finish(jobs[s]))
<1>1. ASSUME m.kind = "added"
      PROVE  Update(jobs, m) = Put(jobs, s, addJob(getOrCreateJob(jobs, s), StepTimeouts[s]))
  BY <1>1, Zenon DEF Update
<1>2. ASSUME m.kind = "timeout"
      PROVE  Update(jobs, m) = Put(jobs, s, timeOut(getOrCreateJob(jobs, s)))
  BY <1>2, Zenon DEF Update
<1>3. ASSUME m.kind \notin {"added", "timeout"}, s \notin DOMAIN jobs
      PROVE  Update(jobs, m) = jobs
  BY <1>3, Zenon DEF Update
<1>4. ASSUME s \in DOMAIN jobs PROVE getOrCreateJob(jobs, s) = jobs[s]
  BY <1>4 DEF getOrCreateJob
<1>5. ASSUME m.kind = "status", s \in DOMAIN jobs
      PROVE  Update(jobs, m) = Change(jobs, s, applyStatus(jobs[s], Statuses[s][m.n]))
  BY <1>4, <1>5, Zenon DEF Update, Change
<1>6. ASSUME m.kind = "allowed", s \in DOMAIN jobs
      PROVE  Update(jobs, m) = Change(jobs, s, allowFailure(jobs[s], Lenient[s]))
  BY <1>4, <1>6, Zenon DEF Update, Change
<1>7. ASSUME m.kind = "done", s \in DOMAIN jobs
      PROVE  Update(jobs, m) = Change(jobs, s, Finish(jobs[s]))
  BY <1>4, <1>7, Zenon DEF Update, Change, Finish
<1> QED BY <1>1, <1>2, <1>3, <1>5, <1>6, <1>7

(* The messages of a session as its display consumes them. *)
Orderly(s, q) ==
  /\ q \in Seq(Msgs)
  /\ q # << >> => q[1].kind = "added"
  /\ \A k \in DOMAIN q :
       /\ q[k].job = s
       /\ q[k].kind = "status" => q[k].n \in DOMAIN Statuses[s]
  /\ \A j, k \in DOMAIN q : j < k =>
       /\ q[k].kind # "added" /\ q[j].kind # "timeout"
       /\ q[k].kind = "status" => q[j].kind # "done" /\ q[j].n < q[k].n
       /\ q[k].kind = "done" => q[j].kind # "done"

(* What the first i messages were about. *)
Heard(q, i, kind) == \E k \in 1..i : q[k].kind = kind
Told(q, i) == {q[k].n : k \in {j \in 1..i : q[j].kind = "status"}}

LEMMA HeardFacts ==
  ASSUME NEW q, NEW i \in Nat
  PROVE  /\ \A kind : ~Heard(q, 0, kind)
         /\ Told(q, 0) = {}
         /\ \A kind : Heard(q, i + 1, kind) <=> Heard(q, i, kind) \/ q[i + 1].kind = kind
         /\ q[i + 1].kind = "status" => Told(q, i + 1) = Told(q, i) \cup {q[i + 1].n}
         /\ q[i + 1].kind # "status" => Told(q, i + 1) = Told(q, i)
<1>1. \A k : k \in 1..(i + 1) <=> k \in 1..i \/ k = i + 1 OBVIOUS
<1>2. \A k : k \notin 1..0 OBVIOUS
<1>3. \A kind : ~Heard(q, 0, kind) BY <1>2 DEF Heard
<1>4. Told(q, 0) = {} BY <1>2 DEF Told
<1>5. \A kind : Heard(q, i + 1, kind) <=> Heard(q, i, kind) \/ q[i + 1].kind = kind
  BY <1>1 DEF Heard
<1>6. ASSUME q[i + 1].kind = "status" PROVE Told(q, i + 1) = Told(q, i) \cup {q[i + 1].n}
  BY <1>1, <1>6 DEF Told
<1>7. ASSUME q[i + 1].kind # "status" PROVE Told(q, i + 1) = Told(q, i)
  BY <1>1, <1>7 DEF Told
<1> QED BY <1>3, <1>4, <1>5, <1>6, <1>7

(* The next message, seen from those before it. *)
LEMMA NextMessage ==
  ASSUME NEW s, NEW q, Orderly(s, q), NEW i \in Nat, i + 1 \in DOMAIN q
  PROVE  /\ q[i + 1] \in Msgs /\ q[i + 1].job = s
         /\ q[i + 1].kind = "added" <=> i = 0
         /\ q[i + 1].kind = "status" =>
              /\ q[i + 1].n \in DOMAIN Statuses[s] /\ ~Heard(q, i, "done")
              /\ \A n \in Told(q, i) : n < q[i + 1].n
         /\ q[i + 1].kind = "done" => ~Heard(q, i, "done")
         /\ ~Heard(q, i, "timeout")
         /\ Told(q, i) \subseteq DOMAIN Statuses[s]
<1>1. q \in Seq(Msgs) /\ DOMAIN q = 1..Len(q) /\ Len(q) \in Nat BY DEF Orderly
<1>2. \A k \in 1..i : k \in DOMAIN q /\ k < i + 1 BY <1>1
<1>3. q[i + 1] \in Msgs /\ q[i + 1].job = s BY <1>1 DEF Orderly
<1>4. q[i + 1].kind = "added" <=> i = 0
  <2>1. CASE i = 0
    <3>1. q # << >> BY <1>1
    <3> QED BY <2>1, <3>1 DEF Orderly
  <2>2. CASE i # 0
    <3>1. 1 \in DOMAIN q /\ 1 < i + 1 BY <1>1, <2>2
    <3> QED BY <2>2, <3>1 DEF Orderly
  <2> QED BY <2>1, <2>2
<1>5. ASSUME q[i + 1].kind = "status"
      PROVE  /\ q[i + 1].n \in DOMAIN Statuses[s] /\ ~Heard(q, i, "done")
             /\ \A n \in Told(q, i) : n < q[i + 1].n
  BY <1>2, <1>5 DEF Orderly, Heard, Told
<1>6. ASSUME q[i + 1].kind = "done" PROVE ~Heard(q, i, "done")
  BY <1>2, <1>6 DEF Orderly, Heard
<1>7. ~Heard(q, i, "timeout") BY <1>2 DEF Orderly, Heard
<1>8. Told(q, i) \subseteq DOMAIN Statuses[s] BY <1>2 DEF Orderly, Told
<1> QED BY <1>3, <1>4, <1>5, <1>6, <1>7, <1>8

(* The TUI's model after the first i messages of session s. *)
Picture(s, q, i, jobs) ==
  /\ jobs \in Maps({s}, JobStates)
  /\ i = 0 => jobs = << >>
  /\ i # 0 =>
       /\ DOMAIN jobs = {s}
       /\ jobs[s].stepTimeouts = StepTimeouts[s]
       /\ jobs[s].allowedFailureSet = IF Heard(q, i, "allowed") THEN {Lenient[s]} ELSE {}
       /\ jobs[s].done = TRUE <=> Heard(q, i, "done")
       /\ jobs[s].timedOut = TRUE <=> Heard(q, i, "timeout")
       /\ ~Heard(q, i, "timeout") => Drawn(s, jobs[s], Positions(s, Told(q, i)))
       /\ Heard(q, i, "timeout") =>
            \A d \in DOMAIN jobs[s].vertices : jobs[s].vertices[d].status # "running"

LEMMA PutOnly ==
  ASSUME NEW s, NEW X, NEW jobs \in Maps({s}, X), NEW js \in X, NEW r, r = Put(jobs, s, js)
  PROVE  r \in Maps({s}, X) /\ DOMAIN r = {s} /\ r[s] = js
<1>1. DOMAIN jobs \subseteq {s} BY MapFacts
<1>2. DOMAIN r = {s} /\ r[s] = js BY <1>1 DEF Put
<1>3. r \in Maps({s}, X) BY PutMap
<1> QED BY <1>2, <1>3

LEMMA ExceptOnly ==
  ASSUME NEW s, NEW jobs \in Maps({s}, JobStates), s \in DOMAIN jobs, NEW js \in JobStates,
         NEW r, r = Change(jobs, s, js)
  PROVE  r \in Maps({s}, JobStates) /\ DOMAIN r = {s} /\ r[s] = js
<1>1. DOMAIN jobs = {s} BY MapFacts
<1>2. DOMAIN r = {s} /\ r[s] = js /\ r = [x \in DOMAIN r |-> r[x]] BY <1>1 DEF Change
<1>3. r \in Maps({s}, JobStates) BY <1>2, MapFacts
<1> QED BY <1>2, <1>3

LEMMA FirstPicture ==
  ASSUME NEW s \in Sessions, NEW q, Orderly(s, q), 1 \in DOMAIN q
  PROVE  Picture(s, q, 1, Update(<< >>, q[1]))
<1> DEFINE js == addJob(newJobState, StepTimeouts[s])
           r == Update(<< >>, q[1])
<1>1. q[1].job = s /\ q[1].kind = "added"
  <2>1. 0 \in Nat /\ 0 + 1 \in DOMAIN q /\ q[0 + 1] = q[1] OBVIOUS
  <2>2. q[0 + 1].job = s /\ q[0 + 1].kind = "added" BY <2>1, NextMessage
  <2> QED BY <2>1, <2>2
<1>2. r = Put(<< >>, s, js)
  <2>1. getOrCreateJob(<< >>, s) = newJobState BY DEF getOrCreateJob
  <2> QED BY <1>1, <2>1, UpdateFacts
<1>3. /\ js \in JobStates /\ js.stepTimeouts = StepTimeouts[s] /\ DOMAIN js.vertices = {}
      /\ js.done = FALSE /\ js.timedOut = FALSE /\ js.allowedFailureSet = {}
  <2>1. StepTimeouts[s] \in SUBSET STRING BY SessionAssumption
  <2> QED BY <2>1, NewJobFacts, AddFacts
<1> HIDE DEF js, r
<1>4. r \in Maps({s}, JobStates) /\ DOMAIN r = {s} /\ r[s] = js
  <2>1. << >> \in Maps({s}, JobStates) BY EmptyMap
  <2>2. ASSUME NEW f \in Maps({s}, JobStates), r = Put(f, s, js)
        PROVE  r \in Maps({s}, JobStates) /\ DOMAIN r = {s} /\ r[s] = js
    BY <1>3, <2>2, PutOnly
  <2> QED BY <1>2, <2>1, <2>2
<1>5. /\ ~Heard(q, 1, "allowed") /\ ~Heard(q, 1, "done") /\ ~Heard(q, 1, "timeout")
      /\ Told(q, 1) = {}
  <2>1. 0 \in Nat OBVIOUS
  <2>2. /\ \A kind : ~Heard(q, 0, kind)
        /\ Told(q, 0) = {}
        /\ \A kind : Heard(q, 0 + 1, kind) <=> Heard(q, 0, kind) \/ q[0 + 1].kind = kind
        /\ q[0 + 1].kind # "status" => Told(q, 0 + 1) = Told(q, 0)
    BY <2>1, HeardFacts
  <2>3. 0 + 1 = 1 OBVIOUS
  <2> QED BY <1>1, <2>2, <2>3
<1>6. Positions(s, {}) = {} BY DEF Positions
<1>7. Drawn(s, js, {}) BY <1>3 DEF Drawn, Digests
<1>8. Drawn(s, r[s], Positions(s, Told(q, 1))) BY <1>4, <1>5, <1>6, <1>7
<1>9. Picture(s, q, 1, r) BY <1>3, <1>4, <1>5, <1>8 DEF Picture
<1> QED BY <1>9 DEF r

LEMMA NextPicture ==
  ASSUME NEW s \in Sessions, NEW q, Orderly(s, q), NEW i \in Nat, i # 0, i + 1 \in DOMAIN q,
         NEW jobs, Picture(s, q, i, jobs)
  PROVE  Picture(s, q, i + 1, Update(jobs, q[i + 1]))
<1> DEFINE m == q[i + 1]
           js == jobs[s]
           r == Update(jobs, m)
           P == Positions(s, Told(q, i))
<1>1. /\ m \in Msgs /\ m.job = s /\ m.kind # "added"
      /\ m.kind = "status" =>
           /\ m.n \in DOMAIN Statuses[s] /\ ~Heard(q, i, "done")
           /\ \A n \in Told(q, i) : n < m.n
      /\ ~Heard(q, i, "timeout") /\ Told(q, i) \subseteq DOMAIN Statuses[s]
  BY NextMessage
<1>2. /\ jobs \in Maps({s}, JobStates) /\ DOMAIN jobs = {s} /\ s \in DOMAIN jobs
      /\ js.stepTimeouts = StepTimeouts[s]
      /\ js.allowedFailureSet = IF Heard(q, i, "allowed") THEN {Lenient[s]} ELSE {}
      /\ js.done = TRUE <=> Heard(q, i, "done")
      /\ Drawn(s, js, P)
  BY <1>1 DEF Picture
<1>3. js.timedOut # TRUE BY <1>1 DEF Picture
<1>4. js \in JobStates BY <1>2, MapFacts
<1>5. /\ \A kind : Heard(q, i + 1, kind) <=> Heard(q, i, kind) \/ m.kind = kind
      /\ m.kind = "status" => Told(q, i + 1) = Told(q, i) \cup {m.n}
      /\ m.kind # "status" => Told(q, i + 1) = Told(q, i)
  BY HeardFacts
<1>6. i + 1 # 0 OBVIOUS
<1>7. ASSUME NEW k \in JobStates, r \in Maps({s}, JobStates), DOMAIN r = {s}, r[s] = k,
             k.stepTimeouts = js.stepTimeouts,
             k.allowedFailureSet =
               IF m.kind = "allowed" THEN js.allowedFailureSet \cup {Lenient[s]} ELSE js.allowedFailureSet,
             k.done = IF m.kind = "done" THEN TRUE ELSE js.done,
             k.timedOut = IF m.kind = "timeout" THEN TRUE ELSE js.timedOut,
             m.kind # "timeout" => Drawn(s, k, Positions(s, Told(q, i + 1))),
             m.kind = "timeout" => \A d \in DOMAIN k.vertices : k.vertices[d].status # "running"
      PROVE  Picture(s, q, i + 1, r)
  <2> HIDE DEF m, js, r
  <2>1. k.allowedFailureSet = IF Heard(q, i + 1, "allowed") THEN {Lenient[s]} ELSE {}
    BY <1>2, <1>5, <1>7
  <2>2. k.done = TRUE <=> Heard(q, i + 1, "done") BY <1>2, <1>5, <1>7
  <2>3. k.timedOut = TRUE <=> Heard(q, i + 1, "timeout") BY <1>1, <1>3, <1>5, <1>7
  <2>4. Heard(q, i + 1, "timeout") <=> m.kind = "timeout" BY <1>1, <1>5
  <2> QED BY <1>2, <1>6, <1>7, <2>1, <2>2, <2>3, <2>4 DEF Picture
<1> SUFFICES Picture(s, q, i + 1, r) OBVIOUS
<1>8. CASE m.kind = "status"
  <2> DEFINE k == applyStatus(js, Statuses[s][m.n])
  <2>1. r = Change(jobs, s, k) BY <1>1, <1>2, <1>8, UpdateFacts
  <2>2. P \in SUBSET AllPositions(s) /\ \A p \in P : p[1] < m.n
    <3>1. P \in SUBSET AllPositions(s) BY <1>1 DEF Positions, AllPositions
    <3>2. ASSUME NEW p \in P PROVE p[1] < m.n
      <4>1. PICK n \in Told(q, i) : \E x \in DOMAIN Statuses[s][n] : p = <<n, x>>
        BY <3>2 DEF Positions
      <4>2. p[1] = n BY <4>1
      <4> QED BY <1>1, <1>8, <4>2
    <3> QED BY <3>1, <3>2
  <2>3. P \cup Positions(s, {m.n}) = Positions(s, Told(q, i + 1))
    <3>1. Told(q, i + 1) = Told(q, i) \cup {m.n} BY <1>5, <1>8
    <3> HIDE DEF m
    <3> QED BY <3>1 DEF Positions
  <2>4. m.n \in DOMAIN Statuses[s] BY <1>1, <1>8
  <2> HIDE DEF P, js, m
  <2>5. /\ k \in JobStates /\ k.done = js.done /\ k.timedOut = js.timedOut
        /\ k.stepTimeouts = js.stepTimeouts /\ k.allowedFailureSet = js.allowedFailureSet
        /\ Drawn(s, k, P \cup Positions(s, {m.n}))
    BY <1>2, <1>4, <2>2, <2>4, DrawStatus
  <2> HIDE DEF k, r
  <2>6. r \in Maps({s}, JobStates) /\ DOMAIN r = {s} /\ r[s] = k
    BY <1>2, <2>1, <2>5, ExceptOnly, SMTT(30)
  <2> QED BY <1>7, <1>8, <2>3, <2>5, <2>6
<1>9. CASE m.kind = "allowed"
  <2> DEFINE k == allowFailure(js, Lenient[s])
  <2>1. r = Change(jobs, s, k) BY <1>1, <1>2, <1>9, UpdateFacts
  <2>2. Lenient[s] \in Leniences BY DEF Leniences
  <2>3. Positions(s, Told(q, i + 1)) = P BY <1>5, <1>9
  <2> HIDE DEF P, js, m
  <2>4. /\ k \in JobStates /\ k.done = js.done /\ k.timedOut = js.timedOut
        /\ k.stepTimeouts = js.stepTimeouts
        /\ k.allowedFailureSet = js.allowedFailureSet \cup {Lenient[s]}
    BY <1>4, <2>2, AllowFacts
  <2>5. Drawn(s, k, P) BY <1>2, <1>4, <2>2, DrawAllowed
  <2> HIDE DEF k, r
  <2>6. r \in Maps({s}, JobStates) /\ DOMAIN r = {s} /\ r[s] = k
    <3>1. k \in JobStates BY <2>4
    <3>2. jobs \in Maps({s}, JobStates) /\ s \in DOMAIN jobs BY <1>2
    <3> QED BY <2>1, <3>1, <3>2, ExceptOnly
  <2> QED BY <1>7, <1>9, <2>3, <2>4, <2>5, <2>6
<1>10. CASE m.kind = "done"
  <2> DEFINE k == Finish(js)
  <2>1. r = Change(jobs, s, k) BY <1>1, <1>2, <1>10, UpdateFacts
  <2>3. Positions(s, Told(q, i + 1)) = P BY <1>5, <1>10
  <2> HIDE DEF P, js, m
  <2>4. /\ k \in JobStates /\ k.done = TRUE /\ k.timedOut = js.timedOut
        /\ k.stepTimeouts = js.stepTimeouts /\ k.vertices = js.vertices
        /\ k.allowedFailureSet = js.allowedFailureSet
    BY <1>4 DEF JobStates, Finish
  <2> HIDE DEF k, r
  <2>5. Drawn(s, k, P) BY <1>2, <2>4 DEF Drawn
  <2>6. r \in Maps({s}, JobStates) /\ DOMAIN r = {s} /\ r[s] = k
    BY <1>2, <2>1, <2>4, ExceptOnly, SMTT(30)
  <2> QED BY <1>7, <1>10, <2>3, <2>4, <2>5, <2>6
<1>11. CASE m.kind = "timeout"
  <2> DEFINE k == timeOut(js)
  <2>1. r = Put(jobs, s, k)
    <3>1. getOrCreateJob(jobs, s) = js BY <1>2 DEF getOrCreateJob
    <3> QED BY <1>1, <1>11, <3>1, UpdateFacts
  <2> HIDE DEF P, js, m
  <2>4. /\ k \in JobStates /\ k.done = js.done /\ k.timedOut = TRUE
        /\ k.stepTimeouts = js.stepTimeouts /\ k.allowedFailureSet = js.allowedFailureSet
        /\ DOMAIN k.vertices = DOMAIN js.vertices
        /\ \A d \in DOMAIN js.vertices : k.vertices[d].status # "running"
    BY <1>4, TimeOutFacts
  <2> HIDE DEF k, r
  <2>6. r \in Maps({s}, JobStates) /\ DOMAIN r = {s} /\ r[s] = k
    BY <1>2, <2>1, <2>4, PutOnly
  <2> QED BY <1>7, <1>11, <2>4, <2>6
<1>12. m.kind \in {"status", "allowed", "done", "timeout"} BY <1>1 DEF Msgs
<1> QED BY <1>8, <1>9, <1>10, <1>11, <1>12

LEMMA UpdateType ==
  ASSUME NEW s \in Sessions, NEW jobs \in Maps({s}, JobStates), NEW m \in Msgs, m.job = s,
         m.kind = "status" => m.n \in DOMAIN Statuses[s]
  PROVE  Update(jobs, m) \in Maps({s}, JobStates)
<1> DEFINE js == getOrCreateJob(jobs, s)
           r == Update(jobs, m)
<1>1. js \in JobStates
  <2>1. \A x \in DOMAIN jobs : jobs[x] \in JobStates BY MapFacts
  <2> QED BY <2>1, NewJobFacts DEF getOrCreateJob
<1>2. CASE m.kind = "added"
  <2> DEFINE k == addJob(js, StepTimeouts[s])
  <2>1. r = Put(jobs, s, k) BY <1>2, UpdateFacts
  <2>2. k \in JobStates
    <3>1. StepTimeouts[s] \in SUBSET STRING BY SessionAssumption
    <3> QED BY <1>1, <3>1, AddFacts
  <2> HIDE DEF k, r
  <2>3. r \in Maps({s}, JobStates) BY <2>1, <2>2, PutOnly
  <2> QED BY <2>3 DEF r
<1>3. CASE m.kind = "timeout"
  <2> DEFINE k == timeOut(js)
  <2>1. r = Put(jobs, s, k) BY <1>3, UpdateFacts
  <2>2. k \in JobStates BY <1>1, TimeOutFacts
  <2> HIDE DEF k, r
  <2>3. r \in Maps({s}, JobStates) BY <2>1, <2>2, PutOnly
  <2> QED BY <2>3 DEF r
<1>4. CASE m.kind \notin {"added", "timeout"} /\ s \notin DOMAIN jobs
  BY <1>4, UpdateFacts
<1>5. ASSUME s \in DOMAIN jobs, NEW k \in JobStates, r = Change(jobs, s, k)
      PROVE  r \in Maps({s}, JobStates)
  <2> HIDE DEF r
  <2> QED BY <1>5, ExceptOnly
<1>6. CASE s \in DOMAIN jobs /\ m.kind = "status"
  <2>1. jobs[s] \in JobStates BY <1>6, MapFacts
  <2>2. Statuses[s][m.n] \in Seq(Reports)
    <3>1. Statuses[s] \in Seq(Seq(Reports)) BY SessionAssumption
    <3> QED BY <1>6, <3>1
  <2> DEFINE k == applyStatus(jobs[s], Statuses[s][m.n])
  <2>3. r = Change(jobs, s, k) BY <1>6, UpdateFacts
  <2>4. k \in JobStates
    <3> DEFINE vs == Statuses[s][m.n]
    <3>1. PICK u \in [0..Len(vs) -> JobStates] : applyStatus(jobs[s], vs) = u[Len(vs)]
      <4> HIDE DEF vs
      <4> QED BY <2>1, <2>2, ApplyStatusFacts DEF vs
    <3>2. Len(vs) \in 0..Len(vs)
      <4>1. Len(vs) \in Nat BY <2>2
      <4> QED BY <4>1
    <3> QED BY <3>1, <3>2
  <2> QED BY <1>5, <1>6, <2>3, <2>4
<1>7. CASE s \in DOMAIN jobs /\ m.kind = "allowed"
  <2>1. jobs[s] \in JobStates BY <1>7, MapFacts
  <2>2. Lenient[s] \in Leniences BY DEF Leniences
  <2>3. allowFailure(jobs[s], Lenient[s]) \in JobStates BY <2>1, <2>2, AllowFacts
  <2> QED BY <1>5, <1>7, <2>3, UpdateFacts
<1>8. CASE s \in DOMAIN jobs /\ m.kind = "done"
  <2>1. jobs[s] \in JobStates BY <1>8, MapFacts
  <2>2. Finish(jobs[s]) \in JobStates BY <2>1 DEF Finish, JobStates
  <2> QED BY <1>5, <1>8, <2>2, UpdateFacts
<1>9. m.kind \in {"added", "status", "done", "allowed", "timeout"} BY DEF Msgs
<1> QED BY <1>2, <1>3, <1>4, <1>6, <1>7, <1>8, <1>9

LEMMA TuiFacts ==
  ASSUME NEW s \in Sessions, Orderly(s, shown[s])
  PROVE  /\ Picture(s, shown[s], Len(shown[s]), tui(s))
         /\ Len(shown[s]) \in Nat
<1> DEFINE q == shown[s]
           N == Len(q)
           V == Maps({s}, JobStates)
           F == [p \in (1..N) \X V |-> Update(p[2], q[p[1]])]
           upto[i \in 0..N] == IF i = 0 THEN newMultiModel ELSE Update(upto[i - 1], q[i])
<1>1. q \in Seq(Msgs) /\ N \in Nat /\ DOMAIN q = 1..N BY DEF Orderly
<1>2. ASSUME NEW i \in 1..N, NEW x \in V
      PROVE  F[<<i, x>>] = Update(x, q[i]) /\ F[<<i, x>>] \in V
  <2>1. F[<<i, x>>] = Update(x, q[i]) OBVIOUS
  <2>2. q[i] \in Msgs BY <1>1
  <2>3. q[i].job = s /\ (q[i].kind = "status" => q[i].n \in DOMAIN Statuses[s]) BY <1>1 DEF Orderly
  <2> HIDE DEF F, q
  <2> QED BY <2>1, <2>2, <2>3, UpdateType
<1>3. newMultiModel \in V BY EmptyMap DEF newMultiModel
<1>4. PICK g : Table(V, newMultiModel, F, N, g)
  <2>1. StaysIn(N, V, F) BY <1>2 DEF StaysIn
  <2> HIDE DEF F, N, V
  <2> QED BY <1>1, <1>3, <2>1, TableExists
<1>5. /\ g \in [0..N -> V] /\ g[0] = newMultiModel
      /\ \A i \in 1..N : g[i] = F[<<i, g[i - 1]>>]
  BY <1>4 DEF Table
<1>6. \A i \in 1..N : g[i] = Update(g[i - 1], q[i])
  <2>1. ASSUME NEW i \in 1..N PROVE i - 1 \in 0..N BY <1>1
  <2>2. \A i \in 0..N : g[i] \in V
    <3> HIDE DEF V, N
    <3> QED BY <1>5
  <2> QED BY <1>2, <1>5, <2>1, <2>2
<1> HIDE DEF F
<1>7. g = [i \in 0..N |-> IF i = 0 THEN newMultiModel ELSE Update(g[i - 1], q[i])]
  <2>1. \A i \in 0..N : g[i] = IF i = 0 THEN newMultiModel ELSE Update(g[i - 1], q[i])
    <3>1. \A i \in 0..N : i = 0 \/ i \in 1..N BY <1>1
    <3> QED BY <1>5, <1>6, <3>1
  <2>2. g = [i \in 0..N |-> g[i]] BY <1>5
  <2> QED BY <2>1, <2>2
<1>8. upto = [i \in 0..N |-> IF i = 0 THEN newMultiModel ELSE Update(upto[i - 1], q[i])]
  BY <1>7 DEF upto
<1>9. tui(s) = upto[N] BY DEF tui
<1> HIDE DEF upto, N
<1>10. upto[0] = newMultiModel /\ \A i \in 1..N : upto[i] = Update(upto[i - 1], q[i])
  <2>1. 0 \in 0..N /\ \A i \in 1..N : i \in 0..N /\ i # 0 BY <1>1
  <2> QED BY <1>8, <2>1
<1> DEFINE S == {i \in Nat : i <= N => Picture(s, q, i, upto[i])}
<1>11. \A i \in Nat : i \in S
  <2>1. 0 \in S
    <3>1. Picture(s, q, 0, upto[0]) BY <1>3, <1>10 DEF Picture, newMultiModel
    <3> QED BY <3>1
  <2>2. ASSUME NEW i \in Nat, i \in S PROVE i + 1 \in S
    <3> SUFFICES ASSUME i + 1 <= N PROVE Picture(s, q, i + 1, upto[i + 1]) OBVIOUS
    <3>1. i + 1 \in 1..N /\ (i + 1) - 1 = i /\ i <= N /\ i + 1 \in DOMAIN q BY <1>1
    <3>2. Picture(s, q, i, upto[i]) BY <2>2, <3>1
    <3>3. upto[i + 1] = Update(upto[i], q[i + 1]) BY <1>10, <3>1
    <3> HIDE DEF q
    <3>4. Orderly(s, q) BY DEF q
    <3>5. CASE i = 0
      <4>1. upto[i] = << >> /\ i + 1 = 1 BY <1>10, <3>5 DEF newMultiModel
      <4>2. Picture(s, q, 1, Update(<< >>, q[1])) BY <3>1, <3>4, <4>1, FirstPicture
      <4> QED BY <3>3, <4>1, <4>2
    <3>6. CASE i # 0
      <4>1. Picture(s, q, i + 1, Update(upto[i], q[i + 1])) BY <3>1, <3>2, <3>4, <3>6, NextPicture
      <4> QED BY <3>3, <4>1
    <3> QED BY <3>5, <3>6
  <2> HIDE DEF S
  <2> QED BY <2>1, <2>2, EveryNat
<1>12. N <= N BY <1>1
<1>13. Picture(s, q, N, upto[N]) BY <1>1, <1>11, <1>12
<1> QED BY <1>1, <1>9, <1>13 DEF N
-----------------------------------------------------------------------------
(* The plain display: one vertex.                                            *)

EndEvents == {"done", "cached", "error", "timeout"}
Events    == EndEvents \cup {"started"}
Lines(s)  == {Line(s, d, e) : d \in STRING, e \in Events}
Marks     == {"unseen", "started", "done"}

Trackers ==
  [seen : Maps(STRING, Marks), pending : SUBSET STRING, stepTimeouts : SUBSET STRING]

Consumers(s) == [jobs : Maps({s}, Trackers), log : Maps(Lines(s), Nat)]

Seen(jt, d) == IF d \in DOMAIN jt.seen THEN jt.seen[d] ELSE "unseen"

(* How often the start and the end of vertex d were logged. *)
Begun(s, d, log) == Times(log, Line(s, d, "started"))
Over(s, d, log) ==
  Times(log, Line(s, d, "done")) + Times(log, Line(s, d, "cached"))
    + Times(log, Line(s, d, "error")) + Times(log, Line(s, d, "timeout"))

LEMMA LineFacts ==
  ASSUME NEW s, NEW d, NEW e, NEW c, NEW f
  PROVE  Line(s, d, e) = Line(s, c, f) <=> d = c /\ e = f
BY DEF Line

LEMMA LogFacts ==
  ASSUME NEW L, NEW log \in Maps(L, Nat), NEW lines \in SUBSET L
  PROVE  /\ logLines(log, lines) \in Maps(L, Nat)
         /\ \A l : /\ Times(log, l) \in Nat
                   /\ Times(logLines(log, lines), l) = IF l \in lines THEN Times(log, l) + 1 ELSE Times(log, l)
<1> DEFINE r == logLines(log, lines)
<1>1. DOMAIN log \subseteq L /\ \A l \in DOMAIN log : log[l] \in Nat BY MapFacts
<1>2. \A l : Times(log, l) \in Nat BY <1>1 DEF Times
<1>3. /\ DOMAIN r = DOMAIN log \cup lines /\ r = [l \in DOMAIN r |-> r[l]]
      /\ \A l \in DOMAIN r : r[l] = Times(log, l) + (IF l \in lines THEN 1 ELSE 0)
  BY DEF logLines
<1> HIDE DEF r
<1>4. \A l \in DOMAIN r : r[l] = (IF l \in lines THEN Times(log, l) + 1 ELSE Times(log, l)) /\ r[l] \in Nat
  BY <1>2, <1>3
<1>5. r \in Maps(L, Nat) BY <1>1, <1>3, <1>4, MapFacts
<1>6. ASSUME NEW l PROVE Times(r, l) = IF l \in lines THEN Times(log, l) + 1 ELSE Times(log, l)
  <2>1. CASE l \in DOMAIN r BY <1>4, <2>1 DEF Times
  <2>2. CASE l \notin DOMAIN r BY <1>3, <2>2 DEF Times
  <2> QED BY <2>1, <2>2
<1> QED BY <1>2, <1>5, <1>6 DEF r

LEMMA CountFacts ==
  ASSUME NEW s, NEW log \in Maps(Lines(s), Nat), NEW d
  PROVE  Begun(s, d, log) \in Nat /\ Over(s, d, log) \in Nat
<1>1. \A l \in DOMAIN log : log[l] \in Nat BY MapFacts
<1>2. \A l : Times(log, l) \in Nat BY <1>1 DEF Times
<1> QED BY <1>2 DEF Begun, Over

(* The event of one vertex is logged. *)
LEMMA LogOne ==
  ASSUME NEW s, NEW log \in Maps(Lines(s), Nat), NEW c, NEW ev, Line(s, c, ev) \in Lines(s),
         ev \in Events,
         NEW lines, lines = {Line(s, c, ev)}, NEW r, r = logLines(log, lines)
  PROVE  /\ r \in Maps(Lines(s), Nat)
         /\ \A d : /\ Begun(s, d, log) \in Nat /\ Over(s, d, log) \in Nat
                   /\ Begun(s, d, r) = IF d = c /\ ev = "started" THEN Begun(s, d, log) + 1 ELSE Begun(s, d, log)
                   /\ Over(s, d, r) = IF d = c /\ ev \in EndEvents THEN Over(s, d, log) + 1 ELSE Over(s, d, log)
<1>1. lines \in SUBSET Lines(s) OBVIOUS
<1>2. /\ r \in Maps(Lines(s), Nat)
      /\ \A l : /\ Times(log, l) \in Nat
                /\ Times(r, l) = IF l \in lines THEN Times(log, l) + 1 ELSE Times(log, l)
  BY <1>1, LogFacts
<1>3. ASSUME NEW d, NEW f PROVE Line(s, d, f) \in lines <=> d = c /\ f = ev
  <2>1. Line(s, d, f) = Line(s, c, ev) <=> d = c /\ f = ev BY LineFacts
  <2> QED BY <2>1
<1>4. ASSUME NEW d
      PROVE  /\ Begun(s, d, log) \in Nat /\ Over(s, d, log) \in Nat
             /\ Begun(s, d, r) = IF d = c /\ ev = "started" THEN Begun(s, d, log) + 1 ELSE Begun(s, d, log)
             /\ Over(s, d, r) = IF d = c /\ ev \in EndEvents THEN Over(s, d, log) + 1 ELSE Over(s, d, log)
  <2>1. \A f : /\ Times(log, Line(s, d, f)) \in Nat
               /\ Times(r, Line(s, d, f)) =
                    IF d = c /\ f = ev THEN Times(log, Line(s, d, f)) + 1 ELSE Times(log, Line(s, d, f))
    BY <1>2, <1>3
  <2>2. /\ Times(log, Line(s, d, "started")) \in Nat
        /\ Times(r, Line(s, d, "started")) = IF d = c /\ ev = "started" THEN Times(log, Line(s, d, "started")) + 1
                                             ELSE Times(log, Line(s, d, "started"))
    BY <2>1
  <2>3. /\ Times(log, Line(s, d, "done")) \in Nat
        /\ Times(r, Line(s, d, "done")) = IF d = c /\ ev = "done" THEN Times(log, Line(s, d, "done")) + 1
                                             ELSE Times(log, Line(s, d, "done"))
    BY <2>1
  <2>4. /\ Times(log, Line(s, d, "cached")) \in Nat
        /\ Times(r, Line(s, d, "cached")) = IF d = c /\ ev = "cached" THEN Times(log, Line(s, d, "cached")) + 1
                                             ELSE Times(log, Line(s, d, "cached"))
    BY <2>1
  <2>5. /\ Times(log, Line(s, d, "error")) \in Nat
        /\ Times(r, Line(s, d, "error")) = IF d = c /\ ev = "error" THEN Times(log, Line(s, d, "error")) + 1
                                             ELSE Times(log, Line(s, d, "error"))
    BY <2>1
  <2>6. /\ Times(log, Line(s, d, "timeout")) \in Nat
        /\ Times(r, Line(s, d, "timeout")) = IF d = c /\ ev = "timeout" THEN Times(log, Line(s, d, "timeout")) + 1
                                             ELSE Times(log, Line(s, d, "timeout"))
    BY <2>1
  <2> QED BY <2>2, <2>3, <2>4, <2>5, <2>6 DEF Begun, Over, Events, EndEvents
<1> QED BY <1>2, <1>4

TimeoutLines(s, D) == {Line(s, d, "timeout") : d \in D}

(* The timeouts of the vertices in D are logged. *)
LEMMA LogTimeouts ==
  ASSUME NEW s, NEW log \in Maps(Lines(s), Nat), NEW D \in SUBSET STRING,
         NEW r, r = logLines(log, TimeoutLines(s, D))
  PROVE  /\ r \in Maps(Lines(s), Nat)
         /\ \A d : /\ Begun(s, d, log) \in Nat /\ Over(s, d, log) \in Nat
                   /\ Begun(s, d, r) = Begun(s, d, log)
                   /\ Over(s, d, r) = IF d \in D THEN Over(s, d, log) + 1 ELSE Over(s, d, log)
<1> DEFINE lines == TimeoutLines(s, D)
<1>1. lines \in SUBSET Lines(s) BY DEF TimeoutLines, Lines, Events, EndEvents
<1>2. /\ r \in Maps(Lines(s), Nat)
      /\ \A l : /\ Times(log, l) \in Nat
                /\ Times(r, l) = IF l \in lines THEN Times(log, l) + 1 ELSE Times(log, l)
  BY <1>1, LogFacts
<1>3. \A d, f : Line(s, d, f) \in lines <=> d \in D /\ f = "timeout" BY LineFacts DEF TimeoutLines
<1>4. ASSUME NEW d
      PROVE  /\ Begun(s, d, log) \in Nat /\ Over(s, d, log) \in Nat
             /\ Begun(s, d, r) = Begun(s, d, log)
             /\ Over(s, d, r) = IF d \in D THEN Over(s, d, log) + 1 ELSE Over(s, d, log)
  <2>1. \A f : /\ Times(log, Line(s, d, f)) \in Nat
               /\ Times(r, Line(s, d, f)) =
                    IF d \in D /\ f = "timeout" THEN Times(log, Line(s, d, f)) + 1 ELSE Times(log, Line(s, d, f))
    BY <1>2, <1>3
  <2> QED BY <2>1 DEF Begun, Over
<1> QED BY <1>2, <1>4

LEMMA LogVertexFacts ==
  ASSUME NEW jt, NEW v, NEW out, out = logVertex(jt, v), Seen(jt, v.digest) \in Marks
  PROVE  /\ out.event \in Events \cup {"none"} /\ out.seen \in Marks
         /\ out.event = "none" => out.seen = Seen(jt, v.digest)
         /\ out.event = "started" => Seen(jt, v.digest) = "unseen" /\ out.seen = "started"
         /\ out.event \in EndEvents =>
              out.seen = "done" /\ (Seen(jt, v.digest) = "done" => v.error # "none")
BY DEF logVertex, Seen, Marks, Events, EndEvents

LEMMA TrackFacts ==
  ASSUME NEW jt \in Trackers, NEW v \in Reports, v.digest \in DOMAIN jt.seen,
         NEW r, r = trackTimeout(jt, v)
  PROVE  /\ r \in Trackers /\ r.seen = jt.seen /\ r.stepTimeouts = jt.stepTimeouts
         /\ \A d \in STRING : d \in r.pending <=>
              IF d # v.digest \/ d \notin jt.stepTimeouts THEN d \in jt.pending
              ELSE IF jt.seen[d] = "started" THEN TRUE
              ELSE IF jt.seen[d] = "done" THEN FALSE ELSE d \in jt.pending
<1> DEFINE c == v.digest
<1>0. c \in STRING BY DEF Reports
<1>1. ASSUME c \notin jt.stepTimeouts PROVE r = jt
  BY <1>1, Zenon DEF trackTimeout
<1>2. ASSUME c \in jt.stepTimeouts, jt.seen[c] = "started"
      PROVE  r = [jt EXCEPT !.pending = @ \cup {c}]
  BY <1>2, Zenon DEF trackTimeout
<1>3. ASSUME c \in jt.stepTimeouts, jt.seen[c] = "done"
      PROVE  r = [jt EXCEPT !.pending = @ \ {c}]
  BY <1>3, Zenon DEF trackTimeout
<1>4. ASSUME c \in jt.stepTimeouts, jt.seen[c] \notin {"started", "done"}
      PROVE  r = jt
  BY <1>4, Zenon DEF trackTimeout
<1> HIDE DEF c
<1>5. CASE r = jt /\ (c \notin jt.stepTimeouts \/ jt.seen[c] \notin {"started", "done"})
  BY <1>5 DEF c
<1>6. CASE c \in jt.stepTimeouts /\ jt.seen[c] = "started"
  <2>1. /\ r \in Trackers /\ r.seen = jt.seen /\ r.stepTimeouts = jt.stepTimeouts
        /\ r.pending = jt.pending \cup {c}
    BY <1>0, <1>2, <1>6 DEF Trackers
  <2> QED BY <1>6, <2>1 DEF c
<1>7. CASE c \in jt.stepTimeouts /\ jt.seen[c] = "done"
  <2>1. /\ r \in Trackers /\ r.seen = jt.seen /\ r.stepTimeouts = jt.stepTimeouts
        /\ r.pending = jt.pending \ {c}
    BY <1>0, <1>3, <1>7 DEF Trackers
  <2> QED BY <1>7, <2>1 DEF c
<1> QED BY <1>1, <1>4, <1>5, <1>6, <1>7

LEMMA GetJobFacts ==
  ASSUME NEW s, NEW trackers \in Maps({s}, Trackers)
  PROVE  getJob(trackers, s) \in Trackers
<1>1. \A x \in DOMAIN trackers : trackers[x] \in Trackers BY MapFacts
<1>2. newTracker \in Trackers
  <2>1. << >> \in Maps(STRING, Marks) BY EmptyMap
  <2> QED BY <2>1 DEF newTracker, Trackers
<1> QED BY <1>1, <1>2 DEF getJob

LEMMA SeenFacts ==
  ASSUME NEW jt \in Trackers
  PROVE  jt.seen \in Maps(STRING, Marks) /\ \A d : Seen(jt, d) \in Marks
<1>1. jt.seen \in Maps(STRING, Marks) BY DEF Trackers
<1>2. \A d \in DOMAIN jt.seen : jt.seen[d] \in Marks BY <1>1, MapFacts
<1>3. \A d : Seen(jt, d) \in Marks BY <1>2 DEF Seen, Marks
<1> QED BY <1>1, <1>3

(* What a vertex's report does to the tracker. *)
LEMMA MarkFacts ==
  ASSUME NEW jt \in Trackers, NEW v \in Reports, NEW mark \in Marks,
         NEW r, r = trackTimeout([jt EXCEPT !.seen = Put(@, v.digest, mark)], v)
  PROVE  /\ r \in Trackers /\ r.stepTimeouts = jt.stepTimeouts
         /\ \A d : Seen(r, d) = IF d = v.digest THEN mark ELSE Seen(jt, d)
         /\ \A d \in STRING : d \in r.pending <=>
              IF d # v.digest \/ d \notin jt.stepTimeouts THEN d \in jt.pending
              ELSE IF mark = "started" THEN TRUE
              ELSE IF mark = "done" THEN FALSE ELSE d \in jt.pending
<1> DEFINE f == Put(jt.seen, v.digest, mark)
           k == [jt EXCEPT !.seen = f]
<1>1. f \in Maps(STRING, Marks)
  <2>1. v.digest \in STRING BY DEF Reports
  <2> QED BY <2>1, SeenFacts, PutMap
<1>2. /\ DOMAIN f = DOMAIN jt.seen \cup {v.digest} /\ f[v.digest] = mark
      /\ \A d \in DOMAIN jt.seen : d # v.digest => f[d] = jt.seen[d]
  BY DEF Put
<1>3. r = trackTimeout(k, v) OBVIOUS
<1> HIDE DEF f
<1>4. /\ k \in Trackers /\ k.seen = f /\ k.pending = jt.pending /\ k.stepTimeouts = jt.stepTimeouts
  BY <1>1 DEF Trackers
<1> HIDE DEF k
<1>5. /\ r \in Trackers /\ r.seen = f /\ r.stepTimeouts = jt.stepTimeouts
      /\ \A d \in STRING : d \in r.pending <=>
              IF d # v.digest \/ d \notin k.stepTimeouts THEN d \in k.pending
              ELSE IF k.seen[d] = "started" THEN TRUE
              ELSE IF k.seen[d] = "done" THEN FALSE ELSE d \in k.pending
  <2>1. v.digest \in DOMAIN k.seen BY <1>2, <1>4
  <2>2. k \in Trackers /\ k.seen = f /\ k.stepTimeouts = jt.stepTimeouts BY <1>4
  <2>3. /\ r \in Trackers /\ r.seen = k.seen /\ r.stepTimeouts = k.stepTimeouts
        /\ \A d \in STRING : d \in r.pending <=>
              IF d # v.digest \/ d \notin k.stepTimeouts THEN d \in k.pending
              ELSE IF k.seen[d] = "started" THEN TRUE
              ELSE IF k.seen[d] = "done" THEN FALSE ELSE d \in k.pending
    BY <1>3, <2>1, <2>2, TrackFacts
  <2> QED BY <2>2, <2>3
<1>6. \A d : Seen(r, d) = IF d = v.digest THEN mark ELSE Seen(jt, d)
  BY <1>2, <1>5 DEF Seen
<1>7. \A d \in STRING : d \in r.pending <=>
              IF d # v.digest \/ d \notin jt.stepTimeouts THEN d \in jt.pending
              ELSE IF mark = "started" THEN TRUE
              ELSE IF mark = "done" THEN FALSE ELSE d \in jt.pending
  BY <1>2, <1>4, <1>5
<1> QED BY <1>5, <1>6, <1>7

LEMMA ConsumeVertexFacts ==
  ASSUME NEW s, NEW p \in Consumers(s), NEW v \in Reports, NEW r, r = consumeVertex(p, s, v),
         NEW jt, jt = getJob(p.jobs, s), NEW out, out = logVertex(jt, v)
  PROVE  /\ r \in Consumers(s) /\ DOMAIN r.jobs = {s}
         /\ r.jobs[s] = trackTimeout([jt EXCEPT !.seen = Put(@, v.digest, out.seen)], v)
         /\ r.log = IF out.event = "none" THEN p.log
                    ELSE logLines(p.log, {Line(s, v.digest, out.event)})
<1> DEFINE k == trackTimeout([jt EXCEPT !.seen = Put(@, v.digest, out.seen)], v)
           log == IF out.event = "none" THEN p.log
                  ELSE logLines(p.log, {Line(s, v.digest, out.event)})
<1>1. p.jobs \in Maps({s}, Trackers) /\ p.log \in Maps(Lines(s), Nat) BY DEF Consumers
<1>2. jt \in Trackers BY <1>1, GetJobFacts
<1>3. out.event \in Events \cup {"none"} /\ out.seen \in Marks
  BY <1>2, SeenFacts, LogVertexFacts
<1>4. k \in Trackers BY <1>2, <1>3, MarkFacts
<1>5. r = [jobs |-> Put(p.jobs, s, k), log |-> log] BY DEF consumeVertex
<1>6. log \in Maps(Lines(s), Nat)
  <2>1. CASE out.event = "none" BY <1>1, <2>1
  <2>2. CASE out.event # "none"
    <3> DEFINE lines == {Line(s, v.digest, out.event)}
    <3>1. lines \in SUBSET Lines(s)
      <4>1. v.digest \in STRING BY DEF Reports
      <4>2. out.event \in Events BY <1>3, <2>2
      <4> QED BY <4>1, <4>2 DEF Lines
    <3>2. log = logLines(p.log, lines) BY <2>2
    <3> HIDE DEF lines, log
    <3> QED BY <1>1, <3>1, <3>2, LogFacts
  <2> QED BY <2>1, <2>2
<1> HIDE DEF k, log
<1> DEFINE jobs == Put(p.jobs, s, k)
<1>7. jobs \in Maps({s}, Trackers) /\ DOMAIN jobs = {s} /\ jobs[s] = k
  BY <1>1, <1>4, PutOnly
<1>8. r.jobs = jobs /\ r.log = log BY <1>5
<1> HIDE DEF jobs
<1>9. r \in Consumers(s) BY <1>5, <1>6, <1>7 DEF Consumers, jobs
<1> QED BY <1>7, <1>8, <1>9 DEF k, log
-----------------------------------------------------------------------------
(* The plain display: a whole session.                                       *)

Erred(s, d, P) == \E x \in P : ReportAt(s, x).digest = d /\ ReportAt(s, x).error # "none"

(* Tracker and log agree while the reports at positions P come in. *)
SteadyAt(s, d, jt, log, P) ==
  /\ Begun(s, d, log) <= 1
  /\ Seen(jt, d) = "unseen" => Begun(s, d, log) = 0 /\ Over(s, d, log) = 0
  /\ Seen(jt, d) = "started" => Begun(s, d, log) = 1 /\ Over(s, d, log) = 0
  /\ Seen(jt, d) = "done" => Over(s, d, log) >= 1
  /\ Over(s, d, log) > 1 => Erred(s, d, P)
  /\ d \in jt.pending <=> d \in jt.stepTimeouts /\ Seen(jt, d) = "started"

Steady(s, jt, log, P) == \A d \in STRING : SteadyAt(s, d, jt, log, P)

(* The plain display follows: it knows session s and what was reported. *)
Following(s, p, P) ==
  /\ s \in DOMAIN p.jobs /\ p.jobs[s].stepTimeouts = StepTimeouts[s]
  /\ Steady(s, p.jobs[s], p.log, P)

LEMMA FollowVertex ==
  ASSUME NEW s \in Sessions, NEW p \in Consumers(s), NEW P, Following(s, p, P),
         NEW p0 \in AllPositions(s), NEW r, r = consumeVertex(p, s, ReportAt(s, p0))
  PROVE  r \in Consumers(s) /\ Following(s, r, P \cup {p0})
<1> DEFINE v == ReportAt(s, p0)
           jt == p.jobs[s]
           out == logVertex(jt, v)
           c == v.digest
           k == r.jobs[s]
           log == p.log
           ev == out.event
           mark == out.seen
           Q == P \cup {p0}
<1>0. s \in DOMAIN p.jobs /\ jt.stepTimeouts = StepTimeouts[s] /\ Steady(s, jt, log, P)
  BY DEF Following
<1>1. v \in Reports /\ c \in STRING
  <2>1. v \in Reports BY PositionFacts
  <2> QED BY <2>1 DEF Reports
<1>2. p.jobs \in Maps({s}, Trackers) /\ log \in Maps(Lines(s), Nat) BY DEF Consumers
<1>3. jt = getJob(p.jobs, s) BY <1>0 DEF getJob
<1>4. jt \in Trackers BY <1>2, <1>3, GetJobFacts
<1> HIDE DEF jt, v
<1>5. /\ ev \in Events \cup {"none"} /\ mark \in Marks
      /\ ev = "none" => mark = Seen(jt, c)
      /\ ev = "started" => Seen(jt, c) = "unseen" /\ mark = "started"
      /\ ev \in EndEvents => mark = "done" /\ (Seen(jt, c) = "done" => v.error # "none")
  <2>1. Seen(jt, c) \in Marks BY <1>4, SeenFacts
  <2> QED BY <2>1, LogVertexFacts
<1>6. /\ r \in Consumers(s) /\ s \in DOMAIN r.jobs
      /\ k = trackTimeout([jt EXCEPT !.seen = Put(@, c, mark)], v)
      /\ r.log = IF ev = "none" THEN log ELSE logLines(log, {Line(s, c, ev)})
  BY <1>1, <1>3, ConsumeVertexFacts DEF v
<1> HIDE DEF out
<1>7. /\ k \in Trackers /\ k.stepTimeouts = jt.stepTimeouts
      /\ \A d : Seen(k, d) = IF d = c THEN mark ELSE Seen(jt, d)
      /\ \A d \in STRING : d \in k.pending <=>
              IF d # c \/ d \notin jt.stepTimeouts THEN d \in jt.pending
              ELSE IF mark = "started" THEN TRUE
              ELSE IF mark = "done" THEN FALSE ELSE d \in jt.pending
  BY <1>1, <1>4, <1>5, <1>6, MarkFacts
<1> HIDE DEF k
<1>8. \A d : /\ Begun(s, d, log) \in Nat /\ Over(s, d, log) \in Nat
             /\ Begun(s, d, r.log) = IF d = c /\ ev = "started" THEN Begun(s, d, log) + 1 ELSE Begun(s, d, log)
             /\ Over(s, d, r.log) = IF d = c /\ ev \in EndEvents THEN Over(s, d, log) + 1 ELSE Over(s, d, log)
  <2>1. CASE ev = "none"
    <3>3. r.log = log BY <1>6, <2>1
    <3>4. \A d : Begun(s, d, log) \in Nat /\ Over(s, d, log) \in Nat BY <1>2, CountFacts
    <3>5. ev # "started" /\ ev \notin EndEvents BY <2>1 DEF EndEvents
    <3> QED BY <3>3, <3>4, <3>5
  <2>2. CASE ev # "none"
    <3> DEFINE lines == {Line(s, c, ev)}
    <3>1. ev \in Events BY <1>5, <2>2
    <3>2. Line(s, c, ev) \in Lines(s) BY <1>1, <3>1 DEF Lines
    <3>3. r.log = logLines(log, lines) BY <1>6, <2>2
    <3>4. lines = {Line(s, c, ev)} OBVIOUS
    <3> HIDE DEF c, ev, log, lines
    <3> QED BY <1>2, <3>1, <3>2, <3>3, <3>4, LogOne
  <2> QED BY <2>1, <2>2
<1> HIDE DEF c, ev, mark, log
<1>9. ASSUME NEW d \in STRING PROVE SteadyAt(s, d, k, r.log, Q)
  <2>0. SteadyAt(s, d, jt, log, P) BY <1>0 DEF Steady
  <2>1. Erred(s, d, P) => Erred(s, d, Q) BY DEF Erred
  <2>2. /\ Begun(s, d, log) \in Nat /\ Over(s, d, log) \in Nat
        /\ Begun(s, d, r.log) = IF d = c /\ ev = "started" THEN Begun(s, d, log) + 1 ELSE Begun(s, d, log)
        /\ Over(s, d, r.log) = IF d = c /\ ev \in EndEvents THEN Over(s, d, log) + 1 ELSE Over(s, d, log)
    BY <1>8
  <2>3. /\ Seen(k, d) = IF d = c THEN mark ELSE Seen(jt, d)
        /\ k.stepTimeouts = jt.stepTimeouts
        /\ d \in k.pending <=>
              IF d # c \/ d \notin jt.stepTimeouts THEN d \in jt.pending
              ELSE IF mark = "started" THEN TRUE
              ELSE IF mark = "done" THEN FALSE ELSE d \in jt.pending
    BY <1>7
  <2>4. Seen(jt, d) \in {"unseen", "started", "done"} BY <1>4, SeenFacts DEF Marks
  <2>5. CASE d # c
    BY <2>0, <2>1, <2>2, <2>3, <2>5 DEF SteadyAt
  <2>6. CASE d = c /\ ev = "none"
    <3>1. ev # "started" /\ ev \notin EndEvents BY <2>6 DEF EndEvents
    <3>2. mark = Seen(jt, d) BY <1>5, <2>6
    <3> QED BY <2>0, <2>1, <2>2, <2>3, <2>4, <2>6, <3>1, <3>2 DEF SteadyAt
  <2>7. CASE d = c /\ ev = "started"
    <3>1. ev \notin EndEvents BY <2>7 DEF EndEvents
    <3>2. mark = "started" /\ Seen(jt, d) = "unseen" BY <1>5, <2>7
    <3> QED BY <2>0, <2>1, <2>2, <2>3, <2>7, <3>1, <3>2 DEF SteadyAt
  <2>8. CASE d = c /\ ev \in EndEvents
    <3>1. ev # "started" BY <2>8 DEF EndEvents
    <3>2. mark = "done" /\ (Seen(jt, d) = "done" => v.error # "none") BY <1>5, <2>8
    <3>3. v.error # "none" => Erred(s, d, Q) BY <2>8 DEF Erred, v, c
    <3> QED BY <2>0, <2>1, <2>2, <2>3, <2>4, <2>8, <3>1, <3>2, <3>3 DEF SteadyAt
  <2> QED BY <1>5, <2>5, <2>6, <2>7, <2>8 DEF Events
<1>10. Steady(s, k, r.log, Q) BY <1>9 DEF Steady
<1> QED BY <1>0, <1>6, <1>7, <1>10 DEF Following, k

LEMMA ConsumeStatusFacts ==
  ASSUME NEW s, NEW p \in Consumers(s), NEW vs \in Seq(Reports)
  PROVE  \E u \in [0..Len(vs) -> Consumers(s)] :
           /\ u[0] = p /\ consumeStatus(p, s, vs) = u[Len(vs)]
           /\ \A i \in 1..Len(vs) : u[i] = consumeVertex(u[i - 1], s, vs[i])
<1> DEFINE N == Len(vs)
           V == Consumers(s)
           F == [x \in (1..N) \X V |-> consumeVertex(x[2], s, vs[x[1]])]
           upto[i \in 0..N] == IF i = 0 THEN p ELSE consumeVertex(upto[i - 1], s, vs[i])
<1>1. N \in Nat /\ \A i \in 1..N : vs[i] \in Reports OBVIOUS
<1> HIDE DEF V
<1>2. ASSUME NEW i \in 1..N, NEW x \in V
      PROVE  F[<<i, x>>] = consumeVertex(x, s, vs[i]) /\ F[<<i, x>>] \in V
  <2>1. F[<<i, x>>] = consumeVertex(x, s, vs[i]) OBVIOUS
  <2> HIDE DEF F
  <2>2. consumeVertex(x, s, vs[i]) \in V BY <1>1, ConsumeVertexFacts DEF V
  <2> QED BY <2>1, <2>2
<1>3. PICK g : Table(V, p, F, N, g)
  <2>1. StaysIn(N, V, F) BY <1>2 DEF StaysIn
  <2>2. p \in V BY DEF V
  <2> HIDE DEF F, N
  <2> QED BY <1>1, <2>1, <2>2, TableExists
<1>4. /\ g \in [0..N -> V] /\ g[0] = p
      /\ \A i \in 1..N : g[i] = F[<<i, g[i - 1]>>]
  BY <1>3 DEF Table
<1>5. \A i \in 1..N : i - 1 \in 0..N /\ g[i - 1] \in V BY <1>1, <1>4
<1>6. \A i \in 1..N : g[i] = consumeVertex(g[i - 1], s, vs[i]) BY <1>2, <1>4, <1>5
<1> HIDE DEF F
<1>7. g = [i \in 0..N |-> IF i = 0 THEN p ELSE consumeVertex(g[i - 1], s, vs[i])]
  <2>1. \A i \in 0..N : g[i] = IF i = 0 THEN p ELSE consumeVertex(g[i - 1], s, vs[i])
    <3>1. \A i \in 0..N : i = 0 \/ i \in 1..N BY <1>1
    <3> QED BY <1>4, <1>6, <3>1
  <2>2. g = [i \in 0..N |-> g[i]] BY <1>4
  <2> QED BY <2>1, <2>2
<1>8. upto = [i \in 0..N |-> IF i = 0 THEN p ELSE consumeVertex(upto[i - 1], s, vs[i])]
  BY <1>7 DEF upto
<1>9. consumeStatus(p, s, vs) = upto[N] BY DEF consumeStatus
<1> HIDE DEF upto, N
<1>10. upto[0] = p /\ \A i \in 1..N : upto[i] = consumeVertex(upto[i - 1], s, vs[i])
  <2>1. 0 \in 0..N /\ \A i \in 1..N : i \in 0..N /\ i # 0 BY <1>1
  <2> QED BY <1>8, <2>1
<1> DEFINE S == {i \in Nat : i <= N => upto[i] \in V}
<1>11. \A i \in Nat : i \in S
  <2>1. 0 \in S BY <1>10 DEF V
  <2>2. ASSUME NEW i \in Nat, i \in S PROVE i + 1 \in S
    <3> SUFFICES ASSUME i + 1 <= N PROVE upto[i + 1] \in V OBVIOUS
    <3>1. i + 1 \in 1..N /\ (i + 1) - 1 = i /\ i <= N BY <1>1
    <3>2. upto[i] \in V BY <2>2, <3>1
    <3>3. upto[i + 1] = consumeVertex(upto[i], s, vs[i + 1]) BY <1>10, <3>1
    <3>4. vs[i + 1] \in Reports BY <1>1, <3>1
    <3>5. consumeVertex(upto[i], s, vs[i + 1]) \in V BY <3>2, <3>4, ConsumeVertexFacts DEF V
    <3> QED BY <3>3, <3>5
  <2> HIDE DEF S
  <2> QED BY <2>1, <2>2, EveryNat
<1>12. upto \in [0..N -> V]
  <2>1. \A i \in 0..N : i \in Nat /\ i <= N BY <1>1
  <2>2. upto = [i \in 0..N |-> upto[i]] BY <1>8
  <2> QED BY <1>11, <2>1, <2>2
<1> QED BY <1>9, <1>10, <1>12 DEF N, V

LEMMA FollowStatus ==
  ASSUME NEW s \in Sessions, NEW p \in Consumers(s), NEW P, Following(s, p, P),
         NEW n \in DOMAIN Statuses[s], NEW r, r = consumeStatus(p, s, Statuses[s][n])
  PROVE  r \in Consumers(s) /\ Following(s, r, P \cup Positions(s, {n}))
<1> DEFINE vs == Statuses[s][n]
           N == Len(vs)
           upTo(i) == P \cup {<<n, k>> : k \in 1..i}
<1>1. vs \in Seq(Reports) /\ n \in Nat
  <2>1. Statuses[s] \in Seq(Seq(Reports)) BY SessionAssumption
  <2> QED BY <2>1
<1>2. N \in Nat /\ DOMAIN vs = 1..N /\ \A i \in 1..N : vs[i] \in Reports BY <1>1
<1>3. PICK u \in [0..N -> Consumers(s)] :
        /\ u[0] = p /\ consumeStatus(p, s, vs) = u[N]
        /\ \A i \in 1..N : u[i] = consumeVertex(u[i - 1], s, vs[i])
  BY <1>1, ConsumeStatusFacts
<1> DEFINE S == {i \in Nat : i <= N => Following(s, u[i], upTo(i))}
<1>4. 0 \in S
  <2>1. upTo(0) = P OBVIOUS
  <2> QED BY <1>3, <2>1
<1>5. ASSUME NEW i \in Nat, i \in S PROVE i + 1 \in S
  <2> SUFFICES ASSUME i + 1 <= N PROVE Following(s, u[i + 1], upTo(i + 1)) OBVIOUS
  <2>1. i + 1 \in 1..N /\ (i + 1) - 1 = i /\ i <= N /\ i \in 0..N BY <1>2
  <2>2. Following(s, u[i], upTo(i)) /\ u[i] \in Consumers(s) BY <1>3, <1>5, <2>1
  <2> DEFINE p0 == <<n, i + 1>>
  <2>3. p0 \in AllPositions(s) /\ ReportAt(s, p0) = vs[i + 1]
    BY <1>2, <2>1 DEF AllPositions, Positions, ReportAt
  <2>6. upTo(i + 1) = upTo(i) \cup {p0}
    <3>1. \A k : k \in 1..(i + 1) <=> k \in 1..i \/ k = i + 1 OBVIOUS
    <3> QED BY <3>1
  <2>7. u[i + 1] = consumeVertex(u[i], s, ReportAt(s, p0)) BY <1>3, <2>1, <2>3
  <2> HIDE DEF p0, upTo
  <2>8. Following(s, u[i + 1], upTo(i) \cup {p0}) BY <2>2, <2>3, <2>7, FollowVertex
  <2> QED BY <2>6, <2>8
<1>6. N \in S
  <2> HIDE DEF S
  <2> QED BY <1>2, <1>4, <1>5, EveryNat
<1>7. Following(s, u[N], upTo(N)) /\ u[N] = r /\ r \in Consumers(s)
  <2>1. N \in 0..N /\ N <= N BY <1>2
  <2>2. Following(s, u[N], upTo(N)) BY <1>6, <2>1
  <2>3. u[N] = r BY <1>3
  <2>4. u[N] \in Consumers(s) BY <1>3, <2>1
  <2> QED BY <2>2, <2>3, <2>4
<1>8. upTo(N) = P \cup Positions(s, {n})
  BY <1>2 DEF Positions
<1> HIDE DEF upTo
<1> QED BY <1>7, <1>8

Announce(p, s) ==
  [p EXCEPT !.jobs = Put(@, s, [getJob(@, s) EXCEPT !.stepTimeouts = StepTimeouts[s]])]

LEMMA ConsumeMessage ==
  ASSUME NEW p, NEW m, NEW s, m.job = s
  PROVE  /\ m.kind = "added" => consume(p, m) = Announce(p, s)
         /\ m.kind = "status" => consume(p, m) = consumeStatus(p, s, Statuses[s][m.n])
         /\ m.kind = "done" /\ s \in DOMAIN p.jobs => consume(p, m) = logPendingTimeouts(p, s)
         /\ m.kind = "done" /\ s \notin DOMAIN p.jobs => consume(p, m) = p
         /\ m.kind \in {"allowed", "timeout"} => consume(p, m) = p
<1>1. ASSUME m.kind = "added" PROVE consume(p, m) = Announce(p, s)
  BY <1>1, Zenon DEF consume, Announce
<1>2. ASSUME m.kind = "status" PROVE consume(p, m) = consumeStatus(p, s, Statuses[s][m.n])
  BY <1>2, Zenon DEF consume
<1>3. ASSUME m.kind = "done", s \in DOMAIN p.jobs PROVE consume(p, m) = logPendingTimeouts(p, s)
  BY <1>3, Zenon DEF consume
<1>4. ASSUME m.kind = "done", s \notin DOMAIN p.jobs PROVE consume(p, m) = p
  BY <1>4, Zenon DEF consume
<1>5. ASSUME m.kind = "allowed" PROVE consume(p, m) = p
  BY <1>5, Zenon DEF consume
<1>6. ASSUME m.kind = "timeout" PROVE consume(p, m) = p
  BY <1>6, Zenon DEF consume
<1> QED BY <1>1, <1>2, <1>3, <1>4, <1>5, <1>6

LEMMA AnnounceFacts ==
  ASSUME NEW s \in Sessions, NEW p \in Consumers(s), NEW r, r = Announce(p, s)
  PROVE  /\ r \in Consumers(s) /\ r.log = p.log /\ s \in DOMAIN r.jobs
         /\ r.jobs[s] = [getJob(p.jobs, s) EXCEPT !.stepTimeouts = StepTimeouts[s]]
<1> DEFINE jt == getJob(p.jobs, s)
           k == [jt EXCEPT !.stepTimeouts = StepTimeouts[s]]
           jobs == Put(p.jobs, s, k)
<1>1. p.jobs \in Maps({s}, Trackers) /\ p.log \in Maps(Lines(s), Nat) BY DEF Consumers
<1>2. jt \in Trackers BY <1>1, GetJobFacts
<1>3. r = [p EXCEPT !.jobs = jobs] BY DEF Announce
<1> HIDE DEF jt
<1>4. k \in Trackers
  <2>1. StepTimeouts[s] \in SUBSET STRING BY SessionAssumption
  <2> QED BY <1>2, <2>1 DEF Trackers
<1> HIDE DEF k
<1>5. jobs \in Maps({s}, Trackers) /\ DOMAIN jobs = {s} /\ jobs[s] = k
  BY <1>1, <1>4, PutOnly
<1> HIDE DEF jobs
<1>6. r \in Consumers(s) /\ r.jobs = jobs /\ r.log = p.log BY <1>3, <1>5 DEF Consumers
<1> QED BY <1>5, <1>6 DEF k, jt

LEMMA NewConsumerFacts ==
  ASSUME NEW s
  PROVE  newConsumer \in Consumers(s) /\ DOMAIN newConsumer.jobs = {} /\ DOMAIN newConsumer.log = {}
<1>1. << >> \in Maps({s}, Trackers) /\ << >> \in Maps(Lines(s), Nat) /\ DOMAIN << >> = {}
  <2>1. << >> \in Maps({s}, Trackers) BY EmptyMap
  <2>2. << >> \in Maps(Lines(s), Nat) BY EmptyMap
  <2> QED BY <2>1, <2>2
<1> QED BY <1>1 DEF newConsumer, Consumers

LEMMA FirstFollowed ==
  ASSUME NEW s \in Sessions, NEW r, r = Announce(newConsumer, s)
  PROVE  r \in Consumers(s) /\ Following(s, r, {})
<1> DEFINE jt == r.jobs[s]
<1>1. newConsumer \in Consumers(s) /\ DOMAIN newConsumer.jobs = {} /\ DOMAIN newConsumer.log = {}
  BY NewConsumerFacts
<1>2. /\ r \in Consumers(s) /\ r.log = newConsumer.log /\ s \in DOMAIN r.jobs
      /\ jt = [getJob(newConsumer.jobs, s) EXCEPT !.stepTimeouts = StepTimeouts[s]]
  <2>1. ASSUME NEW p \in Consumers(s), p = newConsumer
        PROVE  /\ r \in Consumers(s) /\ r.log = p.log /\ s \in DOMAIN r.jobs
               /\ r.jobs[s] = [getJob(p.jobs, s) EXCEPT !.stepTimeouts = StepTimeouts[s]]
    BY <2>1, AnnounceFacts
  <2> QED BY <1>1, <2>1
<1>3. getJob(newConsumer.jobs, s) = newTracker BY <1>1 DEF getJob
<1>4. jt.stepTimeouts = StepTimeouts[s] /\ jt.pending = {} /\ DOMAIN jt.seen = {}
  BY <1>2, <1>3 DEF newTracker
<1> HIDE DEF jt
<1>5. ASSUME NEW d PROVE Begun(s, d, r.log) = 0 /\ Over(s, d, r.log) = 0
  <2>1. \A l : Times(r.log, l) = 0 BY <1>1, <1>2 DEF Times
  <2> QED BY <2>1 DEF Begun, Over
<1>6. ASSUME NEW d \in STRING PROVE SteadyAt(s, d, jt, r.log, {})
  <2>1. Seen(jt, d) = "unseen" BY <1>4 DEF Seen
  <2>2. d \notin jt.pending BY <1>4
  <2> QED BY <1>5, <2>1, <2>2 DEF SteadyAt
<1>7. Steady(s, jt, r.log, {}) BY <1>6 DEF Steady
<1> QED BY <1>2, <1>4, <1>7 DEF Following, jt

(* After JobDone. *)
Settled(s, p, P) ==
  \A d \in STRING :
    /\ Begun(s, d, p.log) <= 1
    /\ Over(s, d, p.log) > 1 => Erred(s, d, P)
    /\ d \in StepTimeouts[s] /\ Begun(s, d, p.log) = 1 => Over(s, d, p.log) >= 1

LEMMA PendingFacts ==
  ASSUME NEW s, NEW p \in Consumers(s), s \in DOMAIN p.jobs, NEW r, r = logPendingTimeouts(p, s),
         NEW jt, jt = p.jobs[s]
  PROVE  /\ r \in Consumers(s) /\ jt \in Trackers
         /\ \A d : /\ Begun(s, d, p.log) \in Nat /\ Over(s, d, p.log) \in Nat
                   /\ Begun(s, d, r.log) = Begun(s, d, p.log)
                   /\ Over(s, d, r.log) =
                        IF d \in jt.pending THEN Over(s, d, p.log) + 1 ELSE Over(s, d, p.log)
<1> DEFINE D == jt.pending
           log == logLines(p.log, TimeoutLines(s, D))
<1>1. p.jobs \in Maps({s}, Trackers) /\ p.log \in Maps(Lines(s), Nat) BY DEF Consumers
<1>2. jt \in Trackers BY <1>1, MapFacts
<1>3. D \in SUBSET STRING BY <1>2 DEF Trackers
<1>4. r = [p EXCEPT !.log = log] BY DEF logPendingTimeouts, TimeoutLines
<1> HIDE DEF D
<1>5. /\ log \in Maps(Lines(s), Nat)
      /\ \A d : /\ Begun(s, d, p.log) \in Nat /\ Over(s, d, p.log) \in Nat
                /\ Begun(s, d, log) = Begun(s, d, p.log)
                /\ Over(s, d, log) = IF d \in D THEN Over(s, d, p.log) + 1 ELSE Over(s, d, p.log)
  BY <1>1, <1>3, LogTimeouts
<1> HIDE DEF log
<1>6. r \in Consumers(s) /\ r.log = log BY <1>4, <1>5 DEF Consumers
<1> QED BY <1>2, <1>5, <1>6 DEF D

LEMMA DoneSettles ==
  ASSUME NEW s, NEW p \in Consumers(s), NEW P, Following(s, p, P),
         NEW r, r = logPendingTimeouts(p, s)
  PROVE  r \in Consumers(s) /\ Settled(s, r, P)
<1> DEFINE jt == p.jobs[s]
<1>1. s \in DOMAIN p.jobs /\ jt.stepTimeouts = StepTimeouts[s] /\ Steady(s, jt, p.log, P)
  BY DEF Following
<1>2. /\ r \in Consumers(s) /\ jt \in Trackers
      /\ \A d : /\ Begun(s, d, p.log) \in Nat /\ Over(s, d, p.log) \in Nat
                /\ Begun(s, d, r.log) = Begun(s, d, p.log)
                /\ Over(s, d, r.log) =
                     IF d \in jt.pending THEN Over(s, d, p.log) + 1 ELSE Over(s, d, p.log)
  BY <1>1, PendingFacts
<1> HIDE DEF jt
<1>3. ASSUME NEW d \in STRING
      PROVE  /\ Begun(s, d, r.log) <= 1
             /\ Over(s, d, r.log) > 1 => Erred(s, d, P)
             /\ d \in StepTimeouts[s] /\ Begun(s, d, r.log) = 1 => Over(s, d, r.log) >= 1
  <2>1. SteadyAt(s, d, jt, p.log, P) BY <1>1 DEF Steady
  <2>2. Seen(jt, d) \in {"unseen", "started", "done"} BY <1>2, SeenFacts DEF Marks
  <2>3. /\ Begun(s, d, p.log) \in Nat /\ Over(s, d, p.log) \in Nat
        /\ Begun(s, d, r.log) = Begun(s, d, p.log)
        /\ Over(s, d, r.log) =
                     IF d \in jt.pending THEN Over(s, d, p.log) + 1 ELSE Over(s, d, p.log)
    BY <1>2
  <2> QED BY <1>1, <2>1, <2>2, <2>3 DEF SteadyAt
<1> QED BY <1>2, <1>3 DEF Settled

LEMMA ConsumeType ==
  ASSUME NEW s \in Sessions, NEW p \in Consumers(s), NEW m \in Msgs, m.job = s,
         m.kind = "status" => m.n \in DOMAIN Statuses[s]
  PROVE  consume(p, m) \in Consumers(s)
<1>1. CASE m.kind = "added"
  <2>1. consume(p, m) = Announce(p, s) BY <1>1, ConsumeMessage
  <2>2. Announce(p, s) \in Consumers(s) BY AnnounceFacts
  <2> QED BY <2>1, <2>2
<1>2. CASE m.kind = "status"
  <2> DEFINE vs == Statuses[s][m.n]
  <2>1. vs \in Seq(Reports)
    <3>1. Statuses[s] \in Seq(Seq(Reports)) BY SessionAssumption
    <3> QED BY <1>2, <3>1
  <2>2. consume(p, m) = consumeStatus(p, s, vs) BY <1>2, ConsumeMessage
  <2> HIDE DEF vs
  <2>3. PICK u \in [0..Len(vs) -> Consumers(s)] : consumeStatus(p, s, vs) = u[Len(vs)]
    BY <2>1, ConsumeStatusFacts
  <2>4. Len(vs) \in Nat BY <2>1
  <2>5. Len(vs) \in 0..Len(vs) BY <2>4
  <2>6. u[Len(vs)] \in Consumers(s) BY <2>5
  <2> QED BY <2>2, <2>3, <2>6
<1>3. CASE m.kind = "done" /\ s \in DOMAIN p.jobs
  BY <1>3, ConsumeMessage, PendingFacts
<1>4. CASE m.kind = "done" /\ s \notin DOMAIN p.jobs
  BY <1>4, ConsumeMessage
<1>5. CASE m.kind \in {"allowed", "timeout"}
  BY <1>5, ConsumeMessage
<1>6. m.kind \in {"added", "status", "done", "allowed", "timeout"} BY DEF Msgs
<1> QED BY <1>1, <1>2, <1>3, <1>4, <1>5, <1>6

(* The plain display after the first i messages of session s. *)
Journal(s, q, i, p) ==
  /\ p \in Consumers(s)
  /\ i = 0 => p = newConsumer
  /\ i # 0 /\ ~Heard(q, i, "done") => Following(s, p, Positions(s, Told(q, i)))
  /\ Heard(q, i, "done") => Settled(s, p, Positions(s, Told(q, i)))

LEMMA NextEntry ==
  ASSUME NEW s \in Sessions, NEW q, Orderly(s, q), NEW i \in Nat, i + 1 \in DOMAIN q,
         NEW p, Journal(s, q, i, p), NEW r, r = consume(p, q[i + 1])
  PROVE  Journal(s, q, i + 1, r)
<1> DEFINE m == q[i + 1]
           P == Positions(s, Told(q, i))
<1>1. /\ m \in Msgs /\ m.job = s /\ (m.kind = "added" <=> i = 0)
      /\ m.kind = "status" => m.n \in DOMAIN Statuses[s] /\ ~Heard(q, i, "done")
      /\ m.kind = "done" => ~Heard(q, i, "done")
  BY NextMessage
<1>2. /\ \A kind : Heard(q, i + 1, kind) <=> Heard(q, i, kind) \/ m.kind = kind
      /\ m.kind = "status" => Told(q, i + 1) = Told(q, i) \cup {m.n}
      /\ m.kind # "status" => Told(q, i + 1) = Told(q, i)
  BY HeardFacts
<1>3. i + 1 # 0 /\ p \in Consumers(s) BY DEF Journal
<1>4. CASE m.kind = "added"
  <2>1. i = 0 /\ p = newConsumer BY <1>1, <1>4 DEF Journal
  <2>2. r = Announce(newConsumer, s) BY <1>1, <1>4, <2>1, ConsumeMessage
  <2>3. r \in Consumers(s) /\ Following(s, r, {}) BY <2>2, FirstFollowed
  <2>4. ~Heard(q, 0, "done") /\ Told(q, 0) = {} BY HeardFacts
  <2>5. ~Heard(q, i + 1, "done") /\ Told(q, i + 1) = {} BY <1>2, <1>4, <2>1, <2>4
  <2>6. Positions(s, {}) = {} BY DEF Positions
  <2> QED BY <1>3, <2>3, <2>5, <2>6 DEF Journal
<1>5. CASE m.kind = "status"
  <2>1. m.n \in DOMAIN Statuses[s] /\ ~Heard(q, i, "done") /\ i # 0 BY <1>1, <1>5
  <2>2. Following(s, p, P) BY <2>1 DEF Journal
  <2>3. r = consumeStatus(p, s, Statuses[s][m.n]) BY <1>1, <1>5, ConsumeMessage
  <2>4. P \cup Positions(s, {m.n}) = Positions(s, Told(q, i + 1))
    <3>1. Told(q, i + 1) = Told(q, i) \cup {m.n} BY <1>2, <1>5
    <3> HIDE DEF m
    <3> QED BY <3>1 DEF Positions
  <2>5. ~Heard(q, i + 1, "done") BY <1>2, <1>5, <2>1
  <2> HIDE DEF m, P
  <2>6. r \in Consumers(s) /\ Following(s, r, P \cup Positions(s, {m.n}))
    BY <1>3, <2>1, <2>2, <2>3, FollowStatus
  <2> QED BY <1>3, <2>4, <2>5, <2>6 DEF Journal
<1>6. CASE m.kind = "done"
  <2>1. ~Heard(q, i, "done") /\ i # 0 BY <1>1, <1>6
  <2>2. Following(s, p, P) BY <2>1 DEF Journal
  <2>3. s \in DOMAIN p.jobs BY <2>2 DEF Following
  <2>4. r = logPendingTimeouts(p, s) BY <1>1, <1>6, <2>3, ConsumeMessage
  <2>5. r \in Consumers(s) /\ Settled(s, r, P) BY <1>3, <2>2, <2>4, DoneSettles
  <2>6. Heard(q, i + 1, "done") /\ Told(q, i + 1) = Told(q, i) BY <1>2, <1>6
  <2> QED BY <1>3, <2>5, <2>6 DEF Journal
<1>7. CASE m.kind \in {"allowed", "timeout"}
  <2>1. r = p /\ i # 0 BY <1>1, <1>7, ConsumeMessage
  <2>2. Told(q, i + 1) = Told(q, i) /\ (Heard(q, i + 1, "done") <=> Heard(q, i, "done"))
    BY <1>2, <1>7
  <2> QED BY <1>3, <2>1, <2>2 DEF Journal
<1>8. m.kind \in {"added", "status", "done", "allowed", "timeout"} BY <1>1 DEF Msgs
<1> QED BY <1>4, <1>5, <1>6, <1>7, <1>8

LEMMA PlainFacts ==
  ASSUME NEW s \in Sessions, Orderly(s, shown[s])
  PROVE  Journal(s, shown[s], Len(shown[s]), plain(s))
<1> DEFINE q == shown[s]
           N == Len(q)
           V == Consumers(s)
           F == [x \in (1..N) \X V |-> consume(x[2], q[x[1]])]
           upto[i \in 0..N] == IF i = 0 THEN newConsumer ELSE consume(upto[i - 1], q[i])
<1>1. q \in Seq(Msgs) /\ N \in Nat /\ DOMAIN q = 1..N BY DEF Orderly
<1> HIDE DEF V
<1>2. ASSUME NEW i \in 1..N, NEW x \in V
      PROVE  F[<<i, x>>] = consume(x, q[i]) /\ F[<<i, x>>] \in V
  <2>1. F[<<i, x>>] = consume(x, q[i]) OBVIOUS
  <2>2. q[i] \in Msgs BY <1>1
  <2>3. q[i].job = s /\ (q[i].kind = "status" => q[i].n \in DOMAIN Statuses[s]) BY <1>1 DEF Orderly
  <2> HIDE DEF F, q
  <2>4. consume(x, q[i]) \in V BY <2>2, <2>3, ConsumeType DEF V
  <2> QED BY <2>1, <2>4
<1>3. newConsumer \in V BY NewConsumerFacts DEF V
<1>4. PICK g : Table(V, newConsumer, F, N, g)
  <2>1. StaysIn(N, V, F) BY <1>2 DEF StaysIn
  <2> HIDE DEF F, N
  <2> QED BY <1>1, <1>3, <2>1, TableExists
<1>5. /\ g \in [0..N -> V] /\ g[0] = newConsumer
      /\ \A i \in 1..N : g[i] = F[<<i, g[i - 1]>>]
  BY <1>4 DEF Table
<1>6. \A i \in 1..N : g[i] = consume(g[i - 1], q[i])
  <2>1. ASSUME NEW i \in 1..N PROVE i - 1 \in 0..N BY <1>1
  <2>2. \A i \in 0..N : g[i] \in V
    <3> HIDE DEF N
    <3> QED BY <1>5
  <2> QED BY <1>2, <1>5, <2>1, <2>2
<1> HIDE DEF F
<1>7. g = [i \in 0..N |-> IF i = 0 THEN newConsumer ELSE consume(g[i - 1], q[i])]
  <2>1. \A i \in 0..N : g[i] = IF i = 0 THEN newConsumer ELSE consume(g[i - 1], q[i])
    <3>1. \A i \in 0..N : i = 0 \/ i \in 1..N BY <1>1
    <3> QED BY <1>5, <1>6, <3>1
  <2>2. g = [i \in 0..N |-> g[i]] BY <1>5
  <2> QED BY <2>1, <2>2
<1>8. upto = [i \in 0..N |-> IF i = 0 THEN newConsumer ELSE consume(upto[i - 1], q[i])]
  BY <1>7 DEF upto
<1>9. plain(s) = upto[N] BY DEF plain
<1> HIDE DEF upto, N
<1>10. upto[0] = newConsumer /\ \A i \in 1..N : upto[i] = consume(upto[i - 1], q[i])
  <2>1. 0 \in 0..N /\ \A i \in 1..N : i \in 0..N /\ i # 0 BY <1>1
  <2> QED BY <1>8, <2>1
<1> DEFINE S == {i \in Nat : i <= N => Journal(s, q, i, upto[i])}
<1>11. \A i \in Nat : i \in S
  <2>1. 0 \in S
    <3>1. ~Heard(q, 0, "done") BY HeardFacts
    <3>2. Journal(s, q, 0, upto[0]) BY <1>3, <1>10, <3>1 DEF Journal, V
    <3> QED BY <3>2
  <2>2. ASSUME NEW i \in Nat, i \in S PROVE i + 1 \in S
    <3> SUFFICES ASSUME i + 1 <= N PROVE Journal(s, q, i + 1, upto[i + 1]) OBVIOUS
    <3>1. i + 1 \in 1..N /\ (i + 1) - 1 = i /\ i <= N /\ i + 1 \in DOMAIN q BY <1>1
    <3>2. Journal(s, q, i, upto[i]) BY <2>2, <3>1
    <3>3. upto[i + 1] = consume(upto[i], q[i + 1]) BY <1>10, <3>1
    <3>4. Orderly(s, q) OBVIOUS
    <3> HIDE DEF q
    <3> QED BY <3>1, <3>2, <3>3, <3>4, NextEntry
  <2> HIDE DEF S
  <2> QED BY <2>1, <2>2, EveryNat
<1>12. N <= N BY <1>1
<1>13. Journal(s, q, N, upto[N]) BY <1>1, <1>11, <1>12
<1> QED BY <1>9, <1>13 DEF N
-----------------------------------------------------------------------------
(* The screen when the display has stopped.                                  *)

(* All messages of a session have been consumed, and they are in order. *)
LEMMA LastMessages ==
  ASSUME AnnounceInv, display = "stopped", NEW s \in Sessions, NEW q, q = shown[s],
         NEW N, N = Len(q)
  PROVE  /\ Orderly(s, q) /\ N \in Nat \ {0}
         /\ Heard(q, N, "done")
         /\ Told(q, N) \subseteq Real(s)
         /\ s \notin cancelled =>
              /\ Told(q, N) = Real(s) /\ ~Heard(q, N, "timeout")
              /\ Heard(q, N, "allowed") <=> FailureTolerated(s)
<1>1. /\ CompleteInv /\ Domains /\ Channel /\ Goroutines(s) /\ Messages(s) /\ InOrder(s)
      /\ Complete(s) /\ Announced(s)
  BY DEF AnnounceInv, CompleteInv, SessionInv
<1>2. q \in Seq(Msgs) /\ DOMAIN q = 1..N /\ N \in Nat BY <1>1 DEF Domains
<1>3. Sent(s) = {q[k] : k \in 1..N}
  <2>1. ch = << >> BY DEF AnnounceInv
  <2>2. \A k : k \notin DOMAIN ch BY <2>1
  <2> QED BY <1>2, <2>2 DEF Sent
<1>4. caller[s] = "returned" /\ bridge[s] = "exited"
  BY <1>1 DEF Channel, AllBack, Goroutines
<1>5. Added(s) \in Sent(s) /\ Done(s) \in Sent(s) BY <1>1, <1>4 DEF Messages
<1>6. Real(s) \subseteq DOMAIN Statuses[s]
  <2>1. Statuses[s] \in Seq(Seq(Reports)) BY SessionAssumption
  <2>2. total[s] \in Nat /\ total[s] <= Len(Statuses[s]) BY <1>1 DEF Domains
  <2> QED BY <2>1, <2>2 DEF Real
<1>7. \A j, k \in 1..N : j < k => MayPrecede(s, q[j], q[k]) BY <1>1, <1>2 DEF InOrder
<1>8. \A k \in 1..N : q[k].job = s /\ (q[k].kind = "status" => q[k].n \in Real(s))
  BY <1>1, <1>3 DEF Messages, Announced
<1>9. N \in Nat \ {0} /\ q[1].kind = "added"
  <2>1. PICK k \in 1..N : q[k] = Added(s) BY <1>3, <1>5
  <2>2. q[k].kind = "added" BY <2>1 DEF Added
  <2>3. k \in Nat /\ 1 <= k /\ 1 \in 1..N BY <1>2
  <2>4. ~(1 < k) BY <1>7, <2>2, <2>3 DEF MayPrecede
  <2>5. k = 1 BY <2>3, <2>4
  <2> QED BY <1>2, <2>2, <2>3, <2>5
<1>10. Orderly(s, q) BY <1>2, <1>6, <1>7, <1>8, <1>9 DEF Orderly, MayPrecede
<1>11. Heard(q, N, "done")
  <2>1. PICK k \in 1..N : q[k] = Done(s) BY <1>3, <1>5
  <2>2. q[k].kind = "done" BY <2>1 DEF Done
  <2> QED BY <2>2 DEF Heard
<1>12. Told(q, N) = Arrived(s) BY <1>3 DEF Told, Arrived
<1>13. Told(q, N) \subseteq Real(s) BY <1>8 DEF Told
<1>14. ASSUME s \notin cancelled
       PROVE  /\ Told(q, N) = Real(s) /\ ~Heard(q, N, "timeout")
              /\ Heard(q, N, "allowed") <=> FailureTolerated(s)
  <2>1. Told(q, N) = Real(s)
    <3>1. EveryStatusArrives BY <1>1, CompleteWhenBack
    <3> QED BY <1>4, <1>12, <1>14, <3>1 DEF EveryStatusArrives, Arrived
  <2>2. ~Heard(q, N, "timeout") BY <1>1, <1>3, <1>14 DEF Heard, Messages
  <2>3. Heard(q, N, "allowed") <=> s \in noted
    <3>1. Heard(q, N, "allowed") => s \in noted BY <1>1, <1>3 DEF Heard, Messages
    <3>2. ASSUME s \in noted PROVE Heard(q, N, "allowed")
      <4>1. Allowed(s) \in Sent(s) BY <1>1, <3>2 DEF Announced
      <4>2. PICK k \in 1..N : q[k] = Allowed(s) BY <1>3, <4>1
      <4>3. q[k].kind = "allowed" BY <4>2 DEF Allowed
      <4> QED BY <4>3 DEF Heard
    <3> QED BY <3>1, <3>2
  <2>4. s \in srcClosed
    BY <1>1, <1>4, <1>14 DEF Goroutines, DisplayClosed, Complete
  <2>5. s \in noted <=> FailureTolerated(s) BY <1>1, <1>14, <2>4 DEF Announced
  <2> QED BY <2>1, <2>2, <2>3, <2>5
<1> QED BY <1>9, <1>10, <1>11, <1>13, <1>14

LEMMA ScreenTrue == AnnounceInv => ScreenIsTrue
<1> SUFFICES ASSUME AnnounceInv, display = "stopped", NEW s \in Sessions
             PROVE  LET js == tui(s)[s]
                        P  == Positions(s, Real(s))
                    IN
                    /\ js.done
                    /\ s \notin cancelled =>
                         /\ DOMAIN js.vertices = Digests(s, P)
                         /\ \A d \in Digests(s, P) : \E p \in P :
                              /\ Decides(s, d, p, P)
                              /\ js.vertices[d].status = Deserved(s, ReportAt(s, p), Tolerated(s))
                    /\ js.timedOut => \A d \in DOMAIN js.vertices : js.vertices[d].status # "running"
                    /\ \A d \in Digests(s, P) :
                         /\ Starts(s, d) <= 1
                         /\ Ends(s, d) > 1 =>
                              \E p \in P : ReportAt(s, p).digest = d /\ ReportAt(s, p).error # "none"
                         /\ d \in StepTimeouts[s] /\ Starts(s, d) = 1 => Ends(s, d) >= 1
  BY DEF ScreenIsTrue
<1> DEFINE q == shown[s]
           N == Len(q)
           js == tui(s)[s]
           P == Positions(s, Real(s))
           T == Positions(s, Told(q, N))
<1>1. /\ Orderly(s, q) /\ N \in Nat \ {0} /\ Heard(q, N, "done") /\ Told(q, N) \subseteq Real(s)
      /\ s \notin cancelled =>
           /\ Told(q, N) = Real(s) /\ ~Heard(q, N, "timeout")
           /\ Heard(q, N, "allowed") <=> FailureTolerated(s)
  BY LastMessages
<1>2. Picture(s, q, N, tui(s)) BY <1>1, TuiFacts
<1>3. Journal(s, q, N, plain(s)) BY <1>1, PlainFacts
<1>4. /\ DOMAIN tui(s) = {s} /\ tui(s) \in Maps({s}, JobStates)
      /\ js.allowedFailureSet = IF Heard(q, N, "allowed") THEN {Lenient[s]} ELSE {}
      /\ js.done = TRUE <=> Heard(q, N, "done")
      /\ js.timedOut = TRUE <=> Heard(q, N, "timeout")
      /\ ~Heard(q, N, "timeout") => Drawn(s, js, T)
      /\ Heard(q, N, "timeout") =>
            \A d \in DOMAIN js.vertices : js.vertices[d].status # "running"
  <2>1. N # 0 BY <1>1
  <2> QED BY <1>2, <2>1 DEF Picture
<1>5. js \in JobStates BY <1>4, MapFacts
<1>6. js.done \in BOOLEAN /\ js.timedOut \in BOOLEAN BY <1>5 DEF JobStates
<1>7. T \subseteq P BY <1>1 DEF Positions
<1> HIDE DEF js, q, N
<1>8. js.done BY <1>1, <1>4
<1>9. ASSUME s \notin cancelled
      PROVE  /\ DOMAIN js.vertices = Digests(s, P)
             /\ \A d \in Digests(s, P) : \E p \in P :
                  /\ Decides(s, d, p, P)
                  /\ js.vertices[d].status = Deserved(s, ReportAt(s, p), Tolerated(s))
  <2>1. T = P BY <1>1, <1>9
  <2>2. Drawn(s, js, P) BY <1>1, <1>4, <1>9, <2>1
  <2>3. js.allowedFailureSet = Tolerated(s) BY <1>1, <1>4, <1>9 DEF Tolerated
  <2> HIDE DEF P
  <2> QED BY <2>2, <2>3 DEF Drawn
<1>10. js.timedOut => \A d \in DOMAIN js.vertices : js.vertices[d].status # "running"
  BY <1>4, <1>6
<1>11. ASSUME NEW d \in Digests(s, P)
       PROVE  /\ Starts(s, d) <= 1
              /\ Ends(s, d) > 1 =>
                   \E p \in P : ReportAt(s, p).digest = d /\ ReportAt(s, p).error # "none"
              /\ d \in StepTimeouts[s] /\ Starts(s, d) = 1 => Ends(s, d) >= 1
  <2>1. Settled(s, plain(s), T) BY <1>1, <1>3 DEF Journal
  <2>2. d \in STRING
    <3>1. PICK p \in P : d = ReportAt(s, p).digest BY <1>11 DEF Digests
    <3>2. Real(s) \subseteq DOMAIN Statuses[s]
      <4>1. Statuses[s] \in Seq(Seq(Reports)) BY SessionAssumption
      <4>2. total[s] \in Nat /\ total[s] <= Len(Statuses[s])
        BY DEF AnnounceInv, CompleteInv, SessionInv, Domains
      <4> QED BY <4>1, <4>2 DEF Real
    <3>3. p \in AllPositions(s) BY <3>1, <3>2 DEF AllPositions, Positions
    <3>4. ReportAt(s, p) \in Reports BY <3>3, PositionFacts
    <3> QED BY <3>1, <3>4 DEF Reports
  <2>3. Starts(s, d) = Begun(s, d, plain(s).log) /\ Ends(s, d) = Over(s, d, plain(s).log)
    BY DEF Starts, Ends, Begun, Over
  <2>4. /\ Starts(s, d) <= 1
        /\ Ends(s, d) > 1 => Erred(s, d, T)
        /\ d \in StepTimeouts[s] /\ Starts(s, d) = 1 => Ends(s, d) >= 1
    BY <2>1, <2>2, <2>3 DEF Settled
  <2>5. Erred(s, d, T) => \E p \in P : ReportAt(s, p).digest = d /\ ReportAt(s, p).error # "none"
    <3> HIDE DEF P, T
    <3> QED BY <1>7 DEF Erred
  <2> QED BY <2>4, <2>5
<1> QED BY <1>8, <1>9, <1>10, <1>11 DEF js

(* Nothing the solvers said is lost, and the displays draw the right picture  *)
(* from it: every status of an uncancelled session is redacted, collected and *)
(* displayed; when the display has stopped the TUI                            *)
(* (internal/progress/tui/model.go, Update) shows every job as done, every    *)
(* vertex as its first reported end or its progress, a tolerated failure as   *)
(* allowed whether its announcement came before or after it, and nothing of a *)
(* timed-out job as running; and the plain display (plain.go, consume) logged *)
(* no start twice, no end twice but an error's, and an end of every vertex    *)
(* with a timeout that it logged the start of.  For any statuses of any       *)
(* number of sessions, however their messages interleave.                     *)
THEOREM NothingIsLost == Spec => []NothingLost
<1>1. AnnounceInv => NothingLost
  BY ScreenTrue, CompleteWhenBack DEF AnnounceInv, NothingLost
<1> QED BY <1>1, AnnounceInvariant, PTL
=============================================================================
