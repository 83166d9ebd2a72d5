------------------------- MODULE PipelineCtrlProofs -------------------------
(***************************************************************************)
(* Proofs about PipelineCtrl for every set of nodes, every capacity of the *)
(* channels and any number of updates, timers and requests.                *)
(***************************************************************************)
EXTENDS PipelineCtrl, SequenceTheorems, TLAPS

Kinds == {"TimerTick", "CollectTelemetry", "MemoryPressureChanged", "DrainIngress", "Shutdown"}

\* No receiver admits data any more.
IngressClosed == \A r \in Receivers : node[r] # "open"

\* The messages that may be on their way to n: only receivers are drained and told of
\* memory pressure, of a transition that was published, and before the deadline a
\* processor or exporter is told to shut down only after the receivers.
Admissible(n) ==
  {m \in [kind : Kinds, generation : 0..published] :
     /\ m.kind \in {"DrainIngress", "MemoryPressureChanged"} => n \in Receivers
     /\ m.kind = "Shutdown" /\ n \in NonReceivers /\ ~expired => IngressClosed}

\* The messages that may be on their way to the manager: a shutdown that was requested,
\* timer requests, and the reports of receivers that have stopped.
Reportable ==
  {m \in {Msg("Shutdown")} : requested}
    \cup {Request(kind, n) : kind \in TimerRequests, n \in Nodes}
    \cup {Request("ReceiverDrained", r) : r \in {q \in Receivers : node[q] = "stopped"}}

\* The channels of the nodes and the buffer in front of them hold what they may hold.
ChannelsSound ==
  /\ control = [n \in Nodes |-> control[n]] /\ pending_sends = [n \in Nodes |-> pending_sends[n]]
  /\ \A n \in Nodes : /\ control[n] \in Seq(Admissible(n)) /\ Len(control[n]) <= ControlCap
                      /\ pending_sends[n] \in Seq(Admissible(n))

\* So does the runtime-control channel.
ReportsSound == runtime_ctrl \in Seq(Reportable) /\ Len(runtime_ctrl) <= RuntimeCap

\* A receiver that a drain no longer waits for has stopped, and a processor or exporter
\* drains before the deadline only once no receiver admits data.
DrainSound ==
  /\ draining => \A r \in Receivers \ pending_receivers : node[r] = "stopped"
  /\ \A n \in NonReceivers : node[n] = "draining" /\ ~expired => IngressClosed

\* The type invariant without the channels.
StateTyped ==
  /\ pc \in {"head", "select", "ended"} /\ consecutive \in 0..Burst
  /\ node \in [Nodes -> {"open", "draining", "stopped"}]
  /\ generation \in [Receivers -> 0..published] /\ published \in 0..MaxUpdates
  /\ pending_receivers \subseteq Receivers
  /\ tick_timers \subseteq Nodes /\ telemetry_timers \subseteq Nodes
  /\ draining => requested /\ tick_timers = {} /\ telemetry_timers = {}

IInv == StateTyped /\ ChannelsSound /\ ReportsSound /\ DrainSound

-----------------------------------------------------------------------------
(* Sending.                                                                *)

\* Channels and buffers that hold, for n, only messages of X[n].
OutSound(out, X) ==
  /\ out.control = [n \in Nodes |-> out.control[n]] /\ out.pending = [n \in Nodes |-> out.pending[n]]
  /\ \A n \in Nodes : /\ out.control[n] \in Seq(X[n]) /\ Len(out.control[n]) <= ControlCap
                      /\ out.pending[n] \in Seq(X[n])

\* A channel takes as many messages as there are and as it has room for.
LEMMA FittingIs ==
  ASSUME NEW n, NEW S, NEW channel \in Seq(S), NEW msgs \in Seq(S), Len(channel) <= ControlCap
  PROVE  /\ Fitting(n, channel, msgs) \in 0..Len(msgs)
         /\ Len(channel) + Fitting(n, channel, msgs) <= ControlCap
<1>1. /\ Len(channel) \in Nat /\ Len(msgs) \in Nat /\ ControlCap \in Nat
  BY PipelineCtrlAssumption, LenProperties
<1> DEFINE a == ControlCap - Len(channel)
           b == Len(msgs)
<1>2. a \in Nat /\ b \in Nat
  BY <1>1
<1>3. Min({a, b}) \in {a, b} /\ Min({a, b}) <= a /\ Min({a, b}) <= b
  <2>1. \E x \in {a, b} : \A y \in {a, b} : x <= y
    BY <1>2
  <2> HIDE DEF a, b
  <2> QED
    BY <2>1 DEF Min
<1> QED
  BY <1>1, <1>2, <1>3 DEF Fitting

\* A contiguous part of a sequence.
LEMMA PartOf ==
  ASSUME NEW S, NEW m \in Seq(S), NEW j \in 1..(Len(m) + 1), NEW k \in 0..Len(m)
  PROVE  SubSeq(m, j, k) \in Seq(S) /\ (j = 1 => Len(SubSeq(m, j, k)) = k)
<1>1. Len(m) \in Nat /\ \A i \in 1..Len(m) : m[i] \in S
  BY LenProperties, ElementOfSeq
<1>2. j \in Int /\ k \in Int /\ \A i \in j..k : m[i] \in S
  BY <1>1
<1>3. SubSeq(m, j, k) \in Seq(S) /\ Len(SubSeq(m, j, k)) = IF j <= k THEN k - j + 1 ELSE 0
  BY <1>2, SubSeqProperties, Zenon
<1> QED
  BY <1>1, <1>3

\* Sending puts the messages into the channels, within their capacity, or keeps them.
LEMMA SendAllSound ==
  ASSUME NEW X, NEW out, NEW msgs, OutSound(out, X), \A n \in Nodes : msgs[n] \in Seq(X[n])
  PROVE  OutSound(SendAll(out, msgs), X)
<1>1. ASSUME NEW n \in Nodes
      PROVE  /\ SendAll(out, msgs).control[n] \in Seq(X[n])
             /\ Len(SendAll(out, msgs).control[n]) <= ControlCap
             /\ SendAll(out, msgs).pending[n] \in Seq(X[n])
  <2> DEFINE channel == out.control[n]
             m == msgs[n]
             k == Fitting(n, channel, m)
  <2>1. channel \in Seq(X[n]) /\ m \in Seq(X[n]) /\ out.pending[n] \in Seq(X[n]) /\ Len(channel) <= ControlCap
    BY DEF OutSound
  <2>2. k \in 0..Len(m) /\ Len(channel) + k <= ControlCap /\ Len(m) \in Nat /\ Len(channel) \in Nat
    BY <2>1, FittingIs, LenProperties
  <2>4. SubSeq(m, 1, k) \in Seq(X[n]) /\ Len(SubSeq(m, 1, k)) = k
    <3> HIDE DEF k
    <3>1. 1 \in 1..(Len(m) + 1) /\ k \in 0..Len(m)
      BY <2>2
    <3> QED
      BY <2>1, <3>1, PartOf
  <2>5. Refused(n, channel, m) \in Seq(X[n])
    <3> HIDE DEF k
    <3>1. k + 1 \in 1..(Len(m) + 1) /\ Len(m) \in 0..Len(m)
      BY <2>2
    <3>2. SubSeq(m, k + 1, Len(m)) \in Seq(X[n])
      BY <2>1, <3>1, PartOf
    <3>3. << >> \in Seq(X[n])
      OBVIOUS
    <3> QED
      BY <3>2, <3>3 DEF Refused, k
  <2>6. /\ channel \o SubSeq(m, 1, k) \in Seq(X[n])
        /\ Len(channel \o SubSeq(m, 1, k)) = Len(channel) + k
        /\ out.pending[n] \o Refused(n, channel, m) \in Seq(X[n])
    <3> HIDE DEF k
    <3> QED
      BY <2>1, <2>4, <2>5, ConcatProperties, ZenonT(40)
  <2> QED
    BY <2>2, <2>6 DEF SendAll
<1> QED
  BY <1>1 DEF OutSound, SendAll

\* A sequence of one message.
LEMMA SingletonSeq ==
  ASSUME NEW T, NEW m \in T
  PROVE  <<m>> \in Seq(T)
<1>1. << >> \in Seq(T)
  BY EmptySeq
<1>2. Append(<< >>, m) \in Seq(T)
  BY <1>1, AppendProperties
<1>3. Append(<< >>, m) = <<m>>
  OBVIOUS
<1> QED
  BY <1>2, <1>3

\* The same message for each node of a set.
LEMMA ToEachSound ==
  ASSUME NEW X, NEW N, NEW m, \A n \in N \cap Nodes : m \in X[n]
  PROVE  \A n \in Nodes : ToEach(N, m)[n] \in Seq(X[n])
<1>1. ASSUME NEW n \in Nodes PROVE ToEach(N, m)[n] \in Seq(X[n])
  <2>1. CASE n \in N
    <3>1. m \in X[n]
      BY <2>1
    <3>2. <<m>> \in Seq(X[n])
      BY ONLY <3>1, SingletonSeq
    <3> QED
      BY <2>1, <3>2 DEF ToEach
  <2>2. CASE n \notin N
    <3>1. << >> \in Seq(X[n])
      OBVIOUS
    <3> QED
      BY <2>2, <3>1 DEF ToEach
  <2> QED
    BY <2>1, <2>2
<1> QED
  BY <1>1

-----------------------------------------------------------------------------
(* What may be under way only grows.                                       *)

\* The environment and the nodes only move forward.
Forward ==
  /\ published \in Nat /\ published' \in Nat /\ published <= published'
  /\ expired => expired'
  /\ requested => requested'
  /\ \A n \in Nodes : /\ node[n] # "open" => node'[n] # "open"
                      /\ node[n] = "stopped" => node'[n] = "stopped"

\* So a message that was admissible or reportable remains so.
LEMMA AdmissibleGrows ==
  ASSUME Forward
  PROVE  /\ \A n \in Nodes : Admissible(n) \subseteq Admissible(n)'
         /\ Reportable \subseteq Reportable'
         /\ IngressClosed => IngressClosed'
<1>1. IngressClosed => IngressClosed'
  BY DEF Forward, IngressClosed, Nodes
<1>2. 0..published \subseteq 0..published'
  BY DEF Forward
<1>3. \A n \in Nodes : Admissible(n) \subseteq Admissible(n)'
  BY <1>1, <1>2 DEF Forward, Admissible
<1>4. Reportable \subseteq Reportable'
  BY DEF Forward, Reportable, Nodes
<1> QED
  BY <1>1, <1>3, <1>4

\* What the manager holds, seen as admissible after the step.
LEMMA CurrentSound ==
  ASSUME IInv, Forward
  PROVE  /\ OutSound(Current, [n \in Nodes |-> Admissible(n)'])
         /\ OutSound(Retried, [n \in Nodes |-> Admissible(n)'])
<1> DEFINE X == [n \in Nodes |-> Admissible(n)']
<1>1. ASSUME NEW n \in Nodes
      PROVE  /\ control[n] \in Seq(X[n]) /\ Len(control[n]) <= ControlCap
             /\ pending_sends[n] \in Seq(X[n])
  <2>1. Admissible(n) \subseteq Admissible(n)'
    BY AdmissibleGrows
  <2>2. Seq(Admissible(n)) \subseteq Seq(Admissible(n)')
    BY <2>1, SeqMonotonic
  <2> QED
    BY <2>2 DEF IInv, ChannelsSound
<1> HIDE DEF X
<1>2. OutSound(Current, X)
  BY <1>1 DEF OutSound, Current, IInv, ChannelsSound
<1>3. OutSound([control |-> control, pending |-> NothingPending], X)
  BY <1>1 DEF OutSound, NothingPending, IInv, ChannelsSound
<1>4. OutSound(Retried, X)
  BY <1>1, <1>3, SendAllSound DEF Retried
<1> QED
  BY <1>2, <1>4 DEF X

\* Delivering sound channels and buffers.
LEMMA Delivered ==
  ASSUME NEW out, Deliver(out), OutSound(out, [n \in Nodes |-> Admissible(n)'])
  PROVE  ChannelsSound'
BY DEF Deliver, OutSound, ChannelsSound

\* A step that leaves the channels alone.
LEMMA ChannelsKept ==
  ASSUME IInv, Forward, UNCHANGED <<control, pending_sends>>
  PROVE  ChannelsSound'
<1>1. Deliver(Current)
  BY DEF Deliver, Current
<1> QED
  BY <1>1, CurrentSound, Delivered

\* A step that takes the first report, or none.
LEMMA ReportsKept ==
  ASSUME IInv, Forward,
         \/ runtime_ctrl' = runtime_ctrl
         \/ runtime_ctrl' = << >>
         \/ runtime_ctrl # << >> /\ runtime_ctrl' = Tail(runtime_ctrl)
  PROVE  ReportsSound'
<1>1. runtime_ctrl \in Seq(Reportable') /\ Len(runtime_ctrl) <= RuntimeCap /\ RuntimeCap \in Nat
  BY AdmissibleGrows, SeqMonotonic, PipelineCtrlAssumption DEF IInv, ReportsSound
<1>2. << >> \in Seq(Reportable') /\ Len(<< >>) <= RuntimeCap
  BY <1>1, EmptySeq
<1>3. runtime_ctrl # << >> =>
        Tail(runtime_ctrl) \in Seq(Reportable') /\ Len(Tail(runtime_ctrl)) <= RuntimeCap
  BY <1>1, HeadTailProperties, LenProperties
<1> QED
  BY <1>1, <1>2, <1>3 DEF ReportsSound

\* A step that sends a report.
LEMMA ReportSent ==
  ASSUME IInv, Forward, NEW m \in Reportable', SendRuntime(m)
  PROVE  ReportsSound'
<1>1. /\ runtime_ctrl \in Seq(Reportable') /\ Len(runtime_ctrl) < RuntimeCap /\ RuntimeCap \in Nat
      /\ Len(runtime_ctrl) \in Nat
  BY AdmissibleGrows, SeqMonotonic, PipelineCtrlAssumption, LenProperties DEF IInv, ReportsSound, SendRuntime
<1>2. Append(runtime_ctrl, m) \in Seq(Reportable') /\ Len(Append(runtime_ctrl, m)) = Len(runtime_ctrl) + 1
  BY <1>1, AppendProperties
<1> QED
  BY <1>1, <1>2 DEF ReportsSound, SendRuntime

-----------------------------------------------------------------------------
(* Messages the manager sends.                                             *)

\* What the manager may send after a step: a tick or a collection to anyone, a drain or a
\* published transition to receivers, a Shutdown to receivers, and to the others once no
\* receiver admits data or the deadline has passed.
LEMMA Sendable ==
  ASSUME NEW n \in Nodes, published' \in Nat
  PROVE  /\ Msg("TimerTick") \in Admissible(n)' /\ Msg("CollectTelemetry") \in Admissible(n)'
         /\ n \in Receivers => Msg("DrainIngress") \in Admissible(n)'
         /\ n \in Receivers => Pressure(published') \in Admissible(n)'
         /\ (n \in Receivers \/ expired' \/ IngressClosed') => Msg("Shutdown") \in Admissible(n)'
<1>1. 0 \in 0..published' /\ published' \in 0..published'
  OBVIOUS
<1>2. n \in Receivers => n \notin NonReceivers
  BY PipelineCtrlAssumption DEF NonReceivers
<1>3. \A kind \in Kinds : Msg(kind) \in [kind : Kinds, generation : 0..published'] /\ Msg(kind).kind = kind
  BY <1>1 DEF Msg
<1>4. /\ Pressure(published') \in [kind : Kinds, generation : 0..published']
      /\ Pressure(published').kind = "MemoryPressureChanged"
  BY <1>1 DEF Pressure, Kinds
<1>5. /\ "TimerTick" \in Kinds /\ "CollectTelemetry" \in Kinds
      /\ "DrainIngress" \in Kinds /\ "Shutdown" \in Kinds
  BY DEF Kinds
<1>6. Msg("TimerTick") \in Admissible(n)' /\ Msg("CollectTelemetry") \in Admissible(n)'
  BY <1>3, <1>5 DEF Admissible
<1>7. n \in Receivers => Msg("DrainIngress") \in Admissible(n)'
  BY <1>3, <1>5 DEF Admissible
<1>8. n \in Receivers => Pressure(published') \in Admissible(n)'
  BY <1>4 DEF Admissible
<1>9. (n \in Receivers \/ expired' \/ IngressClosed') => Msg("Shutdown") \in Admissible(n)'
  BY <1>2, <1>3, <1>5 DEF Admissible
<1> QED
  BY <1>6, <1>7, <1>8, <1>9

\* Sending one such message to each node of a set.
LEMMA SentToEach ==
  ASSUME NEW out, NEW N, NEW m,
         OutSound(out, [n \in Nodes |-> Admissible(n)']),
         \A n \in N \cap Nodes : m \in Admissible(n)'
  PROVE  OutSound(SendAll(out, ToEach(N, m)), [n \in Nodes |-> Admissible(n)'])
<1> DEFINE X == [n \in Nodes |-> Admissible(n)']
<1>1. \A n \in N \cap Nodes : m \in X[n]
  OBVIOUS
<1> HIDE DEF X
<1>2. \A n \in Nodes : ToEach(N, m)[n] \in Seq(X[n])
  BY <1>1, ToEachSound
<1>3. OutSound(out, X)
  BY DEF X
<1>4. OutSound(SendAll(out, ToEach(N, m)), X)
  BY <1>2, <1>3, SendAllSound
<1> QED
  BY <1>4 DEF X

-----------------------------------------------------------------------------
(* The manager.                                                            *)

\* A step that leaves nodes and environment alone moves nothing backwards.
LEMMA ManagerForward ==
  ASSUME StateTyped, UNCHANGED <<node, published, expired, requested>>
  PROVE  Forward
<1>1. published \in Nat
  BY PipelineCtrlAssumption DEF StateTyped
<1> QED
  BY <1>1 DEF Forward

\* The head of the loop moves buffered messages into the channels, in order.
LEMMA LoopHeadSound ==
  ASSUME IInv, LoopHead
  PROVE  IInv'
<1>1. Forward
  BY ManagerForward DEF IInv, LoopHead, environment
<1>2. StateTyped'
  BY DEF IInv, StateTyped, LoopHead, environment
<1>3. ChannelsSound'
  BY <1>1, CurrentSound, Delivered DEF LoopHead
<1>4. ReportsSound'
  BY <1>1, ReportsKept DEF LoopHead
<1>5. DrainSound'
  BY DEF IInv, DrainSound, IngressClosed, LoopHead, environment
<1> QED
  BY <1>2, <1>3, <1>4, <1>5 DEF IInv

\* Due timers: everyone may be sent a tick or a collection.
LEMMA DueEventsSound ==
  ASSUME IInv, NEW out, NEW T, NEW C, DueEvents(out, T, C),
         out = Current \/ out = Retried
  PROVE  IInv'
<1>1. Forward
  BY ManagerForward DEF IInv, DueEvents
<1>2. StateTyped'
  BY PipelineCtrlAssumption DEF IInv, StateTyped, DueEvents
<1>3. ChannelsSound'
  <2>1. OutSound(out, [n \in Nodes |-> Admissible(n)'])
    BY <1>1, CurrentSound
  <2>2. \A n \in Nodes : Msg("TimerTick") \in Admissible(n)' /\ Msg("CollectTelemetry") \in Admissible(n)'
    BY <1>1, Sendable DEF Forward
  <2>3. OutSound(SendAll(out, ToEach(T, Msg("TimerTick"))), [n \in Nodes |-> Admissible(n)'])
    BY <2>1, <2>2, SentToEach
  <2>4. OutSound(SendAll(SendAll(out, ToEach(T, Msg("TimerTick"))), ToEach(C, Msg("CollectTelemetry"))),
                 [n \in Nodes |-> Admissible(n)'])
    BY <2>2, <2>3, SentToEach
  <2> QED
    BY <2>4, Delivered DEF DueEvents
<1>4. ReportsSound'
  BY <1>1, ReportsKept DEF DueEvents
<1>5. DrainSound'
  BY DEF IInv, DrainSound, IngressClosed, DueEvents
<1> QED
  BY <1>2, <1>3, <1>4, <1>5 DEF IInv

\* At the deadline everyone may be told to shut down.
LEMMA DeadlineReachedSound ==
  ASSUME IInv, DeadlineReached
  PROVE  IInv'
<1>1. Forward
  BY ManagerForward DEF IInv, DeadlineReached, environment
<1>2. StateTyped'
  BY DEF IInv, StateTyped, DeadlineReached, environment
<1>3. ChannelsSound'
  <2> DEFINE out == SendAll(Retried, ToEach(NonReceivers \cup pending_receivers, Msg("Shutdown")))
  <2>1. \A n \in Nodes : Msg("Shutdown") \in Admissible(n)'
    BY <1>1, Sendable DEF Forward, DeadlineReached, environment
  <2>2. OutSound(out, [n \in Nodes |-> Admissible(n)'])
    BY <1>1, <2>1, CurrentSound, SentToEach
  <2>3. control' = out.control /\ pending_sends' = [n \in Nodes |-> << >>]
    BY DEF DeadlineReached, NothingPending
  <2>4. \A n \in Nodes : << >> \in Seq(Admissible(n)')
    BY EmptySeq
  <2> HIDE DEF out
  <2> QED
    BY <2>2, <2>3, <2>4 DEF OutSound, ChannelsSound
<1>4. ReportsSound'
  BY <1>1, ReportsKept DEF DeadlineReached
<1>5. DrainSound'
  BY DEF IInv, DrainSound, IngressClosed, DeadlineReached, environment
<1> QED
  BY <1>2, <1>3, <1>4, <1>5 DEF IInv

\* Taking a runtime-control message.
LEMMA ReceivedSound ==
  ASSUME IInv, NEW kind, Received(kind)
  PROVE  /\ Forward /\ ReportsSound'
         /\ Head(runtime_ctrl) \in Reportable /\ Head(runtime_ctrl).kind = kind
         /\ consecutive' \in 0..Burst /\ pc' = "head"
<1>1. Forward
  BY ManagerForward DEF IInv, Received, environment
<1>2. ReportsSound'
  BY <1>1, ReportsKept DEF Received
<1>3. Head(runtime_ctrl) \in Reportable
  BY HeadTailProperties DEF Received, IInv, ReportsSound
<1>4. consecutive' \in 0..Burst
  BY PipelineCtrlAssumption DEF Received, IInv, StateTyped
<1> QED
  BY <1>1, <1>2, <1>3, <1>4 DEF Received

\* What the reports say: a Shutdown was requested, a drained receiver has stopped.
LEMMA ReportMeans ==
  ASSUME NEW m \in Reportable
  PROVE  /\ m.kind = "Shutdown" => requested
         /\ m.kind = "ReceiverDrained" => m.node \in Receivers /\ node[m.node] = "stopped"
         /\ m.kind \in TimerRequests => m.node \in Nodes
BY DEF Reportable, Msg, Request, TimerRequests

\* The first Shutdown: without receivers there is no ingress to wait for.
LEMMA HandleShutdownSound ==
  ASSUME IInv, HandleShutdown
  PROVE  IInv'
<1>1. Forward /\ ReportsSound' /\ consecutive' \in 0..Burst /\ pc' = "head"
  BY ReceivedSound DEF HandleShutdown
<1>2. requested
  BY ReceivedSound, ReportMeans DEF HandleShutdown
<1>3. UNCHANGED <<forced, node, generation, environment>>
  BY DEF HandleShutdown, Received
<1>4. /\ draining' = TRUE
      /\ pending_receivers' = IF ~draining THEN Receivers ELSE pending_receivers
      /\ tick_timers' = {} /\ telemetry_timers' = {}
  BY DEF HandleShutdown
<1>5. StateTyped'
  BY <1>1, <1>2, <1>3, <1>4 DEF IInv, StateTyped, environment
<1>6. ChannelsSound'
  <2> DEFINE R == IF ~draining THEN Receivers ELSE {}
             N == IF ~draining /\ Receivers = {} THEN NonReceivers ELSE {}
             a == SendAll(Current, ToEach(R, Msg("DrainIngress")))
             b == SendAll(a, ToEach(N, Msg("Shutdown")))
  <2>1. Deliver(b)
    BY DEF HandleShutdown
  <2>2. \A n \in R \cap Nodes : Msg("DrainIngress") \in Admissible(n)'
    BY <1>1, Sendable DEF Forward
  <2>3. \A n \in N \cap Nodes : Msg("Shutdown") \in Admissible(n)'
    BY <1>1, Sendable DEF Forward, IngressClosed
  <2>4. OutSound(a, [n \in Nodes |-> Admissible(n)'])
    <3> HIDE DEF R
    <3> QED
      BY <1>1, <2>2, CurrentSound, SentToEach
  <2> HIDE DEF a, N
  <2>5. OutSound(b, [n \in Nodes |-> Admissible(n)'])
    BY <2>3, <2>4, SentToEach
  <2> HIDE DEF b
  <2> QED
    BY <2>1, <2>5, Delivered
<1>7. DrainSound'
  BY <1>3, <1>4 DEF IInv, DrainSound, IngressClosed, environment
<1> QED
  BY <1>1, <1>5, <1>6, <1>7 DEF IInv

\* The last receiver to report: every receiver has stopped.
LEMMA HandleReceiverDrainedSound ==
  ASSUME IInv, HandleReceiverDrained
  PROVE  IInv'
<1>1. Forward /\ ReportsSound' /\ consecutive' \in 0..Burst /\ pc' = "head"
  BY ReceivedSound DEF HandleReceiverDrained
<1> DEFINE r == Head(runtime_ctrl).node
<1>2. r \in Receivers /\ node[r] = "stopped"
  BY ReceivedSound, ReportMeans DEF HandleReceiverDrained
<1>3. UNCHANGED <<forced, node, generation, environment, draining, tick_timers, telemetry_timers>>
  BY DEF HandleReceiverDrained, Received
<1>4. pending_receivers' = IF draining THEN pending_receivers \ {r} ELSE pending_receivers
  BY DEF HandleReceiverDrained
<1> HIDE DEF r
<1>5. StateTyped'
  BY <1>1, <1>2, <1>3, <1>4 DEF IInv, StateTyped, environment
<1>6. DrainSound'
  BY <1>2, <1>3, <1>4 DEF IInv, DrainSound, IngressClosed, environment
<1>7. ChannelsSound'
  <2> DEFINE out == SendAll(Current, ToEach(NonReceivers, Msg("Shutdown")))
  <2>1. \/ Deliver(Current)
        \/ AllDrained(pending_receivers') /\ Deliver(out)
    BY DEF HandleReceiverDrained
  <2>2. CASE Deliver(Current)
    BY <1>1, <2>2, CurrentSound, Delivered
  <2>3. CASE AllDrained(pending_receivers') /\ Deliver(out)
    <3>1. IngressClosed'
      BY <1>3, <1>6, <2>3 DEF AllDrained, DrainSound, IngressClosed
    <3>2. \A n \in NonReceivers \cap Nodes : Msg("Shutdown") \in Admissible(n)'
      BY <1>1, <3>1, Sendable DEF Forward
    <3>3. OutSound(out, [n \in Nodes |-> Admissible(n)'])
      BY <1>1, <3>2, CurrentSound, SentToEach
    <3> HIDE DEF out
    <3> QED
      BY <2>3, <3>3, Delivered
  <2> QED
    BY <2>1, <2>2, <2>3
<1> QED
  BY <1>1, <1>5, <1>6, <1>7 DEF IInv

\* A timer request moves a timer of a node, and none while the pipeline drains.
LEMMA HandleTimerRequestSound ==
  ASSUME IInv, NEW kind \in TimerRequests, HandleTimerRequest(kind)
  PROVE  IInv'
<1>1. Forward /\ ReportsSound' /\ consecutive' \in 0..Burst /\ pc' = "head"
  BY ReceivedSound DEF HandleTimerRequest
<1> DEFINE n == Head(runtime_ctrl).node
<1>2. n \in Nodes
  BY ReceivedSound, ReportMeans DEF HandleTimerRequest
<1>3. UNCHANGED <<forced, node, generation, environment, pending_sends, draining, pending_receivers, control>>
  BY DEF HandleTimerRequest, Received
<1>4. tick_timers' = TimersAfter(kind, n)[1] /\ telemetry_timers' = TimersAfter(kind, n)[2]
  BY DEF HandleTimerRequest
<1> HIDE DEF n
<1>5. /\ tick_timers' \subseteq Nodes /\ telemetry_timers' \subseteq Nodes
      /\ draining => tick_timers' = tick_timers /\ telemetry_timers' = telemetry_timers
  <2>1. tick_timers \subseteq Nodes /\ telemetry_timers \subseteq Nodes
    BY DEF IInv, StateTyped
  <2>2. CASE draining
    BY <1>4, <2>1, <2>2 DEF TimersAfter, TimerRequests
  <2>3. CASE ~draining
    BY <1>2, <1>4, <2>1, <2>3 DEF TimersAfter, TimerRequests
  <2> QED
    BY <2>2, <2>3
<1>6. StateTyped'
  BY <1>1, <1>3, <1>5 DEF IInv, StateTyped, environment
<1>7. ChannelsSound'
  BY <1>1, <1>3, ChannelsKept
<1>8. DrainSound'
  BY <1>3 DEF IInv, DrainSound, IngressClosed, environment
<1> QED
  BY <1>1, <1>6, <1>7, <1>8 DEF IInv

\* The transition that is forwarded was published, and goes to receivers only.
LEMMA ForwardPressureSound ==
  ASSUME IInv, ForwardPressure
  PROVE  IInv'
<1>1. Forward
  BY ManagerForward DEF IInv, ForwardPressure
<1>2. StateTyped'
  BY DEF IInv, StateTyped, ForwardPressure
<1>3. ChannelsSound'
  <2> DEFINE out == SendAll(Current, ToEach(Receivers, Pressure(published)))
  <2>1. Deliver(out) /\ published' = published
    BY DEF ForwardPressure
  <2>2. \A n \in Receivers \cap Nodes : Pressure(published) \in Admissible(n)'
    BY <1>1, <2>1, Sendable DEF Forward
  <2>3. OutSound(out, [n \in Nodes |-> Admissible(n)'])
    BY <1>1, <2>2, CurrentSound, SentToEach
  <2> HIDE DEF out
  <2> QED
    BY <2>1, <2>3, Delivered
<1>4. ReportsSound'
  BY <1>1, ReportsKept DEF ForwardPressure
<1>5. DrainSound'
  BY DEF IInv, DrainSound, IngressClosed, ForwardPressure
<1> QED
  BY <1>2, <1>3, <1>4, <1>5 DEF IInv

\* A wake-up goes back to the head of the loop.
LEMMA WakeUpSound ==
  ASSUME IInv, WakeUp
  PROVE  IInv'
<1>1. Forward
  BY ManagerForward DEF IInv, WakeUp, environment, nodes
<1>2. StateTyped'
  BY PipelineCtrlAssumption DEF IInv, StateTyped, WakeUp, environment, nodes
<1>3. ChannelsSound'
  BY <1>1, ChannelsKept DEF WakeUp, nodes
<1>4. ReportsSound'
  BY <1>1, ReportsKept DEF WakeUp
<1>5. DrainSound'
  BY DEF IInv, DrainSound, IngressClosed, WakeUp, environment, nodes
<1> QED
  BY <1>2, <1>3, <1>4, <1>5 DEF IInv

\* When everyone has dropped their senders the manager leaves with its buffer.
LEMMA ChannelClosedSound ==
  ASSUME IInv, ChannelClosed
  PROVE  IInv'
<1>1. Forward
  BY ManagerForward DEF IInv, ChannelClosed, environment, nodes
<1>2. StateTyped'
  BY DEF IInv, StateTyped, ChannelClosed, environment, nodes
<1>3. ChannelsSound'
  <2>1. OutSound(Current, [n \in Nodes |-> Admissible(n)'])
    BY <1>1, CurrentSound
  <2>2. control' = Current.control /\ pending_sends' = [n \in Nodes |-> << >>]
    BY DEF ChannelClosed, NothingPending, Current, nodes
  <2>3. \A n \in Nodes : << >> \in Seq(Admissible(n)')
    BY EmptySeq
  <2> QED
    BY <2>1, <2>2, <2>3 DEF OutSound, ChannelsSound
<1>4. ReportsSound'
  BY <1>1, ReportsKept DEF ChannelClosed
<1>5. DrainSound'
  BY DEF IInv, DrainSound, IngressClosed, ChannelClosed, environment, nodes
<1> QED
  BY <1>2, <1>3, <1>4, <1>5 DEF IInv

-----------------------------------------------------------------------------
(* The controller, the memory limiter and the clock.                       *)

\* The request for a shutdown reaches the manager as a message.
LEMMA RequestShutdownSound ==
  ASSUME IInv, RequestShutdown
  PROVE  IInv'
<1>1. published \in Nat
  BY PipelineCtrlAssumption DEF IInv, StateTyped
<1>2. Forward
  BY <1>1 DEF Forward, RequestShutdown, nodes
<1>3. StateTyped'
  BY DEF IInv, StateTyped, RequestShutdown, manager, nodes
<1>4. ChannelsSound'
  BY <1>2, ChannelsKept DEF RequestShutdown, manager, nodes
<1>5. Msg("Shutdown") \in Reportable'
  BY DEF Reportable, RequestShutdown
<1>6. ReportsSound'
  BY <1>2, <1>5, ReportSent DEF RequestShutdown
<1>7. DrainSound'
  BY DEF IInv, DrainSound, IngressClosed, RequestShutdown, manager, nodes
<1> QED
  BY <1>3, <1>4, <1>6, <1>7 DEF IInv

\* The passing of the deadline only permits more.
LEMMA DeadlinePassesSound ==
  ASSUME IInv, DeadlinePasses
  PROVE  IInv'
<1>1. published \in Nat
  BY PipelineCtrlAssumption DEF IInv, StateTyped
<1>2. Forward
  BY <1>1 DEF Forward, DeadlinePasses, nodes
<1>3. StateTyped'
  BY DEF IInv, StateTyped, DeadlinePasses, manager, nodes
<1>4. ChannelsSound'
  BY <1>2, ChannelsKept DEF DeadlinePasses, manager, nodes
<1>5. ReportsSound'
  BY <1>2, ReportsKept DEF DeadlinePasses
<1>6. DrainSound'
  BY DEF IInv, DrainSound, IngressClosed, DeadlinePasses, manager, nodes
<1> QED
  BY <1>3, <1>4, <1>5, <1>6 DEF IInv

\* A new transition of memory pressure.
LEMMA PublishPressureSound ==
  ASSUME IInv, PublishPressure
  PROVE  IInv'
<1>1. /\ published \in Nat /\ published' = published + 1 /\ published' \in 0..MaxUpdates
      /\ 0..published \subseteq 0..published'
  BY PipelineCtrlAssumption DEF IInv, StateTyped, PublishPressure
<1>2. Forward
  BY <1>1 DEF Forward, PublishPressure, nodes
<1>3. StateTyped'
  <2>1. generation' \in [Receivers -> 0..published']
    BY <1>1 DEF IInv, StateTyped, PublishPressure, nodes
  <2> QED
    BY <1>1, <2>1 DEF IInv, StateTyped, PublishPressure, manager, nodes
<1>4. ChannelsSound'
  BY <1>2, ChannelsKept DEF PublishPressure, manager, nodes
<1>5. ReportsSound'
  BY <1>2, ReportsKept DEF PublishPressure
<1>6. DrainSound'
  BY DEF IInv, DrainSound, IngressClosed, PublishPressure, manager, nodes
<1> QED
  BY <1>3, <1>4, <1>5, <1>6 DEF IInv

\* A timer request reaches the manager as a message.
LEMMA RequestTimerSound ==
  ASSUME IInv, NEW n \in Timed, NEW kind \in TimerRequests, RequestTimer(n, kind)
  PROVE  IInv'
<1>1. Forward
  BY ManagerForward DEF IInv, RequestTimer, nodes
<1>2. StateTyped'
  BY DEF IInv, StateTyped, RequestTimer, manager, nodes
<1>3. ChannelsSound'
  BY <1>1, ChannelsKept DEF RequestTimer, manager, nodes
<1>4. Request(kind, n) \in Reportable'
  BY PipelineCtrlAssumption DEF Reportable, Nodes, NonReceivers
<1>5. ReportsSound'
  BY <1>1, <1>4, ReportSent DEF RequestTimer
<1>6. DrainSound'
  BY DEF IInv, DrainSound, IngressClosed, RequestTimer, manager, nodes
<1> QED
  BY <1>2, <1>3, <1>5, <1>6 DEF IInv

-----------------------------------------------------------------------------
(* The nodes.                                                              *)

\* A step of one node keeps the channels sound if its own channel stays so.
LEMMA ChannelOf ==
  ASSUME IInv, Forward, NEW n \in Nodes, NEW s,
         s \in Seq(Admissible(n)), Len(s) <= ControlCap,
         control' = [control EXCEPT ![n] = s], pending_sends' = pending_sends
  PROVE  ChannelsSound'
<1>1. OutSound(Current, [k \in Nodes |-> Admissible(k)'])
  BY CurrentSound
<1>2. s \in Seq(Admissible(n)')
  BY AdmissibleGrows, SeqMonotonic
<1>3. ASSUME NEW k \in Nodes
      PROVE  /\ control'[k] \in Seq(Admissible(k)') /\ Len(control'[k]) <= ControlCap
             /\ pending_sends'[k] \in Seq(Admissible(k)')
  BY <1>1, <1>2 DEF OutSound, Current
<1>4. control' = [k \in Nodes |-> control'[k]] /\ pending_sends' = [k \in Nodes |-> pending_sends'[k]]
  BY DEF IInv, ChannelsSound
<1> QED
  BY <1>3, <1>4 DEF ChannelsSound

\* A control message: only receivers are drained or apply pressure, and a processor or
\* exporter latches a Shutdown only when it may.
LEMMA HandleControlSound ==
  ASSUME IInv, NEW n \in Nodes, HandleControl(n)
  PROVE  IInv' /\ \A r \in Receivers : generation'[r] >= generation[r]
<1> DEFINE msg == Head(control[n])
           s == IF After(n, msg) = "stopped" THEN << >> ELSE Tail(control[n])
<1>1. /\ node[n] # "stopped" /\ node \in [Nodes -> {"open", "draining", "stopped"}]
      /\ control[n] # << >> /\ control[n] \in Seq(Admissible(n)) /\ Len(control[n]) <= ControlCap
  BY DEF HandleControl, IInv, StateTyped, ChannelsSound
<1>2. /\ msg \in Admissible(n)
      /\ Tail(control[n]) \in Seq(Admissible(n)) /\ Len(Tail(control[n])) <= ControlCap
  BY <1>1, HeadTailProperties, LenProperties, PipelineCtrlAssumption
<1>3. /\ node' = [node EXCEPT ![n] = After(n, msg)]
      /\ control' = [control EXCEPT ![n] = s]
      /\ generation' = IF msg.kind = "MemoryPressureChanged"
                       THEN [generation EXCEPT ![n] = Applied(generation[n], msg.generation)]
                       ELSE generation
      /\ UNCHANGED <<manager, runtime_ctrl, environment>>
  BY DEF HandleControl, IInv, ChannelsSound, StateTyped
<1>4. << >> \in Seq(Admissible(n)) /\ Len(<< >>) <= ControlCap
  BY EmptySeq, PipelineCtrlAssumption
<1>5. s \in Seq(Admissible(n)) /\ Len(s) <= ControlCap
  BY <1>2, <1>4
<1> HIDE DEF msg, s
<1>6. /\ msg.kind \in Kinds /\ msg.generation \in 0..published
      /\ msg.kind \in {"DrainIngress", "MemoryPressureChanged"} => n \in Receivers
      /\ msg.kind = "Shutdown" /\ n \in NonReceivers /\ ~expired => IngressClosed
  BY <1>2 DEF Admissible
<1>7. /\ After(n, msg) \in {"open", "draining", "stopped"}
      /\ node[n] # "open" => After(n, msg) # "open"
      /\ After(n, msg) = "draining" => node[n] = "draining" \/ msg.kind \in {"Shutdown", "DrainIngress"}
  BY <1>1 DEF After
<1>8. published \in Nat /\ \A r \in Receivers : generation[r] \in 0..published
  BY PipelineCtrlAssumption DEF IInv, StateTyped
<1>9. Forward
  BY <1>1, <1>3, <1>7, <1>8 DEF Forward, environment
<1>10. generation' \in [Receivers -> 0..published] /\ \A r \in Receivers : generation'[r] >= generation[r]
  <2>1. CASE msg.kind = "MemoryPressureChanged"
    <3>1. n \in Receivers
      BY <1>6, <2>1
    <3>2. /\ Applied(generation[n], msg.generation) \in 0..published
          /\ Applied(generation[n], msg.generation) >= generation[n]
      BY <1>6, <1>8, <3>1 DEF Applied
    <3>3. generation \in [Receivers -> 0..published]
      BY DEF IInv, StateTyped
    <3>4. generation' = [generation EXCEPT ![n] = Applied(generation[n], msg.generation)]
      BY <1>3, <2>1
    <3> QED
      BY <1>8, <3>1, <3>2, <3>3, <3>4
  <2>2. CASE msg.kind # "MemoryPressureChanged"
    BY <1>3, <1>8, <2>2 DEF IInv, StateTyped
  <2> QED
    BY <2>1, <2>2
<1>11. StateTyped'
  BY <1>1, <1>3, <1>7, <1>10 DEF IInv, StateTyped, manager, environment
<1>12. ChannelsSound'
  BY <1>3, <1>5, <1>9, ChannelOf DEF manager
<1>13. ReportsSound'
  BY <1>3, <1>9, ReportsKept
<1>14. DrainSound'
  <2>1. draining' => \A r \in Receivers \ pending_receivers' : node'[r] = "stopped"
    BY <1>3, <1>9 DEF IInv, DrainSound, Forward, Nodes, manager
  <2>2. ASSUME NEW k \in NonReceivers, node'[k] = "draining", ~expired'
        PROVE  IngressClosed'
    <3>1. k \in Nodes /\ ~expired /\ k \notin Receivers
      BY <1>3, <2>2, PipelineCtrlAssumption DEF Nodes, NonReceivers, environment
    <3>2. node[k] = "draining" \/ (k = n /\ msg.kind = "Shutdown")
      BY <1>1, <1>3, <1>6, <1>7, <2>2, <3>1
    <3>3. IngressClosed
      BY <1>6, <3>1, <3>2, <2>2 DEF IInv, DrainSound
    <3> QED
      BY <1>9, <3>3, AdmissibleGrows
  <2> QED
    BY <2>1, <2>2 DEF DrainSound
<1> QED
  BY <1>10, <1>11, <1>12, <1>13, <1>14 DEF IInv

\* A node that stops.
LEMMA StopSound ==
  ASSUME IInv, NEW n \in Nodes, Stop(n)
  PROVE  Forward /\ StateTyped' /\ ChannelsSound' /\ DrainSound' /\ node'[n] = "stopped"
<1>1. /\ node \in [Nodes -> {"open", "draining", "stopped"}]
      /\ node' = [node EXCEPT ![n] = "stopped"] /\ control' = [control EXCEPT ![n] = << >>]
      /\ UNCHANGED <<manager, generation, environment>>
  BY DEF Stop, IInv, StateTyped
<1>2. published \in Nat
  BY PipelineCtrlAssumption DEF IInv, StateTyped
<1>3. Forward
  BY <1>1, <1>2 DEF Forward, environment
<1>4. StateTyped'
  BY <1>1 DEF IInv, StateTyped, manager, environment
<1>5. << >> \in Seq(Admissible(n)) /\ Len(<< >>) <= ControlCap
  BY EmptySeq, PipelineCtrlAssumption
<1>6. ChannelsSound'
  BY <1>1, <1>3, <1>5, ChannelOf DEF manager
<1>7. DrainSound'
  <2>1. draining' => \A r \in Receivers \ pending_receivers' : node'[r] = "stopped"
    BY <1>1, <1>3 DEF IInv, DrainSound, Forward, Nodes, manager
  <2>2. ASSUME NEW k \in NonReceivers, node'[k] = "draining", ~expired'
        PROVE  IngressClosed'
    <3>1. node[k] = "draining" /\ ~expired
      BY <1>1, <2>2 DEF Nodes, environment
    <3> QED
      BY <1>3, <3>1, AdmissibleGrows DEF IInv, DrainSound
  <2> QED
    BY <2>1, <2>2 DEF DrainSound
<1> QED
  BY <1>1, <1>3, <1>4, <1>6, <1>7

\* A receiver has stopped when its report is sent.
LEMMA FinishDrainSound ==
  ASSUME IInv, NEW r \in Receivers, FinishDrain(r)
  PROVE  IInv'
<1>1. r \in Nodes /\ Stop(r)
  BY DEF FinishDrain, Nodes
<1>2. Forward /\ StateTyped' /\ ChannelsSound' /\ DrainSound' /\ node'[r] = "stopped"
  BY <1>1, StopSound
<1>3. ReportsSound'
  <2>1. CASE SendRuntime(Request("ReceiverDrained", r))
    <3>1. Request("ReceiverDrained", r) \in Reportable'
      BY <1>2 DEF Reportable
    <3> QED
      BY <1>2, <2>1, <3>1, ReportSent
  <2>2. CASE UNCHANGED runtime_ctrl
    BY <1>2, <2>2, ReportsKept
  <2> QED
    BY <2>1, <2>2 DEF FinishDrain
<1> QED
  BY <1>2, <1>3 DEF IInv

\* A node that stops without a report.
LEMMA SilentStopSound ==
  ASSUME IInv, NEW n \in Nodes, Stop(n), UNCHANGED runtime_ctrl
  PROVE  IInv'
BY StopSound, ReportsKept DEF IInv

-----------------------------------------------------------------------------
(* Invariance.                                                             *)

\* Every initial state satisfies the inductive invariant.
LEMMA InitIInv ==
  ASSUME Init
  PROVE  IInv
<1>1. StateTyped
  BY PipelineCtrlAssumption DEF Init, StateTyped
<1>2. ChannelsSound
  <2>1. \A n \in Nodes : << >> \in Seq(Admissible(n)) /\ Len(<< >>) <= ControlCap
    BY EmptySeq, PipelineCtrlAssumption
  <2> QED
    BY <2>1 DEF Init, ChannelsSound
<1>3. ReportsSound
  BY EmptySeq, PipelineCtrlAssumption DEF Init, ReportsSound
<1>4. DrainSound
  BY DEF Init, DrainSound, Nodes
<1> QED
  BY <1>1, <1>2, <1>3, <1>4 DEF IInv

\* Steps in which nothing happens.
LEMMA StutterIInv ==
  ASSUME IInv, UNCHANGED vars
  PROVE  IInv'
<1>1. Forward
  BY ManagerForward DEF IInv, vars, nodes, environment
<1>2. StateTyped' /\ DrainSound'
  BY DEF IInv, StateTyped, DrainSound, IngressClosed, vars, manager, nodes, environment
<1>3. ChannelsSound' /\ ReportsSound'
  BY <1>1, ChannelsKept, ReportsKept DEF vars, manager, nodes
<1> QED
  BY <1>2, <1>3 DEF IInv

\* Every step preserves the inductive invariant and takes no receiver back to an older
\* transition of memory pressure.
LEMMA StepIInv ==
  ASSUME IInv, [Next]_vars
  PROVE  IInv' /\ \A r \in Receivers : generation'[r] >= generation[r]
<1>1. \A r \in Receivers : generation[r] \in Nat
  BY PipelineCtrlAssumption DEF IInv, StateTyped
<1>2. CASE UNCHANGED generation /\ IInv'
  BY <1>1, <1>2
<1>3. CASE UNCHANGED vars
  BY <1>2, <1>3, StutterIInv DEF vars, nodes
<1>4. CASE ManagerStep
  <2>1. UNCHANGED generation
    BY <1>4 DEF ManagerStep, LoopHead, DeadlineReached, HandleShutdown, HandleReceiverDrained,
                HandleTimerRequest, Received, ForwardPressure, WakeUp, ChannelClosed, nodes
  <2>2. IInv'
    BY <1>4, LoopHeadSound, DeadlineReachedSound, HandleShutdownSound, HandleReceiverDrainedSound,
       HandleTimerRequestSound, ForwardPressureSound, WakeUpSound, ChannelClosedSound DEF ManagerStep
  <2> QED
    BY <1>2, <2>1, <2>2
<1>5. CASE DuePass
  <2>1. PICK T, C \in SUBSET Timed : BurstPass(T, C) \/ TimersDue(T, C)
    BY <1>5 DEF DuePass
  <2>2. IInv'
    BY <2>1, DueEventsSound DEF BurstPass, TimersDue
  <2>3. UNCHANGED generation
    BY <2>1 DEF BurstPass, TimersDue, DueEvents
  <2> QED
    BY <1>2, <2>2, <2>3
<1>6. CASE NodeStep
  <2>1. CASE \E n \in Nodes : HandleControl(n)
    BY <2>1, HandleControlSound
  <2>2. CASE \E r \in Receivers : FinishDrain(r)
    BY <1>2, <2>2, FinishDrainSound DEF FinishDrain, Stop
  <2>3. CASE \E n \in NonReceivers : NodeEnds(n)
    BY <1>2, <2>3, SilentStopSound DEF NodeEnds, Stop, Nodes
  <2> QED
    BY <1>6, <2>1, <2>2, <2>3 DEF NodeStep
<1>7. CASE Environment
  <2>1. CASE RequestShutdown
    BY <1>2, <2>1, RequestShutdownSound DEF RequestShutdown, nodes
  <2>2. CASE DeadlinePasses
    BY <1>2, <2>2, DeadlinePassesSound DEF DeadlinePasses, nodes
  <2>3. CASE PublishPressure
    BY <1>2, <2>3, PublishPressureSound DEF PublishPressure, nodes
  <2>4. CASE \E n \in Timed, kind \in TimerRequests : RequestTimer(n, kind)
    BY <1>2, <2>4, RequestTimerSound DEF RequestTimer, nodes
  <2>5. CASE \E r \in Receivers : ReceiverReturns(r)
    BY <1>2, <2>5, SilentStopSound DEF ReceiverReturns, Stop, Nodes
  <2> QED
    BY <1>7, <2>1, <2>2, <2>3, <2>4, <2>5 DEF Environment
<1> QED
  BY <1>3, <1>4, <1>5, <1>6, <1>7 DEF Next

\* The inductive invariant holds in every reachable state.
THEOREM Invariance == Spec => []IInv
<1>1. Init => IInv
  BY InitIInv
<1>2. IInv /\ [Next]_vars => IInv'
  BY StepIInv
<1> QED
  BY <1>1, <1>2, PTL DEF Spec

\* Type correctness of the manager, the nodes and their channels: no channel exceeds its
\* capacity, a drain was requested, and no timer is live while the pipeline drains.
THEOREM TypeCorrect == Spec => []TypeOK
<1>1. IInv => TypeOK
  BY DEF IInv, StateTyped, ChannelsSound, ReportsSound, TypeOK
<1> QED
  BY <1>1, Invariance, PTL

\* Receiver-first shutdown: before the deadline no processor or exporter is told to shut
\* down, or has latched a Shutdown, while a receiver still admits data.
THEOREM ReceiverFirst == Spec => []DownstreamAfterIngress
<1>1. ASSUME IInv PROVE DownstreamAfterIngress
  <2> SUFFICES ASSUME NEW n \in NonReceivers, ~expired,
                      node[n] = "draining" \/ Msg("Shutdown") \in Underway(n)
               PROVE  IngressClosed
    BY DEF DownstreamAfterIngress, IngressClosed
  <2>1. CASE node[n] = "draining"
    BY <1>1, <2>1 DEF IInv, DrainSound
  <2>2. CASE Msg("Shutdown") \in Underway(n)
    <3> DEFINE all == control[n] \o pending_sends[n]
    <3>1. control[n] \in Seq(Admissible(n)) /\ pending_sends[n] \in Seq(Admissible(n))
      BY <1>1 DEF IInv, ChannelsSound, Nodes
    <3>2. all \in Seq(Admissible(n))
      BY <3>1, ConcatProperties
    <3> HIDE DEF all
    <3>3. \A i \in DOMAIN all : all[i] \in Admissible(n)
      BY <3>2, ElementOfSeq, LenProperties
    <3>4. Msg("Shutdown") \in Admissible(n)
      BY <2>2, <3>3 DEF Underway, ToSet, all
    <3> QED
      BY <3>4 DEF Admissible, Msg
  <2> QED
    BY <2>1, <2>2
<1> QED
  BY <1>1, Invariance, PTL

\* Memory pressure at a receiver never goes back to an older transition, although a direct
\* send may overtake a buffered one (the safety half of PressureFollows).
THEOREM PressureMonotonic == Spec => [][\A r \in Receivers : generation'[r] >= generation[r]]_vars
<1>1. IInv /\ [Next]_vars => [\A r \in Receivers : generation'[r] >= generation[r]]_vars
  BY StepIInv
<1> QED
  BY <1>1, Invariance, PTL DEF Spec

-----------------------------------------------------------------------------
(* Nobody is left uninformed: what is on its way to a node stays on its    *)
(* way until the node takes it, whichever of channel and buffer holds it.  *)

\* The messages there are, whoever they may be for.
Messages == [kind : Kinds, generation : Nat]
AllMsgs == [n \in Nodes |-> Messages]

\* What `out` has on its way to n.
On(out, n) == ToSet(out.control[n] \o out.pending[n])

\* The messages of a concatenation.
LEMMA ToSetConcat ==
  ASSUME NEW S, NEW s \in Seq(S), NEW t \in Seq(S)
  PROVE  ToSet(s \o t) = ToSet(s) \cup ToSet(t)
<1>1. /\ Len(s) \in Nat /\ Len(t) \in Nat /\ DOMAIN s = 1..Len(s) /\ DOMAIN t = 1..Len(t)
  BY LenProperties
<1>2. /\ s \o t \in Seq(S) /\ Len(s \o t) = Len(s) + Len(t)
      /\ \A i \in 1..(Len(s) + Len(t)) : (s \o t)[i] = IF i <= Len(s) THEN s[i] ELSE t[i - Len(s)]
  BY ConcatProperties
<1>3. DOMAIN (s \o t) = 1..(Len(s) + Len(t))
  BY <1>2, LenProperties
<1>4. PICK u : u = s \o t
  OBVIOUS
<1>5. ASSUME NEW i \in 1..(Len(s) + Len(t)) PROVE u[i] \in ToSet(s) \cup ToSet(t)
  <2>1. CASE i <= Len(s)
    <3>1. i \in DOMAIN s /\ u[i] = s[i]
      BY <1>1, <1>2, <1>4, <2>1
    <3> QED
      BY <3>1 DEF ToSet
  <2>2. CASE ~(i <= Len(s))
    <3>1. i - Len(s) \in DOMAIN t /\ u[i] = t[i - Len(s)]
      BY <1>1, <1>2, <1>4, <2>2
    <3> QED
      BY <3>1 DEF ToSet
  <2> QED
    BY <2>1, <2>2
<1>6. ASSUME NEW i \in DOMAIN s PROVE s[i] \in ToSet(u)
  <2>1. i \in DOMAIN u /\ u[i] = s[i]
    BY <1>1, <1>2, <1>3, <1>4
  <2> QED
    BY <2>1 DEF ToSet
<1>7. ASSUME NEW i \in DOMAIN t PROVE t[i] \in ToSet(u)
  <2>1. /\ i + Len(s) \in DOMAIN u /\ u[i + Len(s)] = t[i]
    <3>1. i + Len(s) \in 1..(Len(s) + Len(t)) /\ ~(i + Len(s) <= Len(s)) /\ (i + Len(s)) - Len(s) = i
      BY <1>1
    <3> QED
      BY <1>2, <1>3, <1>4, <3>1
  <2> QED
    BY <2>1 DEF ToSet
<1>8. ToSet(u) \subseteq ToSet(s) \cup ToSet(t)
  BY <1>3, <1>4, <1>5 DEF ToSet
<1>9. ToSet(s) \subseteq ToSet(u) /\ ToSet(t) \subseteq ToSet(u)
  BY <1>6, <1>7 DEF ToSet
<1> QED
  BY <1>4, <1>8, <1>9

\* Cutting a sequence in two loses none of its messages.
LEMMA ToSetSplit ==
  ASSUME NEW S, NEW m \in Seq(S), NEW k \in 0..Len(m)
  PROVE  ToSet(m) \subseteq ToSet(SubSeq(m, 1, k)) \cup ToSet(SubSeq(m, k + 1, Len(m)))
<1>1. Len(m) \in Nat /\ DOMAIN m = 1..Len(m) /\ \A i \in 1..Len(m) : m[i] \in S
  BY LenProperties, ElementOfSeq
<1>2. PICK u : u = SubSeq(m, 1, k)
  OBVIOUS
<1>3. PICK v : v = SubSeq(m, k + 1, Len(m))
  OBVIOUS
<1>4. /\ u \in Seq(S) /\ Len(u) = k /\ \A i \in 1..k : u[i] = m[i]
  <2>1. 1 \in Int /\ k \in Int /\ \A i \in 1..k : m[i] \in S
    BY <1>1
  <2>2. /\ SubSeq(m, 1, k) \in Seq(S)
        /\ Len(SubSeq(m, 1, k)) = IF 1 <= k THEN k - 1 + 1 ELSE 0
        /\ \A i \in 1..(k - 1 + 1) : SubSeq(m, 1, k)[i] = m[1 + i - 1]
    BY <2>1, SubSeqProperties
  <2> QED
    BY <1>1, <1>2, <2>2
<1>5. /\ v \in Seq(S) /\ Len(v) = Len(m) - k /\ \A i \in 1..(Len(m) - k) : v[i] = m[k + i]
  <2>1. k + 1 \in Int /\ Len(m) \in Int /\ \A i \in (k + 1)..Len(m) : m[i] \in S
    BY <1>1
  <2>2. /\ SubSeq(m, k + 1, Len(m)) \in Seq(S)
        /\ Len(SubSeq(m, k + 1, Len(m))) = IF k + 1 <= Len(m) THEN Len(m) - (k + 1) + 1 ELSE 0
        /\ \A i \in 1..(Len(m) - (k + 1) + 1) : SubSeq(m, k + 1, Len(m))[i] = m[(k + 1) + i - 1]
    BY <2>1, SubSeqProperties
  <2>3. /\ v \in Seq(S) /\ Len(v) = IF k + 1 <= Len(m) THEN Len(m) - (k + 1) + 1 ELSE 0
        /\ \A i \in 1..(Len(m) - (k + 1) + 1) : v[i] = m[(k + 1) + i - 1]
    BY <1>3, <2>2
  <2>4. PICK e : e = Len(m)
    OBVIOUS
  <2>5. Len(v) = e - k /\ \A i \in 1..(e - k) : i \in 1..(e - (k + 1) + 1) /\ (k + 1) + i - 1 = k + i
    <3>1. e \in Nat /\ k \in 0..e
      BY <1>1, <2>4
    <3>2. Len(v) = IF k + 1 <= e THEN e - (k + 1) + 1 ELSE 0
      BY <2>3, <2>4
    <3> QED
      BY ONLY <3>1, <3>2
  <2>6. \A i \in 1..(e - k) : v[i] = m[k + i]
    BY <2>3, <2>4, <2>5
  <2> QED
    BY <2>3, <2>4, <2>5, <2>6
<1>6. DOMAIN u = 1..k /\ DOMAIN v = 1..(Len(m) - k)
  BY <1>4, <1>5, LenProperties
<1>7. ASSUME NEW i \in 1..Len(m) PROVE m[i] \in ToSet(u) \cup ToSet(v)
  <2>1. CASE i <= k
    <3>1. i \in DOMAIN u /\ u[i] = m[i]
      BY <1>4, <1>6, <2>1
    <3> QED
      BY <3>1 DEF ToSet
  <2>2. CASE ~(i <= k)
    <3>1. i - k \in DOMAIN v /\ v[i - k] = m[i]
      <4>1. i - k \in 1..(Len(m) - k) /\ k + (i - k) = i
        BY <1>1, <2>2
      <4> QED
        BY <1>5, <1>6, <4>1
    <3> QED
      BY <3>1 DEF ToSet
  <2> QED
    BY <2>1, <2>2
<1>8. ToSet(m) \subseteq ToSet(u) \cup ToSet(v)
  BY <1>1, <1>7 DEF ToSet
<1> QED
  BY <1>2, <1>3, <1>8

\* Sending adds the messages to what is on its way to a node that has not stopped.
LEMMA SendKeeps ==
  ASSUME NEW X, NEW out, NEW msgs, OutSound(out, X), NEW n \in Nodes, msgs[n] \in Seq(X[n]),
         node[n] # "stopped"
  PROVE  On(out, n) \cup ToSet(msgs[n]) \subseteq On(SendAll(out, msgs), n)
<1>1. PICK S : S = X[n]
  OBVIOUS
<1>2. PICK c \in Seq(S) : c = out.control[n] /\ Len(c) <= ControlCap
  BY <1>1 DEF OutSound
<1>3. PICK p \in Seq(S) : p = out.pending[n]
  BY <1>1 DEF OutSound
<1>4. PICK m \in Seq(S) : m = msgs[n]
  BY <1>1
<1>5. PICK k \in 0..Len(m) : k = Fitting(n, c, m)
  BY <1>2, FittingIs
<1>6. Len(m) \in Nat
  BY LenProperties
<1>7. PICK u : u = SubSeq(m, 1, k)
  OBVIOUS
<1>8. PICK v : v = SubSeq(m, k + 1, Len(m))
  OBVIOUS
<1>9. u \in Seq(S)
  <2>1. 1 \in 1..(Len(m) + 1)
    BY <1>6
  <2> QED
    BY <1>7, <2>1, PartOf
<1>10. v \in Seq(S)
  <2>1. k + 1 \in 1..(Len(m) + 1) /\ Len(m) \in 0..Len(m)
    BY <1>6
  <2> QED
    BY <1>8, <2>1, PartOf
<1>11. SendAll(out, msgs).control[n] = c \o u /\ SendAll(out, msgs).pending[n] = p \o v
  <2>1. Refused(n, c, m) = v
    BY <1>5, <1>8 DEF Refused
  <2> QED
    BY <1>2, <1>3, <1>4, <1>5, <1>7, <2>1 DEF SendAll
<1>12. ToSet(m) \subseteq ToSet(u) \cup ToSet(v)
  BY <1>7, <1>8, ToSetSplit
<1>13. c \o u \in Seq(S) /\ p \o v \in Seq(S)
  BY <1>9, <1>10, ConcatProperties
<1>14. PICK cu \in Seq(S) : cu = c \o u
  BY <1>13
<1>15. PICK pv \in Seq(S) : pv = p \o v
  BY <1>13
<1>16. /\ ToSet(cu) = ToSet(c) \cup ToSet(u) /\ ToSet(pv) = ToSet(p) \cup ToSet(v)
       /\ ToSet(cu \o pv) = ToSet(cu) \cup ToSet(pv) /\ ToSet(c \o p) = ToSet(c) \cup ToSet(p)
  <2>1. ToSet(c \o u) = ToSet(c) \cup ToSet(u)
    BY ONLY c \in Seq(S), <1>9, ToSetConcat
  <2>2. ToSet(p \o v) = ToSet(p) \cup ToSet(v)
    BY ONLY p \in Seq(S), <1>10, ToSetConcat
  <2>3. ToSet(cu \o pv) = ToSet(cu) \cup ToSet(pv)
    BY ONLY cu \in Seq(S), pv \in Seq(S), ToSetConcat
  <2>4. ToSet(c \o p) = ToSet(c) \cup ToSet(p)
    BY ONLY c \in Seq(S), p \in Seq(S), ToSetConcat
  <2> QED
    BY <1>14, <1>15, <2>1, <2>2, <2>3, <2>4, Zenon
<1>17. On(out, n) = ToSet(c \o p) /\ On(SendAll(out, msgs), n) = ToSet(cu \o pv)
  BY <1>2, <1>3, <1>11, <1>14, <1>15 DEF On
<1> QED
  BY <1>4, <1>12, <1>16, <1>17

\* What is sent is a message.
LEMMA ManagerMessages ==
  ASSUME NEW g \in Nat
  PROVE  /\ Msg("TimerTick") \in Messages /\ Msg("CollectTelemetry") \in Messages
         /\ Msg("DrainIngress") \in Messages /\ Msg("Shutdown") \in Messages
         /\ Pressure(g) \in Messages
BY DEF Msg, Pressure, Messages, Kinds

\* Sending a message to each node of a set: the channels stay sound, what was on its way
\* stays so, and the message is on its way to each of them that has not stopped.
LEMMA Informs ==
  ASSUME NEW out, NEW N, NEW m \in Messages, OutSound(out, AllMsgs)
  PROVE  /\ OutSound(SendAll(out, ToEach(N, m)), AllMsgs)
         /\ \A n \in Nodes : node[n] # "stopped" =>
              /\ On(out, n) \subseteq On(SendAll(out, ToEach(N, m)), n)
              /\ n \in N => m \in On(SendAll(out, ToEach(N, m)), n)
<1>1. PICK X : X = AllMsgs
  OBVIOUS
<1>2. \A n \in Nodes : X[n] = Messages
  BY <1>1 DEF AllMsgs
<1>3. \A n \in Nodes : ToEach(N, m)[n] \in Seq(X[n])
  BY <1>2, ToEachSound
<1>4. OutSound(SendAll(out, ToEach(N, m)), X)
  BY <1>1, <1>3, SendAllSound
<1>5. ASSUME NEW n \in Nodes, node[n] # "stopped"
      PROVE  /\ On(out, n) \subseteq On(SendAll(out, ToEach(N, m)), n)
             /\ n \in N => m \in On(SendAll(out, ToEach(N, m)), n)
  <2>1. On(out, n) \cup ToSet(ToEach(N, m)[n]) \subseteq On(SendAll(out, ToEach(N, m)), n)
    BY <1>1, <1>3, <1>5, SendKeeps
  <2>2. n \in N => m \in ToSet(ToEach(N, m)[n])
    <3>1. ASSUME n \in N PROVE ToEach(N, m)[n] = <<m>>
      BY <3>1, Zenon DEF ToEach
    <3>2. m \in ToSet(<<m>>)
      BY DEF ToSet
    <3> QED
      BY <3>1, <3>2
  <2> QED
    BY <2>1, <2>2
<1> QED
  BY <1>1, <1>4, <1>5

\* What the manager holds are messages, and a retry loses none of them.
LEMMA HeldSound ==
  ASSUME IInv
  PROVE  /\ OutSound(Current, AllMsgs) /\ \A n \in Nodes : On(Current, n) = Underway(n)
         /\ OutSound(Retried, AllMsgs)
         /\ \A n \in Nodes : node[n] # "stopped" => Underway(n) \subseteq On(Retried, n)
<1>1. published \in Nat
  BY PipelineCtrlAssumption DEF IInv, StateTyped
<1>2. ASSUME NEW n \in Nodes
      PROVE  /\ control[n] \in Seq(Messages) /\ Len(control[n]) <= ControlCap
             /\ pending_sends[n] \in Seq(Messages)
  <2>1. Admissible(n) \subseteq Messages
    BY <1>1 DEF Admissible, Messages
  <2>2. Seq(Admissible(n)) \subseteq Seq(Messages)
    BY <2>1, SeqMonotonic
  <2> QED
    BY <2>2 DEF IInv, ChannelsSound
<1>x. PICK X : X = AllMsgs
  OBVIOUS
<1>3. X = AllMsgs /\ \A n \in Nodes : X[n] = Messages
  BY <1>x DEF AllMsgs
<1>4. OutSound(Current, X)
  BY <1>2, <1>3 DEF OutSound, Current, IInv, ChannelsSound
<1>5. PICK none : none = [control |-> control, pending |-> NothingPending]
  OBVIOUS
<1>6. OutSound(none, X) /\ \A n \in Nodes : none.control[n] = control[n] /\ none.pending[n] = << >>
  BY <1>2, <1>3, <1>5 DEF OutSound, NothingPending, IInv, ChannelsSound
<1>7. OutSound(Retried, X)
  BY <1>2, <1>3, <1>5, <1>6, SendAllSound DEF Retried
<1>8. \A n \in Nodes : On(Current, n) = Underway(n)
  BY DEF On, Current, Underway
<1>9. ASSUME NEW n \in Nodes, node[n] # "stopped" PROVE Underway(n) \subseteq On(Retried, n)
  <2>1. pending_sends[n] \in Seq(X[n])
    BY <1>2, <1>3
  <2>2. On(none, n) \cup ToSet(pending_sends[n]) \subseteq On(Retried, n)
    BY <1>5, <1>6, <1>9, <2>1, SendKeeps DEF Retried
  <2>3. << >> \in Seq(Messages)
    OBVIOUS
  <2>4. On(none, n) = ToSet(control[n] \o << >>)
    BY <1>6 DEF On
  <2>5. /\ ToSet(control[n] \o << >>) = ToSet(control[n]) \cup ToSet(<< >>)
        /\ ToSet(control[n] \o pending_sends[n]) = ToSet(control[n]) \cup ToSet(pending_sends[n])
    <3>1. control[n] \in Seq(Messages) /\ pending_sends[n] \in Seq(Messages)
      BY <1>2
    <3>2. PICK nil : nil = << >>
      OBVIOUS
    <3>3. PICK c : c = control[n]
      OBVIOUS
    <3>4. PICK p : p = pending_sends[n]
      OBVIOUS
    <3>5. nil \in Seq(Messages) /\ c \in Seq(Messages) /\ p \in Seq(Messages)
      BY <2>3, <3>1, <3>2, <3>3, <3>4
    <3>6. ToSet(c \o nil) = ToSet(c) \cup ToSet(nil) /\ ToSet(c \o p) = ToSet(c) \cup ToSet(p)
      BY ONLY <3>5, ToSetConcat
    <3> QED
      BY <3>2, <3>3, <3>4, <3>6, Zenon
  <2> QED
    BY <2>2, <2>4, <2>5 DEF Underway
<1> QED
  BY <1>3, <1>4, <1>7, <1>8, <1>9

\* What the manager has observed is a number, and nobody is left uninformed.
InfInv == observed \in Nat /\ NodesInformed

\* The nodes of the manager.
LEMMA NodeSets ==
  /\ Receivers \subseteq Nodes /\ NonReceivers \subseteq Nodes
  /\ \A n \in Nodes : n \in Receivers => n \notin NonReceivers
BY PipelineCtrlAssumption DEF Nodes, NonReceivers

\* A step that leaves the nodes alone: nothing that was on its way is lost, and whoever
\* there is news for is sent it.
LEMMA InformedAfter ==
  ASSUME InfInv, UNCHANGED <<node, generation>>, pc # "ended", observed' \in Nat,
         \A n \in Nodes : node[n] # "stopped" => Underway(n) \subseteq Underway(n)',
         observed' = observed \/ \A r \in Receivers : node[r] # "stopped" => Pressure(observed') \in Underway(r)',
         draining' => draining \/ \A r \in Receivers : node[r] # "stopped" => Msg("DrainIngress") \in Underway(r)',
         downstream_shutdown_sent' => \/ downstream_shutdown_sent
                                      \/ \A n \in NonReceivers : node[n] # "stopped" => Msg("Shutdown") \in Underway(n)'
  PROVE  InfInv'
<1>1. /\ \A r \in Receivers : node[r] # "stopped" =>
           generation[r] >= observed \/ Pressure(observed) \in Underway(r)
      /\ draining => \A r \in Receivers : node[r] = "open" => Msg("DrainIngress") \in Underway(r)
      /\ downstream_shutdown_sent => \A n \in NonReceivers : node[n] = "open" => Msg("Shutdown") \in Underway(n)
  BY DEF InfInv, NodesInformed
<1>2. ASSUME NEW r \in Receivers, node'[r] # "stopped"
      PROVE  generation'[r] >= observed' \/ Pressure(observed') \in Underway(r)'
  <2>1. r \in Nodes /\ node[r] # "stopped" /\ generation'[r] = generation[r]
    BY <1>2, NodeSets
  <2>2. CASE observed' = observed
    <3>1. Pressure(observed') = Pressure(observed)
      BY <2>2
    <3> QED
      BY <1>1, <2>1, <2>2, <3>1
  <2>3. CASE \A q \in Receivers : node[q] # "stopped" => Pressure(observed') \in Underway(q)'
    BY <2>1, <2>3
  <2> QED
    BY <2>2, <2>3
<1>3. ASSUME draining', NEW r \in Receivers, node'[r] = "open"
      PROVE  Msg("DrainIngress") \in Underway(r)'
  BY <1>1, <1>3, NodeSets
<1>4. ASSUME downstream_shutdown_sent', NEW n \in NonReceivers, node'[n] = "open"
      PROVE  Msg("Shutdown") \in Underway(n)'
  BY <1>1, <1>4, NodeSets
<1> QED
  BY <1>2, <1>3, <1>4 DEF InfInv, NodesInformed

\* Once the manager has ended there is nothing to say.
LEMMA InformedAtEnd ==
  ASSUME InfInv, pc' = "ended", observed' = observed
  PROVE  InfInv'
BY DEF InfInv, NodesInformed

\* What is delivered is on its way.
LEMMA OnItsWay ==
  ASSUME NEW out, Deliver(out), NEW n \in Nodes
  PROVE  Underway(n)' = On(out, n)
BY DEF Deliver, Underway, On

\* A step that touches neither the nodes nor what the manager has seen and sent.
LEMMA InformedKept ==
  ASSUME InfInv,
         UNCHANGED <<control, pending_sends, node, generation, observed, draining, downstream_shutdown_sent>>,
         pc' = pc \/ pc # "ended"
  PROVE  InfInv'
<1>1. CASE pc # "ended"
  <2>1. \A n \in Nodes : Underway(n)' = Underway(n)
    BY DEF Underway
  <2> QED
    BY <1>1, <2>1, InformedAfter DEF InfInv
<1>2. CASE pc = "ended"
  BY <1>2, InformedAtEnd
<1> QED
  BY <1>1, <1>2

\* The head of the loop: a retry loses nothing.
LEMMA LoopHeadInforms ==
  ASSUME IInv, InfInv, LoopHead
  PROVE  InfInv'
<1>1. /\ UNCHANGED <<node, generation, observed, draining, downstream_shutdown_sent>>
      /\ pc # "ended" /\ Deliver(Retried)
  BY DEF LoopHead, environment
<1>2. \A n \in Nodes : node[n] # "stopped" => Underway(n) \subseteq Underway(n)'
  BY <1>1, HeldSound, OnItsWay
<1> QED
  BY <1>1, <1>2, InformedAfter DEF InfInv

\* Due timers: ticks and collections displace nothing.
LEMMA DueEventsInforms ==
  ASSUME IInv, InfInv, NEW out, NEW T, NEW C, DueEvents(out, T, C), pc # "ended",
         out = Current \/ out = Retried
  PROVE  InfInv'
<1>1. UNCHANGED <<node, generation, observed, draining, downstream_shutdown_sent>>
  BY DEF DueEvents
<1>2. PICK a : a = SendAll(out, ToEach(T, Msg("TimerTick")))
  OBVIOUS
<1>3. PICK b : b = SendAll(a, ToEach(C, Msg("CollectTelemetry")))
  OBVIOUS
<1>4. Deliver(b)
  BY <1>2, <1>3 DEF DueEvents
<1>5. /\ OutSound(out, AllMsgs)
      /\ \A n \in Nodes : node[n] # "stopped" => Underway(n) \subseteq On(out, n)
  BY HeldSound
<1>6. /\ OutSound(a, AllMsgs)
      /\ \A n \in Nodes : node[n] # "stopped" => On(out, n) \subseteq On(a, n)
  BY <1>2, <1>5, Informs, ManagerMessages
<1>7. \A n \in Nodes : node[n] # "stopped" => On(a, n) \subseteq On(b, n)
  BY <1>3, <1>6, Informs, ManagerMessages
<1>8. \A n \in Nodes : node[n] # "stopped" => Underway(n) \subseteq Underway(n)'
  BY <1>4, <1>5, <1>6, <1>7, OnItsWay
<1> QED
  BY <1>1, <1>8, InformedAfter DEF InfInv

\* The first Shutdown sends every receiver a drain, and without receivers every other
\* node a Shutdown.
LEMMA HandleShutdownInforms ==
  ASSUME IInv, InfInv, HandleShutdown
  PROVE  InfInv'
<1>1. UNCHANGED <<node, generation, observed>> /\ pc # "ended"
  BY DEF HandleShutdown, Received, environment
<1>2. PICK R : R = IF ~draining THEN Receivers ELSE {}
  OBVIOUS
<1>3. PICK N : N = IF ~draining /\ Receivers = {} THEN NonReceivers ELSE {}
  OBVIOUS
<1>4. PICK a : a = SendAll(Current, ToEach(R, Msg("DrainIngress")))
  OBVIOUS
<1>5. PICK b : b = SendAll(a, ToEach(N, Msg("Shutdown")))
  OBVIOUS
<1>6. /\ Deliver(b)
      /\ downstream_shutdown_sent' = (downstream_shutdown_sent \/ (~draining /\ Receivers = {}))
  BY <1>2, <1>3, <1>4, <1>5 DEF HandleShutdown
<1>7. /\ OutSound(a, AllMsgs)
      /\ \A n \in Nodes : node[n] # "stopped" =>
           Underway(n) \subseteq On(a, n) /\ (n \in R => Msg("DrainIngress") \in On(a, n))
  BY <1>4, HeldSound, Informs, ManagerMessages
<1>8. \A n \in Nodes : node[n] # "stopped" =>
        On(a, n) \subseteq On(b, n) /\ (n \in N => Msg("Shutdown") \in On(b, n))
  BY <1>5, <1>7, Informs, ManagerMessages
<1>9. \A n \in Nodes : Underway(n)' = On(b, n)
  BY <1>6, OnItsWay
<1>10. \A n \in Nodes : node[n] # "stopped" => Underway(n) \subseteq Underway(n)'
  BY <1>7, <1>8, <1>9
<1>11. draining \/ \A r \in Receivers : node[r] # "stopped" => Msg("DrainIngress") \in Underway(r)'
  BY <1>2, <1>7, <1>8, <1>9, NodeSets
<1>12. downstream_shutdown_sent' =>
         \/ downstream_shutdown_sent
         \/ \A n \in NonReceivers : node[n] # "stopped" => Msg("Shutdown") \in Underway(n)'
  BY <1>3, <1>6, <1>8, <1>9, NodeSets
<1> QED
  BY <1>1, <1>10, <1>11, <1>12, InformedAfter DEF InfInv

\* The handover sends every processor and exporter a Shutdown.
LEMMA HandleReceiverDrainedInforms ==
  ASSUME IInv, InfInv, HandleReceiverDrained
  PROVE  InfInv'
<1>1. UNCHANGED <<node, generation, observed, draining>> /\ pc # "ended"
  BY DEF HandleReceiverDrained, Received, environment
<1>2. PICK out : out = SendAll(Current, ToEach(NonReceivers, Msg("Shutdown")))
  OBVIOUS
<1>3. \/ Deliver(Current) /\ (downstream_shutdown_sent' => downstream_shutdown_sent)
      \/ Deliver(out)
  BY <1>2 DEF HandleReceiverDrained
<1>4. \A n \in Nodes : node[n] # "stopped" =>
        Underway(n) \subseteq On(out, n) /\ (n \in NonReceivers => Msg("Shutdown") \in On(out, n))
  BY <1>2, HeldSound, Informs, ManagerMessages
<1>5. CASE Deliver(Current) /\ (downstream_shutdown_sent' => downstream_shutdown_sent)
  <2>1. \A n \in Nodes : Underway(n)' = Underway(n)
    BY <1>5, HeldSound, OnItsWay
  <2> QED
    BY <1>1, <1>5, <2>1, InformedAfter DEF InfInv
<1>6. CASE Deliver(out)
  <2>1. \A n \in Nodes : Underway(n)' = On(out, n)
    BY <1>6, OnItsWay
  <2>2. \A n \in NonReceivers : node[n] # "stopped" => Msg("Shutdown") \in Underway(n)'
    BY <1>4, <2>1, NodeSets
  <2> QED
    BY <1>1, <1>4, <2>1, <2>2, InformedAfter DEF InfInv
<1> QED
  BY <1>3, <1>5, <1>6

\* A new transition of memory pressure is sent to every receiver.
LEMMA ForwardPressureInforms ==
  ASSUME IInv, InfInv, ForwardPressure
  PROVE  InfInv'
<1>1. UNCHANGED <<node, generation, draining, downstream_shutdown_sent>> /\ pc # "ended"
  BY DEF ForwardPressure
<1>2. published \in Nat /\ observed' = published
  BY PipelineCtrlAssumption DEF ForwardPressure, IInv, StateTyped
<1>3. PICK out : out = SendAll(Current, ToEach(Receivers, Pressure(published)))
  OBVIOUS
<1>4. \A n \in Nodes : Underway(n)' = On(out, n)
  BY <1>3, OnItsWay DEF ForwardPressure
<1>5. Pressure(published) \in Messages
  BY <1>2, ManagerMessages
<1>6. \A n \in Nodes : node[n] # "stopped" =>
        Underway(n) \subseteq On(out, n) /\ (n \in Receivers => Pressure(published) \in On(out, n))
  BY <1>3, <1>5, HeldSound, Informs
<1>7. \A r \in Receivers : node[r] # "stopped" => Pressure(observed') \in Underway(r)'
  BY <1>2, <1>4, <1>6, NodeSets
<1>8. \A n \in Nodes : node[n] # "stopped" => Underway(n) \subseteq Underway(n)'
  BY <1>4, <1>6
<1> QED
  BY <1>1, <1>2, <1>7, <1>8, InformedAfter

\* A timer request and a wake-up change nothing of it.
LEMMA QuietTurn ==
  ASSUME InfInv, WakeUp \/ \E kind \in TimerRequests : HandleTimerRequest(kind)
  PROVE  InfInv'
BY InformedKept DEF WakeUp, HandleTimerRequest, Received, environment, nodes

\* A message that leaves a node open is no order to stop.
LEMMA StaysOpen ==
  ASSUME NEW n, NEW msg, After(n, msg) = "open"
  PROVE  msg.kind # "DrainIngress" /\ msg.kind # "Shutdown" /\ node[n] = "open"
<1>1. CASE msg.kind = "Shutdown"
  BY <1>1 DEF After
<1>2. CASE msg.kind = "DrainIngress"
  BY <1>2 DEF After
<1>3. CASE msg.kind # "Shutdown" /\ msg.kind # "DrainIngress"
  BY <1>3 DEF After
<1> QED
  BY <1>1, <1>2, <1>3

\* A node takes a message: what it takes was news to it, or is no longer news.
LEMMA HandleControlInforms ==
  ASSUME IInv, InfInv, NEW n \in Nodes, HandleControl(n)
  PROVE  InfInv'
<1>1. CASE pc = "ended"
  BY <1>1, InformedAtEnd DEF HandleControl, manager, environment
<1>2. CASE pc # "ended"
  <2>1. PICK msg : msg = Head(control[n])
    OBVIOUS
  <2>2. PICK c : c = control[n]
    OBVIOUS
  <2>3. /\ c \in Seq(Messages) /\ c # << >> /\ pending_sends[n] \in Seq(Messages)
        /\ \A k \in Nodes : control[k] \in Seq(Messages) /\ pending_sends[k] \in Seq(Messages)
    BY <2>2, HeldSound DEF OutSound, Current, AllMsgs, HandleControl
  <2>4. /\ node[n] # "stopped" /\ node \in [Nodes -> {"open", "draining", "stopped"}]
        /\ node' = [node EXCEPT ![n] = After(n, msg)]
        /\ control' = [control EXCEPT ![n] = IF After(n, msg) = "stopped" THEN << >> ELSE Tail(c)]
        /\ control = [k \in Nodes |-> control[k]]
        /\ UNCHANGED <<pc, pending_sends, draining, downstream_shutdown_sent, observed>>
    BY <2>1, <2>2 DEF HandleControl, IInv, StateTyped, ChannelsSound, manager, environment
  <2>5. /\ generation \in [Receivers -> 0..published] /\ published \in Nat
        /\ generation' = IF msg.kind = "MemoryPressureChanged"
                         THEN [generation EXCEPT ![n] = Applied(generation[n], msg.generation)]
                         ELSE generation
    BY <2>1, PipelineCtrlAssumption DEF HandleControl, IInv, StateTyped
  <2>6. /\ msg \in Messages
        /\ \A r \in Receivers : generation'[r] >= generation[r]
    BY <2>1, <2>2, <2>3, HandleControlSound, HeadTailProperties
  <2>7. Tail(c) \in Seq(Messages) /\ c = <<msg>> \o Tail(c)
    BY <2>1, <2>2, <2>3, HeadTailProperties
  <2>8. \A k \in Nodes \ {n} : node'[k] = node[k] /\ Underway(k)' = Underway(k)
    BY <2>4 DEF Underway
  <2>9. node'[n] # "stopped" => Underway(n) \subseteq {msg} \cup Underway(n)'
    <3> HAVE node'[n] # "stopped"
    <3>1. control'[n] = Tail(c) /\ pending_sends'[n] = pending_sends[n]
      BY <2>4
    <3>2. PICK t \in Seq(Messages) : t = Tail(c)
      BY <2>7
    <3>3. PICK p \in Seq(Messages) : p = pending_sends[n]
      BY <2>3
    <3>4. <<msg>> \in Seq(Messages)
      BY ONLY <2>6, SingletonSeq
    <3>5. ToSet(<<msg>> \o t) = ToSet(<<msg>>) \cup ToSet(t)
      <4>1. PICK one : one = <<msg>>
        OBVIOUS
      <4>2. one \in Seq(Messages)
        BY <3>4, <4>1
      <4>3. ToSet(one \o t) = ToSet(one) \cup ToSet(t)
        BY ONLY <4>2, t \in Seq(Messages), ToSetConcat
      <4> QED
        BY <4>1, <4>3, Zenon
    <3>6. ToSet(c \o p) = ToSet(c) \cup ToSet(p)
      BY ONLY <2>3, p \in Seq(Messages), ToSetConcat
    <3>7. ToSet(t \o p) = ToSet(t) \cup ToSet(p)
      BY ONLY t \in Seq(Messages), p \in Seq(Messages), ToSetConcat
    <3>8. ToSet(<<msg>>) = {msg}
      BY DEF ToSet
    <3>9. Underway(n) = ToSet(c \o p) /\ Underway(n)' = ToSet(t \o p)
      BY <2>2, <3>1, <3>2, <3>3 DEF Underway
    <3>10. c = <<msg>> \o t
      BY <2>7, <3>2
    <3> QED
      BY <3>5, <3>6, <3>7, <3>8, <3>9, <3>10
  <2>10. /\ observed \in Nat
         /\ \A r \in Receivers : node[r] # "stopped" =>
              generation[r] >= observed \/ Pressure(observed) \in Underway(r)
         /\ draining => \A r \in Receivers : node[r] = "open" => Msg("DrainIngress") \in Underway(r)
         /\ downstream_shutdown_sent => \A k \in NonReceivers : node[k] = "open" => Msg("Shutdown") \in Underway(k)
    BY <1>2 DEF InfInv, NodesInformed
  <2>11. ASSUME NEW r \in Receivers, node'[r] # "stopped"
         PROVE  generation'[r] >= observed \/ Pressure(observed) \in Underway(r)'
    <3>1. r \in Nodes /\ generation[r] \in Nat /\ generation'[r] \in Nat /\ generation'[r] >= generation[r]
      <4>1. generation' \in [Receivers -> 0..published']  /\ published' \in Nat
        BY HandleControlSound, PipelineCtrlAssumption DEF IInv, StateTyped
      <4> QED
        BY <2>5, <2>6, <4>1, NodeSets
    <3>2. node[r] # "stopped"
      BY <2>4, <2>8, <2>11, <3>1
    <3>3. CASE generation[r] >= observed
      BY <2>10, <3>1, <3>3
    <3>4. CASE Pressure(observed) \in Underway(r)
      <4>1. CASE r # n
        BY <2>8, <3>1, <3>4, <4>1
      <4>2. CASE r = n /\ Pressure(observed) = msg
        <5>1. msg.kind = "MemoryPressureChanged" /\ msg.generation = observed
          BY <4>2 DEF Pressure
        <5>2. generation'[r] = Applied(generation[r], observed)
          BY <2>5, <4>2, <5>1
        <5> QED
          BY <2>10, <3>1, <5>2 DEF Applied
      <4>3. CASE r = n /\ Pressure(observed) # msg
        BY <2>9, <2>11, <3>4, <4>3
      <4> QED
        BY <4>1, <4>2, <4>3
    <3> QED
      BY <2>10, <3>2, <3>3, <3>4
  <2>12. ASSUME draining, NEW r \in Receivers, node'[r] = "open"
         PROVE  Msg("DrainIngress") \in Underway(r)'
    <3>1. CASE r # n
      BY <2>8, <2>10, <2>12, <3>1, NodeSets
    <3>2. CASE r = n
      <4>1. After(n, msg) = "open"
        BY <2>4, <2>12, <3>2
      <4>2. msg # Msg("DrainIngress") /\ node[n] = "open"
        BY <4>1, StaysOpen DEF Msg
      <4> QED
        BY <2>9, <2>10, <2>12, <3>2, <4>2
    <3> QED
      BY <3>1, <3>2
  <2>13. ASSUME downstream_shutdown_sent, NEW k \in NonReceivers, node'[k] = "open"
         PROVE  Msg("Shutdown") \in Underway(k)'
    <3>1. CASE k # n
      BY <2>8, <2>10, <2>13, <3>1, NodeSets
    <3>2. CASE k = n
      <4>1. After(n, msg) = "open"
        BY <2>4, <2>13, <3>2
      <4>2. msg # Msg("Shutdown") /\ node[n] = "open"
        BY <4>1, StaysOpen DEF Msg
      <4> QED
        BY <2>9, <2>10, <2>13, <3>2, <4>2
    <3> QED
      BY <3>1, <3>2
  <2>14. observed' = observed
    BY <2>4
  <2> QED
    BY <2>4, <2>10, <2>11, <2>12, <2>13, <2>14 DEF InfInv, NodesInformed
<1> QED
  BY <1>1, <1>2

\* A node that stops takes what was on its way to it along, and nobody else's.
LEMMA StopInforms ==
  ASSUME IInv, InfInv, NEW n \in Nodes, Stop(n)
  PROVE  InfInv'
<1>1. CASE pc = "ended"
  BY <1>1, InformedAtEnd DEF Stop, manager, environment
<1>2. CASE pc # "ended"
  <2>1. /\ node \in [Nodes -> {"open", "draining", "stopped"}]
        /\ node' = [node EXCEPT ![n] = "stopped"] /\ control' = [control EXCEPT ![n] = << >>]
        /\ control = [k \in Nodes |-> control[k]]
        /\ UNCHANGED <<pc, pending_sends, draining, downstream_shutdown_sent, observed, generation>>
    BY DEF Stop, IInv, StateTyped, ChannelsSound, manager, environment
  <2>2. node'[n] = "stopped"
    BY <2>1
  <2>3. \A k \in Nodes \ {n} : node'[k] = node[k] /\ Underway(k)' = Underway(k)
    BY <2>1 DEF Underway
  <2>4. /\ observed \in Nat
        /\ \A r \in Receivers : node[r] # "stopped" =>
             generation[r] >= observed \/ Pressure(observed) \in Underway(r)
        /\ draining => \A r \in Receivers : node[r] = "open" => Msg("DrainIngress") \in Underway(r)
        /\ downstream_shutdown_sent => \A k \in NonReceivers : node[k] = "open" => Msg("Shutdown") \in Underway(k)
    BY <1>2 DEF InfInv, NodesInformed
  <2>5. /\ observed' = observed /\ generation' = generation
        /\ Pressure(observed') = Pressure(observed)
    BY <2>1
  <2>6. \A r \in Receivers : node'[r] # "stopped" =>
          generation'[r] >= observed' \/ Pressure(observed') \in Underway(r)'
    BY <2>2, <2>3, <2>4, <2>5, NodeSets
  <2>7. draining' => \A r \in Receivers : node'[r] = "open" => Msg("DrainIngress") \in Underway(r)'
    BY <2>1, <2>2, <2>3, <2>4, NodeSets
  <2>8. downstream_shutdown_sent' => \A k \in NonReceivers : node'[k] = "open" => Msg("Shutdown") \in Underway(k)'
    BY <2>1, <2>2, <2>3, <2>4, NodeSets
  <2> QED
    BY <2>4, <2>5, <2>6, <2>7, <2>8 DEF InfInv, NodesInformed
<1> QED
  BY <1>1, <1>2

\* Every step keeps everyone informed.
LEMMA StepInforms ==
  ASSUME IInv, InfInv, [Next]_vars
  PROVE  InfInv'
<1>1. CASE UNCHANGED vars
  BY <1>1, InformedKept DEF vars, manager, nodes, environment
<1>2. CASE ManagerStep
  <2>1. CASE DeadlineReached \/ ChannelClosed
    BY <2>1, InformedAtEnd DEF DeadlineReached, ChannelClosed, environment
  <2> QED
    BY <1>2, <2>1, LoopHeadInforms, HandleShutdownInforms, HandleReceiverDrainedInforms,
       ForwardPressureInforms, QuietTurn DEF ManagerStep
<1>3. CASE DuePass
  <2>1. PICK T, C \in SUBSET Timed : BurstPass(T, C) \/ TimersDue(T, C)
    BY <1>3 DEF DuePass
  <2> QED
    BY <2>1, DueEventsInforms DEF BurstPass, TimersDue
<1>4. CASE NodeStep
  BY <1>4, HandleControlInforms, StopInforms, NodeSets DEF NodeStep, FinishDrain, NodeEnds
<1>5. CASE Environment
  <2>1. CASE \E r \in Receivers : ReceiverReturns(r)
    BY <2>1, StopInforms, NodeSets DEF ReceiverReturns
  <2>2. CASE RequestShutdown
    BY <2>2, InformedKept DEF RequestShutdown, manager, nodes
  <2>3. CASE DeadlinePasses
    BY <2>3, InformedKept DEF DeadlinePasses, manager, nodes
  <2>4. CASE PublishPressure
    BY <2>4, InformedKept DEF PublishPressure, manager, nodes
  <2>5. CASE \E n \in Timed, kind \in TimerRequests : RequestTimer(n, kind)
    BY <2>5, InformedKept DEF RequestTimer, manager, nodes
  <2> QED
    BY <1>5, <2>1, <2>2, <2>3, <2>4, <2>5 DEF Environment
<1> QED
  BY <1>1, <1>2, <1>3, <1>4, <1>5 DEF Next

\* Nobody is left uninformed while the manager runs, however often a send is refused,
\* buffered, retried or overtaken: the latest memory pressure it saw, the drain and the
\* downstream Shutdown have reached a node or are still on their way to it (the safety half
\* of PressureFollows' delivery and of ShutdownCompletes).
THEOREM NobodyIsUninformed == Spec => []NodesInformed
<1>1. Init => InfInv
  BY DEF Init, InfInv, NodesInformed
<1>2. IInv /\ InfInv /\ [Next]_vars => InfInv'
  BY StepInforms
<1>3. InfInv => NodesInformed
  BY DEF InfInv
<1> QED
  BY <1>1, <1>2, <1>3, Invariance, PTL DEF Spec
=============================================================================
