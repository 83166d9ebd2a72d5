---------------------------- MODULE PipelineCtrl ----------------------------
(***************************************************************************)
(* The runtime-control manager of a pipeline (engine/src/pipeline_ctrl.rs, *)
(* RuntimeCtrlMsgManager::run) with the nodes it controls: timers, memory  *)
(* pressure, and the receiver-first shutdown with its deadline.            *)
(*                                                                         *)
(* Node control channels are bounded; a message that does not fit waits in *)
(* pending_sends.  One turn of the loop is two steps: its head, which      *)
(* retries pending_sends and looks at the deadline, and the branch its     *)
(* biased select! takes later.  Instants are reached or not.               *)
(*                                                                         *)
(* Of a node only its reaction to control messages is kept.  Data flows    *)
(* from all receivers to all processors to all exporters.                  *)
(***************************************************************************)
EXTENDS Naturals, Sequences, SequencesExt

CONSTANTS Receivers, Processors, Exporters,
          ControlCap,    \* capacity of a node's control channel
          RuntimeCap,    \* capacity of the runtime-control channel
          Burst,         \* RUNTIME_CTRL_BURST
          MaxUpdates,    \* bound: memory pressure transitions
          Timed,         \* bound: nodes that request timers or have one come due
          MaxDue,        \* bound: due-event passes
          MaxRequests    \* bound: timer requests

ASSUME PipelineCtrlAssumption ==
  /\ ControlCap \in Nat \ {0} /\ RuntimeCap \in Nat \ {0} /\ Burst \in Nat \ {0}
  /\ MaxUpdates \in Nat /\ MaxDue \in Nat /\ MaxRequests \in Nat
  /\ Receivers \cap (Processors \cup Exporters) = {}
  /\ Timed \subseteq Receivers \cup Processors \cup Exporters
  /\ Processors # {} /\ Processors \cap Exporters = {}

VARIABLES
  \* RuntimeCtrlMsgManager
  pc,             \* "head" | "select" | "ended"
  runtime_ctrl,   \* runtime_ctrl_msg_receiver
  pending_sends,  \* node -> the messages buffered for it
  draining,       \* is_draining_ingress
  pending_receivers, downstream_shutdown_sent,
  tick_timers, telemetry_timers,   \* nodes with a live timer
  consecutive,    \* consecutive_runtime_ctrl, which is only compared with Burst
  forced,         \* forced_shutdown_trigger
  \* Nodes
  control,        \* node -> its control channel
  node,           \* node -> "open" | "draining" | "stopped"
  generation,     \* receiver -> generation its admission state has applied
  \* Environment
  published, observed,   \* memory pressure: generation in the watch channel, seen by the manager
  requested, expired,    \* a shutdown was requested, its deadline has passed
  due, requests          \* due-event passes taken, timer requests made

manager == <<pc, pending_sends, draining, pending_receivers, downstream_shutdown_sent,
             tick_timers, telemetry_timers, consecutive, forced>>
nodes == <<control, node, generation>>
environment == <<published, observed, requested, expired, due, requests>>
vars == <<manager, runtime_ctrl, nodes, environment>>

NonReceivers == Processors \cup Exporters
Nodes == Receivers \cup NonReceivers

Msg(kind) == [kind |-> kind, generation |-> 0]
Pressure(g) == [kind |-> "MemoryPressureChanged", generation |-> g]
Request(kind, n) == [kind |-> kind, node |-> n]
TimerRequests == {"StartTimer", "CancelTimer", "StartTelemetryTimer", "CancelTelemetryTimer"}

\* RuntimeCtrlMsgManager::new starts a telemetry timer for every node.
Init ==
  /\ pc = "head" /\ runtime_ctrl = << >> /\ pending_sends = [n \in Nodes |-> << >>]
  /\ draining = FALSE /\ pending_receivers = {} /\ downstream_shutdown_sent = FALSE
  /\ tick_timers = {} /\ telemetry_timers = Nodes /\ consecutive = 0 /\ forced = FALSE
  /\ control = [n \in Nodes |-> << >>] /\ node = [n \in Nodes |-> "open"]
  /\ generation = [r \in Receivers |-> 0]
  /\ published = 0 /\ observed = 0 /\ requested = FALSE /\ expired = FALSE
  /\ due = 0 /\ requests = 0

-----------------------------------------------------------------------------
(***************************************************************************)
(* Sending: msgs is node -> sequence of messages, out is [control,         *)
(* pending].  The one deque pending_sends is kept as its part for each     *)
(* node: the order between nodes is never observed.                        *)
(***************************************************************************)

\* How many of msgs the channel of n takes.
Fitting(n, channel, msgs) ==
  IF node[n] = "stopped" THEN 0 ELSE Min({ControlCap - Len(channel), Len(msgs)})

\* Mutant: a message that does not fit is dropped.
RefusedDropped(n, channel, msgs) == << >>

\* Those that are refused and kept: on Full, not on Closed.
Refused(n, channel, msgs) ==
  IF node[n] = "stopped" THEN << >> ELSE SubSeq(msgs, Fitting(n, channel, msgs) + 1, Len(msgs))

\* send, for each message in turn: try_send, and buffer what is refused.
SendAll(out, msgs) ==
  [control |-> [n \in Nodes |->
      out.control[n] \o SubSeq(msgs[n], 1, Fitting(n, out.control[n], msgs[n]))],
   pending |-> [n \in Nodes |-> out.pending[n] \o Refused(n, out.control[n], msgs[n])]]

\* The same message for each of a set of nodes.
ToEach(N, msg) == [n \in Nodes |-> IF n \in N THEN <<msg>> ELSE << >>]

NothingPending == [n \in Nodes |-> << >>]

\* Mutant: what is refused again is dropped.
RetriedOnce ==
  [SendAll([control |-> control, pending |-> NothingPending], pending_sends) EXCEPT
     !.pending = NothingPending]

\* drain_pending_sends: one pass over the buffer, what is still refused stays in order.
Retried == SendAll([control |-> control, pending |-> NothingPending], pending_sends)

\* Channels and buffer become `out`.
Deliver(out) == control' = out.control /\ pending_sends' = out.pending
Current == [control |-> control, pending |-> pending_sends]

-----------------------------------------------------------------------------
(***************************************************************************)
(* The head of the loop                                                    *)
(***************************************************************************)

\* Retry pending_sends, then wait in select!.
LoopHead ==
  /\ pc = "head" /\ ~(draining /\ expired)
  /\ Deliver(Retried)
  /\ pc' = "select"
  /\ UNCHANGED <<runtime_ctrl, draining, pending_receivers, downstream_shutdown_sent, tick_timers,
                 telemetry_timers, consecutive, forced, node, generation, environment>>

\* handle_due_events for the tick timers T and the telemetry timers C that are due.
\* Cancelled entries still in the heap fire nothing.
DueEvents(out, T, C) ==
  /\ ~draining /\ due < MaxDue
  /\ T \cup C # {} /\ T \subseteq tick_timers /\ C \subseteq telemetry_timers
  /\ Deliver(SendAll(SendAll(out, ToEach(T, Msg("TimerTick"))), ToEach(C, Msg("CollectTelemetry"))))
  /\ consecutive' = 0 /\ due' = due + 1 /\ pc' = "head"
  /\ UNCHANGED <<runtime_ctrl, draining, pending_receivers, downstream_shutdown_sent,
                 tick_timers, telemetry_timers, forced, node, generation, published, observed,
                 requested, expired, requests>>

\* A due-event pass is forced after Burst runtime-control messages.
BurstPass(T, C) == pc = "head" /\ consecutive = Burst /\ DueEvents(Retried, T, C)

\* The deadline: trigger forced shutdown, try to send Shutdown once more to every
\* non-receiver and to the receivers that have not drained, and leave the loop.
\* What is buffered then goes with the manager.
DeadlineReached ==
  /\ pc = "head" /\ draining /\ expired
  /\ control' = SendAll(Retried, ToEach(NonReceivers \cup pending_receivers, Msg("Shutdown"))).control
  /\ pending_sends' = NothingPending /\ runtime_ctrl' = << >>
  /\ forced' = TRUE /\ pc' = "ended"
  /\ UNCHANGED <<draining, pending_receivers, downstream_shutdown_sent, tick_timers,
                 telemetry_timers, consecutive, node, generation, environment>>

-----------------------------------------------------------------------------
(***************************************************************************)
(* The branches of select!, in the order it polls them                     *)
(***************************************************************************)

\* recv() yields the first runtime-control message.
Received(kind) ==
  /\ pc = "select" /\ runtime_ctrl # << >> /\ Head(runtime_ctrl).kind = kind
  /\ runtime_ctrl' = Tail(runtime_ctrl)
  /\ consecutive' = IF consecutive < Burst THEN consecutive + 1 ELSE Burst
  /\ pc' = "head"
  /\ UNCHANGED <<forced, node, generation, environment>>

\* The first Shutdown freezes the timers and drains the receivers; without receivers the
\* downstream shutdown starts at once.
HandleShutdown ==
  /\ Received("Shutdown")
  /\ LET first == ~draining
         downstream == first /\ Receivers = {}
     IN  /\ draining' = TRUE
         /\ pending_receivers' = IF first THEN Receivers ELSE pending_receivers
         /\ tick_timers' = {} /\ telemetry_timers' = {}
         /\ Deliver(SendAll(SendAll(Current,
                      ToEach(IF first THEN Receivers ELSE {}, Msg("DrainIngress"))),
                      ToEach(IF downstream THEN NonReceivers ELSE {}, Msg("Shutdown"))))
         /\ downstream_shutdown_sent' = (downstream_shutdown_sent \/ downstream)

\* Mutant: the first receiver to drain starts the downstream shutdown.
AllDrainedFirst(pending) == draining /\ ~downstream_shutdown_sent

\* The last ReceiverDrained hands over to the downstream nodes.
AllDrained(pending) == draining /\ pending = {} /\ ~downstream_shutdown_sent

HandleReceiverDrained ==
  /\ Received("ReceiverDrained")
  /\ pending_receivers' = IF draining THEN pending_receivers \ {Head(runtime_ctrl).node}
                                      ELSE pending_receivers
  /\ LET handover == AllDrained(pending_receivers')
     IN  /\ Deliver(IF handover THEN SendAll(Current, ToEach(NonReceivers, Msg("Shutdown")))
                                ELSE Current)
         /\ downstream_shutdown_sent' = (downstream_shutdown_sent \/ handover)
  /\ UNCHANGED <<draining, tick_timers, telemetry_timers>>

\* Mutant: a timer is started while the pipeline drains.
TimersAfterUnfrozen(kind, n) ==
  CASE kind = "StartTimer" -> <<tick_timers \cup {n}, telemetry_timers>>
    [] kind = "CancelTimer" -> <<tick_timers \ {n}, telemetry_timers>>
    [] kind = "StartTelemetryTimer" -> <<tick_timers, telemetry_timers \cup {n}>>
    [] kind = "CancelTelemetryTimer" -> <<tick_timers, telemetry_timers \ {n}>>

\* The live timers after a timer request, which is ignored while draining.
TimersAfter(kind, n) ==
  CASE draining -> <<tick_timers, telemetry_timers>>
    [] ~draining /\ kind = "StartTimer" -> <<tick_timers \cup {n}, telemetry_timers>>
    [] ~draining /\ kind = "CancelTimer" -> <<tick_timers \ {n}, telemetry_timers>>
    [] ~draining /\ kind = "StartTelemetryTimer" -> <<tick_timers, telemetry_timers \cup {n}>>
    [] ~draining /\ kind = "CancelTelemetryTimer" -> <<tick_timers, telemetry_timers \ {n}>>

HandleTimerRequest(kind) ==
  /\ Received(kind)
  /\ LET after == TimersAfter(kind, Head(runtime_ctrl).node)
     IN  tick_timers' = after[1] /\ telemetry_timers' = after[2]
  /\ UNCHANGED <<pending_sends, draining, pending_receivers, downstream_shutdown_sent, control>>

\* The latest memory pressure goes to every receiver, also while draining.
ForwardPressure ==
  /\ pc = "select" /\ runtime_ctrl = << >> /\ published # observed
  /\ observed' = published
  /\ Deliver(SendAll(Current, ToEach(Receivers, Pressure(published))))
  /\ pc' = "head"
  /\ UNCHANGED <<runtime_ctrl, draining, pending_receivers, downstream_shutdown_sent, tick_timers,
                 telemetry_timers, consecutive, forced, node, generation, published, requested,
                 expired, due, requests>>

\* Timers that are due.
TimersDue(T, C) ==
  /\ pc = "select" /\ runtime_ctrl = << >> /\ published = observed
  /\ DueEvents(Current, T, C)

\* The wake-ups for the deadline, which resets the burst count, and for the retry of
\* pending_sends go back to the head.
WakeUp ==
  /\ pc = "select" /\ runtime_ctrl = << >> /\ published = observed
  /\ \/ draining /\ expired /\ consecutive' = 0
     \/ ~(draining /\ expired) /\ pending_sends # NothingPending /\ UNCHANGED consecutive
  /\ pc' = "head"
  /\ UNCHANGED <<runtime_ctrl, pending_sends, draining, pending_receivers, forced,
                 downstream_shutdown_sent, tick_timers, telemetry_timers, nodes, environment>>

\* recv() fails once the controller and every node have dropped their senders.
ChannelClosed ==
  /\ pc = "select" /\ runtime_ctrl = << >> /\ requested
  /\ \A n \in Nodes : node[n] = "stopped"
  /\ pc' = "ended" /\ pending_sends' = NothingPending
  /\ UNCHANGED <<runtime_ctrl, draining, pending_receivers, downstream_shutdown_sent, tick_timers,
                 telemetry_timers, consecutive, forced, nodes, environment>>

-----------------------------------------------------------------------------
(***************************************************************************)
(* The controller, the memory limiter and the clock                        *)
(***************************************************************************)

\* A message enters the bounded runtime-control channel.
SendRuntime(msg) ==
  /\ pc # "ended" /\ Len(runtime_ctrl) < RuntimeCap
  /\ runtime_ctrl' = Append(runtime_ctrl, msg)

\* try_send_shutdown; one that is refused may be tried again.  The controller drops its
\* sender with the request, so there is only one.
RequestShutdown ==
  /\ ~requested /\ SendRuntime(Msg("Shutdown"))
  /\ requested' = TRUE
  /\ UNCHANGED <<manager, nodes, published, observed, expired, due, requests>>

DeadlinePasses ==
  /\ requested /\ ~expired /\ expired' = TRUE
  /\ UNCHANGED <<manager, runtime_ctrl, nodes, published, observed, requested, due, requests>>

PublishPressure ==
  /\ published < MaxUpdates /\ published' = published + 1
  /\ UNCHANGED <<manager, runtime_ctrl, nodes, observed, requested, expired, due, requests>>

-----------------------------------------------------------------------------
(***************************************************************************)
(* The nodes                                                               *)
(***************************************************************************)

\* A node starts or cancels one of its timers.
RequestTimer(n, kind) ==
  /\ node[n] # "stopped" /\ requests < MaxRequests
  /\ SendRuntime(Request(kind, n))
  /\ requests' = requests + 1
  /\ UNCHANGED <<manager, nodes, published, observed, requested, expired, due>>

\* Mutant: an update is applied whatever its generation.
AppliedAny(current, g) == g

\* ReceiverAdmissionState::apply ignores a stale generation.
Applied(current, g) == IF g <= current THEN current ELSE g

\* The state of a node after a control message.  A processor or exporter latches a
\* Shutdown until its input is closed or the deadline has passed; a second one stops it.
After(n, msg) ==
  CASE msg.kind = "Shutdown" ->
         IF n \in Receivers \/ expired \/ node[n] = "draining" THEN "stopped" ELSE "draining"
    [] msg.kind = "DrainIngress" -> "draining"
    [] OTHER -> node[n]

\* A node takes a control message.  A node that stops drops its channel.
HandleControl(n) ==
  /\ node[n] # "stopped" /\ control[n] # << >>
  /\ LET msg == Head(control[n])
     IN  /\ node' = [node EXCEPT ![n] = After(n, msg)]
         /\ control' = [control EXCEPT ![n] = IF After(n, msg) = "stopped" THEN << >> ELSE Tail(@)]
         /\ generation' = IF msg.kind = "MemoryPressureChanged"
                          THEN [generation EXCEPT ![n] = Applied(@, msg.generation)]
                          ELSE generation
  /\ UNCHANGED <<manager, runtime_ctrl, environment>>

Stop(n) ==
  /\ node[n] # "stopped"
  /\ node' = [node EXCEPT ![n] = "stopped"] /\ control' = [control EXCEPT ![n] = << >>]
  /\ UNCHANGED <<manager, generation, environment>>

\* A drained receiver reports it and returns; the report fails when the manager is gone.
FinishDrain(r) ==
  /\ node[r] = "draining" /\ Stop(r)
  /\ \/ SendRuntime(Request("ReceiverDrained", r))
     \/ pc = "ended" /\ UNCHANGED runtime_ctrl

\* A receiver whose source is exhausted returns without a report.
ReceiverReturns(r) == node[r] = "open" /\ Stop(r) /\ UNCHANGED runtime_ctrl

\* All who send data to n have returned.
InputClosed(n) == \A u \in IF n \in Processors THEN Receivers ELSE Processors : node[u] = "stopped"

\* A processor or exporter stops when its input is closed, at the deadline of a latched
\* Shutdown, and a processor when the forced-shutdown signal is triggered.
NodeEnds(n) ==
  /\ \/ InputClosed(n)
     \/ node[n] = "draining" /\ expired
     \/ n \in Processors /\ forced
  /\ Stop(n) /\ UNCHANGED runtime_ctrl

-----------------------------------------------------------------------------
DuePass == \E T, C \in SUBSET Timed : BurstPass(T, C) \/ TimersDue(T, C)

ManagerStep ==
  \/ LoopHead
  \/ DeadlineReached
  \/ HandleShutdown
  \/ HandleReceiverDrained
  \/ \E kind \in TimerRequests : HandleTimerRequest(kind)
  \/ ForwardPressure
  \/ WakeUp
  \/ ChannelClosed

NodeStep ==
  \/ \E n \in Nodes : HandleControl(n)
  \/ \E r \in Receivers : FinishDrain(r)
  \/ \E n \in NonReceivers : NodeEnds(n)

Environment ==
  \/ RequestShutdown \/ DeadlinePasses \/ PublishPressure
  \/ \E n \in Timed, kind \in TimerRequests : RequestTimer(n, kind)
  \/ \E r \in Receivers : ReceiverReturns(r)

Next == ManagerStep \/ DuePass \/ NodeStep \/ Environment

(***************************************************************************)
(* The manager and the nodes are tasks of one runtime, which keeps polling *)
(* both: nodes read their control channels, a receiver bounds its drain by *)
(* the deadline it was given.  Nothing is assumed of the deadline itself,  *)
(* of timers, of requests or of receivers that return.                     *)
(***************************************************************************)
Fairness == WF_vars(ManagerStep) /\ WF_vars(NodeStep)

Spec == Init /\ [][Next]_vars
FairSpec == Spec /\ Fairness

-----------------------------------------------------------------------------
(***************************************************************************)
(* Properties                                                              *)
(***************************************************************************)

\* Types, with the bounds of the channels; timers are frozen while the pipeline drains.
TypeOK ==
  /\ pc \in {"head", "select", "ended"} /\ consecutive \in 0..Burst
  /\ Len(runtime_ctrl) <= RuntimeCap
  /\ \A n \in Nodes : Len(control[n]) <= ControlCap
  /\ node \in [Nodes -> {"open", "draining", "stopped"}]
  /\ generation \in [Receivers -> 0..published] /\ published \in 0..MaxUpdates
  /\ pending_receivers \subseteq Receivers
  /\ tick_timers \subseteq Nodes /\ telemetry_timers \subseteq Nodes
  /\ draining => requested /\ tick_timers = {} /\ telemetry_timers = {}

\* The messages on their way to a node: in its channel or buffered for it.
Underway(n) == ToSet(control[n] \o pending_sends[n])

\* Receiver-first shutdown: before the deadline no processor or exporter is told to shut
\* down, nor has latched a Shutdown, while a receiver still admits data.
DownstreamAfterIngress ==
  (\E n \in NonReceivers : node[n] = "draining" \/ Msg("Shutdown") \in Underway(n)) /\ ~expired
    => \A r \in Receivers : node[r] # "open"

\* Nobody is left uninformed while the manager runs, although sends are refused, buffered,
\* retried and overtaken: a receiver has applied the latest memory pressure the manager saw
\* or will get it, a receiver that still admits data in a drain will be told to stop, and
\* after the handover so will every processor and exporter that does not know yet.
NodesInformed ==
  pc # "ended" =>
    /\ \A r \in Receivers : node[r] # "stopped" =>
         generation[r] >= observed \/ Pressure(observed) \in Underway(r)
    /\ draining => \A r \in Receivers : node[r] = "open" => Msg("DrainIngress") \in Underway(r)
    /\ downstream_shutdown_sent =>
         \A n \in NonReceivers : node[n] = "open" => Msg("Shutdown") \in Underway(n)

\* Memory pressure at a receiver never goes back to an older transition, although a direct
\* send may overtake a buffered one; and when the transitions end, the last one is applied
\* by every receiver that is still open, unless the manager ended first.
PressureFollows ==
  /\ [][\A r \in Receivers : generation'[r] >= generation[r]]_vars
  /\ []<>(pc = "ended" \/ \A r \in Receivers : generation[r] = published \/ node[r] # "open")

\* A receiver nobody will tell to stop: the manager left with its message still buffered.
Unreached(r) ==
  node[r] = "open" /\ pc = "ended" /\ \A m \in ToSet(control[r]) : m.kind \notin {"DrainIngress", "Shutdown"}

\* A shutdown that the manager has accepted stops every node, without help from the
\* deadline.  Only a receiver whose channel stayed full until the deadline may be missed,
\* although engine/README.md says that the manager then "forces the remaining nodes to
\* exit".
ShutdownCompletes ==
  draining ~> \/ \A n \in Nodes : node[n] = "stopped"
              \/ expired /\ \E r \in Receivers : Unreached(r)

=============================================================================
