--------------------------- MODULE ControlChannel ---------------------------
(***************************************************************************)
(* The control-aware channel of crates/control-channel: the queue core     *)
(* (Inner, core.rs) with its lifecycle tokens, bounded completion backlog  *)
(* and coalesced normal control, and the waiting layer around it           *)
(* (channel.rs): FIFO blocked senders, forced-shutdown deadline, receiver  *)
(* notification.  Everything runs on one thread, so a call or a poll is    *)
(* one step.  A completion (Ack/Nack) is a unit of the backlog; the keyed  *)
(* waiter slots are the sequence of queued waiters in wake order (the slot *)
(* table itself is modelled in LocalMpsc).                                 *)
(***************************************************************************)
EXTENDS Integers, Sequences, FiniteSets

CONSTANTS Senders,      \* tasks that may hold a control sender
          Capacity,     \* completion_msg_capacity
          BatchMax,     \* completion_batch_max
          BurstLimit    \* completion_burst_limit

ASSUME SendersAssumption == IsFiniteSet(Senders) /\ Senders # {}
ASSUME ConfigAssumption ==
  /\ Capacity \in Nat \ {0} /\ BatchMax \in Nat \ {0} /\ BurstLimit \in Nat \ {0}
  /\ BatchMax <= Capacity

VARIABLES
  phase,       \* Phase
  closed,      \* terminal close flag
  drain,       \* DrainIngress token: "none" | "pending" | "delivered"
  shutdown,    \* Shutdown token: "none" | "pending" | "delivered"
  expired,     \* the shutdown deadline has passed
  forced,      \* shutdown_forced
  completion,  \* length of the completion backlog
  normal,      \* pending normal control: latest_config and the two tick flags
  burst_len,   \* completion_burst_len, which is only compared with BurstLimit
  cursor,      \* next_normal_event
  waiters,     \* queued waiters of blocked sends, oldest first
  task,        \* sender -> "gone" | "idle" | "blocked"
  woken,       \* blocked senders whose waker has fired
  armed,       \* blocked senders sleeping on the shutdown deadline
  rx,          \* "idle" | "waiting" | "finished" (recv gave None) | "dropped"
  rx_woken,
  \* History, read by properties only:
  since_normal,  \* completions delivered while normal control was kept waiting
  overtaken      \* class -> normal events delivered while it was pending

core == <<phase, closed, drain, shutdown, expired, forced, completion, normal, burst_len, cursor>>
history == <<since_normal, overtaken>>
vars == <<core, waiters, task, woken, armed, rx, rx_woken, history>>

Classes == <<"Config", "TimerTick", "CollectTelemetry">>
ClassSet == {"Config", "TimerTick", "CollectTelemetry"}

Least(a, b) == IF a <= b THEN a ELSE b

Init ==
  /\ phase = "Normal" /\ closed = FALSE /\ drain = "none" /\ shutdown = "none"
  /\ expired = FALSE /\ forced = FALSE /\ completion = 0 /\ normal = {}
  /\ burst_len = 0 /\ cursor = 0
  /\ waiters = << >> /\ woken = {} /\ armed = {}
  /\ \E s \in Senders : task = [t \in Senders |-> IF t = s THEN "idle" ELSE "gone"]
  /\ rx = "idle" /\ rx_woken = FALSE
  /\ since_normal = 0 /\ overtaken = [c \in ClassSet |-> 0]

----------------------------------------------------------------------------
(* Wake-ups.                                                               *)

\* Mutant: admission does not notify the receiver.
NotifyNobody == UNCHANGED rx_woken

\* notify_one / notify_waiters.  A permit stored by notify_one only makes the
\* next wait of the receiver loop once around an empty queue, so it is left out.
NotifyReceiver == rx_woken' = (rx_woken \/ rx = "waiting")

Queued == {waiters[n] : n \in DOMAIN waiters}

WakeAllSenders == waiters' = << >> /\ woken' = woken \cup Queued

\* wake_completion_waiters(n): the n oldest waiters, without a reservation.
WakeSenders(n) ==
  LET k == Least(n, Len(waiters))
  IN /\ waiters' = SubSeq(waiters, k + 1, Len(waiters))
     /\ woken' = woken \cup {waiters[i] : i \in 1..k}

\* The queue without the waiter of s, which is queued at most once.
Unqueue(s) ==
  IF s \notin Queued THEN waiters
  ELSE LET n == CHOOSE n \in DOMAIN waiters : waiters[n] = s
       IN SubSeq(waiters, 1, n - 1) \o SubSeq(waiters, n + 1, Len(waiters))

----------------------------------------------------------------------------
(* Admission.                                                              *)

\* Mutant: the deadline is compared only when shutdown is recorded.
ForcedWhenRecorded == forced

\* refresh_shutdown_force: what shutdown_forced is once "now" has been read.
Forced == forced \/ (phase = "ShutdownRecorded" /\ shutdown = "pending" /\ expired)

Refused == closed \/ Forced

\* Mutant: one completion too many is admitted.
HasRoomOffByOne == completion <= Capacity

HasRoom == completion < Capacity

\* next_deadline() is Some
DeadlineArmed == ~closed /\ ~Forced /\ phase = "ShutdownRecorded" /\ shutdown = "pending"

\* try_send of an Ack/Nack, or the first poll of send(), with room.
SendCompletion(s) ==
  /\ task[s] = "idle" /\ ~Refused /\ HasRoom
  /\ completion' = completion + 1 /\ forced' = Forced
  /\ NotifyReceiver
  /\ UNCHANGED <<phase, closed, drain, shutdown, expired, normal, burst_len, cursor,
                 waiters, task, woken, armed, rx, history>>

\* send() of an Ack/Nack with a full backlog: the waiter is queued and, in the
\* shutdown phase, the future also sleeps on the deadline.
SendBlocks(s) ==
  /\ task[s] = "idle" /\ ~Refused /\ ~HasRoom
  /\ task' = [task EXCEPT ![s] = "blocked"]
  /\ waiters' = Append(waiters, s)
  /\ armed' = IF DeadlineArmed THEN armed \cup {s} ELSE armed
  /\ forced' = Forced
  /\ UNCHANGED <<phase, closed, drain, shutdown, expired, completion, normal, burst_len, cursor,
                 woken, rx, rx_woken, history>>

\* send_config, send_timer_tick, send_telemetry_tick: latest wins or coalesced,
\* dropped once drain or shutdown has been recorded.
SendNormal(s, c) ==
  /\ task[s] = "idle" /\ ~Refused
  /\ forced' = Forced
  /\ IF phase = "Normal"
     THEN /\ normal' = normal \cup {c}
          /\ IF c \in normal /\ c # "Config" THEN UNCHANGED rx_woken ELSE NotifyReceiver
     ELSE UNCHANGED <<normal, rx_woken>>
  /\ UNCHANGED <<phase, closed, drain, shutdown, expired, completion, burst_len, cursor,
                 waiters, task, woken, armed, rx, history>>

\* SendFuture::poll.  The deadline-sleep branch re-enters try_send, which then
\* refuses: it is the first disjunct.
PollSend(s) ==
  LET Done == /\ task' = [task EXCEPT ![s] = "idle"]
              /\ waiters' = Unqueue(s) /\ armed' = armed \ {s}
  IN /\ task[s] = "blocked"
     /\ woken' = woken \ {s} /\ forced' = Forced
     /\ UNCHANGED <<phase, closed, drain, shutdown, expired, normal, burst_len, cursor, rx, history>>
     /\ \/ Refused /\ Done /\ UNCHANGED <<completion, rx_woken>>
        \/ ~Refused /\ HasRoom /\ Done /\ completion' = completion + 1 /\ NotifyReceiver
        \/ /\ ~Refused /\ ~HasRoom
           /\ waiters' = IF s \in Queued THEN waiters ELSE Append(waiters, s)
           /\ armed' = IF DeadlineArmed THEN armed \cup {s} ELSE armed \ {s}
           /\ UNCHANGED <<task, completion, rx_woken>>

\* Drop for SendFuture: unregister only.
CancelSend(s) ==
  /\ task[s] = "blocked"
  /\ task' = [task EXCEPT ![s] = "idle"]
  /\ waiters' = Unqueue(s) /\ woken' = woken \ {s} /\ armed' = armed \ {s}
  /\ UNCHANGED <<core, rx, rx_woken, history>>

CloneSender(s, t) ==
  /\ task[s] = "idle" /\ task[t] = "gone"
  /\ task' = [task EXCEPT ![t] = "idle"]
  /\ UNCHANGED <<core, waiters, woken, armed, rx, rx_woken, history>>

\* Drop for ControlSenderCore: the last handle closes the channel.
DropSender(s) ==
  /\ task[s] = "idle"
  /\ task' = [task EXCEPT ![s] = "gone"]
  /\ LET last == \A t \in Senders : t # s => task[t] = "gone"
     IN /\ closed' = (closed \/ last)
        /\ IF last /\ ~closed THEN NotifyReceiver ELSE UNCHANGED rx_woken
  /\ UNCHANGED <<phase, drain, shutdown, expired, forced, completion, normal, burst_len, cursor,
                 waiters, woken, armed, rx, history>>

\* close(): idempotent, wakes everybody the first time.
Close(s) ==
  /\ task[s] = "idle" /\ ~closed
  /\ closed' = TRUE
  /\ WakeAllSenders /\ NotifyReceiver
  /\ UNCHANGED <<phase, drain, shutdown, expired, forced, completion, normal, burst_len, cursor,
                 task, armed, rx, history>>

\* clear_normal_pending
ClearNormal ==
  /\ normal' = {} /\ burst_len' = 0
  /\ since_normal' = 0 /\ overtaken' = [c \in ClassSet |-> 0]

\* Mutant: a drain request after the shutdown request restarts the drain phase.
accept_drain_restarts(s) ==
  /\ task[s] = "idle" /\ ~closed /\ drain = "none" /\ ~Forced
  /\ ClearNormal
  /\ drain' = "pending" /\ phase' = "IngressDrainRecorded" /\ forced' = Forced
  /\ NotifyReceiver
  /\ UNCHANGED <<closed, shutdown, expired, completion, cursor, waiters, task, woken, armed, rx>>

\* record_drain_ingress + accept_drain_ingress (accepted).
accept_drain_ingress(s) ==
  /\ task[s] = "idle" /\ ~closed /\ drain = "none" /\ ~Forced
  /\ ClearNormal
  /\ drain' = "pending"
  /\ phase' = IF phase = "Normal" THEN "IngressDrainRecorded" ELSE phase
  /\ forced' = Forced
  /\ NotifyReceiver
  /\ UNCHANGED <<closed, shutdown, expired, completion, cursor, waiters, task, woken, armed, rx>>

\* Mutant: recording shutdown does not wake the blocked senders.
accept_shutdown_silently(s, past) ==
  /\ task[s] = "idle" /\ ~closed /\ shutdown = "none"
  /\ ClearNormal
  /\ shutdown' = "pending" /\ phase' = "ShutdownRecorded"
  /\ expired' = past /\ forced' = past
  /\ NotifyReceiver
  /\ UNCHANGED <<closed, drain, completion, cursor, waiters, woken, task, armed, rx>>

\* record_shutdown + accept_shutdown (accepted); the deadline may already be past.
accept_shutdown(s, past) ==
  /\ task[s] = "idle" /\ ~closed /\ shutdown = "none"
  /\ ClearNormal
  /\ shutdown' = "pending" /\ phase' = "ShutdownRecorded"
  /\ expired' = past /\ forced' = past
  /\ WakeAllSenders /\ NotifyReceiver
  /\ UNCHANGED <<closed, drain, completion, cursor, task, armed, rx>>

\* The shutdown deadline passes: sleeping blocked senders are woken.
DeadlinePasses ==
  /\ shutdown = "pending" /\ ~expired
  /\ expired' = TRUE
  /\ woken' = woken \cup armed
  /\ armed' = {}
  /\ UNCHANGED <<phase, closed, drain, shutdown, forced, completion, normal, burst_len, cursor,
                 waiters, task, rx, rx_woken, history>>

----------------------------------------------------------------------------
(* Delivery.                                                               *)

\* pop_event: the kind of the next event.
pop_event ==
  IF drain = "pending" THEN "DrainIngress"
  ELSE IF phase = "ShutdownRecorded"
       THEN IF ~Forced /\ completion > 0 THEN "Batch"
            ELSE IF shutdown = "pending" THEN "Shutdown" ELSE "None"
  ELSE IF phase = "IngressDrainRecorded" \/ normal = {}
       THEN IF completion > 0 THEN "Batch" ELSE "None"
  ELSE IF burst_len >= BurstLimit \/ completion = 0 THEN "Normal"
  ELSE "FairBatch"

\* Who may take an event: an idle receiver (recv or try_recv), or a parked
\* recv() that has been notified.
RxReady == rx = "idle" \/ (rx = "waiting" /\ rx_woken)

Received == rx' = "idle" /\ rx_woken' = FALSE /\ forced' = Forced

RecvDrain ==
  /\ RxReady /\ pop_event = "DrainIngress" /\ Received
  /\ drain' = "delivered" /\ burst_len' = 0
  /\ UNCHANGED <<phase, closed, shutdown, expired, completion, normal, cursor,
                 waiters, task, woken, armed, history>>

\* Mutant: the batch is not capped by what is left of the burst budget.
BatchLenUncapped == Least(completion, BatchMax)

\* The batch length of take_completion_batch.
BatchLen ==
  LET n == Least(completion, BatchMax)
  IN IF pop_event = "FairBatch" THEN Least(n, BurstLimit - burst_len) ELSE n

RecvBatch ==
  /\ RxReady /\ pop_event \in {"Batch", "FairBatch"} /\ Received
  /\ completion' = completion - BatchLen
  /\ burst_len' = Least(burst_len + BatchLen, BurstLimit)
  /\ since_normal' = IF normal = {} THEN 0 ELSE since_normal + BatchLen
  /\ WakeSenders(BatchLen)
  /\ UNCHANGED <<phase, closed, drain, shutdown, expired, normal, cursor, task, armed, overtaken>>

\* How far the cursor has to move to reach class i.
Distance(i) == (i - cursor) % 3

\* take_next_normal_event: the first pending class from the cursor on.
NextClass == CHOOSE i \in 0..2 : Classes[i + 1] \in normal /\
               \A j \in 0..2 : Classes[j + 1] \in normal => Distance(i) <= Distance(j)

RecvNormal ==
  /\ RxReady /\ pop_event = "Normal" /\ Received
  /\ LET taken == Classes[NextClass + 1]
     IN /\ normal' = normal \ {taken}
        /\ overtaken' = [c \in ClassSet |->
             IF c \in normal \ {taken} THEN overtaken[c] + 1 ELSE 0]
  /\ cursor' = (NextClass + 1) % 3
  /\ burst_len' = 0 /\ since_normal' = 0
  /\ UNCHANGED <<phase, closed, drain, shutdown, expired, completion, waiters, task, woken, armed>>

\* finalize_shutdown: a forced shutdown abandons the backlog.
RecvShutdown ==
  /\ RxReady /\ pop_event = "Shutdown"
  /\ rx' = "idle" /\ rx_woken' = FALSE /\ forced' = Forced
  /\ shutdown' = "delivered" /\ closed' = TRUE
  /\ completion' = IF Forced THEN 0 ELSE completion
  /\ ClearNormal
  /\ WakeAllSenders
  /\ UNCHANGED <<phase, drain, expired, cursor, task, armed>>

\* recv finds nothing to deliver: None when closed, otherwise it parks.
RecvNothing ==
  /\ RxReady /\ pop_event = "None"
  /\ rx' = IF closed THEN "finished" ELSE "waiting"
  /\ rx_woken' = FALSE /\ forced' = Forced
  /\ UNCHANGED <<phase, closed, drain, shutdown, expired, completion, normal, burst_len, cursor,
                 waiters, task, woken, armed, history>>

\* The recv() future is dropped while parked.
CancelRecv ==
  /\ rx = "waiting" /\ rx' = "idle" /\ rx_woken' = FALSE
  /\ UNCHANGED <<core, waiters, task, woken, armed, history>>

\* Drop for ControlReceiverCore
DropReceiver ==
  /\ rx \in {"idle", "finished"}
  /\ rx' = "dropped" /\ closed' = TRUE
  /\ IF closed THEN UNCHANGED <<waiters, woken>> ELSE WakeAllSenders
  /\ UNCHANGED <<phase, drain, shutdown, expired, forced, completion, normal, burst_len, cursor,
                 task, armed, rx_woken, history>>

Receive == RecvDrain \/ RecvBatch \/ RecvNormal \/ RecvShutdown \/ RecvNothing

\* Everything but a blocked send that is cancelled.
Uncancelled ==
  \/ \E s \in Senders :
       \/ SendCompletion(s) \/ SendBlocks(s) \/ PollSend(s)
       \/ DropSender(s) \/ Close(s) \/ accept_drain_ingress(s)
       \/ \E c \in ClassSet : SendNormal(s, c)
       \/ \E past \in BOOLEAN : accept_shutdown(s, past)
       \/ \E t \in Senders : CloneSender(s, t)
  \/ DeadlinePasses \/ Receive \/ CancelRecv \/ DropReceiver

Next == Uncancelled \/ \E s \in Senders : CancelSend(s)

\* The node polls its control receiver, the executor polls woken senders, and
\* the clock advances.
PollWoken(s) == s \in woken /\ (PollSend(s) \/ CancelSend(s))

Fairness ==
  /\ WF_vars(Receive) /\ WF_vars(DeadlinePasses)
  /\ \A s \in Senders : WF_vars(PollWoken(s))

Spec == Init /\ [][Next]_vars

FairSpec == Spec /\ Fairness

UncancelledSpec == Init /\ [][Uncancelled]_vars

----------------------------------------------------------------------------
TypeOK ==
  /\ phase \in {"Normal", "IngressDrainRecorded", "ShutdownRecorded"}
  /\ closed \in BOOLEAN /\ expired \in BOOLEAN /\ forced \in BOOLEAN /\ rx_woken \in BOOLEAN
  /\ drain \in {"none", "pending", "delivered"}
  /\ shutdown \in {"none", "pending", "delivered"}
  /\ completion \in 0..Capacity /\ burst_len \in 0..BurstLimit
  /\ normal \in SUBSET ClassSet /\ cursor \in 0..2
  /\ waiters \in Seq(Senders) /\ woken \in SUBSET Senders /\ armed \in SUBSET Senders
  /\ task \in [Senders -> {"gone", "idle", "blocked"}]
  /\ rx \in {"idle", "waiting", "finished", "dropped"}
  /\ since_normal \in Nat /\ overtaken \in [ClassSet -> Nat]

\* Completion traffic cannot starve normal control, and no class of normal
\* control starves another: while normal control is pending at most BurstLimit
\* completions are delivered before one normal event is, whatever was delivered
\* before it became pending, and a pending class sees at most two events of the
\* other classes go first.
NormalControlFair ==
  /\ since_normal <= BurstLimit
  /\ \A c \in ClassSet : overtaken[c] <= 2

\* recv() returns None only after everything that was accepted has been
\* delivered or, by a forced shutdown, abandoned.
FinishedMeansDrained ==
  rx = "finished" =>
    completion = 0 /\ normal = {} /\ drain # "pending" /\ shutdown # "pending"

\* Lifecycle precedence: an accepted DrainIngress is delivered before Shutdown,
\* whichever was recorded first and whether or not the deadline forces the end,
\* no normal control survives into or past the drain and shutdown phases, and no
\* order of close, drain and shutdown lets recv() end with something accepted
\* left behind: no backlog, no lifecycle token and no normal control.
LifecycleOrder ==
  /\ shutdown = "delivered" => drain # "pending"
  /\ (phase # "Normal" \/ shutdown = "delivered") => normal = {}
  /\ FinishedMeansDrained

\* A blocked completion sender never sleeps through the end of the channel: once
\* it is closed, or its shutdown deadline has passed, every blocked send has been
\* woken and its next poll returns Closed.
NoSenderSleepsThroughClose ==
  Refused => \A s \in Senders : task[s] = "blocked" => s \in woken

\* The receiver never sleeps on deliverable work.
NoLostReceiverWake ==
  (rx = "waiting" /\ ~rx_woken) => pop_event = "None" /\ ~closed

\* An accepted Shutdown is delivered whatever completion traffic does, because
\* the deadline forces it (unless the receiver is dropped or stops for good).
ShutdownDelivered ==
  shutdown = "pending" ~> (shutdown = "delivered" \/ rx = "dropped")

\* "this only waits when completion capacity is exhausted ... and the wait path is
\* cancellation-safe": a send that stays queued on an open channel sees a full
\* backlog, unless another woken sender is about to take the free place.  So it is as
\* long as no send is cancelled (UncancelledSpec).
WaitsOnlyWhenExhausted ==
  (~Refused /\ waiters # << >>) => completion = Capacity \/ woken # {}
=============================================================================
