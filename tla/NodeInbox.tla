----------------------------- MODULE NodeInbox -----------------------------
(***************************************************************************)
(* The inbox of a processor or exporter node (engine/src/message.rs,       *)
(* InboxCore::recv_with_policy) with the processor-local scheduler of      *)
(* delayed resumes and wakeups (engine/src/node_local_scheduler.rs).       *)
(*                                                                         *)
(* One recv() runs its checks without suspending, then either returns a    *)
(* message or parks in a biased select! that looks only at its branches.   *)
(* The first Shutdown is latched while upstream data drains.  Messages are *)
(* counted, instants are "in the future" or "reached".                     *)
(***************************************************************************)
EXTENDS Naturals, Sequences, FiniteSets

CONSTANTS BurstLimit,   \* CONTROL_BURST_LIMIT
          Slots,        \* WakeupSlot values
          WakeupCap,    \* wakeup_capacity
          ResumeCap,    \* delayed_resume_capacity
          PDataCap,     \* capacity of the pdata channel
          MaxControls   \* bound: ordinary control messages sent in a behaviour

ASSUME BurstAssumption == BurstLimit \in Nat \ {0}
ASSUME CapsAssumption ==
  /\ WakeupCap \in Nat /\ ResumeCap \in Nat /\ PDataCap \in Nat \ {0} /\ MaxControls \in Nat
  /\ IsFiniteSet(Slots)

VARIABLES
  policy,        \* DrainPolicy: "HonorAdmission" (processor) | "ForceDrain" (exporter)
  rx,            \* "handling" (the node runs) | "looping" | "parked" | "closed" | "failed"
  accept,        \* accept_pdata argument of the current or next recv
  ctrl,          \* control_rx: sequence of "Control" and "Shutdown"
  ctrl_closed,
  pdata,         \* number of messages in pdata_rx
  pdata_closed,
  latched,       \* shutting_down_deadline and pending_shutdown are set
  expired,       \* the deadline of the Shutdown has been reached
  consecutive,   \* consecutive_control, which is only compared with BurstLimit
  \* NodeLocalScheduler
  delayed, ripe, \* delayed_resumes with a future deadline, and due ones
  due_now,       \* resumes converted by begin_shutdown
  wakeups, ripe_wakeups,   \* live slots with a future deadline, and due ones
  shutting_down,
  \* Environment bookkeeping and history:
  controls_sent, shutdowns_sent,
  latch_seen,    \* a Shutdown was latched
  overtaken      \* control messages delivered ahead of deliverable pdata

scheduler == <<delayed, ripe, due_now, wakeups, ripe_wakeups, shutting_down>>
channels == <<ctrl, ctrl_closed, pdata, pdata_closed>>
environment == <<controls_sent, shutdowns_sent, expired>>
vars == <<policy, rx, accept, channels, latched, consecutive, scheduler, environment,
          latch_seen, overtaken>>

Init ==
  /\ policy \in {"HonorAdmission", "ForceDrain"}
  /\ rx = "handling" /\ accept = TRUE
  /\ ctrl = << >> /\ ctrl_closed = FALSE /\ pdata = 0 /\ pdata_closed = FALSE
  /\ latched = FALSE /\ expired = FALSE /\ consecutive = 0
  /\ delayed = 0 /\ ripe = 0 /\ due_now = 0 /\ wakeups = {} /\ ripe_wakeups = {}
  /\ shutting_down = FALSE
  /\ controls_sent = 0 /\ shutdowns_sent = 0
  /\ latch_seen = FALSE /\ overtaken = 0

Open == rx \notin {"closed", "failed"}

\* Other tasks of the core run while the node awaits, not between two turns of
\* the receive loop.
Elsewhere == rx \in {"handling", "parked"}

----------------------------------------------------------------------------
(* The other ends of the channels, and time.                               *)

SendControl ==
  /\ Elsewhere /\ ~ctrl_closed /\ controls_sent < MaxControls
  /\ ctrl' = Append(ctrl, "Control") /\ controls_sent' = controls_sent + 1
  /\ UNCHANGED <<policy, rx, accept, ctrl_closed, pdata, pdata_closed, latched, expired,
                 consecutive, scheduler, shutdowns_sent, latch_seen, overtaken>>

\* The pipeline controller sends Shutdown once, and again when its deadline passes.
SendShutdown ==
  /\ Elsewhere /\ ~ctrl_closed
  /\ shutdowns_sent = 0 \/ (shutdowns_sent = 1 /\ expired)
  /\ ctrl' = Append(ctrl, "Shutdown") /\ shutdowns_sent' = shutdowns_sent + 1
  /\ UNCHANGED <<policy, rx, accept, ctrl_closed, pdata, pdata_closed, latched, expired,
                 consecutive, scheduler, controls_sent, latch_seen, overtaken>>

CloseControl ==
  /\ Elsewhere /\ ~ctrl_closed /\ ctrl_closed' = TRUE
  /\ UNCHANGED <<policy, rx, accept, ctrl, pdata, pdata_closed, latched, consecutive,
                 scheduler, environment, latch_seen, overtaken>>

SendPData ==
  /\ Elsewhere /\ ~pdata_closed /\ pdata < PDataCap
  /\ pdata' = pdata + 1
  /\ UNCHANGED <<policy, rx, accept, ctrl, ctrl_closed, pdata_closed, latched, consecutive,
                 scheduler, environment, latch_seen, overtaken>>

ClosePData ==
  /\ Elsewhere /\ ~pdata_closed /\ pdata_closed' = TRUE
  /\ UNCHANGED <<policy, rx, accept, ctrl, ctrl_closed, pdata, latched, consecutive,
                 scheduler, environment, latch_seen, overtaken>>

DeadlinePasses ==
  /\ Elsewhere /\ shutdowns_sent > 0 /\ ~expired /\ expired' = TRUE
  /\ UNCHANGED <<policy, rx, accept, channels, latched, consecutive, scheduler,
                 controls_sent, shutdowns_sent, latch_seen, overtaken>>

ResumeRipens ==
  /\ Elsewhere /\ delayed > 0
  /\ delayed' = delayed - 1 /\ ripe' = ripe + 1
  /\ UNCHANGED <<policy, rx, accept, channels, latched, consecutive, due_now, wakeups,
                 ripe_wakeups, shutting_down, environment, latch_seen, overtaken>>

WakeupRipens(s) ==
  /\ Elsewhere /\ s \in wakeups
  /\ wakeups' = wakeups \ {s} /\ ripe_wakeups' = ripe_wakeups \cup {s}
  /\ UNCHANGED <<policy, rx, accept, channels, latched, consecutive, delayed, ripe, due_now,
                 shutting_down, environment, latch_seen, overtaken>>

----------------------------------------------------------------------------
(* Scheduler calls of the processor while it handles a message.            *)

LiveWakeups == wakeups \cup ripe_wakeups

Processing == policy = "HonorAdmission" /\ rx = "handling"

\* Mutant: one resume too many is retained.
AdmitsResumeOffByOne == ~shutting_down /\ delayed + ripe <= ResumeCap

\* requeue_later is not rejected.
AdmitsResume == ~shutting_down /\ delayed + ripe < ResumeCap

requeue_later ==
  /\ Processing /\ AdmitsResume
  /\ delayed' = delayed + 1
  /\ UNCHANGED <<policy, rx, accept, channels, latched, consecutive, ripe, due_now, wakeups,
                 ripe_wakeups, shutting_down, environment, latch_seen, overtaken>>

\* set_wakeup: replacing a live slot needs no capacity and re-arms it.
set_wakeup(s) ==
  /\ Processing /\ WakeupCap > 0 /\ ~shutting_down
  /\ s \in LiveWakeups \/ Cardinality(LiveWakeups) < WakeupCap
  /\ wakeups' = wakeups \cup {s} /\ ripe_wakeups' = ripe_wakeups \ {s}
  /\ UNCHANGED <<policy, rx, accept, channels, latched, consecutive, delayed, ripe, due_now,
                 shutting_down, environment, latch_seen, overtaken>>

cancel_wakeup(s) ==
  /\ Processing /\ ~shutting_down /\ s \in LiveWakeups
  /\ wakeups' = wakeups \ {s} /\ ripe_wakeups' = ripe_wakeups \ {s}
  /\ UNCHANGED <<policy, rx, accept, channels, latched, consecutive, delayed, ripe, due_now,
                 shutting_down, environment, latch_seen, overtaken>>

\* is_drained
Drained == due_now = 0 /\ delayed + ripe = 0 /\ LiveWakeups = {}

LocalDue == due_now > 0 \/ ripe > 0 \/ ripe_wakeups # {}

begin_shutdown ==
  /\ shutting_down' = TRUE
  /\ IF shutting_down THEN UNCHANGED <<delayed, ripe, due_now, wakeups, ripe_wakeups>>
     ELSE /\ due_now' = due_now + delayed + ripe
          /\ delayed' = 0 /\ ripe' = 0 /\ wakeups' = {} /\ ripe_wakeups' = {}

----------------------------------------------------------------------------
(* recv_with_policy: which branch is taken.                                *)

shutdown_drain_accepts_pdata == accept \/ policy = "ForceDrain"

\* Mutant: the shutdown is released as soon as the pdata queue is empty.
DrainCompleteWhenEmpty == pdata = 0 /\ Drained

shutdown_drain_complete == pdata_closed /\ pdata = 0 /\ Drained

Admits == IF latched THEN shutdown_drain_accepts_pdata ELSE accept

\* Mutant: control is preferred without limit.
NeverBurst == FALSE

Burst == Admits /\ consecutive >= BurstLimit

\* What receiving from a closed and empty pdata channel leads to.
OnPDataClosed == IF latched THEN "Release" ELSE "ClosedShutdown"

\* What the head of the control queue leads to.
OnControl ==
  IF latched \/ Head(ctrl) # "Shutdown" THEN "Control"
  ELSE IF expired THEN "Immediate" ELSE "Latch"

\* Mutant: the drain deadline is not armed.
NoDeadline == FALSE

\* sleep_until_deadline
DeadlineFires == latched /\ expired

\* The biased select!.  A local expiry restarts the loop.
Select ==
  LET fromPData == IF pdata > 0 THEN "PData" ELSE OnPDataClosed
      pdataReady == Admits /\ (pdata > 0 \/ pdata_closed)
      ctrlReady == ctrl # << >> \/ ctrl_closed
      fromCtrl == IF ctrl # << >> THEN OnControl ELSE "Err"
  IN IF DeadlineFires THEN "Release"
     ELSE IF Burst /\ pdataReady THEN fromPData
     ELSE IF ctrlReady THEN fromCtrl
     ELSE IF pdataReady THEN fromPData
     ELSE IF LocalDue THEN "Again"
     ELSE "Park"

\* The checks of one turn of the loop, ending in the first poll of the select!.
Turn ==
  IF ~accept /\ pdata = 0 /\ pdata_closed THEN "ClosedShutdown"
  ELSE IF latched /\ shutdown_drain_complete THEN "Release"
  ELSE IF Burst /\ pdata > 0 THEN "PData"
  ELSE IF Burst /\ pdata_closed THEN OnPDataClosed
  ELSE IF ctrl # << >> THEN OnControl
  ELSE IF LocalDue THEN "Local"
  ELSE Select

Branch == IF rx = "parked" THEN Select ELSE Turn

----------------------------------------------------------------------------
(* recv_with_policy: what each branch does.                                *)

Receiving(b) == rx \in {"handling", "looping", "parked"} /\ Branch = b

\* The message is returned; the node handles it and calls recv again with its
\* admission state of that moment.
Returned == rx' = "handling" /\ accept' \in BOOLEAN

\* control_message: counted, and recorded when pdata was passed over.
CountControl ==
  /\ consecutive' = IF consecutive < BurstLimit THEN consecutive + 1 ELSE consecutive
  /\ overtaken' = IF Admits /\ pdata > 0 THEN overtaken + 1 ELSE 0

RecvControl ==
  /\ Receiving("Control") /\ Returned /\ CountControl
  /\ ctrl' = Tail(ctrl)
  /\ UNCHANGED <<policy, ctrl_closed, pdata, pdata_closed, latched, scheduler, environment,
                 latch_seen>>

RecvPData ==
  /\ Receiving("PData") /\ Returned
  /\ pdata' = pdata - 1 /\ consecutive' = 0 /\ overtaken' = 0
  /\ UNCHANGED <<policy, ctrl, ctrl_closed, pdata_closed, latched, scheduler, environment,
                 latch_seen>>

\* pop_due: converted resumes first, then the due entry with the earlier deadline.
RecvLocal ==
  /\ Receiving("Local") /\ Returned /\ CountControl
  /\ \/ due_now > 0 /\ due_now' = due_now - 1 /\ UNCHANGED <<ripe, ripe_wakeups>>
     \/ due_now = 0 /\ ripe > 0 /\ ripe' = ripe - 1 /\ UNCHANGED <<due_now, ripe_wakeups>>
     \/ /\ due_now = 0
        /\ \E s \in ripe_wakeups : ripe_wakeups' = ripe_wakeups \ {s}
        /\ UNCHANGED <<due_now, ripe>>
  /\ UNCHANGED <<policy, channels, latched, delayed, wakeups, shutting_down, environment,
                 latch_seen>>

\* The first Shutdown, with a deadline in the future.
latch_shutdown ==
  /\ latched' = TRUE /\ latch_seen' = TRUE
  /\ begin_shutdown

LatchShutdown ==
  /\ Receiving("Latch")
  /\ ctrl' = Tail(ctrl) /\ rx' = "looping"
  /\ latch_shutdown
  /\ UNCHANGED <<policy, accept, ctrl_closed, pdata, pdata_closed, consecutive, environment,
                 overtaken>>

\* A Shutdown is returned to the node and the inbox is shut down: the latched one
\* (backlog drained, pdata closed or deadline reached), one whose deadline had
\* passed, or the one made up when the pdata channel is closed.
CloseInbox ==
  /\ \E b \in {"Release", "Immediate", "ClosedShutdown"} : Receiving(b)
  /\ rx' = "closed"
  /\ latched' = FALSE /\ consecutive' = 0
  /\ begin_shutdown
  /\ UNCHANGED <<policy, accept, channels, environment, latch_seen, overtaken>>

\* recv returns Err: the node's loop ends.
RecvErr ==
  /\ Receiving("Err") /\ rx' = "failed"
  /\ UNCHANGED <<policy, accept, channels, latched, consecutive, scheduler, environment,
                 latch_seen, overtaken>>

Loop ==
  /\ Receiving("Again") /\ rx' = "looping"
  /\ UNCHANGED <<policy, accept, channels, latched, consecutive, scheduler, environment,
                 latch_seen, overtaken>>

Park ==
  /\ rx # "parked" /\ Receiving("Park") /\ rx' = "parked"
  /\ UNCHANGED <<policy, accept, channels, latched, consecutive, scheduler, environment,
                 latch_seen, overtaken>>

Recv == \/ RecvControl \/ RecvPData \/ RecvLocal \/ LatchShutdown \/ CloseInbox \/ RecvErr
        \/ Loop \/ Park

Next ==
  \/ SendControl \/ SendShutdown \/ CloseControl \/ SendPData \/ ClosePData
  \/ DeadlinePasses \/ ResumeRipens
  \/ requeue_later \/ \E s \in Slots : WakeupRipens(s) \/ set_wakeup(s) \/ cancel_wakeup(s)
  \/ Recv

Spec == Init /\ [][Next]_vars

\* The node keeps receiving and time passes.
FairSpec == Spec /\ WF_vars(Recv) /\ WF_vars(DeadlinePasses)

----------------------------------------------------------------------------
TypeOK ==
  /\ policy \in {"HonorAdmission", "ForceDrain"}
  /\ rx \in {"handling", "looping", "parked", "closed", "failed"}
  /\ {accept, ctrl_closed, pdata_closed, latched, expired, shutting_down, latch_seen}
        \subseteq BOOLEAN
  /\ ctrl \in Seq({"Control", "Shutdown"})
  /\ pdata \in 0..PDataCap /\ consecutive \in 0..BurstLimit
  /\ delayed + ripe <= ResumeCap /\ {delayed, ripe, due_now} \subseteq 0..ResumeCap
  /\ wakeups \subseteq Slots /\ ripe_wakeups \subseteq Slots
  /\ controls_sent \in 0..MaxControls /\ shutdowns_sent \in 0..2 /\ overtaken \in Nat

\* "Shutdown may only be released once no upstream sender can still deliver more
\* work into this inbox": before the deadline the inbox is never shut down while
\* data is queued or a sender is left, by whichever of its eight exits it ends.
NoPDataAbandoned ==
  rx = "closed" => (pdata = 0 /\ pdata_closed) \/ expired

\* Control traffic, local resumes and wakeups included, cannot starve admitted
\* data, before and during shutdown, across parking and admission changes.
ControlBurstBounded == overtaken <= BurstLimit

\* Once shutdown is latched the scheduler holds nothing that is not immediately
\* deliverable and takes nothing new, so that draining can complete.
LatchStopsScheduler ==
  latched => shutting_down /\ delayed + ripe = 0 /\ LiveWakeups = {}

\* A latched Shutdown reaches the node, whatever upstream and the scheduler do,
\* if ordinary control traffic stops (each control message is delivered ahead of
\* the deadline check; MaxControls makes it finite).
ShutdownReleased == latched ~> ~Open

\* "pending delayed resumes become immediately available as ResumeData control
\* traffic before the latched shutdown is delivered": a processor that is shut
\* down before the deadline has got back every payload it retained.
ResumesBeforeShutdown ==
  (rx = "closed" /\ latch_seen /\ ~expired) => due_now = 0
=============================================================================
