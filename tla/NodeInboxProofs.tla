--------------------------- MODULE NodeInboxProofs ---------------------------
(***************************************************************************)
(* Proofs about NodeInbox for every burst limit, every capacity and any    *)
(* number of control messages.                                             *)
(***************************************************************************)
EXTENDS NodeInbox, TLAPS

\* Stopping the scheduler empties it once and for all, and is the only source of
\* converted resumes.
SchedulerSound ==
  /\ shutting_down => delayed + ripe = 0 /\ LiveWakeups = {}
  /\ ~shutting_down => due_now = 0
  /\ latched => shutting_down

\* The fairness counter of the inbox runs ahead of the messages that really
\* overtook data; CloseInbox resets it, so only an open inbox is bound to it.
CounterCovers ==
  /\ Open => overtaken <= consecutive
  /\ overtaken <= BurstLimit

IInv == TypeOK /\ SchedulerSound /\ CounterCovers /\ NoPDataAbandoned

----------------------------------------------------------------------------
(* What the branches of recv_with_policy imply.                            *)

\* A control message, resume or wakeup is returned ahead of admitted data only
\* while the burst counter is below its limit.
LEMMA BurstYields ==
  ASSUME IInv, Branch \in {"Control", "Local"}, Admits, pdata > 0
  PROVE  consecutive < BurstLimit
<1>1. ~(Burst /\ pdata > 0)
  BY DEF Branch, Turn, Select, OnPDataClosed, OnControl, Admits, Burst
<1> QED
  BY <1>1, BurstAssumption DEF Burst, IInv, TypeOK

\* Data is only returned when there is some.
LEMMA PDataBranch ==
  ASSUME Branch = "PData", IInv
  PROVE  pdata > 0
BY DEF Branch, Turn, Select, OnPDataClosed, OnControl, IInv, TypeOK

\* The branches that consume a control message have one at hand.
LEMMA ControlBranch ==
  ASSUME Branch \in {"Control", "Latch"}
  PROVE  ctrl # << >>
BY DEF Branch, Turn, Select, OnPDataClosed

\* Every exit of the receive loop that shuts the inbox down found the data
\* channel closed and empty, or the deadline reached.
LEMMA CloseBranch ==
  ASSUME Branch \in {"Release", "Immediate", "ClosedShutdown"}, IInv
  PROVE  (pdata = 0 /\ pdata_closed) \/ expired
<1>1. CASE Branch = "Immediate"
  BY <1>1 DEF Branch, Turn, Select, OnPDataClosed, OnControl
<1>2. CASE Branch \in {"Release", "ClosedShutdown"}
  <2>1. pdata \in Nat
    BY DEF IInv, TypeOK
  <2> QED
    BY <1>2, <2>1 DEF Branch, Turn, Select, OnPDataClosed, OnControl, DeadlineFires,
                    shutdown_drain_complete
<1> QED
  BY <1>1, <1>2

----------------------------------------------------------------------------
\* The invariant holds of a new inbox.
THEOREM InitIInv == Init => IInv
<1> SUFFICES ASSUME Init PROVE IInv
  OBVIOUS
<1>1. << >> \in Seq({"Control", "Shutdown"})
  OBVIOUS
<1>2. TypeOK
  <2>1. /\ ctrl \in Seq({"Control", "Shutdown"}) /\ pdata \in 0..PDataCap
        /\ consecutive \in 0..BurstLimit /\ controls_sent \in 0..MaxControls
        /\ delayed + ripe <= ResumeCap /\ {delayed, ripe, due_now} \subseteq 0..ResumeCap
    BY <1>1, BurstAssumption, CapsAssumption DEF Init
  <2>2. /\ policy \in {"HonorAdmission", "ForceDrain"} /\ rx = "handling" /\ accept = TRUE
        /\ ctrl_closed = FALSE /\ pdata_closed = FALSE /\ latched = FALSE /\ expired = FALSE
        /\ shutting_down = FALSE /\ latch_seen = FALSE /\ wakeups = {} /\ ripe_wakeups = {}
        /\ shutdowns_sent = 0 /\ overtaken = 0
    BY DEF Init
  <2>3. {accept, ctrl_closed, pdata_closed, latched, expired, shutting_down, latch_seen}
           \subseteq BOOLEAN
    BY <2>2, Zenon
  <2>4. /\ rx \in {"handling", "looping", "parked", "closed", "failed"}
        /\ wakeups \subseteq Slots /\ ripe_wakeups \subseteq Slots
        /\ shutdowns_sent \in 0..2 /\ overtaken \in Nat
    BY <2>2
  <2> QED
    BY <2>1, <2>2, <2>3, <2>4, Zenon DEF TypeOK
<1>3. SchedulerSound
  BY DEF Init, SchedulerSound, LiveWakeups
<1>4. CounterCovers /\ NoPDataAbandoned
  BY BurstAssumption DEF Init, CounterCovers, NoPDataAbandoned
<1> QED
  BY <1>2, <1>3, <1>4 DEF IInv

\* What the steps that leave the counters and the state of the inbox alone keep.
LEMMA CountersKept ==
  ASSUME IInv, UNCHANGED <<rx, consecutive, overtaken>>
  PROVE  CounterCovers'
BY DEF IInv, CounterCovers, Open

\* begin_shutdown leaves the scheduler empty but for converted resumes.
LEMMA BeginShutdownSound ==
  ASSUME IInv, begin_shutdown
  PROVE  /\ shutting_down' /\ delayed' + ripe' = 0 /\ LiveWakeups' = {}
         /\ delayed' + ripe' <= ResumeCap
         /\ delayed' \in 0..ResumeCap /\ ripe' \in 0..ResumeCap /\ due_now' \in 0..ResumeCap
         /\ wakeups' \subseteq Slots /\ ripe_wakeups' \subseteq Slots
<1>0. /\ delayed + ripe <= ResumeCap /\ delayed \in 0..ResumeCap /\ ripe \in 0..ResumeCap
      /\ due_now \in 0..ResumeCap /\ wakeups \subseteq Slots /\ ripe_wakeups \subseteq Slots
      /\ ResumeCap \in Nat
  BY CapsAssumption DEF IInv, TypeOK
<1>1. CASE shutting_down
  BY <1>0, <1>1 DEF begin_shutdown, IInv, SchedulerSound, LiveWakeups
<1>2. CASE ~shutting_down
  BY <1>0, <1>2 DEF begin_shutdown, IInv, SchedulerSound, LiveWakeups
<1> QED
  BY <1>1, <1>2

\* Every step preserves the invariant.
THEOREM StepIInv == IInv /\ [Next]_vars => IInv'
<1> SUFFICES ASSUME IInv, [Next]_vars PROVE IInv'
  OBVIOUS
<1>a. TypeOK /\ SchedulerSound /\ CounterCovers /\ NoPDataAbandoned
  BY DEF IInv
<1>b. /\ BurstLimit \in Nat /\ BurstLimit > 0 /\ WakeupCap \in Nat /\ ResumeCap \in Nat
      /\ PDataCap \in Nat /\ MaxControls \in Nat
  BY BurstAssumption, CapsAssumption
<1>1. CASE SendControl
  <2>1. TypeOK'
    BY <1>1, <1>a, <1>b DEF SendControl, TypeOK, scheduler
  <2>2. SchedulerSound'
    BY <1>1, <1>a DEF SendControl, SchedulerSound, LiveWakeups, scheduler
  <2>3. CounterCovers'
    BY <1>1, CountersKept DEF SendControl
  <2>4. NoPDataAbandoned'
    BY <1>1 DEF SendControl, NoPDataAbandoned, Elsewhere
  <2> QED
    BY <2>1, <2>2, <2>3, <2>4 DEF IInv
<1>2. CASE SendShutdown
  <2>1. TypeOK'
    BY <1>2, <1>a, <1>b DEF SendShutdown, TypeOK, scheduler
  <2>2. SchedulerSound'
    BY <1>2, <1>a DEF SendShutdown, SchedulerSound, LiveWakeups, scheduler
  <2>3. CounterCovers'
    BY <1>2, CountersKept DEF SendShutdown
  <2>4. NoPDataAbandoned'
    BY <1>2 DEF SendShutdown, NoPDataAbandoned, Elsewhere
  <2> QED
    BY <2>1, <2>2, <2>3, <2>4 DEF IInv
<1>3. CASE CloseControl
  <2>1. TypeOK'
    BY <1>3, <1>a DEF CloseControl, TypeOK, scheduler, environment
  <2>2. SchedulerSound'
    BY <1>3, <1>a DEF CloseControl, SchedulerSound, LiveWakeups, scheduler
  <2>3. CounterCovers'
    BY <1>3, CountersKept DEF CloseControl
  <2>4. NoPDataAbandoned'
    BY <1>3 DEF CloseControl, NoPDataAbandoned, Elsewhere
  <2> QED
    BY <2>1, <2>2, <2>3, <2>4 DEF IInv
<1>4. CASE SendPData
  <2>1. TypeOK'
    BY <1>4, <1>a, <1>b DEF SendPData, TypeOK, scheduler, environment
  <2>2. SchedulerSound'
    BY <1>4, <1>a DEF SendPData, SchedulerSound, LiveWakeups, scheduler
  <2>3. CounterCovers'
    BY <1>4, CountersKept DEF SendPData
  <2>4. NoPDataAbandoned'
    BY <1>4 DEF SendPData, NoPDataAbandoned, Elsewhere
  <2> QED
    BY <2>1, <2>2, <2>3, <2>4 DEF IInv
<1>5. CASE ClosePData
  <2>1. TypeOK'
    BY <1>5, <1>a DEF ClosePData, TypeOK, scheduler, environment
  <2>2. SchedulerSound'
    BY <1>5, <1>a DEF ClosePData, SchedulerSound, LiveWakeups, scheduler
  <2>3. CounterCovers'
    BY <1>5, CountersKept DEF ClosePData
  <2>4. NoPDataAbandoned'
    BY <1>5 DEF ClosePData, NoPDataAbandoned, Elsewhere
  <2> QED
    BY <2>1, <2>2, <2>3, <2>4 DEF IInv
<1>6. CASE DeadlinePasses
  <2>1. TypeOK'
    BY <1>6, <1>a DEF DeadlinePasses, TypeOK, scheduler, channels
  <2>2. SchedulerSound'
    BY <1>6, <1>a DEF DeadlinePasses, SchedulerSound, LiveWakeups, scheduler
  <2>3. CounterCovers'
    BY <1>6, CountersKept DEF DeadlinePasses
  <2>4. NoPDataAbandoned'
    BY <1>6 DEF DeadlinePasses, NoPDataAbandoned
  <2> QED
    BY <2>1, <2>2, <2>3, <2>4 DEF IInv
<1>7. CASE ResumeRipens
  <2>1. TypeOK'
    BY <1>7, <1>a, <1>b DEF ResumeRipens, TypeOK, channels, environment
  <2>2. SchedulerSound'
    BY <1>7, <1>a DEF ResumeRipens, SchedulerSound, LiveWakeups, TypeOK
  <2>3. CounterCovers'
    BY <1>7, CountersKept DEF ResumeRipens
  <2>4. NoPDataAbandoned'
    BY <1>7 DEF ResumeRipens, NoPDataAbandoned, Elsewhere
  <2> QED
    BY <2>1, <2>2, <2>3, <2>4 DEF IInv
<1>8. CASE requeue_later
  <2>1. TypeOK'
    BY <1>8, <1>a, <1>b DEF requeue_later, AdmitsResume, TypeOK, channels, environment
  <2>2. SchedulerSound'
    BY <1>8, <1>a DEF requeue_later, AdmitsResume, SchedulerSound, LiveWakeups
  <2>3. CounterCovers'
    BY <1>8, CountersKept DEF requeue_later
  <2>4. NoPDataAbandoned'
    BY <1>8 DEF requeue_later, Processing, NoPDataAbandoned
  <2> QED
    BY <2>1, <2>2, <2>3, <2>4 DEF IInv
<1>9. CASE \E s \in Slots : WakeupRipens(s) \/ set_wakeup(s) \/ cancel_wakeup(s)
  <2> SUFFICES ASSUME NEW s \in Slots, WakeupRipens(s) \/ set_wakeup(s) \/ cancel_wakeup(s)
               PROVE  IInv'
    BY <1>9
  <2>0. /\ UNCHANGED <<policy, rx, accept, channels, latched, consecutive, delayed, ripe,
                       due_now, shutting_down, environment, latch_seen, overtaken>>
        /\ rx \in {"handling", "parked"} /\ wakeups' \subseteq Slots
        /\ ripe_wakeups' \subseteq Slots
        /\ shutting_down => LiveWakeups' = {}
    BY <1>a DEF WakeupRipens, set_wakeup, cancel_wakeup, Elsewhere, Processing, TypeOK,
                SchedulerSound, LiveWakeups
  <2>1. TypeOK'
    BY <2>0, <1>a DEF TypeOK, channels, environment
  <2>2. SchedulerSound'
    BY <2>0, <1>a DEF SchedulerSound
  <2>3. CounterCovers'
    BY <2>0, CountersKept
  <2>4. NoPDataAbandoned'
    BY <2>0 DEF NoPDataAbandoned
  <2> QED
    BY <2>1, <2>2, <2>3, <2>4 DEF IInv
<1>10. CASE RecvControl
  <2>0. ctrl # << >>
    BY <1>10, ControlBranch DEF RecvControl, Receiving
  <2>1. /\ consecutive' \in 0..BurstLimit /\ overtaken' \in Nat
        /\ overtaken' <= consecutive' /\ overtaken' <= BurstLimit
    <3>1. consecutive \in 0..BurstLimit /\ overtaken \in Nat /\ overtaken <= consecutive
      BY <1>10, <1>a DEF TypeOK, CounterCovers, Open, RecvControl, Receiving
    <3>2. Admits /\ pdata > 0 => consecutive < BurstLimit
      BY <1>10, BurstYields DEF RecvControl, Receiving
    <3> QED
      BY <1>10, <1>b, <3>1, <3>2 DEF RecvControl, CountControl
  <2>2. TypeOK'
    BY <1>10, <2>0, <2>1, <1>a DEF RecvControl, Returned, TypeOK, scheduler, environment
  <2>3. SchedulerSound'
    BY <1>10, <1>a DEF RecvControl, SchedulerSound, LiveWakeups, scheduler
  <2>4. CounterCovers' /\ NoPDataAbandoned'
    BY <1>10, <2>1 DEF RecvControl, Returned, CounterCovers, NoPDataAbandoned
  <2> QED
    BY <2>2, <2>3, <2>4 DEF IInv
<1>11. CASE RecvPData
  <2>0. pdata > 0
    BY <1>11, PDataBranch DEF RecvPData, Receiving
  <2>1. TypeOK'
    BY <1>11, <2>0, <1>a, <1>b DEF RecvPData, Returned, TypeOK, scheduler, environment
  <2>2. SchedulerSound'
    BY <1>11, <1>a DEF RecvPData, SchedulerSound, LiveWakeups, scheduler
  <2>3. CounterCovers' /\ NoPDataAbandoned'
    BY <1>11, <1>b DEF RecvPData, Returned, CounterCovers, NoPDataAbandoned
  <2> QED
    BY <2>1, <2>2, <2>3 DEF IInv
<1>12. CASE RecvLocal
  <2>1. /\ consecutive' \in 0..BurstLimit /\ overtaken' \in Nat
        /\ overtaken' <= consecutive' /\ overtaken' <= BurstLimit
    <3>1. consecutive \in 0..BurstLimit /\ overtaken \in Nat /\ overtaken <= consecutive
      BY <1>12, <1>a DEF TypeOK, CounterCovers, Open, RecvLocal, Receiving
    <3>2. Admits /\ pdata > 0 => consecutive < BurstLimit
      BY <1>12, BurstYields DEF RecvLocal, Receiving
    <3> QED
      BY <1>12, <1>b, <3>1, <3>2 DEF RecvLocal, CountControl
  <2>2. /\ due_now' \in 0..ResumeCap /\ ripe' \in 0..ResumeCap /\ delayed' + ripe' <= ResumeCap
        /\ ripe_wakeups' \subseteq ripe_wakeups /\ due_now' <= due_now /\ ripe' <= ripe
    BY <1>12, <1>a, <1>b DEF RecvLocal, TypeOK
  <2>3. TypeOK'
    BY <1>12, <2>1, <2>2, <1>a DEF RecvLocal, Returned, TypeOK, channels, environment
  <2>4. SchedulerSound'
    BY <1>12, <2>2, <1>a, <1>b DEF RecvLocal, SchedulerSound, LiveWakeups, TypeOK
  <2>5. CounterCovers' /\ NoPDataAbandoned'
    BY <1>12, <2>1 DEF RecvLocal, Returned, CounterCovers, NoPDataAbandoned
  <2> QED
    BY <2>3, <2>4, <2>5 DEF IInv
<1>13. CASE LatchShutdown
  <2>0. ctrl # << >> /\ begin_shutdown
    BY <1>13, ControlBranch DEF LatchShutdown, latch_shutdown, Receiving
  <2>1. TypeOK'
    BY <1>13, <2>0, BeginShutdownSound, <1>a
       DEF LatchShutdown, latch_shutdown, TypeOK, environment
  <2>2. SchedulerSound'
    BY <2>0, BeginShutdownSound DEF SchedulerSound
  <2>3. CounterCovers' /\ NoPDataAbandoned'
    BY <1>13, <1>a DEF LatchShutdown, CounterCovers, NoPDataAbandoned, Open, Receiving
  <2> QED
    BY <2>1, <2>2, <2>3 DEF IInv
<1>14. CASE CloseInbox
  <2>0. begin_shutdown /\ ((pdata = 0 /\ pdata_closed) \/ expired)
    BY <1>14, CloseBranch DEF CloseInbox, Receiving
  <2>1. TypeOK'
    <3>1. /\ rx' = "closed" /\ latched' = FALSE /\ consecutive' \in 0..BurstLimit
          /\ shutting_down' = TRUE
          /\ UNCHANGED <<policy, accept, channels, environment, latch_seen, overtaken>>
      BY <1>14, <1>b DEF CloseInbox, begin_shutdown
    <3>2. /\ delayed' + ripe' <= ResumeCap /\ {delayed', ripe', due_now'} \subseteq 0..ResumeCap
          /\ wakeups' \subseteq Slots /\ ripe_wakeups' \subseteq Slots
      BY <2>0, BeginShutdownSound
    <3> QED
      BY <3>1, <3>2, <1>a DEF TypeOK, channels, environment
  <2>2. SchedulerSound'
    BY <2>0, BeginShutdownSound DEF SchedulerSound
  <2>3. CounterCovers' /\ NoPDataAbandoned'
    BY <1>14, <2>0, <1>a
       DEF CloseInbox, CounterCovers, NoPDataAbandoned, Open, channels, environment
  <2> QED
    BY <2>1, <2>2, <2>3 DEF IInv
<1>15. CASE RecvErr \/ Loop \/ Park \/ UNCHANGED vars
  <2>0. /\ UNCHANGED <<policy, accept, channels, latched, consecutive, scheduler, environment,
                       latch_seen, overtaken>>
        /\ rx' = rx \/ (rx' \in {"failed", "looping", "parked"} /\ Open)
    BY <1>15 DEF RecvErr, Loop, Park, vars, Receiving, Open
  <2>1. TypeOK'
    BY <2>0, <1>a DEF TypeOK, channels, scheduler, environment
  <2>2. SchedulerSound'
    BY <2>0, <1>a DEF SchedulerSound, LiveWakeups, scheduler
  <2>3. CounterCovers' /\ NoPDataAbandoned'
    BY <2>0, <1>a DEF CounterCovers, NoPDataAbandoned, Open, channels, environment
  <2> QED
    BY <2>1, <2>2, <2>3 DEF IInv
<1> QED
  BY <1>1, <1>2, <1>3, <1>4, <1>5, <1>6, <1>7, <1>8, <1>9, <1>10, <1>11, <1>12, <1>13, <1>14,
     <1>15 DEF Next, Recv

----------------------------------------------------------------------------
\* The inbox and its scheduler keep their type: no capacity is exceeded and no
\* count goes below zero.
THEOREM TypeCorrect == Spec => []TypeOK
<1>1. IInv => TypeOK
  BY DEF IInv
<1> QED
  BY <1>1, InitIInv, StepIInv, PTL DEF Spec

\* No exit of the receive loop abandons data before the deadline.
THEOREM PDataIsNotAbandoned == Spec => []NoPDataAbandoned
<1>1. IInv => NoPDataAbandoned
  BY DEF IInv
<1> QED
  BY <1>1, InitIInv, StepIInv, PTL DEF Spec

\* At most BurstLimit control messages are delivered ahead of admitted data.
THEOREM ControlCannotStarveData == Spec => []ControlBurstBounded
<1>1. IInv => ControlBurstBounded
  BY DEF IInv, CounterCovers, ControlBurstBounded
<1> QED
  BY <1>1, InitIInv, StepIInv, PTL DEF Spec

\* A latched Shutdown leaves the scheduler nothing that could delay the drain.
THEOREM LatchingStopsScheduler == Spec => []LatchStopsScheduler
<1>1. IInv => LatchStopsScheduler
  BY DEF IInv, SchedulerSound, LatchStopsScheduler
<1> QED
  BY <1>1, InitIInv, StepIInv, PTL DEF Spec
============================================================================
