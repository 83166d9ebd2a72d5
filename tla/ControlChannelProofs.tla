------------------------ MODULE ControlChannelProofs ------------------------
(***************************************************************************)
(* Proofs about ControlChannel for every finite set of senders and every   *)
(* capacity, batch size and burst limit.                                   *)
(***************************************************************************)
EXTENDS ControlChannel, FiniteSetTheorems, TLAPS

\* The phase says which lifecycle tokens were recorded; normal control exists only
\* in the normal phase; a delivered Shutdown has closed an empty channel.
PhaseSound ==
  /\ phase = "Normal" <=> drain = "none" /\ shutdown = "none"
  /\ phase = "ShutdownRecorded" <=> shutdown # "none"
  /\ phase # "Normal" => normal = {}
  /\ shutdown = "delivered" => closed /\ drain # "pending" /\ completion = 0

\* The burst budget covers the completions delivered ahead of normal control.
BudgetSound ==
  /\ since_normal <= burst_len
  /\ normal = {} => since_normal = 0

\* The position of class i, counted from the cursor, bounds how often a pending
\* class can still be passed over.
RoundRobinSound ==
  \A i \in 0..2 :
    IF Classes[i + 1] \in normal THEN overtaken[Classes[i + 1]] + Distance(i) <= 2
    ELSE overtaken[Classes[i + 1]] = 0

\* A blocked sender that has not been woken waits in the queue of an open channel
\* and, once Shutdown is recorded, sleeps on its deadline as well.
SleepersSound ==
  \A s \in Senders : task[s] = "blocked" /\ s \notin woken =>
    /\ s \in Queued /\ ~Refused
    /\ phase = "ShutdownRecorded" /\ shutdown = "pending" => s \in armed

ReceiverSound ==
  /\ NoLostReceiverWake
  /\ FinishedMeansDrained
  /\ rx = "finished" => closed

IInv == TypeOK /\ PhaseSound /\ BudgetSound /\ RoundRobinSound /\ SleepersSound /\ ReceiverSound

----------------------------------------------------------------------------
(* The round-robin cursor and the queue of waiters.                        *)

\* The classes by position.
LEMMA ClassTable ==
  /\ Classes[1] = "Config" /\ Classes[2] = "TimerTick" /\ Classes[3] = "CollectTelemetry"
  /\ ClassSet = {Classes[1], Classes[2], Classes[3]}
  /\ \A i, j \in 0..2 : Classes[i + 1] = Classes[j + 1] => i = j
BY DEF Classes, ClassSet

\* The distance from the cursor without the modulus.
LEMMA DistanceIs ==
  ASSUME cursor \in 0..2, NEW i \in 0..2
  PROVE  Distance(i) = IF i >= cursor THEN i - cursor ELSE i - cursor + 3
<1>1. i - cursor \in -2..2
  OBVIOUS
<1>2. \A x \in -2..2 : x % 3 = IF x >= 0 THEN x ELSE x + 3
  OBVIOUS
<1> QED
  BY <1>1, <1>2 DEF Distance

\* take_next_normal_event finds the nearest pending class.
LEMMA NextClassIs ==
  ASSUME cursor \in 0..2, normal \subseteq ClassSet, normal # {}
  PROVE  /\ NextClass \in 0..2 /\ Classes[NextClass + 1] \in normal
         /\ \A j \in 0..2 : Classes[j + 1] \in normal => Distance(NextClass) <= Distance(j)
<1> DEFINE P(i) == Classes[i + 1] \in normal
           D(i) == IF i >= cursor THEN i - cursor ELSE i - cursor + 3
<1>1. \A i \in 0..2 : Distance(i) = D(i)
  BY DistanceIs
<1>2. P(0) \/ P(1) \/ P(2)
  BY ClassTable
<1> HIDE DEF P
<1>3. \E i \in 0..2 : P(i) /\ \A j \in 0..2 : P(j) => D(i) <= D(j)
  <2>1. CASE cursor = 0
    BY <2>1, <1>2
  <2>2. CASE cursor = 1
    BY <2>2, <1>2
  <2>3. CASE cursor = 2
    BY <2>3, <1>2
  <2> QED
    BY <2>1, <2>2, <2>3
<1>4. \E i \in 0..2 : P(i) /\ \A j \in 0..2 : P(j) => Distance(i) <= Distance(j)
  BY <1>1, <1>3
<1> QED
  BY <1>4, Zenon DEF NextClass, P

\* What a concatenation holds.
LEMMA ConcatIs ==
  ASSUME NEW a \in Seq(Senders), NEW b \in Seq(Senders)
  PROVE  /\ a \o b \in Seq(Senders) /\ Len(a \o b) = Len(a) + Len(b)
         /\ \A k \in 1..Len(a) : (a \o b)[k] = a[k]
         /\ \A k \in 1..Len(b) : (a \o b)[Len(a) + k] = b[k]
OBVIOUS

\* Removing the waiter of s keeps every other waiter.
LEMMA UnqueueKeeps ==
  ASSUME waiters \in Seq(Senders), NEW s
  PROVE  /\ Unqueue(s) \in Seq(Senders)
         /\ \A t \in Queued : t # s => \E k \in DOMAIN Unqueue(s) : Unqueue(s)[k] = t
<1>1. CASE s \notin Queued
  BY <1>1 DEF Unqueue, Queued
<1>2. CASE s \in Queued
  <2> DEFINE n == CHOOSE n \in DOMAIN waiters : waiters[n] = s
             a == SubSeq(waiters, 1, n - 1)
             b == SubSeq(waiters, n + 1, Len(waiters))
  <2>1. \E m \in DOMAIN waiters : waiters[m] = s
    BY <1>2 DEF Queued
  <2>2. n \in DOMAIN waiters /\ waiters[n] = s
    BY <2>1, Zenon
  <2>3. Unqueue(s) = a \o b
    BY <1>2, Zenon DEF Unqueue
  <2> HIDE DEF n
  <2>4. n \in 1..Len(waiters)
    BY <2>2
  <2>5. /\ a \in Seq(Senders) /\ b \in Seq(Senders)
        /\ Len(a) = n - 1 /\ Len(b) = Len(waiters) - n
        /\ \A k \in 1..(n - 1) : a[k] = waiters[k]
        /\ \A k \in 1..(Len(waiters) - n) : b[k] = waiters[n + k]
    BY <2>4
  <2> HIDE DEF a, b
  <2> DEFINE c == a \o b
  <2>a. /\ c \in Seq(Senders) /\ Len(c) = Len(a) + Len(b)
        /\ \A k \in 1..Len(a) : c[k] = a[k]
        /\ \A k \in 1..Len(b) : c[Len(a) + k] = b[k]
    BY <2>5, ConcatIs
  <2>b. Unqueue(s) = c
    BY <2>3
  <2> HIDE DEF c
  <2>6. c \in Seq(Senders) /\ Len(c) = Len(waiters) - 1 /\ DOMAIN c = 1..(Len(waiters) - 1)
    BY <2>4, <2>5, <2>a
  <2>7. ASSUME NEW t \in Queued, t # s PROVE \E k \in DOMAIN c : c[k] = t
    <3>1. PICK m \in DOMAIN waiters : waiters[m] = t
      BY DEF Queued
    <3>2. m \in 1..Len(waiters) /\ m # n
      BY <3>1, <2>2, <2>7
    <3>3. CASE m < n
      <4>1. m \in DOMAIN c /\ c[m] = a[m] /\ a[m] = t
        BY <3>1, <3>2, <3>3, <2>4, <2>5, <2>6, <2>a
      <4> QED
        BY <4>1
    <3>4. CASE m > n
      <4> DEFINE d == m - n
      <4>0. d \in 1..(Len(waiters) - n) /\ m = n + d /\ Len(waiters) \in Nat
        BY <3>2, <3>4, <2>4
      <4> HIDE DEF d
      <4>1. d \in 1..Len(b) /\ b[d] = t /\ c[Len(a) + d] = b[d]
        BY <4>0, <3>1, <2>5, <2>a
      <4>2. Len(a) + d \in 1..(Len(waiters) - 1)
        BY <4>0, <2>4, <2>5
      <4> QED
        BY <4>1, <4>2, <2>6
    <3> QED
      BY <3>2, <3>3, <3>4, <2>4
  <2> QED
    BY <2>b, <2>6, <2>7
<1> QED
  BY <1>1, <1>2

\* wake_n wakes or keeps every waiter.
LEMMA WakeSendersSound ==
  ASSUME waiters \in Seq(Senders), woken \subseteq Senders, NEW n \in Nat, WakeSenders(n)
  PROVE  /\ waiters' \in Seq(Senders) /\ woken' \subseteq Senders /\ woken \subseteq woken'
         /\ \A t \in Queued : t \in woken' \/ t \in Queued'
<1> DEFINE k == Least(n, Len(waiters))
<1>1. k \in 0..Len(waiters)
  BY DEF Least
<1>2. waiters' = SubSeq(waiters, k + 1, Len(waiters)) /\ woken' = woken \cup {waiters[i] : i \in 1..k}
  BY Zenon DEF WakeSenders
<1> HIDE DEF k
<1>3. /\ waiters' \in Seq(Senders) /\ Len(waiters') = Len(waiters) - k
      /\ \A j \in 1..(Len(waiters) - k) : waiters'[j] = waiters[k + j]
  BY <1>1, <1>2
<1>4. woken' \subseteq Senders /\ woken \subseteq woken'
  BY <1>1, <1>2
<1>5. ASSUME NEW t \in Queued PROVE t \in woken' \/ t \in Queued'
  <2>1. PICK m \in DOMAIN waiters : waiters[m] = t
    BY DEF Queued
  <2>2. m \in 1..Len(waiters)
    BY <2>1
  <2>3. CASE m <= k
    BY <2>1, <2>2, <2>3, <1>1, <1>2
  <2>4. CASE m > k
    <3>1. m - k \in DOMAIN waiters' /\ waiters'[m - k] = waiters[k + (m - k)]
      BY <2>2, <2>4, <1>1, <1>3
    <3>2. k + (m - k) = m
      BY <1>1, <2>2
    <3> QED
      BY <3>1, <3>2, <2>1 DEF Queued
  <2> QED
    BY <1>1, <2>2, <2>3, <2>4
<1> QED
  BY <1>3, <1>4, <1>5

\* A new waiter joins the others.
LEMMA AppendWaiter ==
  ASSUME waiters \in Seq(Senders), NEW s \in Senders, NEW w, w = Append(waiters, s)
  PROVE  /\ w \in Seq(Senders)
         /\ \E k \in DOMAIN w : w[k] = s
         /\ \A t \in Queued : \E k \in DOMAIN w : w[k] = t
<1>1. /\ w \in Seq(Senders) /\ Len(w) = Len(waiters) + 1 /\ w[Len(waiters) + 1] = s
      /\ \A k \in 1..Len(waiters) : w[k] = waiters[k]
  OBVIOUS
<1>2. \A k \in 1..Len(waiters) : k \in DOMAIN w
  BY <1>1
<1>3. Len(waiters) + 1 \in DOMAIN w
  BY <1>1
<1> QED
  BY <1>1, <1>2, <1>3 DEF Queued

----------------------------------------------------------------------------
(* What steps that leave a part of the state alone preserve.               *)

\* Reading the clock again does not change whether shutdown is forced.
LEMMA ForcedSame ==
  ASSUME forced' \in {forced, Forced}, UNCHANGED <<phase, shutdown, expired>>
  PROVE  Forced' <=> Forced
BY DEF Forced

\* Fairness bookkeeping is only disturbed by normal control and batches.
LEMMA FairKept ==
  ASSUME IInv, UNCHANGED <<normal, burst_len, cursor, since_normal, overtaken>>
  PROVE  BudgetSound' /\ RoundRobinSound'
BY DEF IInv, BudgetSound, RoundRobinSound, Distance

\* clear_normal_pending starts it afresh.
LEMMA FairCleared ==
  ASSUME ClearNormal
  PROVE  BudgetSound' /\ RoundRobinSound'
<1>1. normal' = {} /\ burst_len' = 0 /\ since_normal' = 0 /\ overtaken' = [c \in ClassSet |-> 0]
  BY DEF ClearNormal
<1>2. \A i \in 0..2 : Classes[i + 1] \in ClassSet
  BY ClassTable
<1> QED
  BY <1>1, <1>2 DEF BudgetSound, RoundRobinSound

\* Blocked senders are undisturbed by steps that touch neither them nor the lifecycle.
LEMMA SleepersKept ==
  ASSUME IInv, forced' \in {forced, Forced}, UNCHANGED <<phase, shutdown, expired, closed>>,
         UNCHANGED <<waiters, task, woken, armed>>
  PROVE  SleepersSound'
<1>1. Refused' <=> Refused
  BY ForcedSame DEF Refused
<1> QED
  BY <1>1 DEF IInv, SleepersSound, Queued

\* A woken or idle receiver is never a sleeping one.
LEMMA ReceiverNotified ==
  ASSUME IInv, ~closed, UNCHANGED rx, rx_woken' = (rx_woken \/ rx = "waiting")
  PROVE  ReceiverSound'
BY DEF IInv, TypeOK, ReceiverSound, NoLostReceiverWake, FinishedMeansDrained

\* What the receiver would be given does not change.
LEMMA ReceiverKept ==
  ASSUME IInv, forced' \in {forced, Forced},
         UNCHANGED <<rx, rx_woken, phase, closed, drain, shutdown, expired, completion, normal,
                     burst_len>>
  PROVE  ReceiverSound'
<1>1. Forced' <=> Forced
  BY ForcedSame
<1>2. pop_event' = pop_event
  BY <1>1 DEF pop_event
<1> QED
  BY <1>2 DEF IInv, ReceiverSound, NoLostReceiverWake, FinishedMeansDrained

\* After wake_all no sender is asleep.
LEMMA AllAwake ==
  ASSUME IInv, WakeAllSenders, UNCHANGED task
  PROVE  /\ waiters' \in Seq(Senders) /\ woken' \subseteq Senders
         /\ SleepersSound'
<1>1. << >> \in Seq(Senders)
  OBVIOUS
<1>2. waiters' = << >> /\ woken' = woken \cup Queued
  BY DEF WakeAllSenders
<1>3. Queued \subseteq Senders /\ woken \subseteq Senders
  BY DEF IInv, TypeOK, Queued
<1>4. \A s \in Senders : task[s] = "blocked" => s \in woken \cup Queued
  BY DEF IInv, SleepersSound
<1>5. \A s \in Senders : task'[s] = "blocked" => s \in woken'
  BY <1>2, <1>4
<1>6. SleepersSound'
  BY <1>5 DEF SleepersSound
<1> QED
  BY <1>1, <1>2, <1>3, <1>6

\* Cancelling or completing a blocked send leaves the other sleepers in the queue.
LEMMA SleeperLeaves ==
  ASSUME IInv, NEW s \in Senders, task' = [task EXCEPT ![s] = "idle"],
         waiters' = Unqueue(s), woken' = woken \ {s}, armed' = armed \ {s},
         forced' \in {forced, Forced}, UNCHANGED <<phase, shutdown, expired, closed>>
  PROVE  /\ waiters' \in Seq(Senders) /\ SleepersSound'
<1>1. Refused' <=> Refused
  BY ForcedSame DEF Refused
<1>2. /\ waiters' \in Seq(Senders)
      /\ \A t \in Queued : t # s => \E k \in DOMAIN waiters' : waiters'[k] = t
  BY UnqueueKeeps DEF IInv, TypeOK
<1>3. \A t \in Queued : t # s => t \in Queued'
  BY <1>2 DEF Queued
<1>4. task \in [Senders -> {"gone", "idle", "blocked"}]
  BY DEF IInv, TypeOK
<1>5. SleepersSound'
  <2> SUFFICES ASSUME NEW t \in Senders, task'[t] = "blocked", t \notin woken'
               PROVE  /\ t \in Queued' /\ ~Refused'
                      /\ phase' = "ShutdownRecorded" /\ shutdown' = "pending" => t \in armed'
    BY DEF SleepersSound
  <2>1. t # s /\ task[t] = "blocked" /\ t \notin woken
    BY <1>4
  <2> QED
    BY <2>1, <1>1, <1>3 DEF IInv, SleepersSound
<1> QED
  BY <1>2, <1>5

\* BatchLen never exceeds the backlog nor, with normal control waiting, the budget.
LEMMA BatchLenIs ==
  ASSUME IInv
  PROVE  /\ BatchLen \in 0..completion
         /\ pop_event = "FairBatch" => BatchLen <= BurstLimit - burst_len
<1>1. completion \in Nat /\ BatchMax \in Nat /\ burst_len \in 0..BurstLimit /\ BurstLimit \in Nat
  BY ConfigAssumption DEF IInv, TypeOK
<1> DEFINE n == Least(completion, BatchMax)
<1>2. n \in 0..completion
  BY <1>1 DEF Least
<1>3. BatchLen = IF pop_event = "FairBatch" THEN Least(n, BurstLimit - burst_len) ELSE n
  BY Zenon DEF BatchLen
<1> HIDE DEF n
<1> QED
  BY <1>1, <1>2, <1>3 DEF Least

----------------------------------------------------------------------------
\* The invariant holds of a new channel.
THEOREM InitIInv == Init => IInv
<1> SUFFICES ASSUME Init PROVE IInv
  OBVIOUS
<1>1. << >> \in Seq(Senders)
  OBVIOUS
<1>2. PICK s0 \in Senders : task = [t \in Senders |-> IF t = s0 THEN "idle" ELSE "gone"]
  BY DEF Init
<1>3. TypeOK
  <2>1. /\ waiters \in Seq(Senders) /\ completion \in 0..Capacity /\ burst_len \in 0..BurstLimit
        /\ cursor \in 0..2 /\ since_normal \in Nat
    BY <1>1, ConfigAssumption DEF Init
  <2>2. overtaken \in [ClassSet -> Nat] /\ task \in [Senders -> {"gone", "idle", "blocked"}]
    BY <1>2 DEF Init
  <2>3. closed \in BOOLEAN /\ expired \in BOOLEAN /\ forced \in BOOLEAN /\ rx_woken \in BOOLEAN
    BY Zenon DEF Init
  <2>4. /\ phase \in {"Normal", "IngressDrainRecorded", "ShutdownRecorded"}
        /\ drain \in {"none", "pending", "delivered"}
        /\ shutdown \in {"none", "pending", "delivered"}
        /\ normal \in SUBSET ClassSet /\ woken \in SUBSET Senders /\ armed \in SUBSET Senders
        /\ rx \in {"idle", "waiting", "finished", "dropped"}
    BY DEF Init
  <2> QED
    BY <2>1, <2>2, <2>3, <2>4 DEF TypeOK
<1>4. PhaseSound /\ BudgetSound
  BY DEF Init, PhaseSound, BudgetSound
<1>5. RoundRobinSound
  <2>1. \A i \in 0..2 : Classes[i + 1] \in ClassSet
    BY ClassTable
  <2>2. normal = {} /\ overtaken = [c \in ClassSet |-> 0]
    BY DEF Init
  <2> QED
    BY <2>1, <2>2 DEF RoundRobinSound
<1>6. SleepersSound
  BY <1>2 DEF SleepersSound
<1>7. ReceiverSound
  BY DEF Init, ReceiverSound, NoLostReceiverWake, FinishedMeansDrained
<1> QED
  BY <1>3, <1>4, <1>5, <1>6, <1>7 DEF IInv

\* Every step of the channel preserves the invariant.
THEOREM StepIInv == IInv /\ [Next]_vars => IInv'
<1> SUFFICES ASSUME IInv, [Next]_vars PROVE IInv'
  OBVIOUS
<1>a. TypeOK /\ PhaseSound /\ BudgetSound /\ RoundRobinSound /\ SleepersSound /\ ReceiverSound
  BY DEF IInv
<1>b. Capacity \in Nat /\ BatchMax \in Nat /\ BurstLimit \in Nat
  BY ConfigAssumption
<1>c. Forced \in BOOLEAN /\ rx_woken \in BOOLEAN /\ (rx_woken \/ rx = "waiting") \in BOOLEAN
  BY <1>a DEF Forced, TypeOK
<1>1. ASSUME NEW s \in Senders, SendCompletion(s) PROVE IInv'
  <2>1. TypeOK'
    BY <1>1, <1>a, <1>b, <1>c DEF SendCompletion, HasRoom, NotifyReceiver, TypeOK, history
  <2>2. PhaseSound'
    BY <1>1, <1>a DEF SendCompletion, Refused, PhaseSound
  <2>3. BudgetSound' /\ RoundRobinSound'
    BY <1>1, FairKept DEF SendCompletion, history
  <2>4. SleepersSound'
    BY <1>1, SleepersKept DEF SendCompletion
  <2>5. ReceiverSound'
    BY <1>1, ReceiverNotified DEF SendCompletion, Refused, NotifyReceiver
  <2> QED
    BY <2>1, <2>2, <2>3, <2>4, <2>5 DEF IInv
<1>2. ASSUME NEW s \in Senders, SendBlocks(s) PROVE IInv'
  <2>0. /\ waiters' = Append(waiters, s) /\ waiters \in Seq(Senders) /\ ~Refused
        /\ task' = [task EXCEPT ![s] = "blocked"] /\ armed \subseteq armed'
        /\ UNCHANGED <<phase, closed, drain, shutdown, expired, woken>> /\ forced' = Forced
        /\ task \in [Senders -> {"gone", "idle", "blocked"}]
        /\ phase = "ShutdownRecorded" /\ shutdown = "pending" => s \in armed'
    BY <1>2, <1>a DEF SendBlocks, TypeOK, DeadlineArmed, Refused
  <2>1. TypeOK'
    <3>1. waiters' \in Seq(Senders)
      BY <2>0, AppendWaiter
    <3> QED
      BY <1>2, <3>1, <1>a, <1>c DEF SendBlocks, TypeOK, history
  <2>2. PhaseSound'
    BY <1>2, <1>a DEF SendBlocks, PhaseSound
  <2>3. BudgetSound' /\ RoundRobinSound'
    BY <1>2, FairKept DEF SendBlocks, history
  <2>4. SleepersSound'
    <3>0. \A t \in Queued \cup {s} : \E k \in DOMAIN waiters' : waiters'[k] = t
      BY <2>0, AppendWaiter
    <3>1. \A t \in Queued \cup {s} : t \in Queued'
      BY <3>0 DEF Queued
    <3>2. ~Refused'
      BY <2>0, ForcedSame DEF Refused
    <3> SUFFICES ASSUME NEW t \in Senders, task'[t] = "blocked", t \notin woken'
                 PROVE  /\ t \in Queued' /\ ~Refused'
                        /\ phase' = "ShutdownRecorded" /\ shutdown' = "pending" => t \in armed'
      BY DEF SleepersSound
    <3>3. CASE t = s
      BY <3>1, <3>2, <3>3, <2>0
    <3>4. CASE t # s
      <4>1. task[t] = "blocked" /\ t \notin woken
        BY <3>4, <2>0
      <4> QED
        BY <4>1, <3>1, <3>2, <2>0, <1>a DEF SleepersSound
    <3> QED
      BY <3>3, <3>4
  <2>5. ReceiverSound'
    BY <1>2, ReceiverKept DEF SendBlocks
  <2> QED
    BY <2>1, <2>2, <2>3, <2>4, <2>5 DEF IInv
<1>3. ASSUME NEW s \in Senders, NEW c \in ClassSet, SendNormal(s, c) PROVE IInv'
  <2>0. /\ ~closed /\ forced' = Forced
        /\ UNCHANGED <<phase, closed, drain, shutdown, expired, completion, burst_len, cursor,
                       waiters, task, woken, armed, rx, history>>
    BY <1>3 DEF SendNormal, Refused
  <2>4. SleepersSound'
    BY <2>0, SleepersKept
  <2>6. CASE phase # "Normal"
    <3>1. UNCHANGED <<normal, rx_woken>>
      BY <1>3, <2>6 DEF SendNormal
    <3>2. TypeOK'
      BY <2>0, <3>1, <1>a, <1>c DEF TypeOK, history
    <3>3. PhaseSound'
      BY <2>0, <3>1, <1>a DEF PhaseSound
    <3>4. BudgetSound' /\ RoundRobinSound'
      BY <2>0, <3>1, FairKept DEF history
    <3>5. ReceiverSound'
      BY <2>0, <3>1, ReceiverKept
    <3> QED
      BY <2>4, <3>2, <3>3, <3>4, <3>5 DEF IInv
  <2>7. CASE phase = "Normal"
    <3>1. /\ normal' = normal \cup {c}
          /\ IF c \in normal /\ c # "Config" THEN UNCHANGED rx_woken
             ELSE rx_woken' = (rx_woken \/ rx = "waiting")
      BY <1>3, <2>7 DEF SendNormal, NotifyReceiver
    <3>2. TypeOK'
      BY <2>0, <3>1, <1>a, <1>c DEF TypeOK, history
    <3>3. PhaseSound'
      BY <2>0, <2>7, <3>1, <1>a DEF PhaseSound
    <3>4. BudgetSound' /\ RoundRobinSound'
      <4>1. BudgetSound'
        BY <2>0, <3>1, <1>a DEF BudgetSound, history
      <4>2. RoundRobinSound'
        <5> SUFFICES ASSUME NEW i \in 0..2
                     PROVE IF Classes[i + 1] \in normal'
                           THEN overtaken'[Classes[i + 1]] + Distance(i)' <= 2
                           ELSE overtaken'[Classes[i + 1]] = 0
          BY DEF RoundRobinSound
        <5>1. Distance(i)' = Distance(i) /\ overtaken' = overtaken
          BY <2>0 DEF Distance, history
        <5>2. Distance(i) \in 0..2
          BY DistanceIs, <1>a DEF TypeOK
        <5> QED
          BY <5>1, <5>2, <3>1, <1>a DEF RoundRobinSound
      <4> QED
        BY <4>1, <4>2
    <3>5. ReceiverSound'
      <4>1. CASE c \in normal /\ c # "Config"
        <5>1. normal' = normal /\ UNCHANGED rx_woken
          BY <4>1, <3>1
        <5> QED
          BY <5>1, <2>0, ReceiverKept
      <4>2. CASE ~(c \in normal /\ c # "Config")
        BY <4>2, <3>1, <2>0, ReceiverNotified
      <4> QED
        BY <4>1, <4>2
    <3> QED
      BY <2>4, <3>2, <3>3, <3>4, <3>5 DEF IInv
  <2> QED
    BY <2>6, <2>7
<1>4. ASSUME NEW s \in Senders, PollSend(s) PROVE IInv'
  <2>0. /\ woken' = woken \ {s} /\ forced' = Forced /\ task[s] = "blocked"
        /\ UNCHANGED <<phase, closed, drain, shutdown, expired, normal, burst_len, cursor, rx, history>>
        /\ \/ /\ Refused /\ UNCHANGED <<completion, rx_woken>>
              /\ task' = [task EXCEPT ![s] = "idle"] /\ waiters' = Unqueue(s) /\ armed' = armed \ {s}
           \/ /\ ~Refused /\ HasRoom /\ completion' = completion + 1
              /\ rx_woken' = (rx_woken \/ rx = "waiting")
              /\ task' = [task EXCEPT ![s] = "idle"] /\ waiters' = Unqueue(s) /\ armed' = armed \ {s}
           \/ /\ ~Refused /\ ~HasRoom
              /\ waiters' = IF s \in Queued THEN waiters ELSE Append(waiters, s)
              /\ armed' = IF DeadlineArmed THEN armed \cup {s} ELSE armed \ {s}
              /\ UNCHANGED <<task, completion, rx_woken>>
    BY <1>4, Zenon DEF PollSend, NotifyReceiver
  <2>3. BudgetSound' /\ RoundRobinSound'
    BY <2>0, FairKept DEF history
  <2>6. CASE /\ Refused /\ UNCHANGED <<completion, rx_woken>>
             /\ task' = [task EXCEPT ![s] = "idle"] /\ waiters' = Unqueue(s) /\ armed' = armed \ {s}
    <3>1. waiters' \in Seq(Senders) /\ SleepersSound'
      BY <2>0, <2>6, SleeperLeaves
    <3>2. TypeOK'
      BY <2>0, <2>6, <3>1, <1>a, <1>c DEF TypeOK, history
    <3>3. PhaseSound'
      BY <2>0, <2>6, <1>a DEF PhaseSound
    <3>4. ReceiverSound'
      BY <2>0, <2>6, ReceiverKept
    <3> QED
      BY <2>3, <3>1, <3>2, <3>3, <3>4 DEF IInv
  <2>7. CASE /\ ~Refused /\ HasRoom /\ completion' = completion + 1
             /\ rx_woken' = (rx_woken \/ rx = "waiting")
             /\ task' = [task EXCEPT ![s] = "idle"] /\ waiters' = Unqueue(s) /\ armed' = armed \ {s}
    <3>1. waiters' \in Seq(Senders) /\ SleepersSound'
      BY <2>0, <2>7, SleeperLeaves
    <3>2. TypeOK'
      BY <2>0, <2>7, <3>1, <1>a, <1>b, <1>c DEF HasRoom, TypeOK, history
    <3>3. PhaseSound'
      BY <2>0, <2>7, <1>a DEF PhaseSound, Refused
    <3>4. ReceiverSound'
      BY <2>0, <2>7, ReceiverNotified DEF Refused
    <3> QED
      BY <2>3, <3>1, <3>2, <3>3, <3>4 DEF IInv
  <2>8. CASE /\ ~Refused /\ ~HasRoom
             /\ waiters' = IF s \in Queued THEN waiters ELSE Append(waiters, s)
             /\ armed' = IF DeadlineArmed THEN armed \cup {s} ELSE armed \ {s}
             /\ UNCHANGED <<task, completion, rx_woken>>
    <3>1. /\ waiters' \in Seq(Senders)
          /\ \A t \in Queued \cup {s} : \E k \in DOMAIN waiters' : waiters'[k] = t
      <4>1. waiters \in Seq(Senders)
        BY <1>a DEF TypeOK
      <4>2. CASE s \in Queued
        BY <4>1, <4>2, <2>8 DEF Queued
      <4>3. CASE s \notin Queued
        <5>1. waiters' = Append(waiters, s)
          BY <4>3, <2>8
        <5> QED
          BY <4>1, <5>1, AppendWaiter
      <4> QED
        BY <4>2, <4>3
    <3>2. TypeOK'
      BY <2>0, <2>8, <3>1, <1>a, <1>c DEF TypeOK, history
    <3>3. PhaseSound'
      BY <2>0, <2>8, <1>a DEF PhaseSound
    <3>4. ReceiverSound'
      BY <2>0, <2>8, ReceiverKept
    <3>5. SleepersSound'
      <4>1. \A t \in Queued \cup {s} : t \in Queued'
        BY <3>1 DEF Queued
      <4>2. ~Refused'
        BY <2>0, <2>8, ForcedSame DEF Refused
      <4> SUFFICES ASSUME NEW t \in Senders, task'[t] = "blocked", t \notin woken'
                   PROVE  /\ t \in Queued' /\ ~Refused'
                          /\ phase' = "ShutdownRecorded" /\ shutdown' = "pending" => t \in armed'
        BY DEF SleepersSound
      <4>3. CASE t = s
        BY <4>1, <4>2, <4>3, <2>0, <2>8 DEF DeadlineArmed, Refused
      <4>4. CASE t # s
        <5>1. task[t] = "blocked" /\ t \notin woken
          BY <4>4, <2>0, <2>8
        <5>2. t \in armed => t \in armed'
          BY <4>4, <2>8
        <5> QED
          BY <5>1, <5>2, <4>1, <4>2, <2>0, <1>a DEF SleepersSound
      <4> QED
        BY <4>3, <4>4
    <3> QED
      BY <2>3, <3>2, <3>3, <3>4, <3>5 DEF IInv
  <2> QED
    BY <2>0, <2>6, <2>7, <2>8
<1>5. ASSUME NEW s \in Senders, CancelSend(s) PROVE IInv'
  <2>0. /\ task' = [task EXCEPT ![s] = "idle"] /\ waiters' = Unqueue(s)
        /\ woken' = woken \ {s} /\ armed' = armed \ {s} /\ UNCHANGED <<core, rx, rx_woken, history>>
    BY <1>5 DEF CancelSend
  <2>1. waiters' \in Seq(Senders) /\ SleepersSound'
    BY <2>0, SleeperLeaves DEF core
  <2>2. TypeOK'
    BY <2>0, <2>1, <1>a DEF TypeOK, core, history
  <2>3. PhaseSound'
    BY <2>0, <1>a DEF PhaseSound, core
  <2>4. BudgetSound' /\ RoundRobinSound'
    BY <2>0, FairKept DEF core, history
  <2>5. ReceiverSound'
    BY <2>0, ReceiverKept DEF core
  <2> QED
    BY <2>1, <2>2, <2>3, <2>4, <2>5 DEF IInv
<1>6. ASSUME NEW s \in Senders, NEW t \in Senders, CloneSender(s, t) PROVE IInv'
  <2>0. /\ task' = [task EXCEPT ![t] = "idle"]
        /\ UNCHANGED <<core, waiters, woken, armed, rx, rx_woken, history>>
    BY <1>6 DEF CloneSender
  <2>1. TypeOK'
    BY <2>0, <1>a DEF TypeOK, core, history
  <2>2. PhaseSound'
    BY <2>0, <1>a DEF PhaseSound, core
  <2>3. BudgetSound' /\ RoundRobinSound'
    BY <2>0, FairKept DEF core, history
  <2>4. SleepersSound'
    BY <2>0, <1>a DEF SleepersSound, TypeOK, core, Queued, Refused, Forced
  <2>5. ReceiverSound'
    BY <2>0, ReceiverKept DEF core
  <2> QED
    BY <2>1, <2>2, <2>3, <2>4, <2>5 DEF IInv
<1>7. ASSUME NEW s \in Senders, DropSender(s) PROVE IInv'
  <2> DEFINE last == \A t \in Senders : t # s => task[t] = "gone"
  <2>0. /\ task' = [task EXCEPT ![s] = "gone"] /\ closed' = (closed \/ last)
        /\ IF last /\ ~closed THEN rx_woken' = (rx_woken \/ rx = "waiting") ELSE UNCHANGED rx_woken
        /\ UNCHANGED <<phase, drain, shutdown, expired, forced, completion, normal, burst_len, cursor,
                       waiters, woken, armed, rx, history>>
    BY <1>7, Zenon DEF DropSender, NotifyReceiver
  <2>1. TypeOK'
    <3>1. closed' \in BOOLEAN /\ rx_woken' \in BOOLEAN
      BY <2>0, <1>c, <1>a DEF TypeOK
    <3> HIDE DEF last
    <3> QED
      BY <2>0, <3>1, <1>a DEF TypeOK, history
  <2>2. PhaseSound'
    BY <2>0, <1>a DEF PhaseSound
  <2>3. BudgetSound' /\ RoundRobinSound'
    BY <2>0, FairKept DEF history
  <2>4. SleepersSound'
    <3>1. CASE last
      <4>1. \A t \in Senders : task'[t] # "blocked"
        BY <2>0, <3>1, <1>a DEF TypeOK
      <4> QED
        BY <4>1 DEF SleepersSound
    <3>2. CASE ~last
      BY <2>0, <3>2, <1>a DEF SleepersSound, TypeOK, Queued, Refused, Forced
    <3> QED
      BY <3>1, <3>2
  <2>5. ReceiverSound'
    <3>1. CASE last /\ ~closed
      BY <3>1, <2>0, ReceiverNotified
    <3>2. CASE ~(last /\ ~closed)
      <4>1. closed' = closed /\ UNCHANGED rx_woken
        BY <3>2, <2>0, <1>a DEF TypeOK
      <4> QED
        BY <4>1, <2>0, ReceiverKept
    <3> QED
      BY <3>1, <3>2
  <2> QED
    BY <2>1, <2>2, <2>3, <2>4, <2>5 DEF IInv
<1>8. ASSUME NEW s \in Senders, Close(s) PROVE IInv'
  <2>0. /\ ~closed /\ closed' = TRUE /\ WakeAllSenders /\ rx_woken' = (rx_woken \/ rx = "waiting")
        /\ UNCHANGED <<phase, drain, shutdown, expired, forced, completion, normal, burst_len, cursor,
                       task, armed, rx, history>>
    BY <1>8 DEF Close, NotifyReceiver
  <2>1. waiters' \in Seq(Senders) /\ woken' \subseteq Senders /\ SleepersSound'
    BY <2>0, AllAwake
  <2>2. TypeOK'
    BY <2>0, <2>1, <1>a, <1>c DEF TypeOK, history
  <2>3. PhaseSound'
    BY <2>0, <1>a DEF PhaseSound
  <2>4. BudgetSound' /\ RoundRobinSound'
    BY <2>0, FairKept DEF history
  <2>5. ReceiverSound'
    BY <2>0, ReceiverNotified
  <2> QED
    BY <2>1, <2>2, <2>3, <2>4, <2>5 DEF IInv
<1>9. ASSUME NEW s \in Senders, accept_drain_ingress(s) PROVE IInv'
  <2>0. /\ ~closed /\ drain = "none" /\ ~Forced /\ ClearNormal /\ drain' = "pending"
        /\ phase' = IF phase = "Normal" THEN "IngressDrainRecorded" ELSE phase
        /\ forced' = Forced /\ rx_woken' = (rx_woken \/ rx = "waiting")
        /\ UNCHANGED <<closed, shutdown, expired, completion, cursor, waiters, task, woken, armed, rx>>
    BY <1>9 DEF accept_drain_ingress, NotifyReceiver
  <2>1. TypeOK'
    BY <2>0, <1>a, <1>b, <1>c DEF ClearNormal, TypeOK
  <2>2. PhaseSound'
    BY <2>0, <1>a DEF ClearNormal, PhaseSound, TypeOK
  <2>3. BudgetSound' /\ RoundRobinSound'
    BY <2>0, FairCleared
  <2>4. SleepersSound'
    <3>1. ~Refused'
      BY <2>0, <1>a DEF Refused, Forced
    <3> QED
      BY <2>0, <3>1, <1>a DEF SleepersSound, Queued
  <2>5. ReceiverSound'
    BY <2>0, ReceiverNotified
  <2> QED
    BY <2>1, <2>2, <2>3, <2>4, <2>5 DEF IInv
<1>10. ASSUME NEW s \in Senders, NEW past \in BOOLEAN, accept_shutdown(s, past) PROVE IInv'
  <2>0. /\ ~closed /\ shutdown = "none" /\ ClearNormal /\ shutdown' = "pending"
        /\ phase' = "ShutdownRecorded" /\ expired' = past /\ forced' = past
        /\ WakeAllSenders /\ rx_woken' = (rx_woken \/ rx = "waiting")
        /\ UNCHANGED <<closed, drain, completion, cursor, task, armed, rx>>
    BY <1>10 DEF accept_shutdown, NotifyReceiver
  <2>1. waiters' \in Seq(Senders) /\ woken' \subseteq Senders /\ SleepersSound'
    BY <2>0, AllAwake
  <2>2. TypeOK'
    BY <2>0, <2>1, <1>a, <1>b, <1>c DEF ClearNormal, TypeOK
  <2>3. PhaseSound'
    BY <2>0, <1>a DEF ClearNormal, PhaseSound
  <2>4. BudgetSound' /\ RoundRobinSound'
    BY <2>0, FairCleared
  <2>5. ReceiverSound'
    BY <2>0, ReceiverNotified
  <2> QED
    BY <2>1, <2>2, <2>3, <2>4, <2>5 DEF IInv
<1>11. CASE DeadlinePasses
  <2>0. /\ shutdown = "pending" /\ expired' = TRUE /\ woken' = woken \cup armed /\ armed' = {}
        /\ UNCHANGED <<phase, closed, drain, shutdown, forced, completion, normal, burst_len, cursor,
                       waiters, task, rx, rx_woken, history>>
    BY <1>11 DEF DeadlinePasses
  <2>1. TypeOK'
    BY <2>0, <1>a DEF TypeOK, history
  <2>2. PhaseSound'
    BY <2>0, <1>a DEF PhaseSound
  <2>3. BudgetSound' /\ RoundRobinSound'
    BY <2>0, FairKept DEF history
  <2>4. SleepersSound'
    <3>1. phase = "ShutdownRecorded"
      BY <2>0, <1>a DEF PhaseSound
    <3>2. \A s \in Senders : task[s] = "blocked" => s \in woken \/ s \in armed
      BY <3>1, <2>0, <1>a DEF SleepersSound
    <3> QED
      BY <3>2, <2>0 DEF SleepersSound
  <2>5. ReceiverSound'
    <3>1. pop_event # "None"
      BY <2>0, <1>a DEF PhaseSound, pop_event
    <3>2. ~(rx = "waiting" /\ ~rx_woken)
      BY <3>1, <1>a DEF ReceiverSound, NoLostReceiverWake
    <3> QED
      BY <3>2, <2>0, <1>a DEF ReceiverSound, NoLostReceiverWake, FinishedMeansDrained
  <2> QED
    BY <2>1, <2>2, <2>3, <2>4, <2>5 DEF IInv
<1>12. CASE RecvDrain
  <2>0. /\ drain = "pending" /\ rx' = "idle" /\ rx_woken' = FALSE /\ forced' = Forced
        /\ drain' = "delivered" /\ burst_len' = 0
        /\ UNCHANGED <<phase, closed, shutdown, expired, completion, normal, cursor,
                       waiters, task, woken, armed, history>>
    BY <1>12, <1>a DEF RecvDrain, Received, pop_event, PhaseSound
  <2>1. TypeOK'
    <3>1. forced' \in BOOLEAN /\ rx_woken' \in BOOLEAN
      BY <2>0, <1>c, Zenon
    <3>2. burst_len' \in 0..BurstLimit
      BY <2>0, <1>b
    <3>3. /\ drain' \in {"none", "pending", "delivered"}
          /\ rx' \in {"idle", "waiting", "finished", "dropped"}
          /\ UNCHANGED <<phase, closed, shutdown, expired, completion, normal, cursor,
                         waiters, task, woken, armed, since_normal, overtaken>>
      BY <2>0 DEF history
    <3> QED
      BY <3>1, <3>2, <3>3, <1>a DEF TypeOK
  <2>2. PhaseSound'
    BY <2>0, <1>a DEF PhaseSound
  <2>3. BudgetSound' /\ RoundRobinSound'
    <3>1. normal = {} /\ since_normal = 0
      BY <2>0, <1>a DEF PhaseSound, BudgetSound
    <3> QED
      BY <2>0, <3>1, <1>a DEF BudgetSound, RoundRobinSound, Distance, history
  <2>4. SleepersSound'
    BY <2>0, SleepersKept
  <2>5. ReceiverSound'
    BY <2>0 DEF ReceiverSound, NoLostReceiverWake, FinishedMeansDrained
  <2> QED
    BY <2>1, <2>2, <2>3, <2>4, <2>5 DEF IInv
<1>13. CASE RecvBatch
  <2> DEFINE n == BatchLen
  <2>0. /\ pop_event \in {"Batch", "FairBatch"} /\ rx' = "idle" /\ rx_woken' = FALSE
        /\ forced' = Forced /\ completion' = completion - n
        /\ burst_len' = Least(burst_len + n, BurstLimit)
        /\ since_normal' = IF normal = {} THEN 0 ELSE since_normal + n
        /\ WakeSenders(n)
        /\ UNCHANGED <<phase, closed, drain, shutdown, expired, normal, cursor, task, armed, overtaken>>
    BY <1>13 DEF RecvBatch, Received
  <2>1. /\ n \in 0..completion /\ completion \in 0..Capacity /\ burst_len \in 0..BurstLimit
        /\ since_normal \in Nat /\ (pop_event = "FairBatch" => n <= BurstLimit - burst_len)
    BY BatchLenIs, <1>a DEF TypeOK
  <2> HIDE DEF n
  <2>2. /\ completion' \in 0..Capacity /\ burst_len' \in 0..BurstLimit /\ since_normal' \in Nat
    BY <2>0, <2>1, <1>b DEF Least
  <2>3. /\ waiters' \in Seq(Senders) /\ woken' \subseteq Senders /\ woken \subseteq woken'
        /\ \A t \in Queued : t \in woken' \/ t \in Queued'
    <3>1. n \in Nat /\ waiters \in Seq(Senders) /\ woken \subseteq Senders
      BY <2>1, <1>a DEF TypeOK
    <3> QED
      BY <2>0, <3>1, WakeSendersSound
  <2>4. TypeOK'
    BY <2>0, <2>2, <2>3, <1>a, <1>c DEF TypeOK
  <2>5. PhaseSound'
    BY <2>0, <2>1, <1>a DEF PhaseSound
  <2>6. BudgetSound' /\ RoundRobinSound'
    <3>1. normal # {} => pop_event = "FairBatch"
      BY <2>0, <1>a DEF pop_event, PhaseSound, TypeOK
    <3>2. BudgetSound'
      BY <2>0, <2>1, <2>2, <3>1, <1>a, <1>b DEF BudgetSound, Least
    <3>3. RoundRobinSound'
      BY <2>0, <1>a DEF RoundRobinSound, Distance
    <3> QED
      BY <3>2, <3>3
  <2>7. SleepersSound'
    <3>1. Refused' <=> Refused
      BY <2>0, ForcedSame DEF Refused
    <3> QED
      BY <2>0, <2>3, <3>1, <1>a DEF SleepersSound
  <2>8. ReceiverSound'
    BY <2>0 DEF ReceiverSound, NoLostReceiverWake, FinishedMeansDrained
  <2> QED
    BY <2>4, <2>5, <2>6, <2>7, <2>8 DEF IInv
<1>14. CASE RecvNormal
  <2> DEFINE i0 == NextClass
             taken == Classes[i0 + 1]
  <2>0. /\ pop_event = "Normal" /\ rx' = "idle" /\ rx_woken' = FALSE /\ forced' = Forced
        /\ normal' = normal \ {taken}
        /\ overtaken' = [c \in ClassSet |-> IF c \in normal \ {taken} THEN overtaken[c] + 1 ELSE 0]
        /\ cursor' = (i0 + 1) % 3 /\ burst_len' = 0 /\ since_normal' = 0
        /\ UNCHANGED <<phase, closed, drain, shutdown, expired, completion, waiters, task, woken, armed>>
    BY <1>14, Zenon DEF RecvNormal, Received
  <2>1. normal # {} /\ phase = "Normal"
    BY <2>0, <1>a DEF pop_event, TypeOK
  <2>2. /\ i0 \in 0..2 /\ taken \in normal
        /\ \A j \in 0..2 : Classes[j + 1] \in normal => Distance(i0) <= Distance(j)
    BY <2>1, <1>a, NextClassIs DEF TypeOK
  <2> HIDE DEF i0
  <2>3. cursor' \in 0..2 /\ cursor' = IF i0 = 2 THEN 0 ELSE i0 + 1
    BY <2>0, <2>2
  <2>4. TypeOK'
    <3>1. overtaken' \in [ClassSet -> Nat]
      BY <2>0, <1>a DEF TypeOK
    <3>2. 0 \in 0..BurstLimit /\ 0 \in Nat
      BY <1>b
    <3> QED
      BY <2>0, <2>3, <3>1, <3>2, <1>a, <1>c DEF TypeOK
  <2>5. PhaseSound'
    BY <2>0, <2>1, <1>a DEF PhaseSound
  <2>6. BudgetSound'
    BY <2>0 DEF BudgetSound
  <2>7. RoundRobinSound'
    <3> SUFFICES ASSUME NEW j \in 0..2
                 PROVE IF Classes[j + 1] \in normal' THEN overtaken'[Classes[j + 1]] + Distance(j)' <= 2
                       ELSE overtaken'[Classes[j + 1]] = 0
      BY DEF RoundRobinSound
    <3>1. Classes[j + 1] \in ClassSet
      BY ClassTable
    <3>2. CASE Classes[j + 1] \notin normal'
      BY <3>1, <3>2, <2>0
    <3>3. CASE Classes[j + 1] \in normal'
      <4>1. j # i0 /\ Classes[j + 1] \in normal /\ overtaken'[Classes[j + 1]] = overtaken[Classes[j + 1]] + 1
        BY <3>1, <3>3, <2>0
      <4>2. overtaken[Classes[j + 1]] + Distance(j) <= 2 /\ overtaken[Classes[j + 1]] \in Nat
        BY <4>1, <3>1, <1>a DEF RoundRobinSound, TypeOK
      <4>3. cursor \in 0..2
        BY <1>a DEF TypeOK
      <4>4. /\ Distance(j) = IF j >= cursor THEN j - cursor ELSE j - cursor + 3
            /\ Distance(i0) = IF i0 >= cursor THEN i0 - cursor ELSE i0 - cursor + 3
        BY <4>3, <2>2, DistanceIs
      <4>5. Distance(j)' = IF j >= cursor' THEN j - cursor' ELSE j - cursor' + 3
        <5>1. j - cursor' \in -2..2
          BY <2>3
        <5>2. \A x \in -2..2 : x % 3 = IF x >= 0 THEN x ELSE x + 3
          OBVIOUS
        <5> QED
          BY <5>1, <5>2 DEF Distance
      <4>6. Distance(i0) <= Distance(j)
        BY <4>1, <2>2
      <4>7. Distance(j)' + 1 <= Distance(j)
        BY <4>1, <4>3, <4>4, <4>5, <4>6, <2>2, <2>3
      <4>8. Distance(j) \in Nat /\ Distance(j)' \in Nat
        BY <4>3, <4>4, <4>5, <2>3
      <4> QED
        BY <3>3, <4>1, <4>2, <4>7, <4>8
    <3> QED
      BY <3>2, <3>3
  <2>8. SleepersSound'
    BY <2>0, SleepersKept
  <2>9. ReceiverSound'
    BY <2>0 DEF ReceiverSound, NoLostReceiverWake, FinishedMeansDrained
  <2> QED
    BY <2>4, <2>5, <2>6, <2>7, <2>8, <2>9 DEF IInv
<1>15. CASE RecvShutdown
  <2>0. /\ pop_event = "Shutdown" /\ rx' = "idle" /\ rx_woken' = FALSE /\ forced' = Forced
        /\ shutdown' = "delivered" /\ closed' = TRUE
        /\ completion' = (IF Forced THEN 0 ELSE completion)
        /\ ClearNormal /\ WakeAllSenders
        /\ UNCHANGED <<phase, drain, expired, cursor, task, armed>>
    BY <1>15 DEF RecvShutdown
  <2>1. /\ phase = "ShutdownRecorded" /\ drain # "pending" /\ shutdown = "pending"
        /\ ~(~Forced /\ completion > 0)
    BY <2>0 DEF pop_event
  <2>2. completion' = 0
    BY <2>0, <2>1, <1>a DEF TypeOK
  <2>3. waiters' \in Seq(Senders) /\ woken' \subseteq Senders /\ SleepersSound'
    BY <2>0, AllAwake
  <2>4. TypeOK'
    <3>1. forced' \in BOOLEAN /\ rx_woken' \in BOOLEAN /\ closed' \in BOOLEAN
      BY <2>0, <1>c, Zenon
    <3>2. /\ completion' \in 0..Capacity /\ burst_len' \in 0..BurstLimit /\ since_normal' \in Nat
          /\ normal' \in SUBSET ClassSet /\ overtaken' \in [ClassSet -> Nat]
      BY <2>0, <2>2, <1>b DEF ClearNormal
    <3>3. /\ shutdown' \in {"none", "pending", "delivered"}
          /\ rx' \in {"idle", "waiting", "finished", "dropped"}
          /\ UNCHANGED <<phase, drain, expired, cursor, task, armed>>
      BY <2>0
    <3> QED
      BY <2>3, <3>1, <3>2, <3>3, <1>a DEF TypeOK
  <2>5. PhaseSound'
    BY <2>0, <2>1, <2>2 DEF ClearNormal, PhaseSound
  <2>6. BudgetSound' /\ RoundRobinSound'
    BY <2>0, FairCleared
  <2>7. ReceiverSound'
    BY <2>0 DEF ReceiverSound, NoLostReceiverWake, FinishedMeansDrained
  <2> QED
    BY <2>3, <2>4, <2>5, <2>6, <2>7 DEF IInv
<1>16. CASE RecvNothing
  <2>0. /\ pop_event = "None" /\ rx' = (IF closed THEN "finished" ELSE "waiting")
        /\ rx_woken' = FALSE /\ forced' = Forced
        /\ UNCHANGED <<phase, closed, drain, shutdown, expired, completion, normal, burst_len, cursor,
                       waiters, task, woken, armed, history>>
    BY <1>16 DEF RecvNothing
  <2>1. TypeOK'
    BY <2>0, <1>a, <1>c DEF TypeOK, history
  <2>2. PhaseSound'
    BY <2>0, <1>a DEF PhaseSound
  <2>3. BudgetSound' /\ RoundRobinSound'
    BY <2>0, FairKept DEF history
  <2>4. SleepersSound'
    BY <2>0, SleepersKept
  <2>5. ReceiverSound'
    <3>1. Forced' <=> Forced
      BY <2>0, ForcedSame
    <3>2. pop_event' = pop_event
      BY <2>0, <3>1 DEF pop_event
    <3>3. drain # "pending" /\ completion = 0 /\ normal = {} /\ shutdown # "pending"
      BY <2>0, <1>a DEF pop_event, PhaseSound, TypeOK
    <3> QED
      BY <2>0, <3>2, <3>3 DEF ReceiverSound, NoLostReceiverWake, FinishedMeansDrained
  <2> QED
    BY <2>1, <2>2, <2>3, <2>4, <2>5 DEF IInv
<1>17. CASE CancelRecv
  <2>0. /\ rx' = "idle" /\ rx_woken' = FALSE /\ UNCHANGED <<core, waiters, task, woken, armed, history>>
    BY <1>17 DEF CancelRecv
  <2>1. TypeOK'
    BY <2>0, <1>a DEF TypeOK, core, history
  <2>2. PhaseSound'
    BY <2>0, <1>a DEF PhaseSound, core
  <2>3. BudgetSound' /\ RoundRobinSound'
    BY <2>0, FairKept DEF core, history
  <2>4. SleepersSound'
    BY <2>0, SleepersKept DEF core
  <2>5. ReceiverSound'
    BY <2>0 DEF ReceiverSound, NoLostReceiverWake, FinishedMeansDrained
  <2> QED
    BY <2>1, <2>2, <2>3, <2>4, <2>5 DEF IInv
<1>18. CASE DropReceiver
  <2>0. /\ rx' = "dropped" /\ closed' = TRUE
        /\ IF closed THEN UNCHANGED <<waiters, woken>> ELSE WakeAllSenders
        /\ UNCHANGED <<phase, drain, shutdown, expired, forced, completion, normal, burst_len, cursor,
                       task, armed, rx_woken, history>>
    BY <1>18 DEF DropReceiver
  <2>1. waiters' \in Seq(Senders) /\ woken' \subseteq Senders /\ SleepersSound'
    <3>1. CASE closed
      <4>1. \A s \in Senders : task[s] = "blocked" => s \in woken
        BY <3>1, <1>a DEF SleepersSound, Refused
      <4> QED
        BY <3>1, <4>1, <2>0, <1>a DEF SleepersSound, TypeOK
    <3>2. CASE ~closed
      BY <3>2, <2>0, AllAwake
    <3> QED
      BY <3>1, <3>2
  <2>2. TypeOK'
    BY <2>0, <2>1, <1>a DEF TypeOK, history
  <2>3. PhaseSound'
    BY <2>0, <1>a DEF PhaseSound
  <2>4. BudgetSound' /\ RoundRobinSound'
    BY <2>0, FairKept DEF history
  <2>5. ReceiverSound'
    BY <2>0 DEF ReceiverSound, NoLostReceiverWake, FinishedMeansDrained
  <2> QED
    BY <2>1, <2>2, <2>3, <2>4, <2>5 DEF IInv
<1>19. CASE UNCHANGED vars
  <2>1. TypeOK' /\ PhaseSound'
    BY <1>19, <1>a DEF vars, core, history, TypeOK, PhaseSound
  <2>2. BudgetSound' /\ RoundRobinSound'
    BY <1>19, FairKept DEF vars, core, history
  <2>3. SleepersSound'
    BY <1>19, SleepersKept DEF vars, core
  <2>4. ReceiverSound'
    BY <1>19, ReceiverKept DEF vars, core
  <2> QED
    BY <2>1, <2>2, <2>3, <2>4 DEF IInv
<1> QED
  BY <1>1, <1>2, <1>3, <1>4, <1>5, <1>6, <1>7, <1>8, <1>9, <1>10, <1>11, <1>12, <1>13, <1>14,
     <1>15, <1>16, <1>17, <1>18, <1>19 DEF Next, Uncancelled, Receive

----------------------------------------------------------------------------
\* The channel keeps its type: the backlog stays within its capacity and the burst
\* counter within its limit.
THEOREM TypeCorrect == Spec => []TypeOK
<1>1. IInv => TypeOK
  BY DEF IInv
<1> QED
  BY <1>1, InitIInv, StepIInv, PTL DEF Spec

\* Completion traffic cannot starve normal control, nor one class of it another.
THEOREM NormalControlIsFair == Spec => []NormalControlFair
<1>1. IInv => NormalControlFair
  <2> SUFFICES ASSUME IInv PROVE NormalControlFair
    OBVIOUS
  <2>1. since_normal <= BurstLimit
    BY ConfigAssumption DEF IInv, TypeOK, BudgetSound
  <2>2. ASSUME NEW i \in 0..2 PROVE overtaken[Classes[i + 1]] <= 2
    <3>1. Distance(i) \in 0..2
      BY DistanceIs DEF IInv, TypeOK
    <3>2. overtaken[Classes[i + 1]] \in Nat
      BY ClassTable DEF IInv, TypeOK
    <3> QED
      BY <3>1, <3>2 DEF IInv, RoundRobinSound
  <2>3. overtaken[Classes[1]] <= 2 /\ overtaken[Classes[2]] <= 2 /\ overtaken[Classes[3]] <= 2
    <3>1. overtaken[Classes[0 + 1]] <= 2 /\ overtaken[Classes[1 + 1]] <= 2
          /\ overtaken[Classes[2 + 1]] <= 2
      BY <2>2
    <3> QED
      BY <3>1
  <2> QED
    BY <2>1, <2>3, ClassTable DEF NormalControlFair
<1> QED
  BY <1>1, InitIInv, StepIInv, PTL DEF Spec

\* Shutdown never overtakes an accepted DrainIngress, normal control does not
\* outlive the normal phase, and recv() returns None only when nothing accepted is left.
THEOREM LifecycleIsOrdered == Spec => []LifecycleOrder
<1>1. IInv => LifecycleOrder
  BY DEF IInv, PhaseSound, ReceiverSound, LifecycleOrder
<1> QED
  BY <1>1, InitIInv, StepIInv, PTL DEF Spec

\* No blocked sender sleeps through a close or a forced shutdown.
THEOREM SendersWakeAtClose == Spec => []NoSenderSleepsThroughClose
<1>1. IInv => NoSenderSleepsThroughClose
  BY DEF IInv, SleepersSound, NoSenderSleepsThroughClose
<1> QED
  BY <1>1, InitIInv, StepIInv, PTL DEF Spec

\* The receiver never sleeps on deliverable work or a closed channel.
THEOREM NoReceiverWakeIsLost == Spec => []NoLostReceiverWake
<1>1. IInv => NoLostReceiverWake
  BY DEF IInv, ReceiverSound
<1> QED
  BY <1>1, InitIInv, StepIInv, PTL DEF Spec

----------------------------------------------------------------------------
(* Without cancellation a sender waits only for exhausted capacity.  Every *)
(* wake-up stands for one freed place, so the backlog and the senders that *)
(* were woken fill the channel for as long as anybody is queued; a         *)
(* cancelled send takes a wake-up with it.                                 *)

Distinct(w) == \A i, j \in DOMAIN w : w[i] = w[j] => i = j

\* Who is queued, woken or asleep on the deadline is blocked, once.
CrowdSound ==
  /\ Distinct(waiters)
  /\ \A i \in DOMAIN waiters : task[waiters[i]] = "blocked"
  /\ \A s \in woken \cup armed : task[s] = "blocked"
  /\ forced => shutdown # "none"

\* Each woken sender stands for a place that is free, and none is left over.
PlacesCovered ==
  ~Refused => /\ Queued \cap woken = {}
              /\ waiters # << >> => completion + Cardinality(woken) >= Capacity

CrowdInv == CrowdSound /\ PlacesCovered

\* The woken senders can be counted.
LEMMA WokenFinite ==
  ASSUME NEW W, W \subseteq Senders
  PROVE  IsFiniteSet(W) /\ Cardinality(W) \in Nat
BY SendersAssumption, FS_Subset, FS_CardinalityType

\* Waking k distinct waiters counts k.
LEMMA CountWoken ==
  ASSUME NEW w \in Seq(Senders), Distinct(w), NEW k \in 0..Len(w), NEW T, T = {w[i] : i \in 1..k}
  PROVE  T \subseteq Senders /\ Cardinality(T) >= k
<1>1. Len(w) \in Nat /\ \A i \in 1..k : i \in DOMAIN w /\ w[i] \in Senders /\ w[i] \in T
  OBVIOUS
<1>2. T \subseteq Senders
  BY <1>1
<1>3. PICK f : f = [i \in 1..k |-> w[i]]
  OBVIOUS
<1>4. f \in [1..k -> T] /\ \A i \in 1..k : f[i] = w[i]
  BY <1>1, <1>3
<1>5. \A i, j \in 1..k : f[i] = f[j] => i = j
  BY <1>1, <1>4 DEF Distinct
<1>6. f \in Injection(1..k, T)
  BY <1>4, <1>5 DEF Injection, IsInjective
<1>7. IsFiniteSet(T) /\ Cardinality(T) \in Nat
  BY <1>2, WokenFinite
<1>8. Cardinality(1..k) <= Cardinality(T)
  BY <1>6, <1>7, FS_Injection
<1>9. Cardinality(1..k) = k
  BY <1>1, FS_Interval
<1> QED
  BY <1>2, <1>8, <1>9, <1>7

\* Removing the waiter of s leaves only others, each once.
LEMMA UnqueueDistinct ==
  ASSUME waiters \in Seq(Senders), Distinct(waiters), NEW s
  PROVE  /\ Distinct(Unqueue(s))
         /\ \A k \in DOMAIN Unqueue(s) : Unqueue(s)[k] \in Queued /\ Unqueue(s)[k] # s
         /\ Unqueue(s) # << >> => waiters # << >>
<1>1. CASE s \notin Queued
  BY <1>1 DEF Unqueue, Queued
<1>2. CASE s \in Queued
  <2> DEFINE n == CHOOSE n \in DOMAIN waiters : waiters[n] = s
             a == SubSeq(waiters, 1, n - 1)
             b == SubSeq(waiters, n + 1, Len(waiters))
  <2>1. \E m \in DOMAIN waiters : waiters[m] = s
    BY <1>2 DEF Queued
  <2>2. n \in DOMAIN waiters /\ waiters[n] = s
    BY <2>1, Zenon
  <2>3. Unqueue(s) = a \o b
    BY <1>2, Zenon DEF Unqueue
  <2> HIDE DEF n
  <2>4. n \in 1..Len(waiters)
    BY <2>2
  <2>5. /\ a \in Seq(Senders) /\ b \in Seq(Senders)
        /\ Len(a) = n - 1 /\ Len(b) = Len(waiters) - n
        /\ \A k \in 1..(n - 1) : a[k] = waiters[k]
        /\ \A k \in 1..(Len(waiters) - n) : b[k] = waiters[n + k]
    BY <2>4
  <2> HIDE DEF a, b
  <2> DEFINE c == a \o b
  <2>7. /\ c \in Seq(Senders) /\ Len(c) = Len(a) + Len(b)
        /\ \A k \in 1..Len(a) : c[k] = a[k]
        /\ \A k \in 1..Len(b) : c[Len(a) + k] = b[k]
    BY <2>5, ConcatIs
  <2>6. c = Unqueue(s)
    BY <2>3
  <2> HIDE DEF c
  <2>m. PICK e : e = Len(waiters)
    OBVIOUS
  <2>e. e \in Nat /\ n \in 1..e /\ DOMAIN waiters = 1..e
    BY <2>4, <2>m
  <2>f. /\ \A k \in 1..(n - 1) : c[k] = waiters[k]
        /\ \A d \in 1..(e - n) : c[(n - 1) + d] = waiters[n + d]
    BY <2>5, <2>7, <2>m
  <2> DEFINE at(k) == IF k < n THEN k ELSE k + 1
  <2>8. DOMAIN c = 1..(e - 1)
    BY <2>5, <2>7, <2>m, <2>e
  <2>9. ASSUME NEW k \in DOMAIN c PROVE c[k] = waiters[at(k)] /\ at(k) \in 1..e /\ at(k) # n
    <3>1. k \in 1..(e - 1)
      BY <2>8
    <3>2. CASE k < n
      <4>1. at(k) = k /\ k \in 1..(n - 1) /\ k \in 1..e /\ k # n
        BY <2>e, <3>1, <3>2
      <4> QED
        BY <2>f, <4>1
    <3>3. CASE ~(k < n)
      <4>1. PICK d : d = k - (n - 1)
        OBVIOUS
      <4>2. d \in 1..(e - n) /\ k = (n - 1) + d /\ at(k) = n + d /\ at(k) \in 1..e /\ at(k) # n
        BY <2>e, <3>1, <3>3, <4>1
      <4> QED
        BY <2>f, <4>2
    <3> QED
      BY <3>2, <3>3
  <2>10. \A k, l \in DOMAIN c : at(k) = at(l) => k = l
    BY <2>e, <2>8
  <2> HIDE DEF at
  <2>11. Distinct(c)
    BY <2>e, <2>9, <2>10 DEF Distinct
  <2>12. \A k \in DOMAIN c : c[k] \in Queued /\ c[k] # s
    BY <2>2, <2>e, <2>9 DEF Distinct, Queued
  <2>13. waiters # << >>
    BY <2>4
  <2> QED
    BY <2>6, <2>11, <2>12, <2>13
<1> QED
  BY <1>1, <1>2

\* A new waiter is queued once.
LEMMA AppendDistinct ==
  ASSUME waiters \in Seq(Senders), Distinct(waiters), NEW s \in Senders, s \notin Queued,
         NEW w, w = Append(waiters, s)
  PROVE  Distinct(w) /\ \A k \in DOMAIN w : w[k] = s \/ w[k] \in Queued
<1>1. /\ w \in Seq(Senders) /\ Len(w) = Len(waiters) + 1 /\ w[Len(waiters) + 1] = s
      /\ \A k \in 1..Len(waiters) : w[k] = waiters[k]
  OBVIOUS
<1>2. DOMAIN waiters = 1..Len(waiters) /\ DOMAIN w = 1..(Len(waiters) + 1) /\ Len(waiters) \in Nat
  BY <1>1
<1>3. \A k \in 1..Len(waiters) : w[k] \in Queued
  BY <1>1, <1>2 DEF Queued
<1>4. \A k \in DOMAIN w : k \in 1..Len(waiters) \/ (k = Len(waiters) + 1 /\ w[k] = s)
  BY <1>1, <1>2
<1>5. ASSUME NEW i \in DOMAIN w, NEW j \in DOMAIN w, w[i] = w[j] PROVE i = j
  <2>1. CASE i \in 1..Len(waiters) /\ j \in 1..Len(waiters)
    BY <1>1, <1>2, <1>5, <2>1 DEF Distinct
  <2>2. CASE ~(i \in 1..Len(waiters) /\ j \in 1..Len(waiters))
    BY <1>3, <1>4, <1>5, <2>2
  <2> QED
    BY <2>1, <2>2
<1> QED
  BY <1>3, <1>4, <1>5 DEF Distinct

\* Steps that leave the waiting senders where they are and free no place.
LEMMA CrowdKept ==
  ASSUME IInv, CrowdInv, UNCHANGED <<waiters, woken, armed>>,
         completion' \in Nat, completion' >= completion,
         \A s \in Senders : task[s] = "blocked" => task'[s] = "blocked",
         forced' => shutdown' # "none", Refused => Refused'
  PROVE  CrowdInv'
<1>1. /\ waiters \in Seq(Senders) /\ woken \subseteq Senders /\ armed \subseteq Senders
      /\ completion \in Nat /\ Capacity \in Nat /\ Cardinality(woken) \in Nat
  BY ConfigAssumption, WokenFinite DEF IInv, TypeOK
<1>2. \A i \in DOMAIN waiters : waiters[i] \in Senders
  BY <1>1
<1>3. CrowdSound'
  BY <1>1, <1>2 DEF CrowdInv, CrowdSound
<1>4. PlacesCovered'
  BY <1>1 DEF CrowdInv, PlacesCovered, Queued
<1> QED
  BY <1>3, <1>4 DEF CrowdInv

\* Steps after which nobody is queued.
LEMMA CrowdEmptied ==
  ASSUME IInv, CrowdInv, WakeAllSenders, UNCHANGED <<task, armed>>, forced' => shutdown' # "none"
  PROVE  CrowdInv'
<1>1. waiters' = << >> /\ woken' = woken \cup Queued /\ waiters \in Seq(Senders)
  BY DEF WakeAllSenders, IInv, TypeOK
<1>2. \A s \in Queued : task[s] = "blocked"
  BY DEF CrowdInv, CrowdSound, Queued
<1>3. Queued' = {} /\ DOMAIN waiters' = {}
  BY <1>1 DEF Queued
<1>4. CrowdSound'
  BY <1>1, <1>2, <1>3 DEF CrowdInv, CrowdSound, Distinct
<1>5. PlacesCovered'
  BY <1>1, <1>3 DEF PlacesCovered
<1> QED
  BY <1>4, <1>5 DEF CrowdInv

\* A blocked send that has been woken takes the place it was woken for.
LEMMA PollCrowd ==
  ASSUME IInv, CrowdInv, NEW s \in Senders, PollSend(s)
  PROVE  CrowdInv'
<1>1. /\ woken' = woken \ {s} /\ forced' = Forced /\ task[s] = "blocked"
      /\ UNCHANGED <<phase, closed, shutdown, expired>>
  BY DEF PollSend
<1>2. /\ waiters \in Seq(Senders) /\ woken \subseteq Senders /\ armed \subseteq Senders
      /\ task \in [Senders -> {"gone", "idle", "blocked"}]
      /\ completion \in 0..Capacity /\ Capacity \in Nat /\ Cardinality(woken) \in Nat
      /\ Cardinality(woken') \in Nat
  BY <1>1, ConfigAssumption, WokenFinite DEF IInv, TypeOK
<1>3. Refused' <=> Refused
  BY <1>1, ForcedSame DEF Refused
<1>4. forced' => shutdown' # "none"
  BY <1>1 DEF CrowdInv, CrowdSound, Forced
<1>5. Distinct(waiters)
  BY DEF CrowdInv, CrowdSound
<1>6. CASE /\ task' = [task EXCEPT ![s] = "idle"] /\ waiters' = Unqueue(s) /\ armed' = armed \ {s}
           /\ Refused \/ completion' = completion + 1
  <2>1. PICK w : w = Unqueue(s)
    OBVIOUS
  <2>2. /\ Distinct(w) /\ (w # << >> => waiters # << >>)
        /\ \A k \in DOMAIN w : w[k] \in Queued /\ w[k] # s
    BY <1>2, <1>5, <2>1, UnqueueDistinct
  <2>3. waiters' = w
    BY <1>6, <2>1
  <2>4. \A t \in Queued : t \in Senders /\ task[t] = "blocked"
    BY <1>2 DEF CrowdInv, CrowdSound, Queued
  <2>5. \A k \in DOMAIN w : task'[w[k]] = "blocked"
    BY <1>2, <1>6, <2>2, <2>4
  <2>6. \A t \in woken' \cup armed' : task'[t] = "blocked"
    BY <1>1, <1>2, <1>6 DEF CrowdInv, CrowdSound
  <2>7. CrowdSound'
    BY <1>4, <2>2, <2>3, <2>5, <2>6 DEF CrowdSound
  <2>8. Queued' \subseteq Queued
    BY <2>2, <2>3 DEF Queued
  <2>9. Cardinality(woken') >= Cardinality(woken) - 1
    <3>1. IsFiniteSet(woken)
      BY <1>2, WokenFinite
    <3>2. Cardinality(woken \ {s}) = IF s \in woken THEN Cardinality(woken) - 1 ELSE Cardinality(woken)
      BY <3>1, FS_RemoveElement
    <3> QED
      BY <1>1, <1>2, <3>2
  <2>10. PlacesCovered'
    <3> SUFFICES ASSUME ~Refused'
                 PROVE  /\ Queued' \cap woken' = {}
                        /\ waiters' # << >> => completion' + Cardinality(woken') >= Capacity
      BY Zenon, <1>2 DEF PlacesCovered
    <3>1. /\ Queued \cap woken = {} /\ completion' = completion + 1
          /\ waiters # << >> => completion + Cardinality(woken) >= Capacity
      BY <1>3, <1>6 DEF CrowdInv, PlacesCovered
    <3>2. Queued' \cap woken' = {}
      BY <1>1, <2>8, <3>1
    <3>3. waiters' # << >> => completion' + Cardinality(woken') >= Capacity
      BY <1>2, <2>2, <2>3, <2>9, <3>1
    <3> QED
      BY <3>2, <3>3
  <2> QED
    BY <2>7, <2>10 DEF CrowdInv
<1>7. CASE /\ ~HasRoom /\ waiters' = IF s \in Queued THEN waiters ELSE Append(waiters, s)
           /\ armed' = IF DeadlineArmed THEN armed \cup {s} ELSE armed \ {s}
           /\ UNCHANGED <<task, completion>>
  <2>1. PICK w : w = waiters'
    OBVIOUS
  <2>2. Distinct(w) /\ \A k \in DOMAIN w : w[k] = s \/ w[k] \in Queued
    <3>1. CASE s \in Queued
      BY <1>5, <1>7, <2>1, <3>1 DEF Queued
    <3>2. CASE s \notin Queued
      <4>1. w = Append(waiters, s)
        BY <1>7, <2>1, <3>2
      <4> QED
        BY <1>2, <1>5, <3>2, <4>1, AppendDistinct
    <3> QED
      BY <3>1, <3>2
  <2>3. \A t \in Queued : task[t] = "blocked"
    BY DEF CrowdInv, CrowdSound, Queued
  <2>4. \A k \in DOMAIN w : task'[w[k]] = "blocked"
    BY <1>1, <1>7, <2>2, <2>3
  <2>5. \A t \in woken' \cup armed' : task'[t] = "blocked"
    BY <1>1, <1>7 DEF CrowdInv, CrowdSound
  <2>6. CrowdSound'
    BY <1>4, <2>1, <2>2, <2>4, <2>5 DEF CrowdSound
  <2>7. Queued' \subseteq Queued \cup {s}
    BY <2>1, <2>2 DEF Queued
  <2>8. completion' = Capacity
    BY <1>2, <1>7 DEF HasRoom
  <2>9. ~Refused' => Queued' \cap woken' = {}
    BY <1>1, <1>3, <2>7 DEF CrowdInv, PlacesCovered
  <2>10. completion' + Cardinality(woken') >= Capacity
    BY <1>2, <2>8
  <2> QED
    BY <2>6, <2>9, <2>10 DEF CrowdInv, PlacesCovered
<1> QED
  BY <1>6, <1>7, Zenon DEF PollSend

\* A delivered batch frees as many places as it wakes senders, or wakes them all.
LEMMA BatchCrowd ==
  ASSUME IInv, CrowdInv, RecvBatch
  PROVE  CrowdInv'
<1>1. /\ forced' = Forced /\ completion' = completion - BatchLen /\ WakeSenders(BatchLen)
      /\ UNCHANGED <<phase, closed, shutdown, expired, task, armed>>
  BY DEF RecvBatch, Received
<1>2. /\ waiters \in Seq(Senders) /\ woken \subseteq Senders /\ armed \subseteq Senders
      /\ completion \in 0..Capacity /\ Capacity \in Nat /\ Cardinality(woken) \in Nat
  BY ConfigAssumption, WokenFinite DEF IInv, TypeOK
<1>3. Refused' <=> Refused
  BY <1>1, ForcedSame DEF Refused
<1>4. forced' => shutdown' # "none"
  BY <1>1 DEF CrowdInv, CrowdSound, Forced
<1>5. PICK n \in 0..completion : n = BatchLen
  BY BatchLenIs
<1>6. PICK k : k = Least(n, Len(waiters))
  OBVIOUS
<1>7. k \in 0..Len(waiters) /\ Len(waiters) \in Nat /\ (k = n \/ k = Len(waiters))
  BY <1>2, <1>6 DEF Least
<1>8. PICK T : T = {waiters[i] : i \in 1..k}
  OBVIOUS
<1>9. waiters' = SubSeq(waiters, k + 1, Len(waiters)) /\ woken' = woken \cup T
  BY <1>1, <1>5, <1>6, <1>8, Zenon DEF WakeSenders
<1>10. /\ waiters' \in Seq(Senders) /\ Len(waiters') = Len(waiters) - k
       /\ \A j \in 1..(Len(waiters) - k) : waiters'[j] = waiters[k + j]
  BY <1>2, <1>7, <1>9
<1>11. PICK w : w = waiters'
  OBVIOUS
<1>12. PICK e : e = Len(waiters)
  OBVIOUS
<1>13. /\ e \in Nat /\ k \in 0..e /\ DOMAIN waiters = 1..e /\ DOMAIN w = 1..(e - k)
       /\ \A j \in DOMAIN w : k + j \in DOMAIN waiters /\ ~(k + j \in 1..k) /\ w[j] = waiters[k + j]
  <2>1. e \in Nat /\ k \in 0..e /\ DOMAIN waiters = 1..e
    BY <1>2, <1>7, <1>12
  <2>2. DOMAIN w = 1..(e - k)
    BY <1>10, <1>11, <1>12
  <2>3. \A j \in 1..(e - k) : k + j \in 1..e /\ ~(k + j \in 1..k)
    BY <2>1
  <2>4. \A j \in 1..(e - k) : w[j] = waiters[k + j]
    BY <1>10, <1>11, <1>12
  <2> QED
    BY <2>1, <2>2, <2>3, <2>4
<1>14. Distinct(waiters) /\ \A i \in DOMAIN waiters : waiters[i] \in Queued /\ task[waiters[i]] = "blocked"
  BY DEF CrowdInv, CrowdSound, Queued
<1>15. Distinct(w)
  <2>1. ASSUME NEW i \in DOMAIN w, NEW j \in DOMAIN w, w[i] = w[j] PROVE i = j
    <3>1. k + i = k + j
      BY <1>13, <1>14, <2>1 DEF Distinct
    <3> QED
      BY <1>13, <3>1
  <2> QED
    BY <2>1 DEF Distinct
<1>16. CrowdSound'
  <2>1. \A i \in DOMAIN w : task'[w[i]] = "blocked"
    BY <1>1, <1>13, <1>14
  <2>2. \A t \in T : task[t] = "blocked"
    BY <1>8, <1>13, <1>14
  <2>3. \A t \in woken' \cup armed' : task'[t] = "blocked"
    BY <1>1, <1>9, <2>2 DEF CrowdInv, CrowdSound
  <2> QED
    BY <1>4, <1>11, <1>15, <2>1, <2>3 DEF CrowdSound
<1>17. PlacesCovered'
  <2>1. CASE Refused'
    BY <2>1, Zenon DEF PlacesCovered
  <2>2. CASE ~Refused'
    <3>1. /\ Queued \cap woken = {}
          /\ waiters # << >> => completion + Cardinality(woken) >= Capacity
      BY <1>3, <2>2 DEF CrowdInv, PlacesCovered
    <3>2. T \subseteq Queued
      BY <1>8, <1>13, <1>14
    <3>3. Queued' \subseteq Queued /\ Queued' \cap T = {}
      <4>1. Queued' = {w[j] : j \in DOMAIN w}
        BY <1>11 DEF Queued
      <4>2. ASSUME NEW j \in DOMAIN w PROVE w[j] \in Queued /\ w[j] \notin T
        <5>1. k + j \in DOMAIN waiters /\ ~(k + j \in 1..k) /\ w[j] = waiters[k + j]
          BY <1>13
        <5>2. ASSUME NEW i \in 1..k, waiters[i] = w[j] PROVE FALSE
          <6>1. i \in DOMAIN waiters
            BY <1>13
          <6>2. i = k + j
            BY <1>14, <5>1, <5>2, <6>1 DEF Distinct
          <6> QED
            BY <5>1, <5>2, <6>2
        <5> QED
          BY <1>8, <1>14, <5>1, <5>2
      <4> QED
        BY <4>1, <4>2
    <3>4. Queued' \cap woken' = {}
      BY <1>9, <3>1, <3>3
    <3>5. waiters' # << >> => completion' + Cardinality(woken') >= Capacity
      <4> HAVE waiters' # << >>
      <4>1. waiters # << >> /\ k = n
        <5>1. DOMAIN w # {}
          BY <1>10, <1>11
        <5>2. e > k
          BY <1>13, <5>1
        <5> QED
          BY <1>7, <1>12, <1>13, <5>2
      <4>2. T \subseteq Senders /\ Cardinality(T) >= k
        BY <1>2, <1>7, <1>8, <1>14, CountWoken
      <4>3. IsFiniteSet(T) /\ Cardinality(T) \in Nat /\ IsFiniteSet(woken)
        BY <1>2, <4>2, WokenFinite
      <4>4. Cardinality(woken \cup T) = Cardinality(woken) + Cardinality(T) - Cardinality(woken \cap T)
        BY <4>3, FS_Union
      <4>5. woken \cap T = {}
        BY <3>1, <3>2
      <4>6. Cardinality(woken \cap T) = 0
        BY <4>5, FS_EmptySet
      <4>7. Cardinality(woken') = Cardinality(woken \cup T)
        BY <1>9
      <4>8. PICK a \in Nat : a = Cardinality(woken)
        BY <1>2
      <4>9. PICK b \in Nat : b = Cardinality(T)
        BY <4>3
      <4>10. Cardinality(woken') = a + b
        BY <4>4, <4>6, <4>7, <4>8, <4>9
      <4>11. completion' = completion - n /\ completion + a >= Capacity /\ b >= n
        BY <1>1, <1>5, <3>1, <4>1, <4>2, <4>8, <4>9
      <4> QED
        BY <1>2, <4>10, <4>11
    <3> QED
      BY <3>4, <3>5, Zenon DEF PlacesCovered
  <2> QED
    BY <2>1, <2>2
<1> QED
  BY <1>16, <1>17 DEF CrowdInv

\* A new waiter finds the backlog full.
LEMMA BlockCrowd ==
  ASSUME IInv, CrowdInv, NEW s \in Senders, SendBlocks(s)
  PROVE  CrowdInv'
<1>1. /\ task[s] = "idle" /\ ~Refused /\ ~HasRoom /\ task' = [task EXCEPT ![s] = "blocked"]
      /\ waiters' = Append(waiters, s) /\ armed' \subseteq armed \cup {s}
      /\ forced' = Forced /\ UNCHANGED <<phase, closed, shutdown, expired, completion, woken>>
  BY DEF SendBlocks
<1>2. /\ waiters \in Seq(Senders) /\ woken \subseteq Senders /\ armed \subseteq Senders
      /\ task \in [Senders -> {"gone", "idle", "blocked"}]
      /\ completion \in 0..Capacity /\ Capacity \in Nat /\ Cardinality(woken) \in Nat
  BY ConfigAssumption, WokenFinite DEF IInv, TypeOK
<1>3. forced' => shutdown' # "none"
  BY <1>1 DEF CrowdInv, CrowdSound, Forced
<1>4. \A t \in Queued : t \in Senders /\ task[t] = "blocked"
  BY <1>2 DEF CrowdInv, CrowdSound, Queued
<1>5. s \notin Queued /\ s \notin woken /\ Distinct(waiters)
  BY <1>1, <1>4 DEF CrowdInv, CrowdSound
<1>6. PICK w : w = waiters'
  OBVIOUS
<1>7. Distinct(w) /\ \A k \in DOMAIN w : w[k] = s \/ w[k] \in Queued
  <2>1. w = Append(waiters, s)
    BY <1>1, <1>6
  <2> QED
    BY <1>2, <1>5, <2>1, AppendDistinct
<1>8. \A k \in DOMAIN w : task'[w[k]] = "blocked"
  BY <1>1, <1>2, <1>4, <1>7
<1>9. \A t \in woken' \cup armed' : task'[t] = "blocked"
  BY <1>1, <1>2 DEF CrowdInv, CrowdSound
<1>10. CrowdSound'
  BY <1>3, <1>6, <1>7, <1>8, <1>9 DEF CrowdSound
<1>11. Queued' \subseteq Queued \cup {s}
  BY <1>6, <1>7 DEF Queued
<1>12. Queued' \cap woken' = {}
  BY <1>1, <1>5, <1>11 DEF CrowdInv, PlacesCovered
<1>13. completion' + Cardinality(woken') >= Capacity
  <2>1. completion' = Capacity /\ Cardinality(woken') = Cardinality(woken)
    BY <1>1, <1>2 DEF HasRoom
  <2> QED
    BY <1>2, <2>1
<1> QED
  BY <1>10, <1>12, <1>13 DEF CrowdInv, PlacesCovered

\* When the deadline passes the channel refuses, and wakes who sleeps on it.
LEMMA DeadlineCrowd ==
  ASSUME IInv, CrowdInv, DeadlinePasses
  PROVE  CrowdInv'
<1>1. /\ shutdown = "pending" /\ expired' = TRUE /\ woken' = woken \cup armed /\ armed' = {}
      /\ UNCHANGED <<phase, closed, shutdown, forced, completion, waiters, task>>
  BY DEF DeadlinePasses
<1>2. phase = "ShutdownRecorded"
  BY <1>1 DEF IInv, PhaseSound
<1>3. Refused'
  BY <1>1, <1>2 DEF Refused, Forced
<1>4. CrowdSound'
  BY <1>1 DEF CrowdInv, CrowdSound
<1> QED
  BY <1>3, <1>4, Zenon DEF CrowdInv, PlacesCovered

\* The other steps of the senders.
LEMMA SenderCrowd ==
  ASSUME IInv, CrowdInv, NEW s \in Senders,
         \/ SendCompletion(s) \/ DropSender(s) \/ Close(s) \/ accept_drain_ingress(s)
         \/ \E c \in ClassSet : SendNormal(s, c)
         \/ \E past \in BOOLEAN : accept_shutdown(s, past)
         \/ \E t \in Senders : CloneSender(s, t)
  PROVE  CrowdInv'
<1>1. /\ completion \in Nat /\ forced \in BOOLEAN /\ task \in [Senders -> {"gone", "idle", "blocked"}]
      /\ (forced => shutdown # "none") /\ (Forced => shutdown # "none")
  BY DEF IInv, TypeOK, CrowdInv, CrowdSound, Forced
<1>2. CASE SendCompletion(s)
  <2>1. /\ UNCHANGED <<waiters, woken, armed, task, phase, shutdown, expired, closed>>
        /\ completion' = completion + 1 /\ forced' = Forced
    BY <1>2 DEF SendCompletion
  <2>2. Refused' <=> Refused
    BY <2>1, ForcedSame DEF Refused
  <2> QED
    BY <1>1, <2>1, <2>2, CrowdKept
<1>3. CASE DropSender(s)
  <2>1. /\ UNCHANGED <<waiters, woken, armed, phase, shutdown, expired, forced, completion>>
        /\ task' = [task EXCEPT ![s] = "gone"] /\ task[s] = "idle" /\ (closed => closed')
    BY <1>3 DEF DropSender
  <2>2. Refused => Refused'
    BY <2>1 DEF Refused, Forced
  <2>3. \A t \in Senders : task[t] = "blocked" => task'[t] = "blocked"
    BY <1>1, <2>1
  <2> QED
    BY <1>1, <2>1, <2>2, <2>3, CrowdKept
<1>4. CASE Close(s)
  BY <1>1, <1>4, CrowdEmptied DEF Close
<1>5. CASE accept_drain_ingress(s)
  <2>1. /\ UNCHANGED <<waiters, woken, armed, task, shutdown, expired, closed, completion>>
        /\ forced' = Forced /\ ~Forced
    BY <1>5 DEF accept_drain_ingress
  <2>2. Refused => Refused'
    BY <2>1 DEF Refused
  <2> QED
    BY <1>1, <2>1, <2>2, CrowdKept
<1>6. CASE \E c \in ClassSet : SendNormal(s, c)
  <2>1. /\ UNCHANGED <<waiters, woken, armed, task, phase, shutdown, expired, closed, completion>>
        /\ forced' = Forced
    BY <1>6 DEF SendNormal
  <2>2. Refused' <=> Refused
    BY <2>1, ForcedSame DEF Refused
  <2> QED
    BY <1>1, <2>1, <2>2, CrowdKept
<1>7. CASE \E past \in BOOLEAN : accept_shutdown(s, past)
  <2>1. WakeAllSenders /\ UNCHANGED <<task, armed>> /\ shutdown' = "pending"
    BY <1>7 DEF accept_shutdown
  <2> QED
    BY <2>1, CrowdEmptied
<1>8. CASE \E t \in Senders : CloneSender(s, t)
  <2>1. PICK t \in Senders : CloneSender(s, t)
    BY <1>8
  <2>2. /\ UNCHANGED <<waiters, woken, armed, phase, shutdown, expired, forced, closed, completion>>
        /\ task' = [task EXCEPT ![t] = "idle"] /\ task[t] = "gone"
    BY <2>1 DEF CloneSender, core
  <2>3. Refused' <=> Refused
    BY <2>2 DEF Refused, Forced
  <2>4. \A u \in Senders : task[u] = "blocked" => task'[u] = "blocked"
    BY <1>1, <2>2
  <2> QED
    BY <1>1, <2>2, <2>3, <2>4, CrowdKept
<1> QED
  BY <1>2, <1>3, <1>4, <1>5, <1>6, <1>7, <1>8

\* The other steps of the receiver, and steps in which nothing happens.
LEMMA ReceiverCrowd ==
  ASSUME IInv, CrowdInv,
         \/ RecvDrain \/ RecvNormal \/ RecvShutdown \/ RecvNothing \/ CancelRecv \/ DropReceiver
         \/ UNCHANGED vars
  PROVE  CrowdInv'
<1>1. /\ completion \in Nat /\ (forced => shutdown # "none") /\ (Forced => shutdown # "none")
  BY DEF IInv, TypeOK, CrowdInv, CrowdSound, Forced
<1>2. ASSUME UNCHANGED <<waiters, woken, armed, task, phase, shutdown, expired, closed, completion>>,
             forced' \in {forced, Forced}
      PROVE  CrowdInv'
  <2>1. Refused' <=> Refused
    BY <1>2, ForcedSame DEF Refused
  <2> QED
    BY <1>1, <1>2, <2>1, CrowdKept
<1>3. CASE RecvDrain
  BY <1>2, <1>3 DEF RecvDrain, Received
<1>4. CASE RecvNormal
  BY <1>2, <1>4 DEF RecvNormal, Received
<1>5. CASE RecvNothing
  BY <1>2, <1>5 DEF RecvNothing
<1>6. CASE CancelRecv \/ UNCHANGED vars
  BY <1>2, <1>6 DEF CancelRecv, vars, core
<1>7. CASE RecvShutdown
  <2>1. WakeAllSenders /\ UNCHANGED <<task, armed>> /\ shutdown' = "delivered"
    BY <1>7 DEF RecvShutdown
  <2> QED
    BY <2>1, CrowdEmptied
<1>8. CASE DropReceiver
  <2>1. CASE closed
    <3>1. /\ UNCHANGED <<waiters, woken, armed, task, phase, shutdown, expired, completion, forced>>
          /\ closed' = TRUE
      BY <1>8, <2>1 DEF DropReceiver
    <3>2. Refused => Refused'
      BY <3>1 DEF Refused
    <3> QED
      BY <1>1, <3>1, <3>2, CrowdKept
  <2>2. CASE ~closed
    <3>1. WakeAllSenders /\ UNCHANGED <<task, armed, forced, shutdown>>
      BY <1>8, <2>2 DEF DropReceiver
    <3> QED
      BY <1>1, <3>1, CrowdEmptied
  <2> QED
    BY <2>1, <2>2
<1> QED
  BY <1>3, <1>4, <1>5, <1>6, <1>7, <1>8

\* Every step but a cancellation keeps the places covered.
LEMMA StepCrowd ==
  ASSUME IInv, CrowdInv, [Uncancelled]_vars
  PROVE  CrowdInv'
BY SenderCrowd, ReceiverCrowd, BlockCrowd, PollCrowd, BatchCrowd, DeadlineCrowd DEF Uncancelled, Receive

\* When no send is cancelled, a send waits only for exhausted capacity: somebody is queued
\* only while the backlog is full or a woken sender is about to take the free place.  Only
\* a cancelled send, which takes its wake-up along, can leave a place free.
THEOREM WaitersFaceFullBacklog == UncancelledSpec => []WaitsOnlyWhenExhausted
<1>1. Init => IInv /\ CrowdInv
  <2>1. ASSUME Init PROVE CrowdInv
    <3>1. waiters = << >> /\ woken = {} /\ armed = {} /\ forced = FALSE
      BY <2>1 DEF Init
    <3>2. Queued = {} /\ DOMAIN waiters = {}
      BY <3>1 DEF Queued
    <3> QED
      BY <3>1, <3>2 DEF CrowdInv, CrowdSound, PlacesCovered, Distinct
  <2> QED
    BY <2>1, InitIInv
<1>2. IInv /\ CrowdInv /\ [Uncancelled]_vars => (IInv /\ CrowdInv)'
  <2>1. [Uncancelled]_vars => [Next]_vars
    BY DEF Next
  <2> QED
    BY <2>1, StepIInv, StepCrowd
<1>3. IInv /\ CrowdInv => WaitsOnlyWhenExhausted
  <2> SUFFICES ASSUME IInv, CrowdInv, ~Refused, waiters # << >>, woken = {}
               PROVE  completion = Capacity
    BY DEF WaitsOnlyWhenExhausted
  <2>1. completion + Cardinality(woken) >= Capacity
    BY DEF CrowdInv, PlacesCovered
  <2>2. Cardinality(woken) = 0
    BY FS_EmptySet
  <2> QED
    BY <2>1, <2>2, ConfigAssumption DEF IInv, TypeOK
<1> QED
  BY <1>1, <1>2, <1>3, PTL DEF UncancelledSpec
============================================================================
