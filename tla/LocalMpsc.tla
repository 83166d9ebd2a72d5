----------------------------- MODULE LocalMpsc -----------------------------
(***************************************************************************)
(* The single-threaded MPSC channel that carries pipeline data and control *)
(* messages between the nodes of one core (crates/channel/src/mpsc.rs).    *)
(*                                                                         *)
(* All handles live on one thread, so every synchronous call and every     *)
(* Future::poll is one atomic step; concurrency is the order in which the  *)
(* executor polls the tasks and in which tasks are cancelled.  A blocked   *)
(* send registers a keyed waiter slot; freed capacity is handed to the     *)
(* oldest waiter as a reservation that counts against the capacity until   *)
(* the woken future is polled or dropped.                                  *)
(***************************************************************************)
EXTENDS Naturals, Sequences, FiniteSets

CONSTANTS Producers,   \* tasks that may hold one Sender handle each
          Capacity,    \* Channel::new(capacity)
          MaxWaits,    \* bound: how many blocked sends may register a waiter
          NoWaker      \* Option<Waker>::None; a task's waker is the producer itself

ASSUME ProducersAssumption == IsFiniteSet(Producers) /\ Producers # {}
ASSUME CapacityAssumption == Capacity \in Nat \ {0}
ASSUME MaxWaitsAssumption == MaxWaits \in Nat
ASSUME NoWakerAssumption == NoWaker \notin Producers

NoKey == [index |-> 0, generation |-> 0]

VARIABLES
  ch,    \* ChannelState, with the waiter table and the wakers that have fired
  task,  \* producer -> "absent" (no handle) | "idle" | "blocked" (SendFuture)
  key,   \* producer -> waiter_key of its SendFuture
  rx     \* "idle" | "waiting" (RecvFuture pending) | "dropped"

vars == <<ch, task, key, rx>>

----------------------------------------------------------------------------
(* Waiter table: SenderWaiterSlot, SenderWaiterKey, SenderWaiters.         *)

Keys == [index : Nat, generation : Nat]

Slots == [generation : Nat, waker : Producers \cup {NoWaker},
          in_use : BOOLEAN, queued : BOOLEAN, reserved : BOOLEAN]

\* Mutant: the generation of a reused slot is not compared.
CurrentIndexOnly(c, k) == k.index \in DOMAIN c.slots /\ c.slots[k.index].in_use

\* A key is current when its slot is in use by the same generation.
Current(c, k) ==
  /\ k.index \in DOMAIN c.slots
  /\ c.slots[k.index].in_use
  /\ c.slots[k.index].generation = k.generation

\* Positions of the queue that are not stale.
LiveEntries(c) ==
  {n \in DOMAIN c.queue : Current(c, c.queue[n]) /\ c.slots[c.queue[n].index].queued}

FirstLive(c) == CHOOSE n \in LiveEntries(c) : \A m \in LiveEntries(c) : n <= m

\* Mutant: only buffered values count against the capacity.
BufferFull(c) == Len(c.buffer) >= Capacity

AtCapacity(c) == Len(c.buffer) + c.reserved_slots >= Capacity

\* grant_one_sender_waiter with SenderWaiters::reserve_one.  A queued slot always
\* has a waker (WaiterTableSound), so the slot without one is not distinguished.
grant_one_sender_waiter(c) ==
  IF c.is_closed \/ AtCapacity(c) THEN c
  ELSE IF LiveEntries(c) = {} THEN [c EXCEPT !.queue = << >>]
  ELSE LET n == FirstLive(c)
           i == c.queue[n].index
       IN [c EXCEPT !.queue = SubSeq(c.queue, n + 1, Len(c.queue)),
                    !.slots = [c.slots EXCEPT ![i] =
                      [c.slots[i] EXCEPT !.queued = FALSE, !.waker = NoWaker, !.reserved = TRUE]],
                    !.reserved_slots = c.reserved_slots + 1,
                    !.woken = c.woken \cup {c.slots[i].waker}]

\* Mutant: closing clears the queue without waking the waiters.
wake_nobody(c) == [c EXCEPT !.queue = << >>]

\* wake_all_sender_waiters: every queued waiter is woken without a reservation.
wake_all_sender_waiters(c) ==
  LET live == {c.queue[n].index : n \in LiveEntries(c)}
  IN [c EXCEPT !.queue = << >>,
               !.slots = [i \in DOMAIN c.slots |->
                            IF i \in live
                            THEN [c.slots[i] EXCEPT !.queued = FALSE, !.waker = NoWaker]
                            ELSE c.slots[i]],
               !.woken = c.woken \cup {c.slots[i].waker : i \in live}]

\* SenderWaiters::register_or_refresh: the pair of the new state and the key.
\* A live key keeps its slot and is queued again only if it is not queued.
register_or_refresh(c, k, p) ==
  IF Current(c, k)
  THEN <<[c EXCEPT !.slots = [c.slots EXCEPT ![k.index] =
                     [c.slots[k.index] EXCEPT !.waker = p, !.queued = TRUE]],
                   !.queue = IF c.slots[k.index].queued THEN c.queue
                             ELSE Append(c.queue, k)], k>>
  ELSE LET reuse == c.free_slots # << >>
           i == IF reuse THEN c.free_slots[Len(c.free_slots)] ELSE Len(c.slots) + 1
           new == [index |-> i, generation |-> c.next_generation]
           slot == [generation |-> c.next_generation, waker |-> p,
                    in_use |-> TRUE, queued |-> TRUE, reserved |-> FALSE]
       IN <<[c EXCEPT !.slots = IF reuse THEN [c.slots EXCEPT ![i] = slot]
                                ELSE Append(c.slots, slot),
                      !.free_slots = IF reuse
                                     THEN SubSeq(c.free_slots, 1, Len(c.free_slots) - 1)
                                     ELSE c.free_slots,
                      !.next_generation = c.next_generation + 1,
                      !.queue = Append(c.queue, new)], new>>

OwnsReservation(c, k) == Current(c, k) /\ c.slots[k.index].reserved

\* ChannelState::consume_reservation (the caller has tested OwnsReservation).
consume_reservation(c, k) ==
  [c EXCEPT !.slots = [c.slots EXCEPT ![k.index] = [c.slots[k.index] EXCEPT !.reserved = FALSE]],
            !.reserved_slots = c.reserved_slots - 1]

\* Mutant: a freed slot is put on the free list but stays in use.
ReleaseSlotInUse(c, k) ==
  [c EXCEPT !.slots = [c.slots EXCEPT ![k.index] =
              [c.slots[k.index] EXCEPT !.queued = FALSE, !.waker = NoWaker, !.reserved = FALSE]],
            !.free_slots = Append(c.free_slots, k.index)]

\* SenderWaiters::unregister: free the slot; its queue entry becomes stale.
ReleaseSlot(c, k) ==
  [c EXCEPT !.slots = [c.slots EXCEPT ![k.index] =
              [c.slots[k.index] EXCEPT !.in_use = FALSE, !.queued = FALSE,
                                       !.waker = NoWaker, !.reserved = FALSE]],
            !.free_slots = Append(c.free_slots, k.index)]

\* Mutant: unregistering always gives a reservation back, consumed or not.
unregister_always_releases(c, k) ==
  IF ~Current(c, k) THEN c
  ELSE grant_one_sender_waiter(
         [ReleaseSlot(c, k) EXCEPT !.reserved_slots = c.reserved_slots - 1])

\* unregister_sender_waiter: a released reservation goes to the next waiter.
unregister_sender_waiter(c, k) ==
  IF ~Current(c, k) THEN c
  ELSE IF OwnsReservation(c, k)
       THEN grant_one_sender_waiter(
              [ReleaseSlot(c, k) EXCEPT !.reserved_slots = c.reserved_slots - 1])
       ELSE ReleaseSlot(c, k)

----------------------------------------------------------------------------
(* Sender and receiver operations on the channel state.                    *)

WakeReceiver(c) ==
  IF c.receiver_waker THEN [c EXCEPT !.receiver_waker = FALSE, !.rx_woken = TRUE] ELSE c

Closed(c) == c.is_closed \/ ~c.has_receiver

\* Mutant: the send does not notify the parked receiver.
PushSilently(c, p) == [c EXCEPT !.buffer = Append(c.buffer, p)]

\* The accepting path of Sender::send.  A value is identified by its producer.
Push(c, p) == WakeReceiver([c EXCEPT !.buffer = Append(c.buffer, p)])

\* The accepting path of SendFuture::poll: push, give the slot back, hand the
\* freed capacity on when this was the last outstanding grant, wake the receiver.
CompleteSend(c, k, p) ==
  LET d == unregister_sender_waiter([c EXCEPT !.buffer = Append(c.buffer, p)], k)
      e == IF d.reserved_slots = 0 THEN grant_one_sender_waiter(d) ELSE d
  IN WakeReceiver(e)

\* Drop for Sender: the last handle closes the channel and wakes the receiver.
DropHandle(c) ==
  LET d == [c EXCEPT !.senders = c.senders - 1]
  IN IF d.senders = 0 THEN WakeReceiver([d EXCEPT !.is_closed = TRUE]) ELSE d

\* Mutant: a drain hands capacity on only when it empties the buffer.
PopGrantWhenEmpty(c) ==
  LET d == [c EXCEPT !.buffer = Tail(c.buffer)]
  IN IF d.buffer = << >> THEN grant_one_sender_waiter(d) ELSE d

\* The Ok path of Receiver::try_recv, with its coalesced notification.
Pop(c) ==
  LET d == [c EXCEPT !.buffer = Tail(c.buffer)]
  IN IF Len(d.buffer) = Capacity - 1 \/ d.buffer = << >>
     THEN grant_one_sender_waiter(d) ELSE d

----------------------------------------------------------------------------
Init ==
  /\ ch = [buffer |-> << >>, reserved_slots |-> 0, is_closed |-> FALSE,
           senders |-> 1, has_receiver |-> TRUE, receiver_waker |-> FALSE,
           slots |-> << >>, queue |-> << >>, free_slots |-> << >>,
           next_generation |-> 0, woken |-> {}, rx_woken |-> FALSE]
  /\ \E p \in Producers : task = [q \in Producers |-> IF q = p THEN "idle" ELSE "absent"]
  /\ key = [q \in Producers |-> NoKey]
  /\ rx = "idle"

\* Sender::send / the fast path of send_async, accepted.
Send(p) ==
  /\ task[p] = "idle"
  /\ ~Closed(ch) /\ ~AtCapacity(ch)
  /\ ch' = Push(ch, p)
  /\ UNCHANGED <<task, key, rx>>

\* send_async on a full channel: clones the sender into a SendFuture whose first
\* poll (same step, nothing runs in between) registers the waiter.
SendBlocks(p) ==
  /\ task[p] = "idle"
  /\ ~Closed(ch) /\ AtCapacity(ch)
  /\ ch.next_generation < MaxWaits
  /\ LET r == register_or_refresh(ch, NoKey, p)
     IN /\ ch' = [r[1] EXCEPT !.senders = ch.senders + 1]
        /\ key' = [key EXCEPT ![p] = r[2]]
  /\ task' = [task EXCEPT ![p] = "blocked"]
  /\ UNCHANGED rx

\* SendFuture::poll.  The task may be polled without having been woken (select!).
PollSend(p) ==
  LET c == [ch EXCEPT !.woken = ch.woken \ {p}]
      k == key[p]
      Finish(d) == /\ ch' = DropHandle(d)
                   /\ key' = [key EXCEPT ![p] = NoKey]
                   /\ task' = [task EXCEPT ![p] = "idle"]
  IN /\ task[p] = "blocked"
     /\ UNCHANGED rx
     /\ \/ /\ Closed(c)
           /\ Finish(unregister_sender_waiter(c, k))
        \/ /\ ~Closed(c) /\ OwnsReservation(c, k)
           /\ Finish(CompleteSend(consume_reservation(c, k), k, p))
        \/ /\ ~Closed(c) /\ ~OwnsReservation(c, k) /\ ~AtCapacity(c)
           /\ Finish(CompleteSend(c, k, p))
        \/ /\ ~Closed(c) /\ ~OwnsReservation(c, k) /\ AtCapacity(c)
           /\ ch' = register_or_refresh(c, k, p)[1]
           /\ key' = [key EXCEPT ![p] = register_or_refresh(c, k, p)[2]]
           /\ UNCHANGED task

\* Drop for SendFuture before completion (a select! branch lost, a task aborted).
CancelSend(p) ==
  /\ task[p] = "blocked"
  /\ ch' = DropHandle(unregister_sender_waiter([ch EXCEPT !.woken = ch.woken \ {p}], key[p]))
  /\ key' = [key EXCEPT ![p] = NoKey]
  /\ task' = [task EXCEPT ![p] = "idle"]
  /\ UNCHANGED rx

\* Clone for Sender: p hands a handle to q.
CloneSender(p, q) ==
  /\ task[p] = "idle" /\ task[q] = "absent"
  /\ ch' = [ch EXCEPT !.senders = ch.senders + 1]
  /\ task' = [task EXCEPT ![q] = "idle"]
  /\ UNCHANGED <<key, rx>>

DropSender(p) ==
  /\ task[p] = "idle"
  /\ ch' = DropHandle(ch)
  /\ task' = [task EXCEPT ![p] = "absent"]
  /\ UNCHANGED <<key, rx>>

\* Sender::close
Close(p) ==
  /\ task[p] = "idle"
  /\ ch' = wake_all_sender_waiters(WakeReceiver([ch EXCEPT !.is_closed = TRUE]))
  /\ UNCHANGED <<task, key, rx>>

\* Receiver::try_recv with a value, outside any RecvFuture.
TryRecv ==
  /\ rx = "idle" /\ ch.buffer # << >>
  /\ ch' = Pop(ch)
  /\ UNCHANGED <<task, key, rx>>

\* RecvFuture::poll: a value, closed, or pending with the waker stored.
PollRecv ==
  LET c == [ch EXCEPT !.rx_woken = FALSE]
  IN /\ rx \in {"idle", "waiting"}
     /\ UNCHANGED <<task, key>>
     /\ \/ ch.buffer # << >> /\ ch' = Pop(c) /\ rx' = "idle"
        \/ ch.buffer = << >> /\ ch.is_closed /\ ch' = c /\ rx' = "idle"
        \/ /\ ch.buffer = << >> /\ ~ch.is_closed
           /\ ch' = [c EXCEPT !.receiver_waker = TRUE]
           /\ rx' = "waiting"

\* A RecvFuture is dropped: it has no Drop, so its waker stays behind.
CancelRecv == rx = "waiting" /\ rx' = "idle" /\ UNCHANGED <<ch, task, key>>

\* Drop for Receiver
DropReceiver ==
  /\ rx = "idle"
  /\ ch' = wake_all_sender_waiters([ch EXCEPT !.has_receiver = FALSE, !.is_closed = TRUE])
  /\ rx' = "dropped"
  /\ UNCHANGED <<task, key>>

Next ==
  \/ \E p \in Producers : Send(p) \/ SendBlocks(p) \/ PollSend(p) \/ CancelSend(p)
                          \/ DropSender(p) \/ Close(p)
  \/ \E p, q \in Producers : CloneSender(p, q)
  \/ TryRecv \/ PollRecv \/ CancelRecv \/ DropReceiver

\* The executor polls every woken task; the receiving node keeps receiving.
\* Nothing is assumed of a task that was not woken.
PollWoken(p) == p \in ch.woken /\ (PollSend(p) \/ CancelSend(p))

Receive == (rx = "idle" \/ ch.rx_woken) /\ PollRecv

Fairness == (\A p \in Producers : WF_vars(PollWoken(p))) /\ WF_vars(Receive)

Spec == Init /\ [][Next]_vars

FairSpec == Spec /\ Fairness

----------------------------------------------------------------------------
ChannelStates ==
  [buffer : Seq(Producers), reserved_slots : Nat, is_closed : BOOLEAN,
   senders : Nat, has_receiver : BOOLEAN, receiver_waker : BOOLEAN,
   slots : Seq(Slots), queue : Seq(Keys), free_slots : Seq(Nat),
   next_generation : Nat, woken : SUBSET (Producers \cup {NoWaker}), rx_woken : BOOLEAN]

TypeOK ==
  /\ ch \in ChannelStates
  /\ task \in [Producers -> {"absent", "idle", "blocked"}]
  /\ key \in [Producers -> Keys]
  /\ rx \in {"idle", "waiting", "dropped"}

Reserved(c) == {i \in DOMAIN c.slots : c.slots[i].reserved}

\* "buffered + reserved never exceeds capacity", where reserved_slots is the
\* number of waiter slots that really hold a grant, across grants, cancelled
\* grants, slot reuse and close: try_recv, poll and Drop all adjust the counter.
CapacityBound(c) ==
  /\ Len(c.buffer) + c.reserved_slots <= Capacity
  /\ c.reserved_slots = Cardinality(Reserved(c))

CapacityRespected == CapacityBound(ch)

\* No blocked send is forgotten while the channel is open: a queued waiter means
\* that either the buffer is full, so that a later receive will grant, or some
\* grant is outstanding, whose poll or cancellation will.  This is what the
\* coalesced notification of try_recv must not break.
NoStranded(c) ==
  (~c.is_closed /\ \E i \in DOMAIN c.slots : c.slots[i].queued)
     => Len(c.buffer) = Capacity \/ c.reserved_slots > 0

NoStrandedWaiter == NoStranded(ch)

\* Waiter slots against futures: every blocked send that has not been woken is
\* reachable from the queue under its own key, two futures never share a slot,
\* and a slot on the free list belongs to none (the ABA protection).
WaiterTableSound ==
  /\ \A p \in Producers : task[p] = "blocked" =>
       /\ Current(ch, key[p])
       /\ p \notin ch.woken => /\ ch.slots[key[p].index].waker = p
                               /\ \E n \in LiveEntries(ch) : ch.queue[n] = key[p]
  /\ \A p, q \in Producers :
       (p # q /\ task[p] = "blocked" /\ task[q] = "blocked") => key[p].index # key[q].index
  /\ \A n \in DOMAIN ch.free_slots : ~ch.slots[ch.free_slots[n]].in_use

\* The receiver never sleeps on a channel that has something for it: a pending
\* RecvFuture whose waker has not fired sees an empty, open channel and is
\* registered, whichever of send, poll, close or the last drop came in between.
NoLostReceiverWake ==
  (rx = "waiting" /\ ~ch.rx_woken)
     => ch.receiver_waker /\ ch.buffer = << >> /\ ~ch.is_closed

\* "Blocked sends receive FIFO reservations": whenever a step grants capacity to
\* a waiter, no waiter that registered earlier is left queued, although slots are
\* reused and the queue holds stale entries of cancelled sends.
FifoGrant ==
  \A i \in DOMAIN ch.slots :
    (ch'.slots[i].reserved /\ ~ch.slots[i].reserved) =>
      \A j \in DOMAIN ch'.slots :
        ch'.slots[j].queued => ch'.slots[j].generation > ch'.slots[i].generation

FifoGrants == [][FifoGrant]_vars

\* Under a fair executor and a receiver that keeps receiving, every blocked send
\* is accepted, refused or cancelled; competing fast-path senders cannot starve it.
BlockedSendResolves ==
  \A p \in Producers : task[p] = "blocked" ~> task[p] # "blocked"
============================================================================
