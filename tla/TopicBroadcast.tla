--------------------------- MODULE TopicBroadcast ---------------------------
(***************************************************************************)
(* A broadcast-only in-memory topic in `all` (consensus) mode              *)
(* (engine/src/topic/topic.rs and types.rs): the lossy ring of             *)
(* FastBroadcastRing, the registry of subscribers, and the tracker that    *)
(* turns the subscribers' acks and nacks into one outcome per tracked      *)
(* publish.                                                                *)
(*                                                                         *)
(* Publishers, subscribers, the closing caller and the timeout worker run  *)
(* on different threads.  An action is what one of them does under one     *)
(* lock, or one atomic access.  Memory is sequentially consistent.  A      *)
(* message is named by its ring sequence; message ids are in bijection     *)
(* with sequences and are left out.                                        *)
(***************************************************************************)
EXTENDS Naturals, FiniteSets

CONSTANTS Publishers,    \* threads that publish
          Trackers,      \* those that call publish_tracked, the others publish
          Subscribers,   \* BroadcastSubscriberIds
          Early,         \* those that subscribed before the first publish
          Capacity,      \* slots of the ring: a power of two, so that the mask is a modulus
          MaxPublishes,  \* bound: publishes in a behaviour
          MaxFaults,     \* bound: drops, expired deadlines and closes in a behaviour
          Nobody         \* the registry lock is free

ASSUME TopicAssumption ==
  /\ Capacity \in Nat \ {0, 1}
  /\ MaxPublishes \in Nat /\ MaxFaults \in Nat
  /\ Trackers \subseteq Publishers /\ Early \subseteq Subscribers
  /\ Nobody \notin Publishers /\ IsFiniteSet(Subscribers)

VARIABLES
  on_lag,      \* TopicBroadcastOnLagPolicy of the topic
  \* FastBroadcastRing
  write_seq,   \* highest reserved sequence
  slots,       \* slot index -> sequence it holds, 0 when empty
  ring_closed,
  \* BroadcastSubscriberRegistry
  registry,    \* subscribers
  lock,        \* publisher holding the subscribers lock, or Nobody
  \* TrackedPublishTracker
  closed,      \* the topic's and the tracker's closed flags
  entries,     \* sequences in the entries map
  entry,       \* sequence -> [members, acked, outcome] of its TrackedPublishEntry
  detached,    \* <<seq, outcome>>: taken out of the map, entry.resolve still to come
  \* Threads
  pub,         \* publisher -> [pc, seq]
  sub,         \* subscriber -> its BroadcastSub, cursor and position in poll_recv_delivery
  close_pc,    \* "open" | "draining" | "closed"
  faults

ring == <<write_seq, slots, ring_closed>>
tracker == <<entries, entry, detached>>
vars == <<on_lag, ring, registry, lock, closed, tracker, pub, sub, close_pc, faults>>

Seqs == 1 .. MaxPublishes
Tracked == {q \in Seqs : entry[q].outcome # "None"}
NoEntry == [members |-> {}, acked |-> {}, outcome |-> "None"]
Pending(q) == entry[q].outcome = "Pending"
NotSubscribed ==
  [status |-> "new", start |-> 0, read_seq |-> 0, permitted |-> 0, pc |-> "poll", armed |-> FALSE,
   threshold |-> 0, handed |-> {}, acking |-> 0]
Subscribed(start) ==
  [NotSubscribed EXCEPT !.status = "live", !.start = start, !.read_seq = start]

Init ==
  /\ on_lag \in {"DropOldest", "Disconnect"}
  /\ write_seq = 0 /\ slots = [i \in 0 .. Capacity - 1 |-> 0] /\ ring_closed = FALSE
  /\ registry = Early /\ lock = Nobody /\ closed = FALSE
  /\ entries = {} /\ entry = [q \in Seqs |-> NoEntry] /\ detached = {}
  /\ pub = [p \in Publishers |-> [pc |-> "idle", seq |-> 0]]
  /\ sub = [s \in Subscribers |-> IF s \in Early THEN Subscribed(1) ELSE NotSubscribed]
  /\ close_pc = "open" /\ faults = 0

-----------------------------------------------------------------------------
(***************************************************************************)
(* TrackedPublishEntry: state changes under the entry's lock.              *)
(***************************************************************************)

\* The entry still requires an answer of s (nack_if_requires).
Requires(e, s) == e.outcome = "Pending" /\ s \in e.members \ e.acked

\* A resolved state replaces the pending one, members and acks included.
Resolved(outcome) == [members |-> {}, acked |-> {}, outcome |-> outcome]

\* Mutant: the last resolution wins.
EntryResolveLast(e, outcome) == Resolved(outcome)

\* entry.resolve: the first resolution wins.
EntryResolve(e, outcome) ==
  IF e.outcome = "Pending" THEN Resolved(outcome) ELSE e

\* entry.resolve_ack_from(s).
EntryAck(e, s) ==
  CASE ~Requires(e, s) -> e
    [] Requires(e, s) /\ e.members \ e.acked = {s} -> Resolved("Ack")
    [] OTHER -> [e EXCEPT !.acked = @ \cup {s}]

\* Of the sequences Q, those in the map whose entry still requires s
\* (nack_if_requires, nack_if_requires_before).
Owed(s, Q) == {q \in entries \cap Q : Requires(entry[q], s)}

\* Under the map's lock: nack the entries Q and take them out of the map.
NackEntries(Q) ==
  /\ entry' = [q \in Seqs |-> IF q \in Q THEN EntryResolve(entry[q], "Nack") ELSE entry[q]]
  /\ entries' = entries \ Q

\* Remove a sequence from the map; entry.resolve follows outside the map's lock.
Detach(Q, outcome) ==
  /\ entries' = entries \ Q
  /\ detached' = detached \cup {<<q, outcome>> : q \in Q \cap entries}

-----------------------------------------------------------------------------
(***************************************************************************)
(* publish and publish_tracked                                             *)
(***************************************************************************)

\* The closed check at the head of both calls, then reserve_seq.  A tracked
\* publish first takes the registry lock and snapshots the subscribers, an
\* untracked one does not touch the registry.
ReserveSeq(p) ==
  /\ pub[p].pc = "idle" /\ ~closed /\ write_seq < MaxPublishes
  /\ write_seq' = write_seq + 1
  /\ IF p \in Trackers
     THEN /\ lock = Nobody /\ lock' = p
          /\ entry' = [entry EXCEPT ![write_seq'].members = registry]
          /\ pub' = [pub EXCEPT ![p] = [pc |-> "register", seq |-> write_seq']]
     ELSE /\ pub' = [pub EXCEPT ![p] = [pc |-> "commit", seq |-> write_seq']]
          /\ UNCHANGED <<lock, entry>>
  /\ UNCHANGED <<on_lag, slots, ring_closed, registry, closed, entries, detached, sub,
                 close_pc, faults>>

\* register_consensus up to the insertion: a closed tracker or an empty
\* snapshot resolves the receipt at once and nothing is inserted.
RegisterConsensus(p) ==
  LET q == pub[p].seq
      outcome == CASE closed -> "TopicClosed"
                   [] ~closed /\ entry[q].members = {} -> "Nack"
                   [] OTHER -> "Pending" IN
  /\ pub[p].pc = "register"
  /\ entry' = [entry EXCEPT ![q] = IF outcome = "Pending" THEN [@ EXCEPT !.outcome = outcome]
                                                         ELSE Resolved(outcome)]
  /\ pub' = [pub EXCEPT ![p].pc = IF outcome = "Pending" THEN "insert" ELSE "commit"]
  /\ lock' = IF outcome = "Pending" THEN lock ELSE Nobody
  /\ UNCHANGED <<on_lag, ring, registry, closed, entries, detached, sub, close_pc, faults>>

\* entries.insert, then the registry lock is released.
InsertEntry(p) ==
  /\ pub[p].pc = "insert"
  /\ entries' = entries \cup {pub[p].seq}
  /\ pub' = [pub EXCEPT ![p].pc = "commit"]
  /\ lock' = Nobody
  /\ UNCHANGED <<on_lag, ring, registry, closed, entry, detached, sub, close_pc, faults>>

\* wake_all: a registered waker is used up; a parked task is polled again.
WakeAll ==
  sub' = [s \in Subscribers |->
            IF sub[s].armed
            THEN [sub[s] EXCEPT !.armed = FALSE, !.pc = IF @ = "parked" THEN "poll" ELSE @]
            ELSE sub[s]]

SlotOf(seq) == (seq - 1) % Capacity

\* Mutant: a delayed publisher overwrites a newer sequence.
CanCommitAlways(seq) == TRUE

\* commit_slot keeps a newer sequence.
CanCommit(seq) == slots[SlotOf(seq)] < seq

\* commit_slot with its wake_all.
CommitSlot(p) ==
  LET q == pub[p].seq IN
  /\ pub[p].pc = "commit"
  /\ slots' = IF CanCommit(q) THEN [slots EXCEPT ![SlotOf(q)] = q] ELSE slots
  /\ WakeAll
  /\ pub' = [pub EXCEPT ![p] = IF p \in Trackers /\ ~CanCommit(q)
                               THEN [@ EXCEPT !.pc = "overtaken"]
                               ELSE [pc |-> "idle", seq |-> 0]]
  /\ UNCHANGED <<on_lag, write_seq, ring_closed, registry, lock, closed, tracker, close_pc, faults>>

\* outcomes.resolve(id, Nack "overtaken before ring commit").
ResolveOvertaken(p) ==
  /\ pub[p].pc = "overtaken"
  /\ Detach({pub[p].seq}, "Nack")
  /\ pub' = [pub EXCEPT ![p] = [pc |-> "idle", seq |-> 0]]
  /\ UNCHANGED <<on_lag, ring, registry, lock, closed, entry, sub, close_pc, faults>>

-----------------------------------------------------------------------------
(***************************************************************************)
(* subscribe_broadcast and poll_recv_delivery                              *)
(***************************************************************************)

\* Mutant: the cursor starts at the last reserved sequence.
StartSeqCurrent == write_seq

StartSeq == write_seq + 1

\* The start position and the registration are taken under the registry lock.
Subscribe(s) ==
  /\ sub[s].status = "new" /\ lock = Nobody
  /\ registry' = registry \cup {s}
  /\ sub' = [sub EXCEPT ![s] = Subscribed(StartSeq)]
  /\ UNCHANGED <<on_lag, ring, lock, closed, tracker, pub, close_pc, faults>>

\* s is inside no call: its task polls, holds a delivery, or answers.
Between(s) ==
  /\ sub[s].status = "live" /\ sub[s].acking = 0
  /\ sub[s].pc \in {"poll", "parked", "ended"}

\* The ring has nothing for the cursor although the waker was registered before
\* this read: park, or end on a closed ring.  A wake since then repeats the poll.
NotReady(s, registered) ==
  sub' = [sub EXCEPT ![s].armed = registered /\ ~ring_closed,
                     ![s].pc = CASE ~registered -> "poll"
                                 [] registered /\ ring_closed -> "ended"
                                 [] OTHER -> "parked"]

\* The cursor is behind the retained range of a ring whose write_seq is `now`.
Behind(s, now) == now >= Capacity /\ sub[s].read_seq <= now - Capacity

\* BroadcastReadResult::Lagged: the cursor moves to the oldest retained
\* sequence; DropOldest nacks what it skipped, Disconnect leaves the topic.
Lagged(s, now) ==
  LET new == now - Capacity + 1 IN
  sub' = [sub EXCEPT ![s].read_seq = new, ![s].armed = FALSE,
                     ![s].pc = IF on_lag = "Disconnect" THEN "remove" ELSE "barrier",
                     ![s].threshold = IF on_lag = "Disconnect" THEN MaxPublishes + 1 ELSE new]

\* The last read of a poll: register the waker, then try_read up to the slot.
\* The reads before it differ only when they find something, which this one may
\* do as well.  While a delivery is out a poll only waits for its permit.
LoadWriteSeq(s) ==
  /\ sub[s].status = "live" /\ sub[s].acking = 0 /\ sub[s].permitted = 0
  /\ sub[s].pc = "poll"
  /\ CASE sub[s].read_seq > write_seq -> NotReady(s, TRUE)
       [] Behind(s, write_seq) -> Lagged(s, write_seq)
       [] OTHER -> sub' = [sub EXCEPT ![s].pc = "slot", ![s].armed = TRUE]
  /\ UNCHANGED <<on_lag, write_seq, slots, ring_closed, registry, lock, closed, tracker, pub,
                 close_pc, faults>>

\* try_read under the slot's lock: the sequence, a newer one, or neither.
ReadSlot(s) ==
  LET q == sub[s].read_seq
      held == slots[SlotOf(q)] IN
  /\ sub[s].pc = "slot"
  /\ CASE held = q ->
            sub' = [sub EXCEPT ![s].permitted = q, ![s].pc = "poll", ![s].armed = FALSE]
       [] held > q /\ Behind(s, write_seq) -> Lagged(s, write_seq)
       [] OTHER -> NotReady(s, sub[s].armed)
  /\ UNCHANGED <<on_lag, write_seq, slots, ring_closed, registry, lock, closed, tracker, pub,
                 close_pc, faults>>

\* Mutant: nothing orders the scan after a registration that is under way.
BarrierFreeAlways == TRUE

\* Acquiring the registry lock waits for the publisher that holds it.
BarrierFree == lock = Nobody

\* nack_skipped_on_lag before its scan: acquire and release the registry lock.
LagBarrier(s) ==
  /\ sub[s].pc = "barrier" /\ BarrierFree
  /\ sub' = [sub EXCEPT ![s].pc = "scan"]
  /\ UNCHANGED <<on_lag, ring, registry, lock, closed, tracker, pub, close_pc, faults>>

\* disconnect: leave the registry under its lock.
LeaveRegistry(s) ==
  /\ sub[s].pc = "remove" /\ lock = Nobody
  /\ registry' = registry \ {s}
  /\ sub' = [sub EXCEPT ![s].pc = "scan"]
  /\ UNCHANGED <<on_lag, ring, lock, closed, tracker, pub, close_pc, faults>>

\* nack_owed_before, or nack_pending_for_subscriber after a disconnect.  Then
\* the poll returns Lagged, or the drop is complete.
NackScan(s) ==
  /\ sub[s].pc = "scan"
  /\ NackEntries(Owed(s, 1 .. sub[s].threshold - 1))
  /\ sub' = [sub EXCEPT ![s].pc = IF s \in registry THEN "poll" ELSE "ended",
                        ![s].status = IF @ = "dropping" THEN "gone" ELSE @,
                        ![s].threshold = 0]
  /\ UNCHANGED <<on_lag, ring, registry, lock, closed, detached, pub, close_pc, faults>>

\* Drop of the BroadcastSub, forced by the end of the subscription or not.
\* disconnect_done makes it a no-op after a lag disconnect.
Drop(s) ==
  /\ Between(s)
  /\ \/ sub[s].pc = "ended" /\ UNCHANGED faults
     \/ sub[s].pc # "ended" /\ faults < MaxFaults /\ faults' = faults + 1
  /\ sub' = [sub EXCEPT ![s] = IF s \in registry
                               THEN [@ EXCEPT !.status = "dropping", !.pc = "remove",
                                              !.threshold = MaxPublishes + 1]
                               ELSE [@ EXCEPT !.status = "gone"]]
  /\ UNCHANGED <<on_lag, ring, registry, lock, closed, tracker, pub, close_pc>>

-----------------------------------------------------------------------------
(***************************************************************************)
(* Delivery, ack and nack                                                  *)
(***************************************************************************)

\* finish_broadcast_delivery: the cursor moves on and the permit is free.
Finished(s) == [sub[s] EXCEPT !.read_seq = sub[s].permitted + 1, !.permitted = 0]

\* Delivery::commit: the message has been handed to the pipeline, whose answer
\* matters while the publish is pending.
CommitDelivery(s) ==
  /\ Between(s) /\ sub[s].permitted # 0
  /\ sub' = [sub EXCEPT ![s] = [Finished(s) EXCEPT !.handed = @ \cup ({sub[s].permitted} \cap {q \in Seqs : Pending(q)})]]
  /\ UNCHANGED <<on_lag, ring, registry, lock, closed, tracker, pub, close_pc, faults>>

\* Delivery::abort, or a Delivery dropped unresolved: resolve_nack_from, then
\* the cursor moves on.
AbandonDelivery(s) ==
  /\ Between(s) /\ sub[s].permitted # 0
  /\ NackEntries(Owed(s, {sub[s].permitted}))
  /\ sub' = [sub EXCEPT ![s] = Finished(s)]
  /\ UNCHANGED <<on_lag, ring, registry, lock, closed, detached, pub, close_pc, faults>>

\* Subscription::ack: resolve_ack_from finds the entry under the map's lock and
\* works on it after releasing that lock.
Ack(s, q) ==
  /\ Between(s) /\ q \in sub[s].handed /\ q \in Owed(s, {q})
  /\ sub' = [sub EXCEPT ![s].acking = q]
  /\ UNCHANGED <<on_lag, ring, registry, lock, closed, tracker, pub, close_pc, faults>>

\* Mutant: the ack that completes the consensus leaves its entry in the map.
AfterAckKept(q, e) == entries

\* The map after an ack turned the entry of q into e.
AfterAck(q, e) == IF Pending(q) /\ e.outcome = "Ack" THEN entries \ {q} ELSE entries

\* The ack under the entry's lock, and the removal of a resolved entry.
ApplyAck(s) ==
  LET q == sub[s].acking IN
  /\ q # 0
  /\ entry' = [entry EXCEPT ![q] = EntryAck(@, s)]
  /\ entries' = AfterAck(q, EntryAck(entry[q], s))
  /\ sub' = [sub EXCEPT ![s].acking = 0]
  /\ UNCHANGED <<on_lag, ring, registry, lock, closed, detached, pub, close_pc, faults>>

\* Subscription::nack, under the map's lock.
Nack(s, q) ==
  /\ Between(s) /\ q \in sub[s].handed /\ q \in Owed(s, {q})
  /\ NackEntries({q})
  /\ UNCHANGED <<on_lag, ring, registry, lock, closed, detached, pub, sub, close_pc, faults>>

-----------------------------------------------------------------------------
(***************************************************************************)
(* close and the timeout worker                                            *)
(***************************************************************************)

\* close: the topic's flag and the tracker's flag.
Close ==
  /\ close_pc = "open" /\ faults < MaxFaults /\ faults' = faults + 1
  /\ closed' = TRUE /\ close_pc' = "draining"
  /\ UNCHANGED <<on_lag, ring, registry, lock, tracker, pub, sub>>

\* close_all drains the map and resolves what it held, FastBroadcastRing::close
\* ends the ring.  An ack that overtakes entry.resolve here is one that came
\* before the drain.
CloseAll ==
  /\ close_pc = "draining"
  /\ entry' = [q \in Seqs |-> IF q \in entries THEN EntryResolve(entry[q], "TopicClosed")
                                             ELSE entry[q]]
  /\ entries' = {}
  /\ ring_closed' = TRUE /\ WakeAll /\ close_pc' = "closed"
  /\ UNCHANGED <<on_lag, write_seq, slots, registry, lock, closed, detached, pub, faults>>

\* resolve_expired: the expired entries leave the map, then each is resolved.
\* Any pending entry may be past its deadline.
Expire(q) ==
  /\ faults < MaxFaults /\ q \in entries /\ entry[q].outcome = "Pending"
  /\ faults' = faults + 1
  /\ Detach({q}, "TimedOut")
  /\ UNCHANGED <<on_lag, ring, registry, lock, closed, entry, pub, sub, close_pc>>

\* entry.resolve on an entry that has left the map.
ResolveDetached(q, outcome) ==
  /\ <<q, outcome>> \in detached
  /\ entry' = [entry EXCEPT ![q] = EntryResolve(@, outcome)]
  /\ detached' = detached \ {<<q, outcome>>}
  /\ UNCHANGED <<on_lag, ring, registry, lock, closed, entries, pub, sub, close_pc, faults>>

-----------------------------------------------------------------------------
PublisherStep(p) ==
  RegisterConsensus(p) \/ InsertEntry(p) \/ CommitSlot(p) \/ ResolveOvertaken(p)

SubscriberStep(s) ==
  \/ LoadWriteSeq(s) \/ ReadSlot(s) \/ LagBarrier(s) \/ LeaveRegistry(s) \/ NackScan(s)
  \/ CommitDelivery(s) \/ AbandonDelivery(s) \/ ApplyAck(s)

Answer(s) == \E q \in Seqs : Ack(s, q) \/ Nack(s, q)

Resolving == \E q \in Seqs, o \in {"Nack", "TimedOut"} : ResolveDetached(q, o)

Next ==
  \/ \E p \in Publishers : ReserveSeq(p) \/ PublisherStep(p)
  \/ \E s \in Subscribers : Subscribe(s) \/ SubscriberStep(s) \/ Answer(s) \/ Drop(s)
  \/ \E q \in Seqs : Expire(q)
  \/ Close \/ CloseAll \/ Resolving

Spec == Init /\ [][Next]_vars

-----------------------------------------------------------------------------
\* Types, and the map holds pending entries only: none is left behind.
TypeOK ==
  /\ on_lag \in {"DropOldest", "Disconnect"}
  /\ write_seq \in 0 .. MaxPublishes /\ slots \in [0 .. Capacity - 1 -> 0 .. write_seq]
  /\ ring_closed \in BOOLEAN /\ closed \in BOOLEAN
  /\ registry \subseteq Subscribers
  /\ lock \in Publishers \cup {Nobody}
  /\ entries \subseteq {q \in Seqs : Pending(q)}
  /\ entry \in [Seqs -> [members : SUBSET Subscribers, acked : SUBSET Subscribers,
                       outcome : {"None", "Pending", "Ack", "Nack", "TopicClosed", "TimedOut"}]]
  /\ detached \subseteq Tracked \X {"Nack", "TimedOut"}
  /\ pub \in [Publishers ->
              [pc : {"idle", "register", "insert", "commit", "overtaken"},
               seq : 0 .. MaxPublishes]]
  /\ sub \in [Subscribers ->
              [status : {"new", "live", "dropping", "gone"}, start : 0 .. MaxPublishes + 1,
               read_seq : 0 .. MaxPublishes + 1, permitted : 0 .. MaxPublishes,
               pc : {"poll", "slot", "barrier", "remove", "scan", "parked", "ended"},
               armed : BOOLEAN, threshold : 0 .. MaxPublishes + 1, handed : SUBSET Seqs,
               acking : 0 .. MaxPublishes]]
  /\ close_pc \in {"open", "draining", "closed"} /\ faults \in 0 .. MaxFaults

\* "Subscribe, tracked publish, and disconnect all take its lock so a
\* subscriber is either in a message's snapshot AND started at or before that
\* message's ring sequence, or excluded AND started strictly after it"
\* (BroadcastSubscriberRegistry): who must ack a message is exactly who gets it.
MembershipMatchesRing ==
  \A q \in {r \in Seqs : Pending(r)}, s \in Subscribers :
    /\ s \in entry[q].members => sub[s].status # "new" /\ sub[s].start <= q
    /\ s \in registry \ entry[q].members => sub[s].start > q

\* A tracked publish never waits for a subscriber that cannot answer any more:
\* a member whose ack is missing has the message still ahead of its cursor or
\* in its hands, or is about to nack it, unless the publisher itself is about to.
\* Otherwise only the timeout would end the publish (nack_skipped_on_lag,
\* disconnect and the overtaken branch of publish_tracked).
Reachable(s, q) ==
  \/ /\ sub[s].pc \in {"remove", "barrier", "scan"} /\ q < sub[s].threshold
  \/ /\ sub[s].status = "live" /\ (q >= sub[s].read_seq \/ q \in sub[s].handed)
NoSilentMember ==
  \A q \in entries : \A s \in entry[q].members \ entry[q].acked :
    Pending(q) => Reachable(s, q)

\* The outcome of a publish is final and an Ack is the word of every member,
\* each of which was handed the message, whatever acks, nacks, timeouts,
\* overtaking and closing race for the entry (TrackedPublishEntry::resolve,
\* resolve_ack_from).
OutcomeFinal ==
  [][\A q \in Tracked :
       /\ ~Pending(q) => entry'[q] = entry[q]
       /\ Pending(q) /\ entry'[q].outcome = "Ack" =>
            \A s \in entry[q].members :
              q \in sub[s].handed /\ (s \in entry[q].acked \/ sub[s].acking = q)]_vars

\* Every tracked publish gets an outcome without the help of its timeout, if
\* subscribers finish and answer what they receive and drop a subscription that
\* has ended: while a publish is pending, some thread it depends on has a step
\* to take.  It is a publisher that has not finished with this message or an
\* earlier one, or that holds the registry lock; the thread that took the entry
\* out of the map; or a member whose answer is missing.  A reader of an
\* uncommitted slot is woken, a delayed publisher neither hides a newer message
\* nor is waited for, and close leaves nobody waiting.
\* (Behaviours are finite, so what is never stuck ends resolved.)
CanStep(s, q) ==
  \/ sub[s].acking # 0 \/ sub[s].pc \in {"slot", "scan"}
  \/ sub[s].pc \in {"barrier", "remove"} /\ lock = Nobody
  \/ /\ Between(s)
     /\ sub[s].pc # "parked" \/ sub[s].permitted # 0 \/ (q \in sub[s].handed /\ q \in entries)
Attended(q) ==
  \/ \E p \in Publishers : pub[p].pc # "idle" /\ (pub[p].seq <= q \/ lock = p)
  \/ \E d \in detached : d[1] = q
  \/ \E s \in entry[q].members \ entry[q].acked : CanStep(s, q)
NoStuckPublish == \A q \in Seqs : Pending(q) => Attended(q)

=============================================================================
