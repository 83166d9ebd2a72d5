------------------------ MODULE TopicBroadcastProofs ------------------------
(***************************************************************************)
(* Proofs about TopicBroadcast for any publishers and subscribers, every   *)
(* capacity of the ring and any number of publishes and faults.            *)
(***************************************************************************)
EXTENDS TopicBroadcast, TLAPS

\* p holds the registry lock: it has taken its snapshot and not yet inserted.
Claiming(p) == pub[p].pc \in {"register", "insert"}

\* Publishers own distinct sequences; the lock is held exactly while one of them
\* claims, and nobody but its owner has touched the entry of a claimed sequence.
PublishersSound ==
  /\ \A p \in Publishers :
       /\ pub[p].pc # "idle" => pub[p].seq \in 1 .. write_seq
       /\ (Claiming(p) <=> lock = p)
       /\ Claiming(p) \/ pub[p].pc = "overtaken" => p \in Trackers
  /\ \A p, o \in Publishers :
       pub[p].pc # "idle" /\ pub[o].pc # "idle" /\ p # o => pub[p].seq # pub[o].seq
  /\ \A p \in Publishers :
       /\ pub[p].pc = "register" =>
            entry[pub[p].seq] = [NoEntry EXCEPT !.members = registry]
       /\ pub[p].pc = "insert" =>
            entry[pub[p].seq] = [members |-> registry, acked |-> {}, outcome |-> "Pending"]

\* A sequence that nobody has reserved has no entry; only tracked ones have
\* answers under way, and what has left the map does not come back.
EntriesSound ==
  /\ \A q \in Seqs : q > write_seq => entry[q] = NoEntry
  /\ \A d \in detached : d[1] \notin entries
  /\ \A p \in Publishers : Claiming(p) =>
       /\ pub[p].seq \notin entries
       /\ \A d \in detached : d[1] # pub[p].seq
       /\ \A s \in Subscribers : sub[s].acking # pub[p].seq /\ sub[s].permitted # pub[p].seq
       /\ \A i \in 0 .. Capacity - 1 : slots[i] # pub[p].seq
  /\ \A s \in Subscribers : sub[s].acking # 0 =>
       sub[s].acking \in Tracked /\ sub[s].acking \in sub[s].handed

\* Where a subscriber is in its life, its cursor and its departure.
SubscriberSound(s) ==
  /\ sub[s].status = "new" => sub[s] = NotSubscribed /\ s \notin registry
  /\ sub[s].status # "new" =>
       sub[s].start \in 1 .. write_seq + 1 /\ sub[s].read_seq \in 1 .. write_seq + 1
  /\ sub[s].permitted # 0 => sub[s].permitted = sub[s].read_seq /\ sub[s].permitted <= write_seq
  /\ sub[s].pc = "slot" => sub[s].read_seq <= write_seq /\ sub[s].permitted = 0
  /\ sub[s].pc \in {"barrier", "remove", "scan"} /\ sub[s].status = "live" => sub[s].permitted = 0
  /\ sub[s].pc = "barrier" => s \in registry /\ sub[s].threshold = sub[s].read_seq
  /\ sub[s].pc = "remove" => s \in registry /\ sub[s].threshold = MaxPublishes + 1
  /\ sub[s].pc = "scan" =>
       IF s \in registry THEN sub[s].status = "live" /\ sub[s].threshold = sub[s].read_seq
                         ELSE sub[s].threshold = MaxPublishes + 1
  /\ s \in registry => \/ sub[s].status = "live"
                       \/ sub[s].status = "dropping" /\ sub[s].pc = "remove"
  /\ sub[s].pc \in {"slot", "barrier"} => sub[s].status = "live"
  /\ sub[s].status = "live" /\ sub[s].pc \notin {"scan", "ended"} => s \in registry
SubscribersSound == \A s \in Subscribers : SubscriberSound(s)

\* MembershipMatchesRing from the moment the snapshot is taken.
MembershipSound ==
  \A q \in Seqs :
    Pending(q) \/ (\E p \in Publishers : Claiming(p) /\ pub[p].seq = q) =>
      \A s \in Subscribers :
        /\ s \in entry[q].members => sub[s].status # "new" /\ sub[s].start <= q
        /\ s \in registry \ entry[q].members => sub[s].start > q

\* A claimed message is still ahead of every member, or the member waits for the
\* lock before it scans; one that has left and scanned owes nothing; an ack was
\* given for a message that had been handed over.
AnswersSound ==
  /\ \A p \in Publishers : Claiming(p) => \A s \in registry :
       \/ sub[s].pc \in {"remove", "barrier"} /\ pub[p].seq < sub[s].threshold
       \/ sub[s].status = "live" /\ sub[s].read_seq <= pub[p].seq
  /\ \A s \in Subscribers : s \notin registry /\ sub[s].pc # "scan" =>
       \A q \in entries : ~Requires(entry[q], s)
  /\ \A q \in Seqs, s \in Subscribers : s \in entry[q].acked => q \in sub[s].handed

IInv ==
  /\ TypeOK /\ PublishersSound /\ EntriesSound /\ SubscribersSound
  /\ MembershipSound /\ AnswersSound /\ NoSilentMember

-----------------------------------------------------------------------------
(* The types of the records, and the type invariant in terms of them.      *)

Entries == [members : SUBSET Subscribers, acked : SUBSET Subscribers,
            outcome : {"None", "Pending", "Ack", "Nack", "TopicClosed", "TimedOut"}]
PublisherStates == [pc : {"idle", "register", "insert", "commit", "overtaken"},
                    seq : 0 .. MaxPublishes]
SubscriberStates ==
  [status : {"new", "live", "dropping", "gone"}, start : 0 .. MaxPublishes + 1,
   read_seq : 0 .. MaxPublishes + 1, permitted : 0 .. MaxPublishes,
   pc : {"poll", "slot", "barrier", "remove", "scan", "parked", "ended"},
   armed : BOOLEAN, threshold : 0 .. MaxPublishes + 1, handed : SUBSET Seqs,
   acking : 0 .. MaxPublishes]

\* The ring and the flags of the topic.
RingTyped ==
  /\ on_lag \in {"DropOldest", "Disconnect"}
  /\ write_seq \in 0 .. MaxPublishes /\ slots \in [0 .. Capacity - 1 -> 0 .. write_seq]
  /\ ring_closed \in BOOLEAN /\ closed \in BOOLEAN
  /\ close_pc \in {"open", "draining", "closed"} /\ faults \in 0 .. MaxFaults

\* The tracker's map: a detached entry has one, an entry in the map is pending.
TrackerTyped ==
  /\ entry \in [Seqs -> Entries]
  /\ \A q \in entries : q \in Seqs /\ Pending(q)
  /\ \A d \in detached : /\ d = <<d[1], d[2]>> /\ d[1] \in Seqs
                         /\ entry[d[1]].outcome # "None" /\ d[2] \in {"Nack", "TimedOut"}

\* The registry and the threads.
ThreadsTyped ==
  /\ registry \subseteq Subscribers /\ lock \in Publishers \cup {Nobody}
  /\ pub \in [Publishers -> PublisherStates]
  /\ sub \in [Subscribers -> SubscriberStates]

\* The type invariant is the conjunction of these three.
LEMMA TypeParts == TypeOK <=> RingTyped /\ TrackerTyped /\ ThreadsTyped
<1>1. TypeOK => RingTyped
  BY DEF TypeOK, RingTyped
<1>2. TypeOK => ThreadsTyped
  BY DEF TypeOK, ThreadsTyped, PublisherStates, SubscriberStates
<1>3. TypeOK => TrackerTyped
  BY DEF TypeOK, TrackerTyped, Entries, Tracked
<1>4. ASSUME RingTyped, TrackerTyped, ThreadsTyped PROVE TypeOK
  <2>1. entries \subseteq {q \in Seqs : Pending(q)}
    BY <1>4 DEF TrackerTyped
  <2>2. detached \subseteq Tracked \X {"Nack", "TimedOut"}
    BY <1>4 DEF TrackerTyped, Tracked
  <2> QED
    BY <1>4, <2>1, <2>2 DEF TypeOK, RingTyped, TrackerTyped, ThreadsTyped, PublisherStates,
                            SubscriberStates, Entries
<1> QED
  BY <1>1, <1>2, <1>3, <1>4

\* A slot index is one of the ring's.
LEMMA SlotInRing ==
  ASSUME NEW q \in Nat \ {0}
  PROVE  SlotOf(q) \in 0 .. Capacity - 1
BY TopicAssumption DEF SlotOf

-----------------------------------------------------------------------------
(* What steps that do not publish keep.                                    *)

\* No publisher that holds the lock owns q.
Free(q) == \A p \in Publishers : Claiming(p) => pub[p].seq # q

\* What a step other than its owner's does to the entry of q: nothing, or it
\* resolves or acknowledges a pending entry that nobody is inserting.
Settles(q) ==
  \/ entry'[q] = entry[q]
  \/ /\ Pending(q) /\ Free(q)
     /\ entry'[q].outcome \in {"Ack", "Nack", "TopicClosed", "TimedOut"}
     /\ entry'[q].members = {} /\ entry'[q].acked = {}
     /\ q \notin entries'
  \/ /\ Pending(q) /\ Free(q) /\ Pending(q)'
     /\ entry'[q].members = entry[q].members /\ entry[q].acked \subseteq entry'[q].acked

\* The publishers that hold the lock stay where they are.
ClaimsKept ==
  \A p \in Publishers : /\ (Claiming(p)' <=> Claiming(p))
                        /\ Claiming(p) => pub'[p] = pub[p]

\* What is in the map, detached or being acknowledged is nobody's to insert.
LEMMA KnownIsFree ==
  ASSUME IInv, NEW q \in Seqs,
         \/ q \in entries
         \/ \E d \in detached : d[1] = q
         \/ \E s \in Subscribers : sub[s].acking = q \/ sub[s].permitted = q
         \/ \E i \in 0 .. Capacity - 1 : slots[i] = q
  PROVE  Free(q)
BY DEF IInv, EntriesSound, Free

\* Steps that settle entries keep what holds of the publishers.
LEMMA PublishersKept ==
  ASSUME IInv, UNCHANGED <<pub, write_seq, lock, registry>>, \A q \in Seqs : Settles(q)
  PROVE  PublishersSound'
<1>1. PublishersSound /\ TypeOK
  BY DEF IInv
<1>2. \A p \in Publishers : Claiming(p) => entry'[pub[p].seq] = entry[pub[p].seq]
  <2> SUFFICES ASSUME NEW p \in Publishers, Claiming(p) PROVE entry'[pub[p].seq] = entry[pub[p].seq]
    OBVIOUS
  <2>1. pub[p].seq \in Seqs /\ ~Free(pub[p].seq)
    BY <1>1, TopicAssumption DEF PublishersSound, Claiming, Free, Seqs, TypeOK
  <2> QED
    BY <2>1 DEF Settles
<1> QED
  BY <1>1, <1>2 DEF PublishersSound, Claiming

\* They keep what holds of the entries when subscribers acknowledge what they
\* were handed and take what is in the ring.
LEMMA EntriesKept ==
  ASSUME IInv, ClaimsKept, UNCHANGED write_seq, entries' \subseteq entries,
         \A i \in 0 .. Capacity - 1 : slots'[i] = slots[i] \/ Free(slots'[i]),
         \A q \in Seqs : Settles(q),
         \A d \in detached' : d \in detached \/ (d[1] \in entries /\ d[1] \notin entries'),
         \A s \in Subscribers :
           /\ sub[s].handed \subseteq sub'[s].handed
           /\ \/ sub'[s].acking \in {0, sub[s].acking}
              \/ sub'[s].acking \in entries /\ sub'[s].acking \in sub[s].handed
           /\ \/ sub'[s].permitted \in {0, sub[s].permitted}
              \/ \E i \in 0 .. Capacity - 1 : sub'[s].permitted = slots[i]
  PROVE  EntriesSound'
<1>1. EntriesSound /\ PublishersSound /\ TrackerTyped /\ RingTyped
  BY TypeParts DEF IInv
<1>2. \A p \in Publishers : /\ (Claiming(p)' <=> Claiming(p))
                            /\ Claiming(p) => pub'[p] = pub[p]
  BY DEF ClaimsKept
<1>3. \A p \in Publishers : Claiming(p) => pub[p].seq \in Seqs /\ pub[p].seq > 0
  BY <1>1, TopicAssumption DEF PublishersSound, Claiming, Seqs, RingTyped
<1>4. \A q \in Seqs : q > write_seq => entry'[q] = NoEntry
  BY <1>1 DEF EntriesSound, Settles, NoEntry, Pending
<1>5. \A d \in detached' : d[1] \notin entries'
  BY <1>1 DEF EntriesSound
<1>6. \A p \in Publishers : Claiming(p) =>
       /\ pub[p].seq \notin entries'
       /\ \A d \in detached' : d[1] # pub[p].seq
       /\ \A s \in Subscribers : sub'[s].acking # pub[p].seq /\ sub'[s].permitted # pub[p].seq
       /\ \A i \in 0 .. Capacity - 1 : slots'[i] # pub[p].seq
  BY <1>1, <1>3 DEF EntriesSound, Free
<1>7. \A q \in Tracked : q \in Tracked'
  BY <1>1 DEF Settles, Tracked, Pending
<1>8. \A s \in Subscribers : sub'[s].acking # 0 =>
       sub'[s].acking \in Tracked' /\ sub'[s].acking \in sub'[s].handed
  <2>1. entries \subseteq Tracked
    BY <1>1 DEF TrackerTyped, Tracked, Pending
  <2> QED
    BY <1>1, <1>7, <2>1 DEF EntriesSound
<1>9. \A p \in Publishers : Claiming(p)' =>
       /\ pub'[p].seq \notin entries'
       /\ \A d \in detached' : d[1] # pub'[p].seq
       /\ \A s \in Subscribers : sub'[s].acking # pub'[p].seq /\ sub'[s].permitted # pub'[p].seq
       /\ \A i \in 0 .. Capacity - 1 : slots'[i] # pub'[p].seq
  <2> SUFFICES ASSUME NEW p \in Publishers, Claiming(p)'
               PROVE  /\ pub'[p].seq \notin entries'
                      /\ \A d \in detached' : d[1] # pub'[p].seq
                      /\ \A s \in Subscribers :
                           sub'[s].acking # pub'[p].seq /\ sub'[s].permitted # pub'[p].seq
                      /\ \A i \in 0 .. Capacity - 1 : slots'[i] # pub'[p].seq
    OBVIOUS
  <2>1. Claiming(p) /\ pub'[p].seq = pub[p].seq
    BY <1>2
  <2> QED
    BY <1>6, <2>1
<1> QED
  BY <1>4, <1>5, <1>8, <1>9 DEF EntriesSound

\* They keep the members of a pending publish.
LEMMA MembershipKept ==
  ASSUME IInv, ClaimsKept, UNCHANGED registry, \A q \in Seqs : Settles(q),
         \A s \in Subscribers : /\ sub'[s].start = sub[s].start
                                /\ (sub'[s].status = "new" <=> sub[s].status = "new")
  PROVE  MembershipSound'
<1>1. MembershipSound /\ TrackerTyped
  BY TypeParts DEF IInv
<1>2. \A p \in Publishers : /\ (Claiming(p)' <=> Claiming(p))
                            /\ Claiming(p) => pub'[p] = pub[p]
  BY DEF ClaimsKept
<1> SUFFICES ASSUME NEW q \in Seqs,
                    Pending(q)' \/ (\E p \in Publishers : Claiming(p) /\ pub[p].seq = q),
                    NEW s \in Subscribers
             PROVE  /\ s \in entry'[q].members => sub'[s].status # "new" /\ sub'[s].start <= q
                    /\ s \in registry \ entry'[q].members => sub'[s].start > q
  <2>1. \A q \in Seqs : (\E p \in Publishers : Claiming(p)' /\ pub'[p].seq = q) =>
                         \E p \in Publishers : Claiming(p) /\ pub[p].seq = q
    BY <1>2
  <2> QED
    BY <2>1 DEF MembershipSound
<1>3. /\ Pending(q) \/ (\E p \in Publishers : Claiming(p) /\ pub[p].seq = q)
      /\ entry'[q].members = entry[q].members
  BY DEF Settles, Pending, Free
<1> QED
  BY <1>1, <1>3 DEF MembershipSound

\* They keep what holds of the answers when every subscriber's move is covered.
LEMMA AnswersKept ==
  ASSUME IInv, ClaimsKept, UNCHANGED registry, entries' \subseteq entries,
         \A q \in Seqs : Settles(q),
         \A s \in Subscribers :
           /\ sub[s].handed \subseteq sub'[s].handed
           /\ \A q \in Seqs : s \in entry'[q].acked \ entry[q].acked => q \in sub'[s].handed
           /\ s \notin registry /\ sub[s].pc = "scan" /\ sub'[s].pc # "scan" =>
                \A q \in entries' : ~Requires(entry'[q], s)
           /\ s \in registry => \A p \in Publishers : Claiming(p) =>
                \/ sub'[s].pc \in {"remove", "barrier"} /\ pub[p].seq < sub'[s].threshold
                \/ sub'[s].status = "live" /\ sub'[s].read_seq <= pub[p].seq
  PROVE  AnswersSound'
<1>1. AnswersSound /\ TrackerTyped /\ ThreadsTyped
  BY TypeParts DEF IInv
<1>2. \A p \in Publishers : /\ (Claiming(p)' <=> Claiming(p))
                            /\ Claiming(p) => pub'[p] = pub[p]
  BY DEF ClaimsKept
<1>3. \A s \in Subscribers : s \notin registry /\ sub'[s].pc # "scan" =>
       \A q \in entries' : ~Requires(entry'[q], s)
  <2> SUFFICES ASSUME NEW s \in Subscribers, s \notin registry, sub'[s].pc # "scan", sub[s].pc # "scan",
                      NEW q \in entries'
               PROVE  ~Requires(entry'[q], s)
    OBVIOUS
  <2>1. ~Requires(entry[q], s) /\ q \in Seqs
    BY <1>1 DEF AnswersSound, TrackerTyped
  <2> QED
    BY <2>1 DEF Settles, Requires, Pending
<1>4. \A q \in Seqs, s \in Subscribers : s \in entry'[q].acked => q \in sub'[s].handed
  BY <1>1 DEF AnswersSound, Settles
<1>5. registry \subseteq Subscribers
  BY <1>1 DEF ThreadsTyped
<1>6. ASSUME NEW p \in Publishers, Claiming(p)', NEW s \in registry
      PROVE  \/ sub'[s].pc \in {"remove", "barrier"} /\ pub'[p].seq < sub'[s].threshold
             \/ sub'[s].status = "live" /\ sub'[s].read_seq <= pub'[p].seq
  <2>1. Claiming(p) /\ pub'[p].seq = pub[p].seq /\ s \in Subscribers
    BY <1>2, <1>5, <1>6
  <2> QED
    BY <2>1
<1> QED
  BY <1>3, <1>4, <1>6 DEF AnswersSound

\* They leave nobody silent when what a subscriber is still required for stays
\* within its reach.
LEMMA NobodySilenced ==
  ASSUME IInv, entries' \subseteq entries, \A q \in Seqs : Settles(q),
         \A s \in Subscribers : \A q \in entries' :
           Requires(entry'[q], s) /\ Reachable(s, q) => Reachable(s, q)'
  PROVE  NoSilentMember'
<1>1. NoSilentMember /\ TrackerTyped
  BY TypeParts DEF IInv
<1> SUFFICES ASSUME NEW q \in entries', NEW s \in entry'[q].members \ entry'[q].acked, Pending(q)'
             PROVE  Reachable(s, q)'
  BY DEF NoSilentMember
<1>2. q \in Seqs /\ Pending(q) /\ entry[q] \in Entries
  BY <1>1 DEF TrackerTyped
<1>3. s \in entry[q].members \ entry[q].acked /\ Requires(entry'[q], s)
  BY <1>2 DEF Settles, Requires, Pending
<1>4. s \in Subscribers
  BY <1>2, <1>3 DEF Entries
<1> QED
  BY <1>1, <1>2, <1>3, <1>4 DEF NoSilentMember

-----------------------------------------------------------------------------
(* The steps of a subscriber that change nothing but its own record.       *)

\* Its claims on the publishes under way and its answers stay covered.
LEMMA SubscriberOnly ==
  ASSUME IInv, NEW s \in Subscribers,
         \A t \in Subscribers \ {s} : sub'[t] = sub[t], sub' \in [Subscribers -> SubscriberStates],
         UNCHANGED <<on_lag, ring, registry, lock, closed, tracker, pub, close_pc>>,
         faults' \in 0 .. MaxFaults, SubscriberSound(s)',
         sub'[s].start = sub[s].start, sub'[s].status # "new" /\ sub[s].status # "new",
         sub[s].handed \subseteq sub'[s].handed,
         \/ sub'[s].acking \in {0, sub[s].acking}
         \/ sub'[s].acking \in entries /\ sub'[s].acking \in sub[s].handed,
         \/ sub'[s].permitted \in {0, sub[s].permitted}
         \/ \E i \in 0 .. Capacity - 1 : sub'[s].permitted = slots[i],
         s \notin registry /\ sub[s].pc = "scan" => sub'[s].pc = "scan",
         s \in registry => \A p \in Publishers : Claiming(p) =>
                \/ sub'[s].pc \in {"remove", "barrier"} /\ pub[p].seq < sub'[s].threshold
                \/ sub'[s].status = "live" /\ sub'[s].read_seq <= pub[p].seq,
         \A q \in entries : Requires(entry[q], s) /\ Reachable(s, q) => Reachable(s, q)'
  PROVE  IInv'
<1>1. /\ SubscribersSound /\ AnswersSound
      /\ RingTyped /\ TrackerTyped /\ ThreadsTyped
  BY TypeParts DEF IInv
<1>2. /\ UNCHANGED <<on_lag, write_seq, slots, ring_closed, registry, lock, closed, entries, entry,
                     detached, pub, close_pc>>
      /\ \A q \in Seqs : Settles(q)
      /\ ClaimsKept
  BY DEF ring, tracker, Settles, ClaimsKept, Claiming
<1>3. TypeOK'
  <2>1. RingTyped' /\ ThreadsTyped'
    BY <1>1, <1>2 DEF RingTyped, ThreadsTyped
  <2>2. TrackerTyped'
    BY <1>1, <1>2 DEF TrackerTyped, Pending
  <2> QED
    BY <2>1, <2>2, TypeParts, PTL
<1>4. PublishersSound'
  BY <1>2, PublishersKept
<1>5. EntriesSound'
  BY <1>2, EntriesKept
<1>6. SubscribersSound'
  <2>1. \A t \in Subscribers \ {s} : SubscriberSound(t)'
    BY <1>1, <1>2 DEF SubscribersSound, SubscriberSound
  <2> QED
    BY <2>1 DEF SubscribersSound
<1>7. MembershipSound'
  BY <1>2, MembershipKept
<1>8. AnswersSound'
  <2>1. \A t \in Subscribers :
           t \in registry => \A p \in Publishers : Claiming(p) =>
                \/ sub'[t].pc \in {"remove", "barrier"} /\ pub[p].seq < sub'[t].threshold
                \/ sub'[t].status = "live" /\ sub'[t].read_seq <= pub[p].seq
    BY <1>1 DEF AnswersSound
  <2> QED
    BY <1>2, <2>1, AnswersKept
<1>9. NoSilentMember'
  <2>1. \A t \in Subscribers : \A q \in entries' :
          Requires(entry'[q], t) /\ Reachable(t, q) => Reachable(t, q)'
    BY <1>2 DEF Reachable
  <2> QED
    BY <1>2, <2>1, NobodySilenced
<1> QED
  BY <1>3, <1>4, <1>5, <1>6, <1>7, <1>8, <1>9 DEF IInv

\* A lagging cursor is moved to the oldest retained sequence: what it skipped is
\* below the threshold of the scan to come, the rest is still ahead.
LEMMA LaggedSound ==
  ASSUME IInv, NEW s \in Subscribers, sub[s].status = "live", s \in registry,
         sub[s].pc \in {"poll", "slot"}, sub[s].permitted = 0, Behind(s, write_seq), Lagged(s, write_seq),
         UNCHANGED <<on_lag, ring, registry, lock, closed, tracker, pub, close_pc, faults>>
  PROVE  IInv'
<1>0. /\ Capacity \in Nat /\ Capacity > 1 /\ MaxPublishes \in Nat
      /\ write_seq \in 0 .. MaxPublishes /\ faults \in 0 .. MaxFaults
      /\ entries \subseteq Seqs
      /\ sub \in [Subscribers -> SubscriberStates] /\ SubscriberSound(s)
      /\ \A p \in Publishers : Claiming(p) => pub[p].seq \in 1 .. write_seq
  BY TopicAssumption, TypeParts DEF IInv, RingTyped, ThreadsTyped, TrackerTyped, PublishersSound,
     Claiming, SubscribersSound
<1> DEFINE new == write_seq - Capacity + 1
           far == IF on_lag = "Disconnect" THEN MaxPublishes + 1 ELSE new
           next == IF on_lag = "Disconnect" THEN "remove" ELSE "barrier"
<1>1. new \in 1 .. write_seq /\ sub[s].read_seq < new
  BY <1>0 DEF Behind, SubscriberStates
<1>2. /\ sub' = [sub EXCEPT ![s] = [sub[s] EXCEPT !.read_seq = new, !.armed = FALSE, !.pc = next,
                                                !.threshold = far]]
  BY <1>0 DEF Lagged
<1>3. /\ sub'[s].read_seq = new /\ sub'[s].pc = next /\ sub'[s].threshold = far
      /\ sub'[s].status = "live" /\ sub'[s].permitted = 0 /\ sub'[s].acking = sub[s].acking
      /\ sub'[s].start = sub[s].start /\ sub'[s].handed = sub[s].handed
      /\ \A t \in Subscribers \ {s} : sub'[t] = sub[t]
  BY <1>0, <1>2 DEF SubscriberStates
<1>4. sub' \in [Subscribers -> SubscriberStates]
  <2>1. /\ new \in 0 .. MaxPublishes + 1 /\ far \in 0 .. MaxPublishes + 1
        /\ next \in {"poll", "slot", "barrier", "remove", "scan", "parked", "ended"}
    BY <1>0, <1>1
  <2> HIDE DEF new, far, next
  <2>2. sub[s] \in SubscriberStates
    BY <1>0
  <2>3. [sub[s] EXCEPT !.read_seq = new, !.armed = FALSE, !.pc = next, !.threshold = far]
           \in SubscriberStates
    BY ONLY <2>1, <2>2 DEF SubscriberStates
  <2> QED
    BY <1>0, <1>2, <2>3
<1>5. SubscriberSound(s)'
  BY <1>0, <1>1, <1>3 DEF SubscriberSound, ring
<1>6. \A q \in entries : Requires(entry[q], s) /\ Reachable(s, q) => Reachable(s, q)'
  <2> SUFFICES ASSUME NEW q \in entries, Reachable(s, q) PROVE Reachable(s, q)'
    OBVIOUS
  <2>1. q \in Nat /\ q < MaxPublishes + 1
    BY <1>0 DEF Seqs
  <2>2. q >= sub[s].read_seq \/ q \in sub[s].handed
    BY DEF Reachable
  <2>3. CASE on_lag = "Disconnect"
    BY <1>3, <2>1, <2>3 DEF Reachable
  <2>4. CASE on_lag # "Disconnect"
    BY <1>0, <1>1, <1>3, <2>1, <2>2, <2>4 DEF Reachable
  <2> QED
    BY <2>3, <2>4
<1>7. \A p \in Publishers : Claiming(p) =>
        \/ sub'[s].pc \in {"remove", "barrier"} /\ pub[p].seq < sub'[s].threshold
        \/ sub'[s].status = "live" /\ sub'[s].read_seq <= pub[p].seq
  BY <1>0, <1>1, <1>3
<1> QED
  BY <1>0, <1>3, <1>4, <1>5, <1>6, <1>7, SubscriberOnly

\* A poll that finds nothing, goes on to the slot or takes the message it holds
\* moves no cursor.
LEMMA PollSound ==
  ASSUME IInv, NEW s \in Subscribers, sub[s].status = "live", s \in registry,
         sub[s].pc \in {"poll", "slot"}, sub[s].permitted = 0,
         NEW c \in {"poll", "parked", "ended", "slot"}, NEW a \in BOOLEAN, NEW n \in 0 .. write_seq,
         c = "slot" => n = 0 /\ sub[s].read_seq <= write_seq,
         n # 0 => n = sub[s].read_seq /\ \E i \in 0 .. Capacity - 1 : n = slots[i],
         sub' = [sub EXCEPT ![s] = [sub[s] EXCEPT !.pc = c, !.armed = a, !.permitted = n]],
         UNCHANGED <<on_lag, ring, registry, lock, closed, tracker, pub, close_pc, faults>>
  PROVE  IInv'
<1>0. /\ MaxPublishes \in Nat /\ write_seq \in 0 .. MaxPublishes /\ faults \in 0 .. MaxFaults
      /\ sub \in [Subscribers -> SubscriberStates] /\ SubscriberSound(s) /\ AnswersSound
  BY TopicAssumption, TypeParts DEF IInv, RingTyped, ThreadsTyped, SubscribersSound
<1>1. /\ sub'[s].pc = c /\ sub'[s].permitted = n /\ sub'[s].read_seq = sub[s].read_seq
      /\ sub'[s].status = "live" /\ sub'[s].acking = sub[s].acking
      /\ sub'[s].start = sub[s].start /\ sub'[s].handed = sub[s].handed
      /\ \A t \in Subscribers \ {s} : sub'[t] = sub[t]
  BY <1>0 DEF SubscriberStates
<1>2. sub' \in [Subscribers -> SubscriberStates]
  <2>1. sub[s] \in SubscriberStates /\ n \in 0 .. MaxPublishes
    BY <1>0
  <2>2. [sub[s] EXCEPT !.pc = c, !.armed = a, !.permitted = n] \in SubscriberStates
    BY <2>1, ZenonT(40) DEF SubscriberStates
  <2> QED
    BY <1>0, <2>2
<1>3. SubscriberSound(s)'
  BY <1>0, <1>1 DEF SubscriberSound, ring
<1>4. \A q \in entries : Requires(entry[q], s) /\ Reachable(s, q) => Reachable(s, q)'
  BY <1>1 DEF Reachable
<1>5. \A p \in Publishers : Claiming(p) => sub'[s].status = "live" /\ sub'[s].read_seq <= pub[p].seq
  BY <1>0, <1>1 DEF AnswersSound
<1>6. sub'[s].permitted = 0 \/ \E i \in 0 .. Capacity - 1 : sub'[s].permitted = slots[i]
  BY <1>1
<1> QED
  BY <1>0, <1>1, <1>2, <1>3, <1>4, <1>5, <1>6, SubscriberOnly

\* The outcome of a poll that did not find its message.
LEMMA NotReadySound ==
  ASSUME IInv, NEW s \in Subscribers, sub[s].status = "live", s \in registry,
         sub[s].pc \in {"poll", "slot"}, sub[s].permitted = 0, NEW a \in BOOLEAN, NotReady(s, a),
         UNCHANGED <<on_lag, ring, registry, lock, closed, tracker, pub, close_pc, faults>>
  PROVE  IInv'
<1>0. /\ ring_closed \in BOOLEAN /\ 0 \in 0 .. write_seq
      /\ sub \in [Subscribers -> SubscriberStates]
  BY TopicAssumption, TypeParts DEF IInv, RingTyped, ThreadsTyped
<1> DEFINE c == CASE ~a -> "poll" [] a /\ ring_closed -> "ended" [] OTHER -> "parked"
           b == a /\ ~ring_closed
<1>1. sub' = [sub EXCEPT ![s] = [sub[s] EXCEPT !.pc = c, !.armed = b, !.permitted = 0]]
  <2>1. sub' = [sub EXCEPT ![s] = [sub[s] EXCEPT !.armed = b, !.pc = c]]
    BY <1>0 DEF NotReady
  <2>2. [sub[s] EXCEPT !.armed = b, !.pc = c] = [sub[s] EXCEPT !.pc = c, !.armed = b, !.permitted = 0]
    <3> HIDE DEF b, c
    <3>1. sub[s] \in SubscriberStates
      BY <1>0
    <3> QED
      BY <3>1 DEF SubscriberStates
  <2> QED
    BY <2>1, <2>2
<1>2. c \in {"poll", "parked", "ended", "slot"} /\ c # "slot"
  OBVIOUS
<1>3. b \in BOOLEAN
  BY <1>0
<1> HIDE DEF c, b
<1> QED
  BY <1>0, <1>1, <1>2, <1>3, PollSound

\* LoadWriteSeq preserves the invariant.
LEMMA LoadWriteSeqSound ==
  ASSUME IInv, NEW s \in Subscribers, LoadWriteSeq(s)
  PROVE  IInv'
<1>0. /\ sub \in [Subscribers -> SubscriberStates] /\ write_seq \in 0 .. MaxPublishes
      /\ MaxPublishes \in Nat /\ SubscriberSound(s)
  BY TopicAssumption, TypeParts DEF IInv, RingTyped, ThreadsTyped, SubscribersSound
<1>1. /\ sub[s].status = "live" /\ sub[s].permitted = 0 /\ sub[s].pc = "poll" /\ s \in registry
      /\ UNCHANGED <<on_lag, ring, registry, lock, closed, tracker, pub, close_pc, faults>>
  BY <1>0 DEF LoadWriteSeq, SubscriberSound, ring
<1>2. CASE sub[s].read_seq > write_seq
  <2>0. ~Behind(s, write_seq)
    BY <1>0, <1>2, TopicAssumption DEF Behind, SubscriberStates
  <2>1. NotReady(s, TRUE)
    BY <1>2, <2>0 DEF LoadWriteSeq
  <2> QED
    BY <1>1, <2>1, TRUE \in BOOLEAN, NotReadySound
<1>3. CASE ~(sub[s].read_seq > write_seq) /\ Behind(s, write_seq)
  <2>1. Lagged(s, write_seq)
    BY <1>3 DEF LoadWriteSeq
  <2> QED
    BY <1>1, <1>3, <2>1, LaggedSound
<1>4. CASE ~(sub[s].read_seq > write_seq) /\ ~Behind(s, write_seq)
  <2>1. sub' = [sub EXCEPT ![s] = [sub[s] EXCEPT !.pc = "slot", !.armed = TRUE, !.permitted = 0]]
    <3>1. sub' = [sub EXCEPT ![s] = [sub[s] EXCEPT !.pc = "slot", !.armed = TRUE]]
      BY <1>0, <1>4 DEF LoadWriteSeq
    <3>2. sub[s] \in SubscriberStates
      BY <1>0
    <3>3. [sub[s] EXCEPT !.pc = "slot", !.armed = TRUE]
            = [sub[s] EXCEPT !.pc = "slot", !.armed = TRUE, !.permitted = 0]
      BY <1>1, <3>2 DEF SubscriberStates
    <3> QED
      BY <3>1, <3>3
  <2>2. sub[s].read_seq <= write_seq /\ 0 \in 0 .. write_seq
    BY <1>0, <1>4 DEF SubscriberStates
  <2> QED
    BY <1>1, <2>1, <2>2, PollSound
<1> QED
  BY <1>2, <1>3, <1>4

\* ReadSlot preserves the invariant.
LEMMA ReadSlotSound ==
  ASSUME IInv, NEW s \in Subscribers, ReadSlot(s)
  PROVE  IInv'
<1>0. /\ sub \in [Subscribers -> SubscriberStates] /\ write_seq \in 0 .. MaxPublishes
      /\ MaxPublishes \in Nat /\ SubscriberSound(s) /\ slots \in [0 .. Capacity - 1 -> 0 .. write_seq]
  BY TopicAssumption, TypeParts DEF IInv, RingTyped, ThreadsTyped, SubscribersSound
<1> DEFINE q == sub[s].read_seq
           held == slots[SlotOf(q)]
<1>1. /\ sub[s].status = "live" /\ sub[s].permitted = 0 /\ sub[s].pc = "slot" /\ s \in registry
      /\ UNCHANGED <<on_lag, ring, registry, lock, closed, tracker, pub, close_pc, faults>>
      /\ q \in 1 .. write_seq /\ q \in Nat \ {0}
  BY <1>0 DEF ReadSlot, SubscriberSound, ring, SubscriberStates
<1>2. CASE held = q
  <2>0. ~(held > q)
    BY <1>1, <1>2
  <2>1. sub' = [sub EXCEPT ![s] = [sub[s] EXCEPT !.pc = "poll", !.armed = FALSE, !.permitted = q]]
    <3>1. sub' = [sub EXCEPT ![s] = [sub[s] EXCEPT !.permitted = q, !.pc = "poll", !.armed = FALSE]]
      BY <1>0, <1>2, <2>0 DEF ReadSlot
    <3>2. sub[s] \in SubscriberStates
      BY <1>0
    <3>3. [sub[s] EXCEPT !.permitted = q, !.pc = "poll", !.armed = FALSE]
            = [sub[s] EXCEPT !.pc = "poll", !.armed = FALSE, !.permitted = q]
      BY <3>2 DEF SubscriberStates
    <3> QED
      BY <3>1, <3>3
  <2>2. \E i \in 0 .. Capacity - 1 : q = slots[i]
    BY <1>1, <1>2, SlotInRing
  <2>3. q \in 0 .. write_seq
    BY <1>0, <1>1
  <2> QED
    BY <1>1, <2>1, <2>2, <2>3, PollSound
<1>3. CASE held # q /\ held > q /\ Behind(s, write_seq)
  <2>1. Lagged(s, write_seq)
    BY <1>3 DEF ReadSlot
  <2> QED
    BY <1>1, <1>3, <2>1, LaggedSound
<1>4. CASE held # q /\ ~(held > q /\ Behind(s, write_seq))
  <2>1. NotReady(s, sub[s].armed) /\ sub[s].armed \in BOOLEAN
    BY <1>0, <1>4 DEF ReadSlot, SubscriberStates
  <2> QED
    BY <1>1, <2>1, NotReadySound
<1> QED
  BY <1>2, <1>3, <1>4

\* LagBarrier preserves the invariant: nobody is inserting when the scan begins.
LEMMA LagBarrierSound ==
  ASSUME IInv, NEW s \in Subscribers, LagBarrier(s)
  PROVE  IInv'
<1>0. /\ sub \in [Subscribers -> SubscriberStates] /\ faults \in 0 .. MaxFaults
      /\ SubscriberSound(s)
      /\ \A p \in Publishers : ~Claiming(p)
  BY TopicAssumption, TypeParts DEF IInv, RingTyped, ThreadsTyped, SubscribersSound, PublishersSound,
     LagBarrier, BarrierFree
<1>1. /\ sub[s].pc = "barrier" /\ s \in registry /\ sub[s].status = "live"
      /\ sub' = [sub EXCEPT ![s] = [sub[s] EXCEPT !.pc = "scan"]]
      /\ UNCHANGED <<on_lag, ring, registry, lock, closed, tracker, pub, close_pc, faults>>
  BY <1>0 DEF LagBarrier, SubscriberSound
<1>2. /\ sub'[s].pc = "scan" /\ sub'[s].permitted = sub[s].permitted
      /\ sub'[s].read_seq = sub[s].read_seq /\ sub'[s].threshold = sub[s].threshold
      /\ sub'[s].status = "live" /\ sub'[s].acking = sub[s].acking
      /\ sub'[s].start = sub[s].start /\ sub'[s].handed = sub[s].handed
      /\ \A t \in Subscribers \ {s} : sub'[t] = sub[t]
  BY <1>0, <1>1 DEF SubscriberStates
<1>3. sub' \in [Subscribers -> SubscriberStates]
  <2>1. sub[s] \in SubscriberStates
    BY <1>0
  <2>2. [sub[s] EXCEPT !.pc = "scan"] \in SubscriberStates
    BY <2>1, Zenon DEF SubscriberStates
  <2> QED
    BY <1>0, <1>1, <2>2
<1>4. SubscriberSound(s)'
  BY <1>0, <1>1, <1>2 DEF SubscriberSound, ring
<1>5. \A q \in entries : Requires(entry[q], s) /\ Reachable(s, q) => Reachable(s, q)'
  BY <1>1, <1>2 DEF Reachable
<1> QED
  BY <1>0, <1>1, <1>2, <1>3, <1>4, <1>5, SubscriberOnly

\* A subscriber that is between calls and holds a delivery is in the registry.
LEMMA DeliveryHeld ==
  ASSUME IInv, NEW s \in Subscribers, Between(s), sub[s].permitted # 0
  PROVE  /\ sub[s].status = "live" /\ sub[s].pc \in {"poll", "parked", "ended"}
         /\ sub[s].permitted = sub[s].read_seq /\ sub[s].permitted \in 1 .. write_seq
         /\ Finished(s) \in SubscriberStates
         /\ \A p \in Publishers : Claiming(p) /\ s \in registry => sub[s].permitted < pub[p].seq
<1>0. /\ sub \in [Subscribers -> SubscriberStates] /\ SubscriberSound(s) /\ EntriesSound /\ AnswersSound
      /\ write_seq \in 0 .. MaxPublishes /\ MaxPublishes \in Nat /\ PublishersSound
  BY TypeParts, TopicAssumption DEF IInv, RingTyped, ThreadsTyped, SubscribersSound
<1>1. /\ sub[s].status = "live" /\ sub[s].pc \in {"poll", "parked", "ended"}
      /\ sub[s].permitted = sub[s].read_seq /\ sub[s].permitted \in 1 .. write_seq
  BY <1>0 DEF Between, SubscriberSound, SubscriberStates
<1>2. Finished(s) \in SubscriberStates
  <2>1. sub[s] \in SubscriberStates /\ sub[s].permitted + 1 \in 0 .. MaxPublishes + 1
    BY <1>0, <1>1
  <2>2. 0 \in 0 .. MaxPublishes
    BY <1>0
  <2> DEFINE n == sub[s].permitted + 1
  <2> HIDE DEF n
  <2>3. [sub[s] EXCEPT !.read_seq = n, !.permitted = 0] \in SubscriberStates
    BY <2>1, <2>2 DEF SubscriberStates, n
  <2> QED
    BY <2>3 DEF Finished, n
<1>3. ASSUME NEW p \in Publishers, Claiming(p), s \in registry PROVE sub[s].permitted < pub[p].seq
  <2>1. pub[p].seq \in 1 .. write_seq /\ sub[s].permitted # pub[p].seq
    BY <1>0, <1>3 DEF PublishersSound, Claiming, EntriesSound
  <2>2. sub[s].read_seq <= pub[p].seq
    BY <1>0, <1>1, <1>3 DEF AnswersSound
  <2> QED
    BY <1>0, <1>1, <2>1, <2>2
<1> QED
  BY <1>1, <1>2, <1>3

\* CommitDelivery preserves the invariant: a pending message is in the
\* subscriber's hands before the cursor passes it.
LEMMA CommitDeliverySound ==
  ASSUME IInv, NEW s \in Subscribers, CommitDelivery(s)
  PROVE  IInv'
<1>0. /\ sub \in [Subscribers -> SubscriberStates] /\ faults \in 0 .. MaxFaults
      /\ SubscriberSound(s) /\ write_seq \in 0 .. MaxPublishes /\ MaxPublishes \in Nat
      /\ \A q \in entries : q \in Seqs /\ Pending(q)
      /\ \A p \in Publishers : Claiming(p) => pub[p].seq \in 1 .. write_seq
  BY TypeParts, TopicAssumption DEF IInv, RingTyped, ThreadsTyped, TrackerTyped, SubscribersSound,
     PublishersSound, Claiming
<1>1. /\ Between(s) /\ sub[s].permitted # 0
      /\ UNCHANGED <<on_lag, ring, registry, lock, closed, tracker, pub, close_pc, faults>>
  BY DEF CommitDelivery
<1>2. /\ sub[s].status = "live" /\ sub[s].pc \in {"poll", "parked", "ended"}
      /\ sub[s].permitted = sub[s].read_seq /\ sub[s].permitted \in 1 .. write_seq
      /\ Finished(s) \in SubscriberStates
      /\ \A p \in Publishers : Claiming(p) /\ s \in registry => sub[s].permitted < pub[p].seq
  BY <1>1, DeliveryHeld
<1> DEFINE h == sub[s].handed \cup ({sub[s].permitted} \cap {q \in Seqs : Pending(q)})
<1>3. sub' = [sub EXCEPT ![s] = [Finished(s) EXCEPT !.handed = h]]
  BY <1>0 DEF CommitDelivery, Finished, SubscriberStates
<1>4. h \subseteq Seqs
  BY <1>0 DEF SubscriberStates
<1>5. /\ sub'[s].read_seq = sub[s].permitted + 1 /\ sub'[s].permitted = 0 /\ sub'[s].handed = h
      /\ sub'[s].status = "live" /\ sub'[s].pc = sub[s].pc /\ sub'[s].start = sub[s].start
      /\ sub'[s].acking = sub[s].acking
      /\ \A t \in Subscribers \ {s} : sub'[t] = sub[t]
  <2> HIDE DEF h
  <2> QED
    BY <1>0, <1>2, <1>3 DEF SubscriberStates, Finished
<1>6. sub' \in [Subscribers -> SubscriberStates]
  <2> HIDE DEF h
  <2>1. [Finished(s) EXCEPT !.handed = h] \in SubscriberStates
    BY <1>2, <1>4 DEF SubscriberStates
  <2> QED
    BY <1>0, <1>3, <2>1
<1>7. SubscriberSound(s)'
  BY <1>0, <1>1, <1>2, <1>5 DEF SubscriberSound, ring
<1>8. \A q \in entries : Requires(entry[q], s) /\ Reachable(s, q) => Reachable(s, q)'
  <2> SUFFICES ASSUME NEW q \in entries, Reachable(s, q) PROVE Reachable(s, q)'
    OBVIOUS
  <2>1. q \in Nat /\ q \in Seqs /\ Pending(q)
    BY <1>0 DEF Seqs
  <2>2. q > sub[s].read_seq \/ q = sub[s].read_seq \/ q \in sub[s].handed
    BY <1>2, <2>1 DEF Reachable
  <2>3. q = sub[s].read_seq \/ q \in sub[s].handed => q \in h
    BY <1>2, <2>1
  <2>4. q > sub[s].read_seq => q >= sub'[s].read_seq
    BY <1>2, <1>5, <2>1
  <2> QED
    BY <1>5, <2>2, <2>3, <2>4 DEF Reachable
<1>9. s \in registry => \A p \in Publishers : Claiming(p) =>
        sub'[s].status = "live" /\ sub'[s].read_seq <= pub[p].seq
  BY <1>0, <1>2, <1>5
<1> HIDE DEF h
<1>10. sub[s].handed \subseteq sub'[s].handed
  BY <1>5 DEF h
<1> QED
  BY <1>0, <1>1, <1>2, <1>5, <1>6, <1>7, <1>8, <1>9, <1>10, SubscriberOnly

\* Ack preserves the invariant.
LEMMA AckSound ==
  ASSUME IInv, NEW s \in Subscribers, NEW q \in Seqs, Ack(s, q)
  PROVE  IInv'
<1>0. /\ sub \in [Subscribers -> SubscriberStates] /\ faults \in 0 .. MaxFaults
      /\ SubscriberSound(s) /\ AnswersSound
      /\ q \in 0 .. MaxPublishes
  BY TypeParts, TopicAssumption DEF IInv, RingTyped, ThreadsTyped, SubscribersSound, Seqs
<1>1. /\ sub[s].status = "live" /\ sub[s].pc \in {"poll", "parked", "ended"}
      /\ q \in entries /\ q \in sub[s].handed
      /\ sub' = [sub EXCEPT ![s] = [sub[s] EXCEPT !.acking = q]]
      /\ UNCHANGED <<on_lag, ring, registry, lock, closed, tracker, pub, close_pc, faults>>
  BY <1>0 DEF Ack, Between, Owed
<1>2. /\ sub'[s].pc = sub[s].pc /\ sub'[s].permitted = sub[s].permitted
      /\ sub'[s].read_seq = sub[s].read_seq /\ sub'[s].threshold = sub[s].threshold
      /\ sub'[s].status = "live" /\ sub'[s].acking = q
      /\ sub'[s].start = sub[s].start /\ sub'[s].handed = sub[s].handed
      /\ \A t \in Subscribers \ {s} : sub'[t] = sub[t]
  BY <1>0, <1>1 DEF SubscriberStates
<1>3. sub' \in [Subscribers -> SubscriberStates]
  BY <1>0, <1>1 DEF SubscriberStates
<1>4. SubscriberSound(s)'
  BY <1>0, <1>1, <1>2 DEF SubscriberSound, ring
<1>5. \A p \in entries : Requires(entry[p], s) /\ Reachable(s, p) => Reachable(s, p)'
  BY <1>1, <1>2 DEF Reachable
<1>6. s \in registry => \A p \in Publishers : Claiming(p) =>
        sub'[s].status = "live" /\ sub'[s].read_seq <= pub[p].seq
  BY <1>0, <1>1, <1>2 DEF AnswersSound
<1> QED
  BY <1>0, <1>1, <1>2, <1>3, <1>4, <1>5, <1>6, SubscriberOnly

\* Drop preserves the invariant: a subscriber in the registry is going to nack
\* all it owes, one that has left it owes nothing.
LEMMA DropSound ==
  ASSUME IInv, NEW s \in Subscribers, Drop(s)
  PROVE  IInv'
<1>0. /\ sub \in [Subscribers -> SubscriberStates] /\ faults \in 0 .. MaxFaults /\ MaxFaults \in Nat
      /\ MaxPublishes \in Nat /\ write_seq \in 0 .. MaxPublishes
      /\ SubscriberSound(s) /\ AnswersSound
      /\ \A q \in entries : q \in Seqs
      /\ \A p \in Publishers : Claiming(p) => pub[p].seq \in 1 .. write_seq
  BY TypeParts, TopicAssumption DEF IInv, RingTyped, ThreadsTyped, TrackerTyped, SubscribersSound,
     PublishersSound, Claiming
<1>1. /\ sub[s].status = "live" /\ sub[s].pc \in {"poll", "parked", "ended"}
      /\ UNCHANGED <<on_lag, ring, registry, lock, closed, tracker, pub, close_pc>>
      /\ faults' \in 0 .. MaxFaults
  BY <1>0 DEF Drop, Between
<1>2. CASE s \in registry
  <2>1. sub' = [sub EXCEPT ![s] = [sub[s] EXCEPT !.status = "dropping", !.pc = "remove",
                                                 !.threshold = MaxPublishes + 1]]
    BY <1>0, <1>2 DEF Drop
  <2>2. /\ sub'[s].pc = "remove" /\ sub'[s].permitted = sub[s].permitted
        /\ sub'[s].read_seq = sub[s].read_seq /\ sub'[s].threshold = MaxPublishes + 1
        /\ sub'[s].status = "dropping" /\ sub'[s].acking = sub[s].acking
        /\ sub'[s].start = sub[s].start /\ sub'[s].handed = sub[s].handed
        /\ \A t \in Subscribers \ {s} : sub'[t] = sub[t]
    BY <1>0, <2>1 DEF SubscriberStates
  <2>3. sub' \in [Subscribers -> SubscriberStates]
    <3>1. MaxPublishes + 1 \in 0 .. MaxPublishes + 1
      BY <1>0
    <3>2. sub[s] \in SubscriberStates
      BY <1>0
    <3>3. [sub[s] EXCEPT !.status = "dropping", !.pc = "remove", !.threshold = MaxPublishes + 1]
            \in SubscriberStates
      BY ONLY <3>1, <3>2 DEF SubscriberStates
    <3> QED
      BY <1>0, <2>1, <3>3
  <2>4. SubscriberSound(s)'
    BY <1>0, <1>1, <1>2, <2>2 DEF SubscriberSound, ring
  <2>5. \A q \in entries : Reachable(s, q)'
    BY <1>0, <2>2 DEF Reachable, Seqs
  <2>6. \A p \in Publishers : Claiming(p) =>
          sub'[s].pc \in {"remove", "barrier"} /\ pub[p].seq < sub'[s].threshold
    BY <1>0, <2>2
  <2> QED
    BY <1>1, <1>2, <2>2, <2>3, <2>4, <2>5, <2>6, SubscriberOnly
<1>3. CASE s \notin registry
  <2>1. sub' = [sub EXCEPT ![s] = [sub[s] EXCEPT !.status = "gone"]]
    BY <1>0, <1>3 DEF Drop
  <2>2. /\ sub'[s].pc = sub[s].pc /\ sub'[s].permitted = sub[s].permitted
        /\ sub'[s].read_seq = sub[s].read_seq /\ sub'[s].threshold = sub[s].threshold
        /\ sub'[s].status = "gone" /\ sub'[s].acking = sub[s].acking
        /\ sub'[s].start = sub[s].start /\ sub'[s].handed = sub[s].handed
        /\ \A t \in Subscribers \ {s} : sub'[t] = sub[t]
    BY <1>0, <2>1 DEF SubscriberStates
  <2>3. sub' \in [Subscribers -> SubscriberStates]
    BY <1>0, <2>1 DEF SubscriberStates
  <2>4. SubscriberSound(s)'
    BY <1>0, <1>1, <1>3, <2>2 DEF SubscriberSound, ring
  <2>5. \A q \in entries : ~Requires(entry[q], s)
    BY <1>0, <1>1, <1>3 DEF AnswersSound
  <2> QED
    BY <1>1, <1>3, <2>2, <2>3, <2>4, <2>5, SubscriberOnly
<1> QED
  BY <1>2, <1>3

-----------------------------------------------------------------------------
(* The steps that settle entries.                                          *)

\* What a subscriber may do in such a step.
Moves(s) ==
  /\ sub'[s].start = sub[s].start /\ (sub'[s].status = "new" <=> sub[s].status = "new")
  /\ sub[s].handed \subseteq sub'[s].handed
  /\ sub'[s].acking \in {0, sub[s].acking} /\ sub'[s].permitted \in {0, sub[s].permitted}
  /\ \A q \in Seqs : s \in entry'[q].acked \ entry[q].acked => q \in sub'[s].handed
  /\ s \notin registry /\ sub[s].pc = "scan" /\ sub'[s].pc # "scan" =>
       \A q \in entries' : ~Requires(entry'[q], s)
  /\ s \in registry => \A p \in Publishers : Claiming(p) =>
       \/ sub'[s].pc \in {"remove", "barrier"} /\ pub[p].seq < sub'[s].threshold
       \/ sub'[s].status = "live" /\ sub'[s].read_seq <= pub[p].seq
  /\ \A q \in entries' : Requires(entry'[q], s) /\ Reachable(s, q) => Reachable(s, q)'

\* A subscriber that does nothing, when no ack of its own is recorded.
LEMMA StillMoves ==
  ASSUME IInv, NEW s \in Subscribers, sub'[s] = sub[s],
         \A q \in Seqs : s \notin entry'[q].acked \ entry[q].acked
  PROVE  Moves(s)
<1>1. s \in registry => \A p \in Publishers : Claiming(p) =>
       \/ sub[s].pc \in {"remove", "barrier"} /\ pub[p].seq < sub[s].threshold
       \/ sub[s].status = "live" /\ sub[s].read_seq <= pub[p].seq
  BY DEF IInv, AnswersSound
<1>2. \A q \in entries' : Reachable(s, q) => Reachable(s, q)'
  BY DEF Reachable
<1> QED
  BY <1>1, <1>2 DEF Moves

\* Entries are settled, and every subscriber moves as it may, while no publisher takes
\* the lock or gives it up.
LEMMA SettleAround ==
  ASSUME IInv, ClaimsKept, UNCHANGED <<write_seq, registry, lock>>, RingTyped',
         pub' \in [Publishers -> PublisherStates], PublishersSound',
         \A i \in 0 .. Capacity - 1 : slots'[i] = slots[i] \/ Free(slots'[i]),
         sub' \in [Subscribers -> SubscriberStates], SubscribersSound', \A s \in Subscribers : Moves(s),
         entry' \in [Seqs -> Entries], entries' \subseteq entries, \A q \in Seqs : Settles(q),
         \A d \in detached' :
            \/ d \in detached
            \/ /\ d = <<d[1], d[2]>> /\ d[1] \in entries /\ d[1] \notin entries'
               /\ d[2] \in {"Nack", "TimedOut"}
  PROVE  IInv'
<1>1. TrackerTyped /\ ThreadsTyped
  BY TypeParts DEF IInv
<1>2. TypeOK'
  <2>1. ThreadsTyped'
    BY <1>1 DEF ThreadsTyped
  <2>2. \A q \in entries' : q \in Seqs /\ Pending(q)'
    BY <1>1 DEF TrackerTyped, Settles, Pending
  <2>3. \A d \in detached' : /\ d = <<d[1], d[2]>> /\ d[1] \in Seqs
                             /\ entry[d[1]].outcome # "None" /\ d[2] \in {"Nack", "TimedOut"}
    BY <1>1 DEF TrackerTyped, Pending
  <2>4. \A d \in detached' : entry'[d[1]].outcome # "None"
    BY <2>3 DEF Settles, Pending
  <2>5. TrackerTyped'
    BY <2>2, <2>3, <2>4 DEF TrackerTyped
  <2> QED
    BY <2>1, <2>5, TypeParts, PTL
<1>4. EntriesSound'
  BY EntriesKept DEF Moves
<1>5. MembershipSound'
  BY MembershipKept DEF Moves
<1>6. AnswersSound'
  BY AnswersKept DEF Moves
<1>7. NoSilentMember'
  BY NobodySilenced DEF Moves
<1> QED
  BY <1>2, <1>4, <1>5, <1>6, <1>7 DEF IInv

\* The same of a step that is no publisher's.
LEMMA SettleStep ==
  ASSUME IInv, UNCHANGED <<write_seq, slots, registry, lock, pub>>, RingTyped',
         sub' \in [Subscribers -> SubscriberStates], SubscribersSound', \A s \in Subscribers : Moves(s),
         entry' \in [Seqs -> Entries], entries' \subseteq entries, \A q \in Seqs : Settles(q),
         \A d \in detached' :
            \/ d \in detached
            \/ /\ d = <<d[1], d[2]>> /\ d[1] \in entries /\ d[1] \notin entries'
               /\ d[2] \in {"Nack", "TimedOut"}
  PROVE  IInv'
<1>1. PublishersSound' /\ ClaimsKept
  BY PublishersKept DEF ClaimsKept, Claiming
<1>2. pub' \in [Publishers -> PublisherStates]
  BY TypeParts DEF IInv, ThreadsTyped
<1> QED
  BY <1>1, <1>2, SettleAround

\* Nacking entries of the map under its lock settles them.
LEMMA NackSettles ==
  ASSUME IInv, NEW Q \in SUBSET entries, NackEntries(Q)
  PROVE  /\ entry' \in [Seqs -> Entries] /\ entries' \subseteq entries /\ entries' = entries \ Q
         /\ \A q \in Seqs : Settles(q)
         /\ \A q \in Seqs : entry'[q].acked \subseteq entry[q].acked
<1>1. TrackerTyped
  BY TypeParts DEF IInv
<1>2. \A q \in Seqs : entry'[q] = IF q \in Q THEN Resolved("Nack") ELSE entry[q]
  BY <1>1 DEF NackEntries, EntryResolve, TrackerTyped, Pending
<1>3. entries' = entries \ Q
  BY DEF NackEntries
<1>4. Resolved("Nack") \in Entries
  BY DEF Resolved, Entries
<1>5. entry' \in [Seqs -> Entries]
  <2>1. entry' = [q \in Seqs |-> entry'[q]]
    BY DEF NackEntries
  <2>2. \A q \in Seqs : entry'[q] \in Entries
    BY <1>1, <1>2, <1>4 DEF TrackerTyped
  <2> QED
    BY <2>1, <2>2
<1>6. \A q \in Seqs : Settles(q)
  <2> SUFFICES ASSUME NEW q \in Seqs, q \in Q PROVE Settles(q)
    BY <1>2 DEF Settles
  <2>1. Pending(q) /\ Free(q)
    BY <1>1, KnownIsFree DEF TrackerTyped
  <2> QED
    BY <1>2, <1>3, <2>1 DEF Settles, Resolved
<1>7. \A q \in Seqs : entry'[q].acked \subseteq entry[q].acked
  BY <1>2 DEF Resolved
<1> QED
  BY <1>3, <1>5, <1>6, <1>7

\* Nack preserves the invariant.
LEMMA NackSound ==
  ASSUME IInv, NEW s \in Subscribers, NEW q \in Seqs, Nack(s, q)
  PROVE  IInv'
<1>1. /\ NackEntries({q}) /\ {q} \in SUBSET entries
      /\ UNCHANGED <<on_lag, write_seq, slots, ring_closed, registry, lock, closed, detached, pub, sub,
                     close_pc, faults>>
  BY DEF Nack, Owed, ring
<1>2. /\ RingTyped /\ SubscribersSound /\ sub \in [Subscribers -> SubscriberStates]
  BY TypeParts DEF IInv, ThreadsTyped
<1>3. RingTyped' /\ SubscribersSound'
  BY <1>1, <1>2 DEF RingTyped, SubscribersSound, SubscriberSound
<1>4. /\ entry' \in [Seqs -> Entries] /\ entries' \subseteq entries
      /\ \A r \in Seqs : Settles(r) /\ entry'[r].acked \subseteq entry[r].acked
  BY <1>1, NackSettles
<1>5. \A t \in Subscribers : Moves(t)
  BY <1>1, <1>4, StillMoves
<1> QED
  BY <1>1, <1>2, <1>3, <1>4, <1>5, SettleStep

\* NackScan preserves the invariant: it resolves all that the subscriber owes
\* below its threshold, and one that has left the registry then owes nothing.
LEMMA NackScanSound ==
  ASSUME IInv, NEW s \in Subscribers, NackScan(s)
  PROVE  IInv'
<1> DEFINE Q == Owed(s, 1 .. sub[s].threshold - 1)
<1>1. /\ NackEntries(Q) /\ Q \in SUBSET entries /\ sub[s].pc = "scan"
      /\ UNCHANGED <<on_lag, write_seq, slots, ring_closed, registry, lock, closed, detached, pub,
                     close_pc, faults>>
  BY DEF NackScan, Owed, ring
<1>2. /\ RingTyped /\ SubscribersSound /\ sub \in [Subscribers -> SubscriberStates]
      /\ SubscriberSound(s) /\ AnswersSound /\ TrackerTyped /\ MaxPublishes \in Nat
      /\ write_seq \in 0 .. MaxPublishes
  BY TypeParts, TopicAssumption DEF IInv, ThreadsTyped, SubscribersSound, RingTyped
<1>3. RingTyped'
  BY <1>1, <1>2 DEF RingTyped
<1>4. /\ entry' \in [Seqs -> Entries] /\ entries' \subseteq entries /\ entries' = entries \ Q
      /\ \A r \in Seqs : Settles(r) /\ entry'[r].acked \subseteq entry[r].acked
  BY <1>1, NackSettles
<1>5. \A q \in entries' : q \in Nat /\ q \in Seqs /\ entry'[q] = entry[q]
  BY <1>1, <1>2, <1>4 DEF NackEntries, TrackerTyped, Seqs
<1>6. \A q \in entries' : q < sub[s].threshold => ~Requires(entry'[q], s)
  <2> SUFFICES ASSUME NEW q \in entries', q < sub[s].threshold PROVE ~Requires(entry[q], s)
    BY <1>5
  <2>1. q \in 1 .. sub[s].threshold - 1
    BY <1>2, <1>5 DEF SubscriberStates, Seqs
  <2> QED
    BY <1>4, <2>1 DEF Owed
<1> DEFINE c == IF s \in registry THEN "poll" ELSE "ended"
           u == IF sub[s].status = "dropping" THEN "gone" ELSE sub[s].status
<1>7. sub' = [sub EXCEPT ![s] = [sub[s] EXCEPT !.pc = c, !.status = u, !.threshold = 0]]
  BY <1>2 DEF NackScan, SubscriberStates
<1>8. /\ sub'[s].pc = c /\ sub'[s].status = u /\ sub'[s].permitted = sub[s].permitted
      /\ sub'[s].read_seq = sub[s].read_seq /\ sub'[s].acking = sub[s].acking
      /\ sub'[s].start = sub[s].start /\ sub'[s].handed = sub[s].handed
      /\ \A t \in Subscribers \ {s} : sub'[t] = sub[t]
  <2> HIDE DEF c, u
  <2> QED
    BY <1>2, <1>7 DEF SubscriberStates
<1>9. sub' \in [Subscribers -> SubscriberStates]
  <2>1. c \in {"poll", "ended"} /\ u \in {"new", "live", "dropping", "gone"} /\ 0 \in 0 .. MaxPublishes + 1
    BY <1>2 DEF SubscriberStates
  <2>2. sub[s] \in SubscriberStates
    BY <1>2
  <2> HIDE DEF c, u
  <2>3. [sub[s] EXCEPT !.pc = c, !.status = u, !.threshold = 0] \in SubscriberStates
    BY <2>1, <2>2 DEF SubscriberStates
  <2> QED
    BY <1>2, <1>7, <2>3
<1>10. SubscribersSound'
  <2>1. SubscriberSound(s)'
    BY <1>1, <1>2, <1>8 DEF SubscriberSound, NotSubscribed
  <2>2. \A t \in Subscribers \ {s} : SubscriberSound(t)'
    BY <1>1, <1>2, <1>8 DEF SubscribersSound, SubscriberSound
  <2> QED
    BY <2>1, <2>2 DEF SubscribersSound
<1>11. Moves(s)
  <2>1. sub[s].status # "new" /\ sub'[s].status # "new"
    BY <1>1, <1>2, <1>8 DEF SubscriberSound, NotSubscribed
  <2>2. s \notin registry => \A q \in entries' : ~Requires(entry'[q], s)
    BY <1>1, <1>2, <1>5, <1>6 DEF SubscriberSound, Seqs
  <2>3. ASSUME s \in registry, NEW p \in Publishers, Claiming(p)
        PROVE  sub'[s].status = "live" /\ sub'[s].read_seq <= pub[p].seq
    BY <1>1, <1>2, <1>8, <2>3 DEF AnswersSound, SubscriberSound
  <2>4. ASSUME NEW q \in entries', Requires(entry'[q], s), Reachable(s, q) PROVE Reachable(s, q)'
    BY <1>2, <1>5, <1>6, <1>8, <2>4 DEF Reachable
  <2> QED
    BY <1>4, <1>8, <2>1, <2>2, <2>3, <2>4 DEF Moves
<1>12. \A t \in Subscribers : Moves(t)
  BY <1>4, <1>8, <1>11, StillMoves
<1> HIDE DEF Q, c, u
<1> QED
  BY <1>1, <1>3, <1>4, <1>9, <1>10, <1>12, SettleStep

\* AbandonDelivery preserves the invariant: it answers for the message that the
\* cursor passes.
LEMMA AbandonDeliverySound ==
  ASSUME IInv, NEW s \in Subscribers, AbandonDelivery(s)
  PROVE  IInv'
<1> DEFINE Q == Owed(s, {sub[s].permitted})
<1>1. /\ NackEntries(Q) /\ Q \in SUBSET entries /\ Between(s) /\ sub[s].permitted # 0
      /\ UNCHANGED <<on_lag, write_seq, slots, ring_closed, registry, lock, closed, detached, pub,
                     close_pc, faults>>
      /\ sub' = [sub EXCEPT ![s] = Finished(s)]
  BY DEF AbandonDelivery, Owed, ring
<1>2. /\ RingTyped /\ SubscribersSound /\ sub \in [Subscribers -> SubscriberStates]
      /\ SubscriberSound(s) /\ TrackerTyped /\ MaxPublishes \in Nat
      /\ write_seq \in 0 .. MaxPublishes
      /\ \A p \in Publishers : Claiming(p) => pub[p].seq \in 1 .. write_seq
  BY TypeParts, TopicAssumption DEF IInv, ThreadsTyped, SubscribersSound, RingTyped, PublishersSound,
     Claiming
<1>3. RingTyped'
  BY <1>1, <1>2 DEF RingTyped
<1>4. /\ entry' \in [Seqs -> Entries] /\ entries' \subseteq entries /\ entries' = entries \ Q
      /\ \A r \in Seqs : Settles(r) /\ entry'[r].acked \subseteq entry[r].acked
  BY <1>1, NackSettles
<1>5. \A q \in entries' : q \in Nat /\ q \in Seqs /\ entry'[q] = entry[q]
  BY <1>1, <1>2, <1>4 DEF NackEntries, TrackerTyped, Seqs
<1>6. \A q \in entries' : Requires(entry'[q], s) => q # sub[s].permitted
  BY <1>4, <1>5 DEF Owed
<1>7. /\ sub[s].status = "live" /\ sub[s].pc \in {"poll", "parked", "ended"}
      /\ sub[s].permitted = sub[s].read_seq /\ sub[s].permitted \in 1 .. write_seq
      /\ Finished(s) \in SubscriberStates
      /\ \A p \in Publishers : Claiming(p) /\ s \in registry => sub[s].permitted < pub[p].seq
  BY <1>1, DeliveryHeld
<1>8. /\ sub'[s].read_seq = sub[s].permitted + 1 /\ sub'[s].permitted = 0
      /\ sub'[s].handed = sub[s].handed
      /\ sub'[s].status = "live" /\ sub'[s].pc = sub[s].pc /\ sub'[s].start = sub[s].start
      /\ sub'[s].acking = sub[s].acking
      /\ \A t \in Subscribers \ {s} : sub'[t] = sub[t]
  BY <1>1, <1>2, <1>7 DEF SubscriberStates, Finished
<1>9. sub' \in [Subscribers -> SubscriberStates]
  BY <1>1, <1>2, <1>7
<1>10. SubscribersSound'
  <2>1. SubscriberSound(s)'
    BY <1>1, <1>2, <1>7, <1>8 DEF SubscriberSound
  <2>2. \A t \in Subscribers \ {s} : SubscriberSound(t)'
    BY <1>1, <1>2, <1>8 DEF SubscribersSound, SubscriberSound
  <2> QED
    BY <2>1, <2>2 DEF SubscribersSound
<1>11. Moves(s)
  <2>1. ASSUME s \in registry, NEW p \in Publishers, Claiming(p)
        PROVE  sub'[s].status = "live" /\ sub'[s].read_seq <= pub[p].seq
    BY <1>2, <1>7, <1>8, <2>1
  <2>2. ASSUME NEW q \in entries', Requires(entry'[q], s), Reachable(s, q) PROVE Reachable(s, q)'
    BY <1>2, <1>5, <1>6, <1>7, <1>8, <2>2 DEF Reachable
  <2> QED
    BY <1>4, <1>7, <1>8, <2>1, <2>2 DEF Moves
<1>12. \A t \in Subscribers : Moves(t)
  BY <1>4, <1>8, <1>11, StillMoves
<1> HIDE DEF Q
<1> QED
  BY <1>1, <1>3, <1>4, <1>9, <1>10, <1>12, SettleStep

\* ApplyAck preserves the invariant: the ack is counted for a message that had
\* been handed over, and the last one resolves the entry and takes it out.
LEMMA ApplyAckSound ==
  ASSUME IInv, NEW s \in Subscribers, ApplyAck(s)
  PROVE  IInv'
<1>0. PICK q \in Seqs : q = sub[s].acking /\ q \in sub[s].handed
  BY DEF ApplyAck, IInv, EntriesSound, Tracked
<1> DEFINE e == EntryAck(entry[q], s)
<1>1. /\ q # 0 /\ entry' = [entry EXCEPT ![q] = e] /\ entries' = AfterAck(q, e)
      /\ sub' = [sub EXCEPT ![s].acking = 0]
      /\ UNCHANGED <<on_lag, write_seq, slots, ring_closed, registry, lock, closed, detached, pub,
                     close_pc, faults>>
  BY <1>0 DEF ApplyAck, ring
<1>2. /\ RingTyped /\ SubscribersSound /\ sub \in [Subscribers -> SubscriberStates]
      /\ SubscriberSound(s) /\ TrackerTyped /\ AnswersSound /\ 0 \in 0 .. MaxPublishes
  BY TypeParts, TopicAssumption DEF IInv, ThreadsTyped, SubscribersSound, RingTyped
<1>3. RingTyped'
  BY <1>1, <1>2 DEF RingTyped
<1>4. entry[q] \in Entries
  BY <1>2 DEF TrackerTyped
<1>5. Free(q)
  BY <1>0, KnownIsFree
<1>6. \/ e = entry[q]
      \/ Pending(q) /\ e = Resolved("Ack")
      \/ Pending(q) /\ e = [entry[q] EXCEPT !.acked = entry[q].acked \cup {s}]
  BY <1>4 DEF EntryAck, Requires, Pending, Entries
<1>7. e \in Entries
  <2>1. Resolved("Ack") \in Entries
    BY DEF Resolved, Entries
  <2>2. [entry[q] EXCEPT !.acked = entry[q].acked \cup {s}] \in Entries
    BY <1>4 DEF Entries
  <2> QED
    BY <1>4, <1>6, <2>1, <2>2
<1>8. entry' \in [Seqs -> Entries] /\ entry'[q] = e /\ \A r \in Seqs \ {q} : entry'[r] = entry[r]
  <2> HIDE DEF e
  <2> QED
    BY <1>1, <1>2, <1>4, <1>7 DEF TrackerTyped
<1>9. entries' \subseteq entries /\ (Pending(q) /\ e = Resolved("Ack") => q \notin entries')
  <2> HIDE DEF e
  <2> QED
    BY <1>1 DEF AfterAck, Resolved
<1>10. \A r \in Seqs : Settles(r)
  <2>1. Settles(q)
    <3> HIDE DEF e
    <3>1. CASE e = entry[q]
      BY <1>8, <3>1 DEF Settles
    <3>2. CASE Pending(q) /\ e = Resolved("Ack")
      BY <1>5, <1>8, <1>9, <3>2 DEF Settles, Resolved
    <3>3. CASE Pending(q) /\ e = [entry[q] EXCEPT !.acked = entry[q].acked \cup {s}]
      BY <1>4, <1>5, <1>8, <3>3 DEF Settles, Pending, Entries
    <3> QED
      BY <1>6, <3>1, <3>2, <3>3
  <2> QED
    BY <1>8, <2>1 DEF Settles
<1>11. \A r \in Seqs, t \in Subscribers : t \in entry'[r].acked \ entry[r].acked => r = q /\ t = s
  <2>1. \A t \in e.acked \ entry[q].acked : t = s
    <3> HIDE DEF e
    <3> QED
      BY <1>4, <1>6 DEF Resolved, Entries
  <2> QED
    BY <1>8, <2>1
<1>12. /\ sub'[s].acking = 0 /\ sub'[s].read_seq = sub[s].read_seq /\ sub'[s].permitted = sub[s].permitted
       /\ sub'[s].handed = sub[s].handed /\ sub'[s].threshold = sub[s].threshold
       /\ sub'[s].status = sub[s].status /\ sub'[s].pc = sub[s].pc /\ sub'[s].start = sub[s].start
       /\ \A t \in Subscribers \ {s} : sub'[t] = sub[t]
  BY <1>1, <1>2 DEF SubscriberStates
<1>13. sub' \in [Subscribers -> SubscriberStates]
  BY <1>1, <1>2 DEF SubscriberStates
<1>14. SubscribersSound'
  <2>1. SubscriberSound(s)'
    BY <1>0, <1>1, <1>2, <1>12 DEF SubscriberSound, NotSubscribed
  <2>2. \A t \in Subscribers \ {s} : SubscriberSound(t)'
    BY <1>1, <1>2, <1>12 DEF SubscribersSound, SubscriberSound
  <2> QED
    BY <2>1, <2>2 DEF SubscribersSound
<1>15. Moves(s)
  <2>1. ASSUME s \in registry, NEW p \in Publishers, Claiming(p)
        PROVE  \/ sub'[s].pc \in {"remove", "barrier"} /\ pub[p].seq < sub'[s].threshold
               \/ sub'[s].status = "live" /\ sub'[s].read_seq <= pub[p].seq
    BY <1>2, <1>12, <2>1 DEF AnswersSound
  <2>2. ASSUME NEW r \in entries', Reachable(s, r) PROVE Reachable(s, r)'
    BY <1>12, <2>2 DEF Reachable
  <2> QED
    BY <1>0, <1>11, <1>12, <2>1, <2>2 DEF Moves
<1>16. \A t \in Subscribers : Moves(t)
  BY <1>11, <1>12, <1>15, StillMoves
<1> HIDE DEF e
<1> QED
  BY <1>1, <1>3, <1>8, <1>9, <1>10, <1>13, <1>14, <1>16, SettleStep

\* Expire preserves the invariant.
LEMMA ExpireSound ==
  ASSUME IInv, NEW q \in Seqs, Expire(q)
  PROVE  IInv'
<1>1. /\ entries' = entries \ {q} /\ detached' = detached \cup {<<r, "TimedOut">> : r \in {q} \cap entries}
      /\ faults < MaxFaults /\ faults' = faults + 1 /\ q \in entries
      /\ UNCHANGED <<on_lag, write_seq, slots, ring_closed, registry, lock, closed, entry, pub, sub, close_pc>>
  BY DEF Expire, Detach, ring
<1>2. /\ RingTyped /\ SubscribersSound /\ sub \in [Subscribers -> SubscriberStates] /\ TrackerTyped
      /\ MaxFaults \in Nat
  BY TypeParts, TopicAssumption DEF IInv, ThreadsTyped
<1>3. RingTyped' /\ SubscribersSound'
  BY <1>1, <1>2 DEF RingTyped, SubscribersSound, SubscriberSound
<1>4. /\ entry' \in [Seqs -> Entries] /\ \A r \in Seqs : Settles(r)
  BY <1>1, <1>2 DEF TrackerTyped, Settles
<1>5. \A t \in Subscribers : Moves(t)
  BY <1>1, StillMoves
<1>6. \A d \in detached' :
            \/ d \in detached
            \/ /\ d = <<d[1], d[2]>> /\ d[1] \in entries /\ d[1] \notin entries'
               /\ d[2] \in {"Nack", "TimedOut"}
  BY <1>1
<1> QED
  BY <1>1, <1>2, <1>3, <1>4, <1>5, <1>6, SettleStep

\* ResolveDetached preserves the invariant.
LEMMA ResolveDetachedSound ==
  ASSUME IInv, NEW q \in Seqs, NEW o \in {"Nack", "TimedOut"}, ResolveDetached(q, o)
  PROVE  IInv'
<1> DEFINE e == EntryResolve(entry[q], o)
<1>1. /\ <<q, o>> \in detached /\ detached' \subseteq detached /\ entry' = [entry EXCEPT ![q] = e]
      /\ UNCHANGED <<on_lag, write_seq, slots, ring_closed, registry, lock, closed, entries, pub, sub,
                     close_pc, faults>>
  BY DEF ResolveDetached, ring
<1>2. /\ RingTyped /\ SubscribersSound /\ sub \in [Subscribers -> SubscriberStates] /\ TrackerTyped
      /\ entry[q] \in Entries
  BY TypeParts DEF IInv, ThreadsTyped, TrackerTyped
<1>3. RingTyped' /\ SubscribersSound'
  BY <1>1, <1>2 DEF RingTyped, SubscribersSound, SubscriberSound
<1>4. /\ q \notin entries /\ \E d \in detached : d[1] = q
  <2>1. <<q, o>>[1] = q
    OBVIOUS
  <2> QED
    BY <1>1, <2>1 DEF IInv, EntriesSound
<1>5. Free(q)
  BY <1>4, KnownIsFree
<1>6. e = entry[q] \/ (Pending(q) /\ e = Resolved(o))
  BY DEF EntryResolve, Pending
<1>7. Resolved(o) \in Entries
  BY DEF Resolved, Entries
<1>8. entry' \in [Seqs -> Entries] /\ entry'[q] = e /\ \A r \in Seqs \ {q} : entry'[r] = entry[r]
  <2>1. e \in Entries
    BY <1>2, <1>6, <1>7
  <2> HIDE DEF e
  <2> QED
    BY <1>1, <1>2, <2>1 DEF TrackerTyped
<1>9. \A r \in Seqs : Settles(r) /\ entry'[r].acked \subseteq entry[r].acked
  BY <1>1, <1>4, <1>5, <1>6, <1>8 DEF Settles, Resolved
<1>10. \A t \in Subscribers : Moves(t)
  BY <1>1, <1>9, StillMoves
<1> HIDE DEF e
<1> QED
  BY <1>1, <1>2, <1>3, <1>8, <1>9, <1>10, SettleStep

\* wake_all touches wakers and parked tasks only.
LEMMA WakeKeeps ==
  ASSUME sub \in [Subscribers -> SubscriberStates], WakeAll
  PROVE  /\ sub' \in [Subscribers -> SubscriberStates]
         /\ \A s \in Subscribers :
              /\ sub'[s].status = sub[s].status /\ sub'[s].start = sub[s].start
              /\ sub'[s].read_seq = sub[s].read_seq /\ sub'[s].permitted = sub[s].permitted
              /\ sub'[s].threshold = sub[s].threshold /\ sub'[s].handed = sub[s].handed
              /\ sub'[s].acking = sub[s].acking
              /\ sub'[s].pc = sub[s].pc \/ (sub[s].pc = "parked" /\ sub'[s].pc = "poll")
              /\ sub[s] = NotSubscribed => sub'[s] = sub[s]
<1>1. ASSUME NEW s \in Subscribers
      PROVE  /\ sub'[s] \in SubscriberStates
             /\ sub'[s].status = sub[s].status /\ sub'[s].start = sub[s].start
             /\ sub'[s].read_seq = sub[s].read_seq /\ sub'[s].permitted = sub[s].permitted
             /\ sub'[s].threshold = sub[s].threshold /\ sub'[s].handed = sub[s].handed
             /\ sub'[s].acking = sub[s].acking
             /\ sub'[s].pc = sub[s].pc \/ (sub[s].pc = "parked" /\ sub'[s].pc = "poll")
             /\ sub[s] = NotSubscribed => sub'[s] = sub[s]
  <2>1. sub[s] \in SubscriberStates
    OBVIOUS
  <2>2. CASE ~sub[s].armed
    BY <2>1, <2>2 DEF WakeAll
  <2>3. CASE sub[s].armed
    <3> DEFINE c == IF sub[s].pc = "parked" THEN "poll" ELSE sub[s].pc
    <3>1. sub'[s] = [sub[s] EXCEPT !.armed = FALSE, !.pc = c]
      BY <2>1, <2>3 DEF WakeAll, SubscriberStates
    <3>2. c \in {"poll", "slot", "barrier", "remove", "scan", "parked", "ended"}
      BY <2>1 DEF SubscriberStates
    <3>3. c = sub[s].pc \/ (sub[s].pc = "parked" /\ c = "poll")
      OBVIOUS
    <3>4. sub[s] # NotSubscribed
      BY <2>3 DEF NotSubscribed
    <3> HIDE DEF c
    <3> QED
      BY <2>1, <3>1, <3>2, <3>3, <3>4 DEF SubscriberStates
  <2> QED
    BY <2>2, <2>3
<1>2. sub' = [s \in Subscribers |-> sub'[s]]
  BY DEF WakeAll
<1> QED
  BY <1>1, <1>2

\* Nor does it disturb what holds of the subscribers.
LEMMA WakeSound ==
  ASSUME sub \in [Subscribers -> SubscriberStates], WakeAll, SubscribersSound,
         UNCHANGED <<registry, write_seq>>
  PROVE  SubscribersSound'
<1>1. ASSUME NEW s \in Subscribers PROVE SubscriberSound(s)'
  <2>1. SubscriberSound(s)
    BY DEF SubscribersSound
  <2> QED
    BY <2>1, WakeKeeps DEF SubscriberSound
<1> QED
  BY <1>1 DEF SubscribersSound

\* CloseAll preserves the invariant: it leaves nobody required.
LEMMA CloseAllSound ==
  ASSUME IInv, CloseAll
  PROVE  IInv'
<1>1. /\ entries' = {} /\ WakeAll /\ ring_closed' = TRUE /\ close_pc' = "closed"
      /\ UNCHANGED <<on_lag, write_seq, slots, registry, lock, closed, detached, pub, faults>>
  BY DEF CloseAll
<1>2. /\ RingTyped /\ SubscribersSound /\ sub \in [Subscribers -> SubscriberStates] /\ TrackerTyped
      /\ AnswersSound
  BY TypeParts DEF IInv, ThreadsTyped
<1>3. RingTyped'
  BY <1>1, <1>2 DEF RingTyped
<1>4. \A q \in Seqs : entry'[q] = IF q \in entries THEN Resolved("TopicClosed") ELSE entry[q]
  BY <1>2 DEF CloseAll, EntryResolve, TrackerTyped, Pending
<1>5. entry' \in [Seqs -> Entries]
  <2>1. entry' = [q \in Seqs |-> entry'[q]]
    BY DEF CloseAll
  <2>2. Resolved("TopicClosed") \in Entries
    BY DEF Resolved, Entries
  <2>3. \A q \in Seqs : entry'[q] \in Entries
    BY <1>2, <1>4, <2>2 DEF TrackerTyped
  <2> QED
    BY <2>1, <2>3
<1>6. \A q \in Seqs : Settles(q) /\ entry'[q].acked \subseteq entry[q].acked
  <2> SUFFICES ASSUME NEW q \in Seqs, q \in entries PROVE Settles(q) /\ entry'[q].acked = {}
    BY <1>4 DEF Settles
  <2>1. Pending(q) /\ Free(q)
    BY <1>2, KnownIsFree DEF TrackerTyped
  <2> QED
    BY <1>1, <1>4, <2>1 DEF Settles, Resolved
<1>7. sub' \in [Subscribers -> SubscriberStates] /\ SubscribersSound'
  BY <1>1, <1>2, WakeKeeps, WakeSound
<1>8. ASSUME NEW s \in Subscribers PROVE Moves(s)
  <2>1. /\ sub'[s].status = sub[s].status /\ sub'[s].start = sub[s].start
        /\ sub'[s].read_seq = sub[s].read_seq /\ sub'[s].permitted = sub[s].permitted
        /\ sub'[s].threshold = sub[s].threshold /\ sub'[s].handed = sub[s].handed
        /\ sub'[s].acking = sub[s].acking
        /\ sub'[s].pc = sub[s].pc \/ (sub[s].pc = "parked" /\ sub'[s].pc = "poll")
    BY <1>1, <1>2, WakeKeeps
  <2>2. ASSUME s \in registry, NEW p \in Publishers, Claiming(p)
        PROVE  \/ sub'[s].pc \in {"remove", "barrier"} /\ pub[p].seq < sub'[s].threshold
               \/ sub'[s].status = "live" /\ sub'[s].read_seq <= pub[p].seq
    BY <1>2, <2>1, <2>2 DEF AnswersSound
  <2> QED
    BY <1>1, <1>6, <2>1, <2>2 DEF Moves
<1> QED
  BY <1>1, <1>3, <1>5, <1>6, <1>7, <1>8, SettleStep

\* Close preserves the invariant.
LEMMA CloseSound ==
  ASSUME IInv, Close
  PROVE  IInv'
<1>1. /\ faults < MaxFaults /\ faults' = faults + 1 /\ closed' = TRUE /\ close_pc' = "draining"
      /\ UNCHANGED <<on_lag, write_seq, slots, ring_closed, registry, lock, entries, entry, detached, pub,
                     sub>>
  BY DEF Close, ring, tracker
<1>2. /\ RingTyped /\ SubscribersSound /\ sub \in [Subscribers -> SubscriberStates] /\ TrackerTyped
      /\ MaxFaults \in Nat
  BY TypeParts, TopicAssumption DEF IInv, ThreadsTyped
<1>3. RingTyped' /\ SubscribersSound'
  BY <1>1, <1>2 DEF RingTyped, SubscribersSound, SubscriberSound
<1>4. \A q \in Seqs : Settles(q)
  BY <1>1 DEF Settles
<1>5. \A t \in Subscribers : Moves(t)
  BY <1>1, StillMoves
<1> QED
  BY <1>1, <1>2, <1>3, <1>4, <1>5, SettleStep DEF TrackerTyped

-----------------------------------------------------------------------------
(* The steps of a publisher that does not hold the lock.                   *)

\* Such a publisher moves on within its own record.
LEMMA PublisherMoves ==
  ASSUME IInv, NEW p \in Publishers, ~Claiming(p), NEW r \in PublisherStates,
         pub' = [pub EXCEPT ![p] = r], r.pc \in {"idle", "overtaken"},
         r.pc = "overtaken" => r.seq = pub[p].seq /\ pub[p].pc # "idle" /\ p \in Trackers,
         UNCHANGED <<write_seq, lock, registry, entry>>
  PROVE  ClaimsKept /\ PublishersSound' /\ pub' \in [Publishers -> PublisherStates]
<1>1. pub \in [Publishers -> PublisherStates] /\ PublishersSound
  BY TypeParts DEF IInv, ThreadsTyped
<1>2. pub'[p] = r /\ \A o \in Publishers \ {p} : pub'[o] = pub[o]
  BY <1>1
<1>3. ClaimsKept
  BY <1>2 DEF ClaimsKept, Claiming
<1>4. PublishersSound'
  <2>1. ~Claiming(p)' /\ (r.pc # "idle" => r.seq = pub[p].seq /\ pub[p].pc # "idle" /\ p \in Trackers)
    BY <1>2 DEF Claiming
  <2>2. \A o \in Publishers :
          /\ pub'[o].pc # "idle" => pub'[o].seq = pub[o].seq /\ pub[o].pc # "idle"
          /\ (Claiming(o)' <=> Claiming(o)) /\ (Claiming(o) => pub'[o] = pub[o])
          /\ pub'[o].pc = "overtaken" => o \in Trackers
    BY <1>1, <1>2, <1>3, <2>1 DEF PublishersSound, ClaimsKept
  <2>3. /\ \A o \in Publishers :
             /\ pub'[o].pc # "idle" => pub'[o].seq \in 1 .. write_seq
             /\ (Claiming(o)' <=> lock = o)
             /\ Claiming(o)' \/ pub'[o].pc = "overtaken" => o \in Trackers
        /\ \A o, t \in Publishers :
             pub'[o].pc # "idle" /\ pub'[t].pc # "idle" /\ o # t => pub'[o].seq # pub'[t].seq
    BY <1>1, <2>2 DEF PublishersSound
  <2>4. \A o \in Publishers :
          /\ pub'[o].pc = "register" => entry[pub'[o].seq] = [NoEntry EXCEPT !.members = registry]
          /\ pub'[o].pc = "insert" =>
               entry[pub'[o].seq] = [members |-> registry, acked |-> {}, outcome |-> "Pending"]
    BY <1>1, <2>2 DEF PublishersSound, Claiming
  <2> QED
    BY <2>3, <2>4 DEF PublishersSound
<1> QED
  BY <1>1, <1>3, <1>4

\* CommitSlot preserves the invariant.
LEMMA CommitSlotSound ==
  ASSUME IInv, NEW p \in Publishers, CommitSlot(p)
  PROVE  IInv'
<1> DEFINE q == pub[p].seq
           r == IF p \in Trackers /\ ~CanCommit(q) THEN [pub[p] EXCEPT !.pc = "overtaken"]
                                                  ELSE [pc |-> "idle", seq |-> 0]
<1>1. /\ pub[p].pc = "commit" /\ WakeAll /\ pub' = [pub EXCEPT ![p] = r]
      /\ slots' = IF CanCommit(q) THEN [slots EXCEPT ![SlotOf(q)] = q] ELSE slots
      /\ UNCHANGED <<on_lag, write_seq, ring_closed, registry, lock, closed, entries, entry, detached,
                     close_pc, faults>>
  BY DEF CommitSlot, tracker
<1>2. /\ RingTyped /\ TrackerTyped /\ SubscribersSound /\ PublishersSound /\ AnswersSound
      /\ sub \in [Subscribers -> SubscriberStates] /\ pub \in [Publishers -> PublisherStates]
      /\ 0 \in 0 .. MaxPublishes
  BY TypeParts, TopicAssumption DEF IInv, ThreadsTyped
<1>3. q \in 1 .. write_seq /\ q \in Nat \ {0} /\ ~Claiming(p)
  BY <1>1, <1>2 DEF PublishersSound, RingTyped, Claiming
<1>4. SlotOf(q) \in 0 .. Capacity - 1
  BY <1>3, SlotInRing
<1>5. RingTyped'
  <2>1. slots' \in [0 .. Capacity - 1 -> 0 .. write_seq]
    BY <1>1, <1>2, <1>3, <1>4 DEF RingTyped
  <2> QED
    BY <1>1, <1>2, <2>1 DEF RingTyped
<1>6. Free(q)
  BY <1>1, <1>2 DEF Free, PublishersSound, Claiming
<1>7. \A i \in 0 .. Capacity - 1 : slots'[i] = slots[i] \/ Free(slots'[i])
  BY <1>1, <1>2, <1>4, <1>6 DEF RingTyped
<1>8. /\ r \in PublisherStates /\ r.pc \in {"idle", "overtaken"}
      /\ r.pc = "overtaken" => r.seq = pub[p].seq /\ pub[p].pc # "idle" /\ p \in Trackers
  BY <1>1, <1>2 DEF PublisherStates
<1>9. ClaimsKept /\ PublishersSound' /\ pub' \in [Publishers -> PublisherStates]
  <2> HIDE DEF r
  <2> QED
    BY <1>1, <1>3, <1>8, PublisherMoves
<1>10. sub' \in [Subscribers -> SubscriberStates] /\ SubscribersSound'
  BY <1>1, <1>2, WakeKeeps, WakeSound
<1>11. \A t \in Seqs : Settles(t)
  BY <1>1 DEF Settles
<1>12. ASSUME NEW s \in Subscribers PROVE Moves(s)
  <2>1. /\ sub'[s].status = sub[s].status /\ sub'[s].start = sub[s].start
        /\ sub'[s].read_seq = sub[s].read_seq /\ sub'[s].permitted = sub[s].permitted
        /\ sub'[s].threshold = sub[s].threshold /\ sub'[s].handed = sub[s].handed
        /\ sub'[s].acking = sub[s].acking
        /\ sub'[s].pc = sub[s].pc \/ (sub[s].pc = "parked" /\ sub'[s].pc = "poll")
    BY <1>1, <1>2, WakeKeeps
  <2>2. ASSUME s \in registry, NEW o \in Publishers, Claiming(o)
        PROVE  \/ sub'[s].pc \in {"remove", "barrier"} /\ pub[o].seq < sub'[s].threshold
               \/ sub'[s].status = "live" /\ sub'[s].read_seq <= pub[o].seq
    BY <1>2, <2>1, <2>2 DEF AnswersSound
  <2>3. ASSUME NEW t \in entries', Reachable(s, t) PROVE Reachable(s, t)'
    BY <2>1, <2>3 DEF Reachable
  <2> QED
    BY <1>1, <2>1, <2>2, <2>3 DEF Moves
<1> HIDE DEF q, r
<1> QED
  BY <1>1, <1>2, <1>5, <1>7, <1>9, <1>10, <1>11, <1>12, SettleAround DEF TrackerTyped

\* ResolveOvertaken preserves the invariant.
LEMMA ResolveOvertakenSound ==
  ASSUME IInv, NEW p \in Publishers, ResolveOvertaken(p)
  PROVE  IInv'
<1> DEFINE q == pub[p].seq
           r == [pc |-> "idle", seq |-> 0]
<1>1. /\ pub[p].pc = "overtaken" /\ pub' = [pub EXCEPT ![p] = r]
      /\ entries' = entries \ {q} /\ detached' = detached \cup {<<t, "Nack">> : t \in {q} \cap entries}
      /\ UNCHANGED <<on_lag, write_seq, slots, ring_closed, registry, lock, closed, entry, sub,
                     close_pc, faults>>
  BY DEF ResolveOvertaken, ring, Detach
<1>2. /\ RingTyped /\ TrackerTyped /\ SubscribersSound
      /\ sub \in [Subscribers -> SubscriberStates] /\ 0 \in 0 .. MaxPublishes
  BY TypeParts, TopicAssumption DEF IInv, ThreadsTyped
<1>3. RingTyped' /\ SubscribersSound'
  BY <1>1, <1>2 DEF RingTyped, SubscribersSound, SubscriberSound
<1>4. /\ r \in PublisherStates /\ r.pc = "idle" /\ ~Claiming(p)
  BY <1>1, <1>2 DEF PublisherStates, Claiming
<1>5. ClaimsKept /\ PublishersSound' /\ pub' \in [Publishers -> PublisherStates]
  <2> HIDE DEF r
  <2> QED
    BY <1>1, <1>4, PublisherMoves
<1>6. \A t \in Seqs : Settles(t)
  BY <1>1 DEF Settles
<1>7. \A s \in Subscribers : Moves(s)
  BY <1>1, StillMoves
<1>8. \A d \in detached' :
            \/ d \in detached
            \/ /\ d = <<d[1], d[2]>> /\ d[1] \in entries /\ d[1] \notin entries'
               /\ d[2] \in {"Nack", "TimedOut"}
  BY <1>1
<1> HIDE DEF q, r
<1> QED
  BY <1>1, <1>2, <1>3, <1>5, <1>6, <1>7, <1>8, SettleAround DEF TrackerTyped

-----------------------------------------------------------------------------
(* Reserving a sequence, and the steps of the publisher that holds the     *)
(* registry lock.                                                          *)

\* Nothing in the topic knows a sequence that has not been reserved.
LEMMA UnreservedUnknown ==
  ASSUME IInv, NEW q \in Seqs, q > write_seq
  PROVE  /\ q \notin entries /\ entry[q] = NoEntry /\ q \notin Tracked
         /\ \A d \in detached : d[1] # q
         /\ \A s \in Subscribers : sub[s].acking # q /\ sub[s].permitted # q
         /\ \A i \in 0 .. Capacity - 1 : slots[i] # q
<1>1. EntriesSound /\ TrackerTyped /\ RingTyped /\ SubscribersSound /\ MaxPublishes \in Nat
  BY TypeParts, TopicAssumption DEF IInv
<1>2. entry[q] = NoEntry /\ q \notin Tracked
  BY <1>1 DEF EntriesSound, Tracked, NoEntry
<1>3. q \notin entries /\ \A d \in detached : d[1] # q
  BY <1>1, <1>2 DEF TrackerTyped, Pending, NoEntry
<1>4. \A s \in Subscribers : sub[s].acking # q /\ sub[s].permitted # q
  <2> SUFFICES ASSUME NEW s \in Subscribers PROVE sub[s].acking # q /\ sub[s].permitted # q
    OBVIOUS
  <2>1. SubscriberSound(s) /\ q # 0
    BY <1>1 DEF SubscribersSound, Seqs
  <2>2. sub[s].acking # q
    BY <1>1, <1>2, <2>1 DEF EntriesSound
  <2>3. sub[s].permitted # q
    BY <1>1, <2>1 DEF SubscriberSound, RingTyped, Seqs
  <2> QED
    BY <2>2, <2>3
<1>5. \A i \in 0 .. Capacity - 1 : slots[i] # q
  BY <1>1 DEF RingTyped, Seqs
<1> QED
  BY <1>2, <1>3, <1>4, <1>5

\* ReserveSeq preserves the invariant: under the lock the snapshot is the
\* registry, and every member's cursor is at or before the new sequence.
LEMMA ReserveSeqSound ==
  ASSUME IInv, NEW p \in Publishers, ReserveSeq(p)
  PROVE  IInv'
<1>1. PICK n \in Seqs : n = write_seq + 1
  BY TypeParts, TopicAssumption DEF IInv, RingTyped, ReserveSeq, Seqs
<1> DEFINE e == [NoEntry EXCEPT !.members = registry]
           tracking == p \in Trackers
<1>2. /\ pub[p].pc = "idle" /\ write_seq' = n
      /\ pub' = [pub EXCEPT ![p] = [pc |-> IF tracking THEN "register" ELSE "commit", seq |-> n]]
      /\ tracking => lock = Nobody
      /\ lock' = IF tracking THEN p ELSE lock
      /\ UNCHANGED <<on_lag, slots, ring_closed, registry, closed, entries, detached, sub, close_pc, faults>>
  BY <1>1 DEF ReserveSeq
<1>3. /\ RingTyped /\ TrackerTyped /\ ThreadsTyped /\ PublishersSound /\ EntriesSound
      /\ SubscribersSound /\ MembershipSound /\ AnswersSound /\ NoSilentMember
      /\ MaxPublishes \in Nat /\ Nobody \notin Publishers /\ Trackers \subseteq Publishers
      /\ write_seq \in 0 .. MaxPublishes /\ registry \subseteq Subscribers
  BY TypeParts, TopicAssumption DEF IInv, RingTyped, ThreadsTyped
<1>4. n > write_seq /\ n \in 1 .. MaxPublishes /\ n \in 1 .. n
  BY <1>1, <1>3 DEF Seqs
<1>5. /\ n \notin entries /\ entry[n] = NoEntry /\ n \notin Tracked
      /\ \A d \in detached : d[1] # n
      /\ \A s \in Subscribers : sub[s].acking # n /\ sub[s].permitted # n
      /\ \A i \in 0 .. Capacity - 1 : slots[i] # n
  BY <1>4, UnreservedUnknown
<1>6. /\ \A q \in Seqs \ {n} : entry'[q] = entry[q]
      /\ entry'[n] = IF tracking THEN e ELSE NoEntry
      /\ entry' \in [Seqs -> Entries]
  <2>1. e = [entry[n] EXCEPT !.members = registry] /\ e \in Entries /\ NoEntry \in Entries
    BY <1>3, <1>5 DEF Entries, NoEntry
  <2>2. CASE tracking
    <3>1. entry' = [entry EXCEPT ![n] = e]
      BY <1>1, <1>3, <2>1, <2>2 DEF ReserveSeq, TrackerTyped
    <3> HIDE DEF e
    <3> QED
      BY <1>3, <2>1, <2>2, <3>1 DEF TrackerTyped
  <2>3. CASE ~tracking
    <3>1. entry' = entry
      BY <2>3 DEF ReserveSeq
    <3> QED
      BY <1>3, <1>5, <2>3, <3>1 DEF TrackerTyped
  <2> QED
    BY <2>2, <2>3
<1>7. /\ pub'[p].seq = n /\ pub'[p].pc = (IF tracking THEN "register" ELSE "commit")
      /\ \A o \in Publishers \ {p} : pub'[o] = pub[o]
      /\ pub' \in [Publishers -> PublisherStates]
  <2>1. [pc |-> IF tracking THEN "register" ELSE "commit", seq |-> n] \in PublisherStates
    BY <1>3, <1>4 DEF PublisherStates
  <2>2. pub \in [Publishers -> PublisherStates]
    BY <1>3 DEF ThreadsTyped
  <2> QED
    BY <1>2, <2>1, <2>2
<1>8. e.acked = {} /\ e.outcome = "None" /\ e.members = registry
      /\ NoEntry.acked = {} /\ NoEntry.outcome = "None" /\ NoEntry.members = {}
  BY DEF NoEntry
<1> HIDE DEF e, tracking
<1>9. /\ (Claiming(p)' <=> tracking)
      /\ ~Claiming(p)
      /\ \A o \in Publishers \ {p} : /\ (Claiming(o)' <=> Claiming(o))
                                     /\ Claiming(o) => ~tracking
  BY <1>2, <1>3, <1>7 DEF Claiming, PublishersSound
<1>10. \A q \in Seqs : Pending(q)' <=> Pending(q)
  BY <1>5, <1>6, <1>8 DEF Pending
<1>11. \A q \in entries : entry'[q] = entry[q]
  BY <1>3, <1>5, <1>6 DEF TrackerTyped
<1>12. TypeOK'
  <2>1. RingTyped'
    BY <1>2, <1>3, <1>4 DEF RingTyped
  <2>2. ThreadsTyped'
    BY <1>2, <1>3, <1>7 DEF ThreadsTyped
  <2>3. TrackerTyped'
    BY <1>2, <1>3, <1>5, <1>6, <1>10 DEF TrackerTyped
  <2> QED
    BY <2>1, <2>2, <2>3, TypeParts, PTL
<1>13. PublishersSound'
  <2>1. \A o \in Publishers :
       /\ pub'[o].pc # "idle" => pub'[o].seq \in 1 .. n
       /\ (Claiming(o)' <=> lock' = o)
       /\ Claiming(o)' \/ pub'[o].pc = "overtaken" => o \in Trackers
    BY <1>1, <1>2, <1>3, <1>4, <1>7, <1>9 DEF PublishersSound, tracking
  <2>2. \A o \in Publishers : pub[o].pc # "idle" => pub[o].seq # n
    BY <1>3, <1>4 DEF PublishersSound
  <2>3. \A o, t \in Publishers :
       pub'[o].pc # "idle" /\ pub'[t].pc # "idle" /\ o # t => pub'[o].seq # pub'[t].seq
    BY <1>3, <1>7, <2>2 DEF PublishersSound
  <2>4. ASSUME NEW o \in Publishers
        PROVE  /\ pub'[o].pc = "register" => entry'[pub'[o].seq] = [NoEntry EXCEPT !.members = registry]
               /\ pub'[o].pc = "insert" =>
                    entry'[pub'[o].seq] = [members |-> registry, acked |-> {}, outcome |-> "Pending"]
    <3>1. CASE o = p
      BY <1>6, <1>7, <3>1 DEF e
    <3>2. CASE o # p
      <4>1. pub[o].pc # "idle" => pub[o].seq \in 1 .. write_seq /\ pub[o].seq # n
        BY <1>3, <2>2 DEF PublishersSound
      <4>2. pub[o].pc # "idle" => pub[o].seq \in Seqs \ {n}
        BY <1>3, <4>1 DEF Seqs
      <4>3. pub'[o] = pub[o] /\ (pub[o].pc # "idle" => entry'[pub[o].seq] = entry[pub[o].seq])
        BY <1>6, <1>7, <3>2, <4>2
      <4>4. /\ pub[o].pc = "register" => entry[pub[o].seq] = [NoEntry EXCEPT !.members = registry]
            /\ pub[o].pc = "insert" =>
                 entry[pub[o].seq] = [members |-> registry, acked |-> {}, outcome |-> "Pending"]
        BY <1>3 DEF PublishersSound
      <4> QED
        BY <4>3, <4>4
    <3> QED
      BY <3>1, <3>2
  <2> QED
    BY <1>2, <2>1, <2>3, <2>4 DEF PublishersSound
<1>14. EntriesSound'
  <2>1. \A q \in Seqs : q > n => entry'[q] = NoEntry
    BY <1>1, <1>3, <1>4, <1>6 DEF EntriesSound, Seqs
  <2>2. \A q \in Tracked : q \in Tracked'
    BY <1>5, <1>6 DEF Tracked
  <2>3. \A o \in Publishers : Claiming(o)' =>
       /\ pub'[o].seq \notin entries
       /\ \A d \in detached : d[1] # pub'[o].seq
       /\ \A s \in Subscribers : sub[s].acking # pub'[o].seq /\ sub[s].permitted # pub'[o].seq
       /\ \A i \in 0 .. Capacity - 1 : slots[i] # pub'[o].seq
    BY <1>3, <1>5, <1>7, <1>9 DEF EntriesSound
  <2> QED
    BY <1>2, <1>3, <2>1, <2>2, <2>3 DEF EntriesSound
<1>15. SubscribersSound'
  <2>1. ASSUME NEW s \in Subscribers PROVE SubscriberSound(s)'
    <3>1. SubscriberSound(s)
      BY <1>3 DEF SubscribersSound
    <3> QED
      BY <1>1, <1>2, <1>3, <3>1 DEF SubscriberSound, ThreadsTyped, SubscriberStates
  <2> QED
    BY <2>1 DEF SubscribersSound
<1>16. MembershipSound'
  <2> SUFFICES ASSUME NEW q \in Seqs,
                      Pending(q)' \/ (\E o \in Publishers : Claiming(o)' /\ pub'[o].seq = q),
                      NEW s \in Subscribers
               PROVE  /\ s \in entry'[q].members => sub[s].status # "new" /\ sub[s].start <= q
                      /\ s \in registry \ entry'[q].members => sub[s].start > q
    BY <1>2 DEF MembershipSound
  <2>1. CASE q # n
    BY <1>3, <1>6, <1>7, <1>9, <1>10, <2>1 DEF MembershipSound
  <2>2. CASE q = n
    <3>1. tracking
      <4>1. ~Pending(n)' /\ \A o \in Publishers \ {p} : pub[o].pc # "idle" => pub[o].seq # n
        BY <1>3, <1>4, <1>5, <1>8, <1>10 DEF Pending, PublishersSound
      <4> QED
        BY <1>7, <1>9, <2>2, <4>1 DEF Claiming
    <3>2. s \in registry => sub[s].status # "new" /\ sub[s].start <= n
      BY <1>1, <1>3 DEF SubscribersSound, SubscriberSound
    <3> QED
      BY <1>6, <1>8, <2>2, <3>1, <3>2
  <2> QED
    BY <2>1, <2>2
<1>17. AnswersSound'
  <2>1. ASSUME NEW o \in Publishers, Claiming(o)', NEW s \in registry
        PROVE  \/ sub[s].pc \in {"remove", "barrier"} /\ pub'[o].seq < sub[s].threshold
               \/ sub[s].status = "live" /\ sub[s].read_seq <= pub'[o].seq
    <3>1. CASE o # p
      BY <1>3, <1>7, <1>9, <2>1, <3>1 DEF AnswersSound
    <3>2. CASE o = p
      BY <1>1, <1>3, <1>4, <1>7, <3>2 DEF SubscribersSound, SubscriberSound
    <3> QED
      BY <3>1, <3>2
  <2>2. \A q \in Seqs, s \in Subscribers : s \in entry'[q].acked => q \in sub[s].handed
    BY <1>3, <1>6, <1>8 DEF AnswersSound
  <2>3. \A s \in Subscribers : s \notin registry /\ sub[s].pc # "scan" =>
          \A q \in entries : ~Requires(entry'[q], s)
    BY <1>3, <1>11 DEF AnswersSound
  <2> QED
    BY <1>2, <2>1, <2>2, <2>3 DEF AnswersSound
<1>18. NoSilentMember'
  BY <1>2, <1>3, <1>11 DEF NoSilentMember, Reachable, Pending
<1> QED
  BY <1>12, <1>13, <1>14, <1>15, <1>16, <1>17, <1>18 DEF IInv

\* No publisher but the one that holds the lock claims.
LEMMA SoleClaim ==
  ASSUME IInv, NEW p \in Publishers, Claiming(p)
  PROVE  /\ lock = p /\ \A o \in Publishers \ {p} : ~Claiming(o)
         /\ pub[p].seq \in Seqs /\ p \in Trackers
         /\ \A o \in Publishers \ {p} : pub[o].pc # "idle" => pub[o].seq # pub[p].seq
<1>1. PublishersSound /\ RingTyped /\ MaxPublishes \in Nat
  BY TypeParts, TopicAssumption DEF IInv
<1>2. pub[p].pc # "idle"
  BY DEF Claiming
<1>3. pub[p].seq \in 1 .. write_seq
  BY <1>1, <1>2 DEF PublishersSound
<1>4. pub[p].seq \in Seqs
  BY <1>1, <1>3 DEF RingTyped, Seqs
<1> QED
  BY <1>1, <1>2, <1>4 DEF PublishersSound

\* RegisterConsensus preserves the invariant: nobody else has touched the entry,
\* and the lock goes with the claim.
LEMMA RegisterConsensusSound ==
  ASSUME IInv, NEW p \in Publishers, RegisterConsensus(p)
  PROVE  IInv'
<1>0. Claiming(p) /\ pub[p].pc = "register"
  BY DEF RegisterConsensus, Claiming
<1>1. PICK n \in Seqs : n = pub[p].seq
  BY <1>0, SoleClaim
<1>2. /\ RingTyped /\ TrackerTyped /\ ThreadsTyped /\ PublishersSound /\ EntriesSound
      /\ SubscribersSound /\ MembershipSound /\ AnswersSound /\ NoSilentMember
      /\ MaxPublishes \in Nat /\ Nobody \notin Publishers /\ Trackers \subseteq Publishers
      /\ write_seq \in 0 .. MaxPublishes /\ registry \subseteq Subscribers /\ closed \in BOOLEAN
      /\ pub \in [Publishers -> PublisherStates]
  BY TypeParts, TopicAssumption DEF IInv, RingTyped, ThreadsTyped
<1>3. /\ lock = p /\ \A o \in Publishers \ {p} : ~Claiming(o)
      /\ p \in Trackers /\ n \in 1 .. write_seq
      /\ \A o \in Publishers \ {p} : pub[o].pc # "idle" => pub[o].seq # n
  BY <1>0, <1>1, <1>2, SoleClaim DEF PublishersSound
<1>4. entry[n] = [NoEntry EXCEPT !.members = registry]
  BY <1>0, <1>1, <1>2 DEF PublishersSound
<1>5. entry[n].members = registry /\ entry[n].acked = {} /\ entry[n].outcome = "None"
  BY <1>4 DEF NoEntry
<1> DEFINE outcome == CASE closed -> "TopicClosed"
                       [] ~closed /\ entry[n].members = {} -> "Nack"
                       [] OTHER -> "Pending"
           pends == outcome = "Pending"
           e == IF pends THEN [members |-> registry, acked |-> {}, outcome |-> "Pending"]
                         ELSE Resolved(outcome)
           c == IF pends THEN "insert" ELSE "commit"
<1>6. outcome \in {"TopicClosed", "Nack", "Pending"}
  BY <1>2
<1>7. /\ entry' = [entry EXCEPT ![n] = IF pends THEN [entry[n] EXCEPT !.outcome = outcome]
                                                ELSE Resolved(outcome)]
      /\ pub' = [pub EXCEPT ![p] = [pub[p] EXCEPT !.pc = c]]
      /\ lock' = IF pends THEN p ELSE Nobody
      /\ UNCHANGED <<on_lag, write_seq, slots, ring_closed, registry, closed, entries, detached, sub,
                     close_pc, faults>>
  BY <1>1, <1>2, <1>3 DEF RegisterConsensus, ring, TrackerTyped
<1> HIDE DEF outcome
<1>8. /\ pends => [entry[n] EXCEPT !.outcome = outcome] = e
      /\ e \in Entries /\ e.acked = {} /\ e.outcome # "None" /\ (e.outcome = "Pending" <=> pends)
      /\ pends => e.members = registry
  <2>1. CASE pends
    <3>1. e = [members |-> registry, acked |-> {}, outcome |-> "Pending"]
      BY <2>1
    <3>2. [entry[n] EXCEPT !.outcome = outcome] = e
      <4>1. entry[n] = [members |-> registry, acked |-> {}, outcome |-> "None"]
        BY <1>4 DEF NoEntry
      <4>2. outcome = "Pending"
        BY <2>1
      <4> HIDE DEF e
      <4> QED
        BY ONLY <3>1, <4>1, <4>2
    <3> HIDE DEF e
    <3>3. e \in Entries
      BY <1>2, <3>1 DEF Entries
    <3>4. e.acked = {} /\ e.outcome = "Pending" /\ e.members = registry
      BY <3>1
    <3> HIDE DEF pends
    <3> QED
      BY <2>1, <3>2, <3>3, <3>4
  <2>2. CASE ~pends
    <3>1. e = [members |-> {}, acked |-> {}, outcome |-> outcome]
      BY <2>2 DEF Resolved
    <3>2. outcome \in {"TopicClosed", "Nack"}
      BY <1>6, <2>2
    <3> HIDE DEF e
    <3> QED
      BY <2>2, <3>1, <3>2 DEF Entries
  <2> QED
    BY <2>1, <2>2
<1>9. entry' = [entry EXCEPT ![n] = e]
  BY <1>7, <1>8
<1>10. /\ entry' \in [Seqs -> Entries] /\ entry'[n] = e
       /\ \A q \in Seqs \ {n} : entry'[q] = entry[q]
  <2> HIDE DEF e
  <2> QED
    BY <1>2, <1>8, <1>9 DEF TrackerTyped
<1>11. /\ pub' \in [Publishers -> PublisherStates] /\ pub'[p].seq = n /\ pub'[p].pc = c
       /\ \A o \in Publishers \ {p} : pub'[o] = pub[o]
  <2>1. c \in {"insert", "commit"}
    OBVIOUS
  <2> HIDE DEF c
  <2> QED
    BY <1>1, <1>2, <1>7, <2>1 DEF PublisherStates
<1>12. /\ (Claiming(p)' <=> pends) /\ \A o \in Publishers \ {p} : ~Claiming(o)'
  BY <1>3, <1>11 DEF Claiming
<1>13. /\ n \notin entries /\ \A d \in detached : d[1] # n
       /\ \A s \in Subscribers : sub[s].acking # n /\ sub[s].permitted # n
       /\ \A i \in 0 .. Capacity - 1 : slots[i] # n
  BY <1>0, <1>1, <1>2 DEF EntriesSound
<1>14. \A q \in entries : q \in Seqs /\ entry'[q] = entry[q]
  BY <1>2, <1>10, <1>13 DEF TrackerTyped
<1> HIDE DEF e
<1>15. TypeOK'
  <2>1. RingTyped'
    BY <1>2, <1>7 DEF RingTyped
  <2>2. ThreadsTyped'
    BY <1>2, <1>7, <1>11 DEF ThreadsTyped
  <2>3. TrackerTyped'
    BY <1>2, <1>7, <1>10, <1>13, <1>14 DEF TrackerTyped, Pending
  <2> QED
    BY <2>1, <2>2, <2>3, TypeParts, PTL
<1>16. PublishersSound'
  <2>1. \A o \in Publishers :
       /\ pub'[o].pc # "idle" => pub'[o].seq \in 1 .. write_seq
       /\ (Claiming(o)' <=> lock' = o)
       /\ Claiming(o)' \/ pub'[o].pc = "overtaken" => o \in Trackers
    BY <1>2, <1>3, <1>7, <1>11, <1>12 DEF PublishersSound
  <2>2. \A o, t \in Publishers :
       pub'[o].pc # "idle" /\ pub'[t].pc # "idle" /\ o # t => pub'[o].seq # pub'[t].seq
    BY <1>2, <1>3, <1>11 DEF PublishersSound
  <2>3. \A o \in Publishers :
       /\ pub'[o].pc # "register"
       /\ pub'[o].pc = "insert" =>
            entry'[pub'[o].seq] = [members |-> registry, acked |-> {}, outcome |-> "Pending"]
    <3>1. \A o \in Publishers \ {p} : pub'[o].pc # "register" /\ pub'[o].pc # "insert"
      BY <1>12 DEF Claiming
    <3>2. pub'[p].pc # "register" /\ (pub'[p].pc = "insert" => pends)
      BY <1>11
    <3>3. pends => entry'[n] = [members |-> registry, acked |-> {}, outcome |-> "Pending"]
      BY <1>10 DEF e
    <3> HIDE DEF pends
    <3> QED
      BY <1>11, <3>1, <3>2, <3>3
  <2> QED
    BY <1>7, <2>1, <2>2, <2>3 DEF PublishersSound
<1>17. EntriesSound'
  <2>1. \A q \in Seqs : q > write_seq => entry'[q] = NoEntry
    BY <1>2, <1>3, <1>10 DEF EntriesSound, Seqs
  <2>2. \A q \in Tracked : q \in Tracked'
    BY <1>8, <1>10 DEF Tracked
  <2>3. \A o \in Publishers : Claiming(o)' =>
       /\ pub'[o].seq \notin entries
       /\ \A d \in detached : d[1] # pub'[o].seq
       /\ \A s \in Subscribers : sub[s].acking # pub'[o].seq /\ sub[s].permitted # pub'[o].seq
       /\ \A i \in 0 .. Capacity - 1 : slots[i] # pub'[o].seq
    BY <1>11, <1>12, <1>13
  <2> QED
    BY <1>2, <1>7, <2>1, <2>2, <2>3 DEF EntriesSound
<1>18. SubscribersSound'
  BY <1>2, <1>7 DEF SubscribersSound, SubscriberSound
<1>19. MembershipSound'
  <2> SUFFICES ASSUME NEW q \in Seqs,
                      Pending(q)' \/ (\E o \in Publishers : Claiming(o)' /\ pub'[o].seq = q),
                      NEW s \in Subscribers
               PROVE  /\ s \in entry'[q].members => sub[s].status # "new" /\ sub[s].start <= q
                      /\ s \in registry \ entry'[q].members => sub[s].start > q
    BY <1>7 DEF MembershipSound
  <2>1. CASE q # n
    <3>1. Pending(q)
      BY <1>10, <1>11, <1>12, <2>1 DEF Pending
    <3> QED
      BY <1>2, <1>10, <2>1, <3>1 DEF MembershipSound
  <2>2. CASE q = n
    <3>1. entry'[q].members = entry[q].members
      BY <1>5, <1>8, <1>10, <1>11, <1>12, <2>2 DEF Pending
    <3> QED
      BY <1>0, <1>1, <1>2, <2>2, <3>1 DEF MembershipSound
  <2> QED
    BY <2>1, <2>2
<1>20. AnswersSound'
  <2>1. \A o \in Publishers : Claiming(o)' => \A s \in registry :
          \/ sub[s].pc \in {"remove", "barrier"} /\ pub'[o].seq < sub[s].threshold
          \/ sub[s].status = "live" /\ sub[s].read_seq <= pub'[o].seq
    BY <1>0, <1>1, <1>2, <1>11, <1>12 DEF AnswersSound
  <2>2. \A q \in Seqs, s \in Subscribers : s \in entry'[q].acked => q \in sub[s].handed
    BY <1>2, <1>8, <1>10 DEF AnswersSound
  <2>3. \A s \in Subscribers : s \notin registry /\ sub[s].pc # "scan" =>
          \A q \in entries : ~Requires(entry'[q], s)
    BY <1>2, <1>14 DEF AnswersSound
  <2> QED
    BY <1>7, <2>1, <2>2, <2>3 DEF AnswersSound
<1>21. NoSilentMember'
  BY <1>2, <1>7, <1>14, ZenonT(40) DEF NoSilentMember, Reachable, Pending
<1> QED
  BY <1>15, <1>16, <1>17, <1>18, <1>19, <1>20, <1>21 DEF IInv

\* InsertEntry preserves the invariant: what the lock kept apart until now makes
\* every member able to answer from the moment the entry is in the map.
LEMMA InsertEntrySound ==
  ASSUME IInv, NEW p \in Publishers, InsertEntry(p)
  PROVE  IInv'
<1>0. Claiming(p) /\ pub[p].pc = "insert"
  BY DEF InsertEntry, Claiming
<1>1. PICK n \in Seqs : n = pub[p].seq
  BY <1>0, SoleClaim
<1>2. /\ RingTyped /\ TrackerTyped /\ ThreadsTyped /\ PublishersSound /\ EntriesSound
      /\ SubscribersSound /\ MembershipSound /\ AnswersSound /\ NoSilentMember
      /\ Nobody \notin Publishers /\ registry \subseteq Subscribers
      /\ pub \in [Publishers -> PublisherStates]
  BY TypeParts, TopicAssumption DEF IInv, RingTyped, ThreadsTyped
<1>3. \A o \in Publishers \ {p} : ~Claiming(o)
  BY <1>0, SoleClaim
<1>4. entry[n] = [members |-> registry, acked |-> {}, outcome |-> "Pending"]
  BY <1>0, <1>1, <1>2 DEF PublishersSound
<1>5. /\ entries' = entries \cup {n} /\ pub' = [pub EXCEPT ![p] = [pub[p] EXCEPT !.pc = "commit"]]
      /\ lock' = Nobody
      /\ UNCHANGED <<on_lag, write_seq, slots, ring_closed, registry, closed, entry, detached, sub,
                     close_pc, faults>>
  BY <1>1, <1>2 DEF InsertEntry, ring
<1>6. /\ pub' \in [Publishers -> PublisherStates] /\ pub'[p].seq = n /\ pub'[p].pc = "commit"
      /\ \A o \in Publishers \ {p} : pub'[o] = pub[o]
  BY <1>1, <1>2, <1>5 DEF PublisherStates
<1>7. \A o \in Publishers : ~Claiming(o)'
  BY <1>3, <1>6 DEF Claiming
<1>8. \A d \in detached : d[1] # n
  BY <1>0, <1>1, <1>2 DEF EntriesSound
<1>9. TypeOK'
  <2>1. RingTyped'
    BY <1>2, <1>5 DEF RingTyped
  <2>2. ThreadsTyped'
    BY <1>2, <1>5, <1>6 DEF ThreadsTyped
  <2>3. TrackerTyped'
    BY <1>2, <1>4, <1>5 DEF TrackerTyped, Pending
  <2> QED
    BY <2>1, <2>2, <2>3, TypeParts, PTL
<1>10. PublishersSound'
  <2>1. \A o \in Publishers :
       /\ pub'[o].pc # "idle" => pub'[o].seq \in 1 .. write_seq
       /\ pub'[o].pc = "overtaken" => o \in Trackers
    BY <1>0, <1>1, <1>2, <1>6 DEF PublishersSound
  <2>2. \A o, t \in Publishers :
       pub'[o].pc # "idle" /\ pub'[t].pc # "idle" /\ o # t => pub'[o].seq # pub'[t].seq
    BY <1>0, <1>1, <1>2, <1>6 DEF PublishersSound
  <2>3. \A o \in Publishers : pub'[o].pc # "register" /\ pub'[o].pc # "insert"
    BY <1>7 DEF Claiming
  <2> QED
    BY <1>2, <1>5, <1>7, <2>1, <2>2, <2>3 DEF PublishersSound
<1>11. EntriesSound'
  <2>1. Tracked' = Tracked
    BY <1>5 DEF Tracked
  <2> QED
    BY <1>2, <1>5, <1>7, <1>8, <2>1 DEF EntriesSound
<1>12. SubscribersSound'
  BY <1>2, <1>5 DEF SubscribersSound, SubscriberSound
<1>13. MembershipSound'
  BY <1>2, <1>5, <1>7 DEF MembershipSound, Pending
<1>14. AnswersSound'
  <2>1. \A s \in Subscribers \ registry : ~Requires(entry[n], s)
    BY <1>4 DEF Requires
  <2>2. \A s \in Subscribers : s \notin registry /\ sub[s].pc # "scan" =>
          \A q \in entries' : ~Requires(entry[q], s)
    BY <1>2, <1>5, <2>1 DEF AnswersSound
  <2> QED
    BY <1>2, <1>5, <1>7, <2>2 DEF AnswersSound
<1>15. NoSilentMember'
  <2>1. ASSUME NEW s \in registry PROVE Reachable(s, n)
    <3>1. \/ sub[s].pc \in {"remove", "barrier"} /\ n < sub[s].threshold
          \/ sub[s].status = "live" /\ sub[s].read_seq <= n
      BY <1>0, <1>1, <1>2 DEF AnswersSound
    <3>2. n \in Nat /\ sub[s].read_seq \in Nat
      BY <1>2, TopicAssumption DEF Seqs, ThreadsTyped, SubscriberStates
    <3> QED
      BY <3>1, <3>2 DEF Reachable
  <2>2. \A q \in entries' : \A s \in entry[q].members \ entry[q].acked : Pending(q) => Reachable(s, q)
    BY <1>2, <1>4, <1>5, <2>1 DEF NoSilentMember
  <2> QED
    BY <1>5, <2>2 DEF NoSilentMember, Reachable, Pending
<1> QED
  BY <1>9, <1>10, <1>11, <1>12, <1>13, <1>14, <1>15 DEF IInv

-----------------------------------------------------------------------------
(* Joining and leaving the registry.                                       *)

\* While the lock is free nobody claims.
LEMMA NoClaim ==
  ASSUME IInv, lock = Nobody
  PROVE  \A p \in Publishers : ~Claiming(p) /\ pub[p].pc # "register" /\ pub[p].pc # "insert"
BY TopicAssumption DEF IInv, PublishersSound, Claiming

\* What the registry's changes under a free lock keep of the publishers.
LEMMA RegistryFree ==
  ASSUME IInv, lock = Nobody, UNCHANGED <<write_seq, slots, lock, entries, entry, detached, pub>>,
         \A s \in Subscribers : sub'[s].acking = sub[s].acking /\ sub'[s].handed = sub[s].handed
  PROVE  PublishersSound' /\ EntriesSound' /\ \A p \in Publishers : ~Claiming(p)'
<1>1. \A p \in Publishers : ~Claiming(p) /\ pub[p].pc # "register" /\ pub[p].pc # "insert"
  BY NoClaim
<1>2. PublishersSound /\ EntriesSound
  BY DEF IInv
<1>3. \A p \in Publishers : ~Claiming(p)'
  BY <1>1 DEF Claiming
<1>4. PublishersSound'
  BY <1>1, <1>2, <1>3 DEF PublishersSound
<1>5. Tracked' = Tracked
  BY DEF Tracked
<1>6. EntriesSound'
  BY <1>2, <1>3, <1>5 DEF EntriesSound
<1> QED
  BY <1>3, <1>4, <1>6

\* Subscribe preserves the invariant: a new subscriber is a member of no pending
\* publish and starts after all of them.
LEMMA SubscribeSound ==
  ASSUME IInv, NEW s \in Subscribers, Subscribe(s)
  PROVE  IInv'
<1>1. /\ sub[s].status = "new" /\ lock = Nobody /\ registry' = registry \cup {s}
      /\ sub' = [sub EXCEPT ![s] = Subscribed(write_seq + 1)]
      /\ UNCHANGED <<on_lag, write_seq, slots, ring_closed, lock, closed, entries, entry, detached, pub,
                     close_pc, faults>>
  BY DEF Subscribe, StartSeq, ring, tracker
<1>2. /\ RingTyped /\ TrackerTyped /\ ThreadsTyped /\ EntriesSound
      /\ SubscribersSound /\ MembershipSound /\ AnswersSound /\ NoSilentMember
      /\ MaxPublishes \in Nat /\ write_seq \in 0 .. MaxPublishes
      /\ sub \in [Subscribers -> SubscriberStates]
  BY TypeParts, TopicAssumption DEF IInv, RingTyped, ThreadsTyped
<1>3. sub[s] = NotSubscribed /\ s \notin registry
  BY <1>1, <1>2 DEF SubscribersSound, SubscriberSound
<1>4. /\ sub'[s] = Subscribed(write_seq + 1)
      /\ \A t \in Subscribers \ {s} : sub'[t] = sub[t]
  BY <1>1, <1>2
<1>5. /\ sub'[s].status = "live" /\ sub'[s].start = write_seq + 1 /\ sub'[s].read_seq = write_seq + 1
      /\ sub'[s].permitted = 0 /\ sub'[s].pc = "poll" /\ sub'[s].handed = {} /\ sub'[s].acking = 0
      /\ sub[s].handed = {} /\ sub[s].acking = 0
  BY <1>3, <1>4 DEF Subscribed, NotSubscribed
<1>6. sub' \in [Subscribers -> SubscriberStates]
  <2>1. write_seq + 1 \in 0 .. MaxPublishes + 1 /\ 0 \in 0 .. MaxPublishes /\ 0 \in 0 .. MaxPublishes + 1
    BY <1>2
  <2>2. Subscribed(write_seq + 1) \in SubscriberStates
    BY <2>1 DEF Subscribed, NotSubscribed, SubscriberStates
  <2> QED
    BY <1>1, <1>2, <2>2
<1>7. TypeOK'
  <2>1. RingTyped' /\ ThreadsTyped'
    BY <1>1, <1>2, <1>6 DEF RingTyped, ThreadsTyped
  <2>2. TrackerTyped'
    BY <1>1, <1>2 DEF TrackerTyped, Pending
  <2> QED
    BY <2>1, <2>2, TypeParts, PTL
<1>8. PublishersSound' /\ EntriesSound' /\ \A p \in Publishers : ~Claiming(p)'
  BY <1>1, <1>4, <1>5, RegistryFree
<1>9. SubscribersSound'
  <2>1. SubscriberSound(s)'
    BY <1>1, <1>2, <1>5 DEF SubscriberSound
  <2>2. \A t \in Subscribers \ {s} : SubscriberSound(t)'
    BY <1>1, <1>2, <1>4 DEF SubscribersSound, SubscriberSound
  <2> QED
    BY <2>1, <2>2 DEF SubscribersSound
<1>10. \A q \in Seqs : Pending(q) => s \notin entry[q].members /\ q <= write_seq
  BY <1>1, <1>2 DEF MembershipSound, EntriesSound, Pending, NoEntry, Seqs
<1>11. MembershipSound'
  <2> SUFFICES ASSUME NEW q \in Seqs, Pending(q), NEW t \in Subscribers
               PROVE  /\ t \in entry[q].members => sub'[t].status # "new" /\ sub'[t].start <= q
                      /\ t \in registry' \ entry[q].members => sub'[t].start > q
    BY <1>1, <1>8 DEF MembershipSound, Pending
  <2>1. CASE t = s
    BY <1>2, <1>5, <1>10, <2>1 DEF Seqs
  <2>2. CASE t # s
    BY <1>1, <1>2, <1>4, <2>2 DEF MembershipSound
  <2> QED
    BY <2>1, <2>2
<1>12. AnswersSound'
  <2>1. \A t \in Subscribers : t \notin registry' /\ sub'[t].pc # "scan" =>
          \A q \in entries : ~Requires(entry[q], t)
    BY <1>1, <1>2, <1>4 DEF AnswersSound
  <2>2. \A q \in Seqs, t \in Subscribers : t \in entry[q].acked => q \in sub'[t].handed
    BY <1>2, <1>4, <1>5 DEF AnswersSound
  <2> QED
    BY <1>1, <1>8, <2>1, <2>2 DEF AnswersSound
<1>13. NoSilentMember'
  <2>1. ASSUME NEW q \in entries, NEW t \in entry[q].members \ entry[q].acked, Pending(q)
        PROVE  Reachable(t, q)'
    <3>1. t # s /\ t \in Subscribers
      BY <1>2, <1>10, <2>1 DEF TrackerTyped, Entries
    <3> QED
      BY <1>2, <1>4, <2>1, <3>1 DEF NoSilentMember, Reachable
  <2> QED
    BY <1>1, <2>1 DEF NoSilentMember, Pending
<1> QED
  BY <1>7, <1>8, <1>9, <1>11, <1>12, <1>13 DEF IInv

\* LeaveRegistry preserves the invariant: all that is pending is below the
\* threshold of the scan that follows.
LEMMA LeaveRegistrySound ==
  ASSUME IInv, NEW s \in Subscribers, LeaveRegistry(s)
  PROVE  IInv'
<1>1. /\ sub[s].pc = "remove" /\ lock = Nobody /\ registry' = registry \ {s}
      /\ sub' = [sub EXCEPT ![s].pc = "scan"]
      /\ UNCHANGED <<on_lag, write_seq, slots, ring_closed, lock, closed, entries, entry, detached, pub,
                     close_pc, faults>>
  BY DEF LeaveRegistry, ring, tracker
<1>2. /\ RingTyped /\ TrackerTyped /\ ThreadsTyped
      /\ SubscribersSound /\ MembershipSound /\ AnswersSound /\ NoSilentMember
      /\ sub \in [Subscribers -> SubscriberStates] /\ SubscriberSound(s)
  BY TypeParts DEF IInv, ThreadsTyped, SubscribersSound
<1>3. /\ sub'[s].pc = "scan" /\ sub'[s].permitted = sub[s].permitted
      /\ sub'[s].read_seq = sub[s].read_seq /\ sub'[s].threshold = sub[s].threshold
      /\ sub'[s].status = sub[s].status /\ sub'[s].acking = sub[s].acking
      /\ sub'[s].start = sub[s].start /\ sub'[s].handed = sub[s].handed
      /\ \A t \in Subscribers \ {s} : sub'[t] = sub[t]
  BY <1>1, <1>2 DEF SubscriberStates
<1>4. sub' \in [Subscribers -> SubscriberStates]
  BY <1>1, <1>2 DEF SubscriberStates
<1>5. TypeOK'
  <2>1. RingTyped' /\ ThreadsTyped'
    BY <1>1, <1>2, <1>4 DEF RingTyped, ThreadsTyped
  <2>2. TrackerTyped'
    BY <1>1, <1>2 DEF TrackerTyped, Pending
  <2> QED
    BY <2>1, <2>2, TypeParts, PTL
<1>6. PublishersSound' /\ EntriesSound' /\ \A p \in Publishers : ~Claiming(p)'
  BY <1>1, <1>3, RegistryFree
<1>7. SubscribersSound'
  <2>1. SubscriberSound(s)'
    BY <1>1, <1>2, <1>3 DEF SubscriberSound, NotSubscribed
  <2>2. \A t \in Subscribers \ {s} : SubscriberSound(t)'
    BY <1>1, <1>2, <1>3 DEF SubscribersSound, SubscriberSound
  <2> QED
    BY <2>1, <2>2 DEF SubscribersSound
<1>8. MembershipSound'
  <2> SUFFICES ASSUME NEW q \in Seqs, Pending(q), NEW t \in Subscribers
               PROVE  /\ t \in entry[q].members => sub'[t].status # "new" /\ sub'[t].start <= q
                      /\ t \in registry' \ entry[q].members => sub'[t].start > q
    BY <1>1, <1>6 DEF MembershipSound, Pending
  <2>1. sub'[t].status = sub[t].status /\ sub'[t].start = sub[t].start
    BY <1>3
  <2> QED
    BY <1>1, <1>2, <2>1 DEF MembershipSound
<1>9. AnswersSound'
  <2>1. \A t \in Subscribers : t \notin registry' /\ sub'[t].pc # "scan" =>
          \A q \in entries : ~Requires(entry[q], t)
    BY <1>1, <1>2, <1>3 DEF AnswersSound
  <2>2. \A q \in Seqs, t \in Subscribers : t \in entry[q].acked => q \in sub'[t].handed
    BY <1>2, <1>3 DEF AnswersSound
  <2> QED
    BY <1>1, <1>6, <2>1, <2>2 DEF AnswersSound
<1>10. NoSilentMember'
  <2>1. ASSUME NEW q \in entries, NEW t \in entry[q].members \ entry[q].acked, Pending(q)
        PROVE  Reachable(t, q)'
    <3>1. t \in Subscribers /\ Reachable(t, q)
      BY <1>2, <2>1 DEF NoSilentMember, TrackerTyped, Entries
    <3>2. CASE t = s
      BY <1>1, <1>3, <3>1, <3>2 DEF Reachable
    <3>3. CASE t # s
      BY <1>3, <3>1, <3>3 DEF Reachable
    <3> QED
      BY <3>2, <3>3
  <2> QED
    BY <1>1, <2>1 DEF NoSilentMember, Pending
<1> QED
  BY <1>5, <1>6, <1>7, <1>8, <1>9, <1>10 DEF IInv

-----------------------------------------------------------------------------
\* A new topic with its early subscribers satisfies the invariant.
THEOREM InitIInv == Init => IInv
<1> SUFFICES ASSUME Init PROVE IInv
  OBVIOUS
<1>0. /\ Capacity \in Nat /\ Capacity > 1 /\ MaxPublishes \in Nat /\ MaxFaults \in Nat
      /\ Early \subseteq Subscribers /\ Nobody \notin Publishers
  BY TopicAssumption
<1>1. \A p \in Publishers : pub[p].pc = "idle" /\ ~Claiming(p)
  BY DEF Init, Claiming
<1>2. \A q \in Seqs : entry[q] = NoEntry /\ ~Pending(q) /\ entry[q].acked = {}
  BY DEF Init, NoEntry, Pending
<1>3. /\ 0 \in 0 .. MaxPublishes /\ 0 \in 0 .. MaxPublishes + 1 /\ 1 \in 0 .. MaxPublishes + 1
      /\ 0 \in 0 .. MaxFaults
  BY <1>0
<1>4. /\ NotSubscribed \in SubscriberStates /\ Subscribed(1) \in SubscriberStates
      /\ NoEntry \in Entries /\ [pc |-> "idle", seq |-> 0] \in PublisherStates
  BY <1>3 DEF NotSubscribed, Subscribed, SubscriberStates, NoEntry, Entries, PublisherStates
<1>5. \A s \in Subscribers : sub[s] = IF s \in registry THEN Subscribed(1) ELSE NotSubscribed
  BY DEF Init
<1>a. /\ NotSubscribed.acking = 0 /\ Subscribed(1).acking = 0
      /\ Subscribed(1).status = "live" /\ Subscribed(1).start = 1 /\ Subscribed(1).read_seq = 1
      /\ Subscribed(1).permitted = 0 /\ Subscribed(1).pc = "poll"
  BY DEF Subscribed, NotSubscribed
<1>6. TypeOK
  <2>1. RingTyped
    <3>1. /\ write_seq = 0 /\ slots = [i \in 0 .. Capacity - 1 |-> 0] /\ close_pc = "open" /\ faults = 0
          /\ on_lag \in {"DropOldest", "Disconnect"}
      BY DEF Init
    <3>2. ring_closed \in BOOLEAN /\ closed \in BOOLEAN
      BY Zenon DEF Init
    <3>3. 0 \in 0 .. write_seq
      BY <3>1
    <3>4. slots \in [0 .. Capacity - 1 -> 0 .. write_seq]
      BY <3>1, <3>3, Zenon
    <3> QED
      BY <1>3, <3>1, <3>2, <3>4 DEF RingTyped
  <2>2. TrackerTyped
    BY <1>4 DEF Init, TrackerTyped
  <2>3. ThreadsTyped
    BY <1>0, <1>4 DEF Init, ThreadsTyped
  <2> QED
    BY <2>1, <2>2, <2>3, TypeParts
<1>7. PublishersSound
  BY <1>0, <1>1 DEF Init, PublishersSound, Claiming
<1>8. EntriesSound
  <2>1. \A s \in Subscribers : sub[s].acking = 0
    BY <1>5, <1>a
  <2> QED
    BY <1>1, <1>2, <2>1 DEF Init, EntriesSound
<1>9. SubscribersSound
  <2>1. ASSUME NEW s \in Subscribers PROVE SubscriberSound(s)
    <3>1. CASE s \in registry
      <4>1. sub[s] = Subscribed(1) /\ write_seq = 0
        BY <1>5, <3>1 DEF Init
      <4> QED
        BY <1>a, <3>1, <4>1 DEF SubscriberSound
    <3>2. CASE s \notin registry
      BY <1>5, <3>2 DEF Init, SubscriberSound, NotSubscribed
    <3> QED
      BY <3>1, <3>2
  <2> QED
    BY <2>1 DEF SubscribersSound
<1>10. MembershipSound
  BY <1>1, <1>2 DEF MembershipSound
<1>11. AnswersSound /\ NoSilentMember
  BY <1>1, <1>2 DEF Init, AnswersSound, NoSilentMember
<1> QED
  BY <1>6, <1>7, <1>8, <1>9, <1>10, <1>11 DEF IInv

\* Every step preserves the invariant.
THEOREM StepIInv == IInv /\ [Next]_vars => IInv'
<1> SUFFICES ASSUME IInv, [Next]_vars PROVE IInv'
  OBVIOUS
<1>1. CASE \E p \in Publishers : ReserveSeq(p) \/ PublisherStep(p)
  BY <1>1, ReserveSeqSound, RegisterConsensusSound, InsertEntrySound, CommitSlotSound,
     ResolveOvertakenSound DEF PublisherStep
<1>2. CASE \E s \in Subscribers : SubscriberStep(s)
  BY <1>2, LoadWriteSeqSound, ReadSlotSound, LagBarrierSound, LeaveRegistrySound, NackScanSound,
     CommitDeliverySound, AbandonDeliverySound, ApplyAckSound DEF SubscriberStep
<1>3. CASE \E s \in Subscribers : Subscribe(s) \/ Answer(s) \/ Drop(s)
  BY <1>3, SubscribeSound, AckSound, NackSound, DropSound DEF Answer
<1>4. CASE Close \/ CloseAll \/ Resolving \/ \E q \in Seqs : Expire(q)
  BY <1>4, CloseSound, CloseAllSound, ResolveDetachedSound, ExpireSound DEF Resolving
<1>5. CASE UNCHANGED vars
  <2>1. /\ UNCHANGED <<on_lag, write_seq, slots, ring_closed, registry, lock, closed, entries, entry,
                       detached, pub, sub, close_pc, faults>>
    BY <1>5 DEF vars, ring, tracker
  <2>2. RingTyped' /\ SubscribersSound' /\ sub' \in [Subscribers -> SubscriberStates]
        /\ entry' \in [Seqs -> Entries]
    BY <2>1, TypeParts DEF IInv, RingTyped, ThreadsTyped, TrackerTyped, SubscribersSound, SubscriberSound
  <2>3. (\A q \in Seqs : Settles(q)) /\ \A s \in Subscribers : Moves(s)
    BY <2>1, StillMoves DEF Settles
  <2> QED
    BY <2>1, <2>2, <2>3, SettleStep
<1> QED
  BY <1>1, <1>2, <1>3, <1>4, <1>5 DEF Next

\* The invariant holds throughout.
THEOREM Invariance == Spec => []IInv
BY InitIInv, StepIInv, PTL DEF Spec

\* Types hold, and the tracker's map holds pending entries only, whatever is
\* resolved, acknowledged, expired or closed meanwhile.
THEOREM TypeCorrect == Spec => []TypeOK
<1>1. IInv => TypeOK
  BY DEF IInv
<1> QED
  BY Invariance, <1>1, PTL

\* Who must acknowledge a pending publish is exactly who gets it: the snapshot
\* and the start positions agree for any number of racing publishers and
\* subscribers.
THEOREM SnapshotMatchesRing == Spec => []MembershipMatchesRing
<1>1. IInv => MembershipMatchesRing
  BY DEF IInv, MembershipSound, MembershipMatchesRing
<1> QED
  BY Invariance, <1>1, PTL

\* No member of a tracked publish is lost to it: its answer is still ahead, in
\* its hands, or about to be given for it, whatever lag, drop, overtaking and
\* disconnection do to the ring and the cursors.
THEOREM MembersStayReachable == Spec => []NoSilentMember
<1>1. IInv => NoSilentMember
  BY DEF IInv
<1> QED
  BY Invariance, <1>1, PTL

-----------------------------------------------------------------------------
(* The outcome of a publish is final.                                      *)

\* What OutcomeFinal says of one publish.
KeepsOutcome(q) ==
  /\ ~Pending(q) => entry'[q] = entry[q]
  /\ Pending(q) /\ entry'[q].outcome = "Ack" =>
       \A s \in entry[q].members :
         q \in sub[s].handed /\ (s \in entry[q].acked \/ sub[s].acking = q)

\* entry.resolve with anything but an ack.
LEMMA ResolveKeeps ==
  ASSUME NEW q, NEW o, o # "Ack", entry'[q] = entry[q] \/ entry'[q] = EntryResolve(entry[q], o)
  PROVE  KeepsOutcome(q)
<1>1. CASE entry'[q] = entry[q]
  BY <1>1 DEF KeepsOutcome, Pending
<1>2. CASE entry'[q] = EntryResolve(entry[q], o)
  BY <1>2 DEF KeepsOutcome, Pending, EntryResolve, Resolved
<1> QED
  BY <1>1, <1>2

\* The ack that completes a consensus.
LEMMA AckKeeps ==
  ASSUME IInv, NEW s \in Subscribers, ApplyAck(s), NEW q \in Tracked
  PROVE  KeepsOutcome(q)
<1>1. TrackerTyped /\ AnswersSound /\ EntriesSound /\ q \in Seqs
  BY TypeParts DEF IInv, Tracked
<1>2. CASE sub[s].acking # q
  <2>1. entry'[q] = entry[q]
    BY <1>1, <1>2 DEF ApplyAck, TrackerTyped
  <2> QED
    BY <2>1 DEF KeepsOutcome, Pending
<1>3. CASE sub[s].acking = q
  <2>1. entry'[q] = EntryAck(entry[q], s) /\ q # 0 /\ entry[q] \in Entries
    BY <1>1, <1>3 DEF ApplyAck, TrackerTyped
  <2>2. CASE ~Requires(entry[q], s)
    BY <2>1, <2>2 DEF EntryAck, KeepsOutcome, Pending
  <2>3. CASE Requires(entry[q], s) /\ entry[q].members \ entry[q].acked # {s}
    <3>1. entry'[q] = [entry[q] EXCEPT !.acked = entry[q].acked \cup {s}]
      BY <2>1, <2>3 DEF EntryAck
    <3>2. entry'[q].outcome = "Pending" /\ Pending(q)
      BY <2>1, <2>3, <3>1 DEF Requires, Entries, Pending
    <3> QED
      BY <3>2 DEF KeepsOutcome
  <2>4. CASE Requires(entry[q], s) /\ entry[q].members \ entry[q].acked = {s}
    <3>1. \A t \in entry[q].members : t \in Subscribers /\ (t \in entry[q].acked \/ t = s)
      BY <2>1, <2>4 DEF Entries
    <3>2. q \in sub[s].handed
      BY <1>1, <1>3, <2>1 DEF EntriesSound
    <3>3. Pending(q)
      BY <2>4 DEF Requires, Pending
    <3> QED
      BY <1>1, <1>3, <3>1, <3>2, <3>3 DEF KeepsOutcome, AnswersSound
  <2> QED
    BY <2>2, <2>3, <2>4
<1> QED
  BY <1>2, <1>3

\* No step takes an outcome back, and only the last missing ack, of a member that
\* was handed the message, makes it an Ack.
THEOREM StepKeepsOutcomes ==
  ASSUME IInv, Next, NEW q \in Tracked
  PROVE  KeepsOutcome(q)
<1>0. TrackerTyped /\ PublishersSound /\ q \in Seqs /\ entry \in [Seqs -> Entries]
  BY TypeParts DEF IInv, Tracked, TrackerTyped
<1>a. entry'[q] = entry[q] => KeepsOutcome(q)
  BY DEF KeepsOutcome, Pending
<1>b. \A Q : NackEntries(Q) => KeepsOutcome(q)
  <2> SUFFICES ASSUME NEW Q, NackEntries(Q) PROVE KeepsOutcome(q)
    OBVIOUS
  <2>1. entry'[q] = entry[q] \/ entry'[q] = EntryResolve(entry[q], "Nack")
    BY <1>0 DEF NackEntries
  <2> QED
    BY <2>1, ResolveKeeps
<1>1. ASSUME NEW p \in Publishers, ReserveSeq(p) PROVE KeepsOutcome(q)
  <2>1. write_seq + 1 \in Seqs /\ write_seq + 1 > write_seq
    BY <1>1, TypeParts, TopicAssumption DEF IInv, RingTyped, ReserveSeq, Seqs
  <2>2. q # write_seq + 1
    BY <2>1, UnreservedUnknown
  <2>3. entry'[q] = entry[q]
    BY <1>0, <1>1, <2>2 DEF ReserveSeq
  <2> QED
    BY <1>a, <2>3
<1>2. ASSUME NEW p \in Publishers, RegisterConsensus(p) PROVE KeepsOutcome(q)
  <2>1. entry[pub[p].seq].outcome = "None"
    BY <1>0, <1>2 DEF RegisterConsensus, PublishersSound, NoEntry
  <2>2. entry'[q] = entry[q]
    BY <1>0, <1>2, <2>1 DEF RegisterConsensus, Tracked
  <2> QED
    BY <1>a, <2>2
<1>3. ASSUME NEW p \in Publishers, InsertEntry(p) \/ CommitSlot(p) \/ ResolveOvertaken(p)
      PROVE  KeepsOutcome(q)
  BY <1>a, <1>3 DEF InsertEntry, CommitSlot, ResolveOvertaken, tracker
<1>4. ASSUME NEW s \in Subscribers, NackScan(s) \/ AbandonDelivery(s) PROVE KeepsOutcome(q)
  BY <1>b, <1>4 DEF NackScan, AbandonDelivery
<1>5. ASSUME NEW s \in Subscribers,
             \/ LoadWriteSeq(s) \/ ReadSlot(s) \/ LagBarrier(s) \/ LeaveRegistry(s)
             \/ CommitDelivery(s) \/ Subscribe(s) \/ Drop(s)
      PROVE  KeepsOutcome(q)
  BY <1>a, <1>5 DEF LoadWriteSeq, ReadSlot, LagBarrier, LeaveRegistry, CommitDelivery, Subscribe, Drop,
                    tracker
<1>6. ASSUME NEW s \in Subscribers, Answer(s) PROVE KeepsOutcome(q)
  <2>1. ASSUME NEW t \in Seqs, Ack(s, t) PROVE KeepsOutcome(q)
    BY <1>a, <2>1 DEF Ack, tracker
  <2>2. ASSUME NEW t \in Seqs, Nack(s, t) PROVE KeepsOutcome(q)
    BY <1>b, <2>2 DEF Nack
  <2> QED
    BY <1>6, <2>1, <2>2 DEF Answer
<1>7. ASSUME NEW t \in Seqs, Expire(t) PROVE KeepsOutcome(q)
  BY <1>a, <1>7 DEF Expire
<1>8. ASSUME Close PROVE KeepsOutcome(q)
  BY <1>a, <1>8 DEF Close, tracker
<1>9. ASSUME CloseAll PROVE KeepsOutcome(q)
  <2>1. entry'[q] = entry[q] \/ entry'[q] = EntryResolve(entry[q], "TopicClosed")
    BY <1>0, <1>9 DEF CloseAll
  <2> QED
    BY <2>1, ResolveKeeps
<1>10. ASSUME Resolving PROVE KeepsOutcome(q)
  <2>1. PICK t \in Seqs, o \in {"Nack", "TimedOut"} : ResolveDetached(t, o)
    BY <1>10 DEF Resolving
  <2>2. entry'[q] = entry[q] \/ entry'[q] = EntryResolve(entry[q], o)
    BY <1>0, <2>1 DEF ResolveDetached
  <2> QED
    BY <2>2, ResolveKeeps
<1> QED
  BY <1>1, <1>2, <1>3, <1>4, <1>5, <1>6, <1>7, <1>8, <1>9, <1>10, AckKeeps
  DEF Next, PublisherStep, SubscriberStep

\* The outcome of a tracked publish is final and an Ack is the word of every
\* member, each of which was handed the message, whatever acks, nacks, timeouts,
\* overtaking publishers and closing race for the entry.
THEOREM OutcomesAreFinal == Spec => OutcomeFinal
<1>1. ASSUME IInv, [Next]_vars
      PROVE  [\A q \in Tracked :
                /\ ~Pending(q) => entry'[q] = entry[q]
                /\ Pending(q) /\ entry'[q].outcome = "Ack" =>
                     \A s \in entry[q].members :
                       q \in sub[s].handed /\ (s \in entry[q].acked \/ sub[s].acking = q)]_vars
  BY <1>1, StepKeepsOutcomes DEF KeepsOutcome
<1> QED
  BY Invariance, <1>1, PTL DEF Spec, OutcomeFinal
-----------------------------------------------------------------------------
(* No pending publish is stuck.                                            *)

\* A pending publish still misses an answer and is in the map, on its way into
\* it, or taken out of it by a thread that is about to resolve it.
Located(q) ==
  /\ entry[q].members \ entry[q].acked # {}
  /\ \/ q \in entries
     \/ \E p \in Publishers : pub[p].pc = "insert" /\ pub[p].seq = q
     \/ \E d \in detached : d[1] = q
PendingLocated == \A q \in Seqs : Pending(q) => Located(q)

\* p has reserved q and not yet committed it.
Uncommitted(p, q) == pub[p].pc \in {"register", "insert", "commit"} /\ pub[p].seq = q

\* A slot holds sequences of its own residue only, and the slot of a reserved
\* sequence has reached it unless its publisher is still on the way.
RingHonest ==
  /\ \A i \in 0 .. Capacity - 1 : slots[i] # 0 => SlotOf(slots[i]) = i
  /\ \A q \in 1 .. write_seq :
       slots[SlotOf(q)] >= q \/ \E p \in Publishers : Uncommitted(p, q)

\* A parked subscriber has its waker in the ring, holds no permit, and its
\* message is not there to be read.
Asleep(s) ==
  /\ sub[s].armed /\ ~ring_closed /\ sub[s].permitted = 0
  /\ slots[SlotOf(sub[s].read_seq)] < sub[s].read_seq
SleepersSound == \A s \in Subscribers : sub[s].pc = "parked" => Asleep(s)

AttendInv == PendingLocated /\ RingHonest /\ SleepersSound

\* Quotient and remainder, for the mask of the ring.
LEMMA DivisionParts ==
  ASSUME NEW a \in Nat, NEW c \in Nat \ {0}
  PROVE  a \div c \in Nat /\ a = c * (a \div c) + (a % c)
BY Z3

\* Multiplication by a positive factor is monotone.
LEMMA TimesMonotone ==
  ASSUME NEW a \in Nat, NEW b \in Nat, a <= b, NEW c \in Nat \ {0}
  PROVE  c * a <= c * b /\ c * a \in Nat /\ c * b \in Nat
BY Z3

\* Two sequences that share a slot are a whole ring apart.
LEMMA SameSlotApart ==
  ASSUME NEW v \in Nat \ {0}, NEW q \in Nat \ {0}, SlotOf(v) = SlotOf(q), v > q
  PROVE  v >= q + Capacity
<1> DEFINE a == v - 1
           b == q - 1
           m == a \div Capacity
           n == b \div Capacity
<1>1. a \in Nat /\ b \in Nat /\ Capacity \in Nat \ {0} /\ a > b /\ v = a + 1 /\ q = b + 1
  BY TopicAssumption
<1>2. a % Capacity = b % Capacity
  BY DEF SlotOf
<1>3. m \in Nat /\ a = Capacity * m + (a % Capacity)
  BY <1>1, DivisionParts
<1>4. n \in Nat /\ b = Capacity * n + (b % Capacity)
  BY <1>1, DivisionParts
<1>5. b % Capacity \in Nat
  BY <1>1
<1> DEFINE r == b % Capacity
           cm == Capacity * m
           cn == Capacity * n
<1>6. a = cm + r /\ b = cn + r /\ r \in Nat
  BY <1>2, <1>3, <1>4, <1>5
<1> HIDE DEF a, b, m, n, r
<1>7. m > n
  <2>1. CASE m <= n
    <3>1. cm <= cn /\ cm \in Nat /\ cn \in Nat
      BY <1>1, <1>3, <1>4, <2>1, TimesMonotone
    <3> HIDE DEF cm, cn
    <3> QED
      BY <1>1, <1>6, <3>1
  <2> QED
    BY <1>3, <1>4, <2>1
<1>8. Capacity * (n + 1) <= cm /\ Capacity * (n + 1) \in Nat /\ cm \in Nat
  BY <1>1, <1>3, <1>4, <1>7, TimesMonotone
<1>9. Capacity * (n + 1) = cn + Capacity /\ cn \in Nat
  BY <1>1, <1>4, Z3
<1> HIDE DEF cm, cn
<1> QED
  BY <1>1, <1>6, <1>8, <1>9

\* Only the threads that work on an entry move a pending publish about.
LEMMA LocatedAround ==
  ASSUME PendingLocated, UNCHANGED <<entry, entries, detached>>,
         \A p \in Publishers : pub[p].pc = "insert" => pub'[p] = pub[p]
  PROVE  PendingLocated'
BY DEF PendingLocated, Located, Pending

\* Nacking entries under the map's lock leaves no pending one behind.
LEMMA LocatedNack ==
  ASSUME TrackerTyped, PendingLocated, NEW Q, NackEntries(Q), UNCHANGED <<detached, pub>>
  PROVE  PendingLocated'
<1> SUFFICES ASSUME NEW q \in Seqs, Pending(q)' PROVE Located(q)'
  BY DEF PendingLocated
<1>1. q \notin Q /\ entry'[q] = entry[q]
  BY DEF NackEntries, EntryResolve, Resolved, Pending
<1>2. Located(q)
  BY <1>1 DEF PendingLocated, Pending
<1> QED
  BY <1>1, <1>2 DEF Located, NackEntries

\* What leaves the map for a later resolution is detached.
LEMMA LocatedDetach ==
  ASSUME PendingLocated, NEW Q, NEW o, Detach(Q, o), UNCHANGED entry,
         \A p \in Publishers : pub[p].pc = "insert" => pub'[p] = pub[p]
  PROVE  PendingLocated'
<1> SUFFICES ASSUME NEW q \in Seqs, Pending(q) PROVE Located(q)'
  BY DEF PendingLocated, Pending
<1>1. Located(q)
  BY DEF PendingLocated
<1>2. CASE q \in entries /\ q \in Q
  <2>1. <<q, o>> \in detached' /\ <<q, o>>[1] = q
    BY <1>2 DEF Detach
  <2> QED
    BY <1>1, <2>1 DEF Located
<1>3. CASE ~(q \in entries /\ q \in Q)
  <2>1. (q \in entries => q \in entries') /\ detached \subseteq detached'
    BY <1>3 DEF Detach
  <2> QED
    BY <1>1, <2>1 DEF Located
<1> QED
  BY <1>2, <1>3

\* A publisher's own steps carry its publish from the snapshot into the map.
LEMMA LocatedPublish ==
  ASSUME IInv, PendingLocated, NEW p \in Publishers, ReserveSeq(p) \/ PublisherStep(p)
  PROVE  PendingLocated'
<1>0. /\ TrackerTyped /\ RingTyped /\ ThreadsTyped /\ PublishersSound /\ EntriesSound
      /\ pub \in [Publishers -> PublisherStates] /\ entry \in [Seqs -> Entries]
  BY TypeParts DEF IInv, TrackerTyped, ThreadsTyped
<1>1. CASE ReserveSeq(p)
  <2> SUFFICES ASSUME NEW q \in Seqs, Pending(q)' PROVE Located(q)'
    BY DEF PendingLocated
  <2>1. write_seq + 1 \in Seqs /\ entry[write_seq + 1] = NoEntry
    BY <1>0, <1>1, TopicAssumption DEF ReserveSeq, RingTyped, Seqs, EntriesSound
  <2>2. q # write_seq + 1 /\ entry'[q] = entry[q]
    BY <1>0, <1>1, <2>1 DEF ReserveSeq, NoEntry, Pending, Entries
  <2>3. Located(q)
    BY <2>2 DEF PendingLocated, Pending
  <2>4. \A o \in Publishers : pub[o].pc = "insert" => pub'[o] = pub[o]
    BY <1>0, <1>1 DEF ReserveSeq
  <2> QED
    BY <1>1, <2>2, <2>3, <2>4 DEF Located, ReserveSeq
<1>2. CASE RegisterConsensus(p)
  <2> SUFFICES ASSUME NEW q \in Seqs, Pending(q)' PROVE Located(q)'
    BY DEF PendingLocated
  <2>1. \A o \in Publishers : pub[o].pc = "insert" => pub'[o] = pub[o]
    BY <1>0, <1>2 DEF RegisterConsensus
  <2>2. CASE q # pub[p].seq
    <3>1. entry'[q] = entry[q]
      BY <1>0, <1>2, <2>2 DEF RegisterConsensus
    <3>2. Located(q)
      BY <3>1 DEF PendingLocated, Pending
    <3>3. UNCHANGED <<entries, detached>>
      BY <1>2 DEF RegisterConsensus
    <3> QED
      BY <2>1, <3>1, <3>2, <3>3 DEF Located
  <2>3. CASE q = pub[p].seq
    <3>1. entry[q] = [NoEntry EXCEPT !.members = registry] /\ entry[q].acked = {}
      BY <1>0, <1>2, <2>3 DEF RegisterConsensus, PublishersSound, NoEntry
    <3>2. ~closed /\ entry[q].members # {}
      BY <1>0, <1>2, <2>3 DEF RegisterConsensus, Resolved, Pending
    <3>3. /\ entry'[q].members = entry[q].members /\ entry'[q].acked = {}
          /\ pub'[p].pc = "insert" /\ pub'[p].seq = q
      BY <1>0, <1>2, <2>3, <3>1, <3>2 DEF RegisterConsensus, PublisherStates, Entries
    <3> QED
      BY <3>2, <3>3 DEF Located
  <2> QED
    BY <2>2, <2>3
<1>3. CASE InsertEntry(p)
  <2>1. ASSUME NEW q \in Seqs, Pending(q) PROVE Located(q)'
    <3>1. Located(q)
      BY <2>1 DEF PendingLocated
    <3>2. \A o \in Publishers : o # p => pub'[o] = pub[o]
      BY <1>0, <1>3 DEF InsertEntry
    <3> QED
      BY <1>3, <3>1, <3>2 DEF Located, InsertEntry
  <2> QED
    BY <1>3, <2>1 DEF PendingLocated, InsertEntry, Pending
<1>4. CASE CommitSlot(p)
  <2>1. \A o \in Publishers : pub[o].pc = "insert" => pub'[o] = pub[o]
    BY <1>0, <1>4 DEF CommitSlot
  <2> QED
    BY <1>4, <2>1, LocatedAround DEF CommitSlot, tracker
<1>5. CASE ResolveOvertaken(p)
  <2>1. \A o \in Publishers : pub[o].pc = "insert" => pub'[o] = pub[o]
    BY <1>0, <1>5 DEF ResolveOvertaken
  <2>2. Detach({pub[p].seq}, "Nack") /\ UNCHANGED entry
    BY <1>5 DEF ResolveOvertaken
  <2> QED
    BY <2>1, <2>2, LocatedDetach
<1> QED
  BY <1>1, <1>2, <1>3, <1>4, <1>5 DEF PublisherStep

\* An ack that does not complete the consensus leaves another one missing.
LEMMA LocatedAck ==
  ASSUME IInv, PendingLocated, NEW s \in Subscribers, ApplyAck(s)
  PROVE  PendingLocated'
<1>0. TrackerTyped /\ entry \in [Seqs -> Entries]
  BY TypeParts DEF IInv, TrackerTyped
<1> SUFFICES ASSUME NEW q \in Seqs, Pending(q)' PROVE Located(q)'
  BY DEF PendingLocated
<1>1. UNCHANGED <<detached, pub>>
  BY DEF ApplyAck
<1>2. CASE q # sub[s].acking
  <2>1. entry'[q] = entry[q]
    BY <1>0, <1>2 DEF ApplyAck
  <2>2. q \in entries => q \in entries'
    BY <1>2 DEF ApplyAck, AfterAck
  <2> QED
    BY <1>1, <2>1, <2>2 DEF PendingLocated, Located, Pending
<1>3. CASE q = sub[s].acking
  <2>1. entry'[q] = EntryAck(entry[q], s) /\ entries' = AfterAck(q, EntryAck(entry[q], s))
    BY <1>0, <1>3 DEF ApplyAck
  <2>2. EntryAck(entry[q], s).outcome = "Pending"
    BY <2>1 DEF Pending
  <2>3. entries' = entries
    BY <2>1, <2>2 DEF AfterAck
  <2>4. Pending(q) /\ entry'[q].members \ entry'[q].acked # {}
    <3>1. CASE ~Requires(entry[q], s)
      <4>1. entry'[q] = entry[q]
        BY <2>1, <3>1 DEF EntryAck
      <4> QED
        BY <4>1 DEF PendingLocated, Located, Pending
    <3>2. CASE Requires(entry[q], s) /\ entry[q].members \ entry[q].acked = {s}
      <4>1. EntryAck(entry[q], s) = Resolved("Ack")
        BY <3>2 DEF EntryAck
      <4> QED
        BY <2>2, <4>1 DEF Resolved
    <3>3. CASE Requires(entry[q], s) /\ entry[q].members \ entry[q].acked # {s}
      <4>1. entry'[q] = [entry[q] EXCEPT !.acked = entry[q].acked \cup {s}]
        BY <2>1, <3>3 DEF EntryAck
      <4>2. entry'[q].members = entry[q].members /\ entry'[q].acked = entry[q].acked \cup {s}
        BY <1>0, <4>1 DEF Entries
      <4>3. Pending(q) /\ s \in entry[q].members \ entry[q].acked
        BY <3>3 DEF Requires, Pending
      <4> QED
        BY <3>3, <4>2, <4>3
    <3> QED
      BY <3>1, <3>2, <3>3
  <2> QED
    BY <1>1, <2>3, <2>4 DEF PendingLocated, Located
<1> QED
  BY <1>2, <1>3

\* Every step keeps a pending publish located.
LEMMA LocatedStep ==
  ASSUME IInv, PendingLocated, Next
  PROVE  PendingLocated'
<1>0. TrackerTyped /\ entry \in [Seqs -> Entries]
  BY TypeParts DEF IInv, TrackerTyped
<1>1. ASSUME NEW s \in Subscribers,
             \/ LoadWriteSeq(s) \/ ReadSlot(s) \/ LagBarrier(s) \/ LeaveRegistry(s)
             \/ CommitDelivery(s) \/ Subscribe(s) \/ Drop(s) \/ \E q \in Seqs : Ack(s, q)
      PROVE  PendingLocated'
  <2>1. UNCHANGED <<entry, entries, detached, pub>>
    BY <1>1 DEF LoadWriteSeq, ReadSlot, LagBarrier, LeaveRegistry, CommitDelivery, Subscribe, Drop,
                Ack, tracker
  <2> QED
    BY <2>1, LocatedAround
<1>2. ASSUME NEW s \in Subscribers, NackScan(s) \/ AbandonDelivery(s) \/ \E q \in Seqs : Nack(s, q)
      PROVE  PendingLocated'
  <2>1. PICK Q : NackEntries(Q) /\ UNCHANGED <<detached, pub>>
    BY <1>2 DEF NackScan, AbandonDelivery, Nack
  <2> QED
    BY <1>0, <2>1, LocatedNack
<1>3. ASSUME NEW q \in Seqs, Expire(q) PROVE PendingLocated'
  BY <1>3, LocatedDetach DEF Expire
<1>4. CASE Close
  BY <1>4, LocatedAround DEF Close, tracker
<1>5. CASE CloseAll
  <2> SUFFICES ASSUME NEW q \in Seqs, Pending(q)' PROVE Located(q)'
    BY DEF PendingLocated
  <2>1. q \notin entries /\ entry'[q] = entry[q]
    BY <1>5 DEF CloseAll, EntryResolve, Resolved, Pending
  <2> QED
    BY <1>5, <2>1 DEF CloseAll, PendingLocated, Located, Pending
<1>6. CASE Resolving
  <2>1. PICK t \in Seqs, o \in {"Nack", "TimedOut"} : ResolveDetached(t, o)
    BY <1>6 DEF Resolving
  <2> SUFFICES ASSUME NEW q \in Seqs, Pending(q)' PROVE Located(q)'
    BY DEF PendingLocated
  <2>2. q # t /\ entry'[q] = entry[q]
    BY <1>0, <2>1 DEF ResolveDetached, EntryResolve, Resolved, Pending
  <2>3. Located(q)
    BY <2>2 DEF PendingLocated, Pending
  <2>4. \A d \in detached : d[1] = q => d \in detached'
    BY <2>1, <2>2 DEF ResolveDetached
  <2> QED
    BY <2>1, <2>2, <2>3, <2>4 DEF Located, ResolveDetached
<1> QED
  BY <1>1, <1>2, <1>3, <1>4, <1>5, <1>6, LocatedPublish, LocatedAck
  DEF Next, SubscriberStep, Answer

\* Slots and write position stay put and no uncommitted publisher leaves.
LEMMA RingAround ==
  ASSUME RingHonest, UNCHANGED <<slots, write_seq>>,
         \A p \in Publishers : \A q \in 1 .. write_seq : Uncommitted(p, q) => Uncommitted(p, q)'
  PROVE  RingHonest'
BY DEF RingHonest, SlotOf

\* commit_slot brings a slot up to its sequence and never takes it back.
LEMMA RingCommit ==
  ASSUME IInv, RingHonest, NEW p \in Publishers, CommitSlot(p)
  PROVE  /\ RingHonest'
         /\ \A i \in 0 .. Capacity - 1 : slots'[i] >= slots[i]
<1>0. /\ RingTyped /\ PublishersSound /\ pub \in [Publishers -> PublisherStates]
      /\ slots \in [0 .. Capacity - 1 -> 0 .. write_seq] /\ write_seq \in Nat
  BY TypeParts, TopicAssumption DEF IInv, RingTyped, ThreadsTyped
<1> DEFINE q == pub[p].seq
           j == SlotOf(q)
<1>1. q \in 1 .. write_seq /\ q \in Nat \ {0} /\ j \in 0 .. Capacity - 1
  BY <1>0, SlotInRing DEF CommitSlot, PublishersSound
<1>2. slots' = (IF slots[j] < q THEN [slots EXCEPT ![j] = q] ELSE slots) /\ write_seq' = write_seq
  BY DEF CommitSlot, CanCommit
<1>3. \A o \in Publishers : o # p => pub'[o] = pub[o]
  BY <1>0 DEF CommitSlot
<1>4. q = pub[p].seq
  OBVIOUS
<1>5. SlotOf(q) = j
  OBVIOUS
<1> HIDE DEF q, j
<1>6. /\ \A i \in 0 .. Capacity - 1 : slots[i] \in Nat /\ slots'[i] \in Nat /\ slots'[i] >= slots[i]
      /\ slots'[j] >= q
      /\ \A i \in 0 .. Capacity - 1 : slots'[i] = slots[i] \/ (i = j /\ slots'[i] = q)
  BY <1>0, <1>1, <1>2
<1>7. \A i \in 0 .. Capacity - 1 : slots'[i] # 0 => SlotOf(slots'[i]) = i
  BY <1>5, <1>6 DEF RingHonest
<1>8. ASSUME NEW r \in 1 .. write_seq
      PROVE  slots'[SlotOf(r)] >= r \/ \E o \in Publishers : Uncommitted(o, r)'
  <2>1. SlotOf(r) \in 0 .. Capacity - 1 /\ r \in Nat
    BY <1>0, SlotInRing
  <2>2. CASE r = q
    BY <1>5, <1>6, <2>2
  <2>3. CASE r # q /\ slots[SlotOf(r)] >= r
    <3> DEFINE k == SlotOf(r)
    <3>1. slots[k] \in Nat /\ slots'[k] \in Nat /\ slots'[k] >= slots[k] /\ slots[k] >= r
      BY <1>6, <2>1, <2>3
    <3>2. slots'[SlotOf(r)] = slots'[k]
      OBVIOUS
    <3> HIDE DEF k
    <3> QED
      BY <2>1, <3>1, <3>2
  <2>4. CASE r # q /\ ~(slots[SlotOf(r)] >= r)
    <3>1. PICK o \in Publishers : Uncommitted(o, r)
      BY <2>4 DEF RingHonest
    <3>2. o # p
      BY <1>4, <2>4, <3>1 DEF Uncommitted
    <3> QED
      BY <1>3, <3>1, <3>2 DEF Uncommitted
  <2> QED
    BY <2>2, <2>3, <2>4
<1>9. \A i : SlotOf(i)' = SlotOf(i)
  BY DEF SlotOf
<1>10. \A r \in 1 .. write_seq' : slots'[SlotOf(r)] >= r \/ \E o \in Publishers : Uncommitted(o, r)'
  BY <1>2, <1>8
<1>11. RingHonest'
  BY <1>7, <1>9, <1>10 DEF RingHonest, SlotOf
<1> QED
  BY <1>6, <1>11

\* Every step keeps the ring honest.
LEMMA RingStep ==
  ASSUME IInv, RingHonest, Next
  PROVE  RingHonest'
<1>0. /\ RingTyped /\ PublishersSound /\ pub \in [Publishers -> PublisherStates]
      /\ slots \in [0 .. Capacity - 1 -> 0 .. write_seq] /\ write_seq \in Nat
  BY TypeParts, TopicAssumption DEF IInv, RingTyped, ThreadsTyped
<1>1. ASSUME NEW p \in Publishers, ReserveSeq(p) PROVE RingHonest'
  <2>0. PICK w : w = write_seq + 1
    OBVIOUS
  <2>1. /\ slots' = slots /\ write_seq' = w /\ pub[p].pc = "idle"
        /\ pub'[p].pc \in {"register", "commit"} /\ pub'[p].seq = w
        /\ \A o \in Publishers : o # p => pub'[o] = pub[o]
    BY <1>0, <1>1, <2>0 DEF ReserveSeq
  <2>2. Uncommitted(p, w)'
    BY <2>1 DEF Uncommitted
  <2>3. ASSUME NEW q \in 1 .. write_seq
        PROVE  slots[SlotOf(q)] >= q \/ \E o \in Publishers : Uncommitted(o, q)'
    BY <2>1, <2>3 DEF RingHonest, Uncommitted
  <2>4. \A q \in 1 .. w : q = w \/ q \in 1 .. write_seq
    BY <1>0, <2>0
  <2>5. ASSUME NEW q \in 1 .. w
        PROVE  slots[SlotOf(q)] >= q \/ \E o \in Publishers : Uncommitted(o, q)'
    <3>1. CASE q = w
      BY <2>2, <3>1
    <3>2. CASE q \in 1 .. write_seq
      BY <2>3, <3>2
    <3> QED
      BY <2>4, <3>1, <3>2
  <2>6. \A i \in 0 .. Capacity - 1 : slots[i] # 0 => SlotOf(slots[i]) = i
    BY DEF RingHonest
  <2> QED
    BY <2>1, <2>5, <2>6 DEF RingHonest, SlotOf
<1>2. ASSUME NEW p \in Publishers, RegisterConsensus(p) \/ InsertEntry(p) \/ ResolveOvertaken(p)
      PROVE  RingHonest'
  <2>1. UNCHANGED <<slots, write_seq>>
    BY <1>2 DEF RegisterConsensus, InsertEntry, ResolveOvertaken, ring
  <2>2. \A o \in Publishers : o # p => pub'[o] = pub[o]
    BY <1>0, <1>2 DEF RegisterConsensus, InsertEntry, ResolveOvertaken
  <2>3. \/ pub[p].pc = "overtaken"
        \/ pub'[p].pc \in {"insert", "commit"} /\ pub'[p].seq = pub[p].seq
    BY <1>0, <1>2 DEF RegisterConsensus, InsertEntry, ResolveOvertaken, PublisherStates
  <2>4. \A o \in Publishers : \A q \in 1 .. write_seq : Uncommitted(o, q) => Uncommitted(o, q)'
    BY <2>2, <2>3 DEF Uncommitted
  <2> QED
    BY <2>1, <2>4, RingAround
<1>3. ASSUME NEW s \in Subscribers, Subscribe(s) \/ SubscriberStep(s) \/ Answer(s) \/ Drop(s)
      PROVE  RingHonest'
  <2>1. UNCHANGED <<slots, write_seq, pub>>
    BY <1>3 DEF SubscriberStep, Answer, Subscribe, Drop, LoadWriteSeq, ReadSlot, LagBarrier,
                LeaveRegistry, NackScan, CommitDelivery, AbandonDelivery, ApplyAck, Ack, Nack, ring
  <2> QED
    BY <2>1, RingAround DEF Uncommitted
<1>4. CASE Close \/ CloseAll \/ Resolving \/ \E q \in Seqs : Expire(q)
  <2>1. UNCHANGED <<slots, write_seq, pub>>
    BY <1>4 DEF Close, CloseAll, Resolving, ResolveDetached, Expire, ring
  <2> QED
    BY <2>1, RingAround DEF Uncommitted
<1> QED
  BY <1>1, <1>2, <1>3, <1>4, RingCommit DEF Next, PublisherStep

\* Nobody falls asleep and the ring stays as it is.
LEMMA SleepersAround ==
  ASSUME SleepersSound, UNCHANGED <<slots, ring_closed>>,
         \A s \in Subscribers : sub'[s].pc = "parked" =>
           sub[s].pc = "parked" /\ sub'[s].armed = sub[s].armed
           /\ sub'[s].permitted = sub[s].permitted /\ sub'[s].read_seq = sub[s].read_seq
  PROVE  SleepersSound'
BY DEF SleepersSound, Asleep, SlotOf

\* The step of one subscriber that does not fall asleep.
LEMMA OneStaysAwake ==
  ASSUME ThreadsTyped, SleepersSound, UNCHANGED <<slots, ring_closed>>, NEW s \in Subscribers, NEW t,
         sub' = [sub EXCEPT ![s] = t], t.pc # "parked"
  PROVE  SleepersSound'
<1>1. \A r \in Subscribers : sub'[r].pc = "parked" => sub'[r] = sub[r]
  BY DEF ThreadsTyped
<1> QED
  BY <1>1, SleepersAround

\* One subscriber parks because its message is not there.
LEMMA OneFallsAsleep ==
  ASSUME ThreadsTyped, SleepersSound, UNCHANGED <<slots, ring_closed>>, NEW s \in Subscribers,
         NEW a \in BOOLEAN, NotReady(s, a), sub[s].permitted = 0,
         slots[SlotOf(sub[s].read_seq)] < sub[s].read_seq
  PROVE  SleepersSound'
<1>0. sub \in [Subscribers -> SubscriberStates]
  BY DEF ThreadsTyped
<1>1. \A r \in Subscribers : r # s => sub'[r] = sub[r]
  BY <1>0 DEF NotReady
<1>2. /\ sub'[s].permitted = 0 /\ sub'[s].read_seq = sub[s].read_seq
      /\ sub'[s].armed = (a /\ ~ring_closed)
      /\ sub'[s].pc = CASE ~a -> "poll" [] a /\ ring_closed -> "ended" [] OTHER -> "parked"
  BY <1>0 DEF NotReady, SubscriberStates
<1>3. ASSUME sub'[s].pc = "parked" PROVE a /\ ~ring_closed
  <2>1. CASE ~a
    BY <1>2, <1>3, <2>1
  <2>2. CASE a /\ ring_closed
    BY <1>2, <1>3, <2>2
  <2> QED
    BY <2>1, <2>2
<1>4. ASSUME sub'[s].pc = "parked" PROVE Asleep(s)'
  BY <1>2, <1>3, <1>4 DEF Asleep, SlotOf
<1>5. ASSUME NEW r \in Subscribers, r # s, sub'[r].pc = "parked" PROVE Asleep(r)'
  BY <1>1, <1>5 DEF SleepersSound, Asleep, SlotOf
<1> QED
  BY <1>4, <1>5 DEF SleepersSound

\* A poll that lags does not fall asleep.
LEMMA LaggedAwake ==
  ASSUME ThreadsTyped, SleepersSound, UNCHANGED <<slots, ring_closed>>, NEW s \in Subscribers,
         Lagged(s, write_seq)
  PROVE  SleepersSound'
<1>0. sub \in [Subscribers -> SubscriberStates]
  BY DEF ThreadsTyped
<1>1. \A r \in Subscribers : r # s => sub'[r] = sub[r]
  BY <1>0 DEF Lagged
<1>2. sub'[s].pc # "parked"
  BY <1>0 DEF Lagged, SubscriberStates
<1> QED
  BY <1>1, <1>2, SleepersAround

\* Register the waker, then look: a reader that is ahead of the ring sleeps.
LEMMA SleepersLoad ==
  ASSUME IInv, SleepersSound, NEW s \in Subscribers, LoadWriteSeq(s)
  PROVE  SleepersSound'
<1>0. /\ sub \in [Subscribers -> SubscriberStates] /\ write_seq \in Nat
      /\ SubscriberSound(s) /\ slots \in [0 .. Capacity - 1 -> 0 .. write_seq] /\ ThreadsTyped
      /\ sub[s].read_seq \in Nat
  <2>1. /\ sub \in [Subscribers -> SubscriberStates] /\ write_seq \in Nat
        /\ SubscriberSound(s) /\ slots \in [0 .. Capacity - 1 -> 0 .. write_seq] /\ ThreadsTyped
    BY TopicAssumption, TypeParts DEF IInv, RingTyped, ThreadsTyped, SubscribersSound
  <2>2. sub[s] \in SubscriberStates
    BY <2>1
  <2> QED
    BY <2>1, <2>2, TopicAssumption DEF SubscriberStates
<1>1. /\ sub[s].status = "live" /\ sub[s].permitted = 0 /\ sub[s].pc = "poll"
      /\ UNCHANGED <<slots, ring_closed>>
  BY DEF LoadWriteSeq
<1>2. CASE sub[s].read_seq > write_seq
  <2>0. ~Behind(s, write_seq)
    BY <1>0, <1>2, TopicAssumption DEF Behind
  <2>1. NotReady(s, TRUE)
    BY <1>2, <2>0 DEF LoadWriteSeq
  <2>2. sub[s].read_seq \in Nat \ {0}
    BY <1>0, <1>2
  <2>3. slots[SlotOf(sub[s].read_seq)] \in 0 .. write_seq
    BY <1>0, <2>2, SlotInRing
  <2>4. slots[SlotOf(sub[s].read_seq)] < sub[s].read_seq
    BY <1>0, <1>2, <2>3
  <2> QED
    BY <1>0, <1>1, <2>1, <2>4, TRUE \in BOOLEAN, OneFallsAsleep
<1>3. CASE ~(sub[s].read_seq > write_seq) /\ Behind(s, write_seq)
  <2>1. Lagged(s, write_seq)
    BY <1>3 DEF LoadWriteSeq
  <2> QED
    BY <1>0, <1>1, <2>1, LaggedAwake
<1>4. CASE ~(sub[s].read_seq > write_seq) /\ ~Behind(s, write_seq)
  <2>1. sub' = [sub EXCEPT ![s] = [sub[s] EXCEPT !.pc = "slot", !.armed = TRUE]]
    BY <1>0, <1>4 DEF LoadWriteSeq
  <2>2. [sub[s] EXCEPT !.pc = "slot", !.armed = TRUE].pc = "slot"
    BY <1>0 DEF SubscriberStates
  <2> QED
    BY <1>0, <1>1, <2>1, <2>2, OneStaysAwake
<1> QED
  BY <1>2, <1>3, <1>4

\* The slot's lock: a newer sequence is a whole ring ahead, so a reader that
\* finds one has lagged, and only one that finds an older one sleeps.
LEMMA SleepersRead ==
  ASSUME IInv, RingHonest, SleepersSound, NEW s \in Subscribers, ReadSlot(s)
  PROVE  SleepersSound'
<1>0. /\ sub \in [Subscribers -> SubscriberStates] /\ write_seq \in Nat
      /\ SubscriberSound(s) /\ slots \in [0 .. Capacity - 1 -> 0 .. write_seq] /\ ThreadsTyped
  BY TopicAssumption, TypeParts DEF IInv, RingTyped, ThreadsTyped, SubscribersSound
<1> DEFINE q == sub[s].read_seq
           held == slots[SlotOf(q)]
<1>1. /\ sub[s].permitted = 0 /\ UNCHANGED <<slots, ring_closed>>
      /\ q \in 1 .. write_seq /\ q \in Nat \ {0}
  BY <1>0 DEF ReadSlot, SubscriberSound, SubscriberStates
<1>2. held \in 0 .. write_seq /\ held \in Nat
  BY <1>0, <1>1, SlotInRing
<1>3. CASE held = q
  <2>0. ~(held > q)
    BY <1>1, <1>3
  <2>1. sub' = [sub EXCEPT ![s] = [sub[s] EXCEPT !.permitted = q, !.pc = "poll", !.armed = FALSE]]
    BY <1>0, <1>3, <2>0 DEF ReadSlot
  <2>2. [sub[s] EXCEPT !.permitted = q, !.pc = "poll", !.armed = FALSE].pc = "poll"
    BY <1>0 DEF SubscriberStates
  <2> QED
    BY <1>0, <1>1, <2>1, <2>2, OneStaysAwake
<1>4. CASE held # q /\ held > q /\ Behind(s, write_seq)
  <2>1. Lagged(s, write_seq)
    BY <1>4 DEF ReadSlot
  <2> QED
    BY <1>0, <1>1, <2>1, LaggedAwake
<1>5. CASE held # q /\ ~(held > q /\ Behind(s, write_seq))
  <2>1. NotReady(s, sub[s].armed) /\ sub[s].armed \in BOOLEAN
    BY <1>0, <1>5 DEF ReadSlot, SubscriberStates
  <2>2. ASSUME held > q PROVE Behind(s, write_seq)
    <3>1. SlotOf(held) = SlotOf(q)
      BY <1>1, <1>2, <2>2, SlotInRing DEF RingHonest
    <3>2. held \in Nat \ {0}
      BY <1>1, <1>2, <2>2
    <3>3. held >= q + Capacity
      BY <1>1, <2>2, <3>1, <3>2, SameSlotApart
    <3> QED
      BY <1>0, <1>1, <1>2, <3>3, TopicAssumption DEF Behind
  <2>3. held < q
    BY <1>1, <1>2, <1>5, <2>2
  <2> QED
    BY <1>0, <1>1, <2>1, <2>3, OneFallsAsleep
<1> QED
  BY <1>3, <1>4, <1>5

\* wake_all reaches every sleeper: its waker is in the ring.
LEMMA WakeReachesAll ==
  ASSUME ThreadsTyped, SleepersSound, WakeAll
  PROVE  SleepersSound'
<1>0. sub \in [Subscribers -> SubscriberStates]
  BY DEF ThreadsTyped
<1>1. ASSUME NEW s \in Subscribers PROVE sub'[s].pc # "parked"
  <2>0. sub[s] \in SubscriberStates
    BY <1>0
  <2>1. CASE sub[s].armed
    <3>1. sub'[s] = [sub[s] EXCEPT !.armed = FALSE, !.pc = IF sub[s].pc = "parked" THEN "poll" ELSE sub[s].pc]
      BY <2>1, Zenon DEF WakeAll
    <3> QED
      BY <2>0, <3>1 DEF SubscriberStates
  <2>2. CASE ~sub[s].armed
    <3>1. sub'[s] = sub[s]
      BY <2>2, Zenon DEF WakeAll
    <3> QED
      BY <2>2, <3>1 DEF SleepersSound, Asleep
  <2> QED
    BY <2>1, <2>2
<1> QED
  BY <1>1 DEF SleepersSound

\* Every step keeps the sleepers' wakers and their reason to sleep.
LEMMA SleepersStep ==
  ASSUME IInv, RingHonest, SleepersSound, Next
  PROVE  SleepersSound'
<1>0. ThreadsTyped /\ sub \in [Subscribers -> SubscriberStates]
  BY TypeParts DEF IInv, ThreadsTyped
<1>1. ASSUME UNCHANGED <<sub, slots, ring_closed>> PROVE SleepersSound'
  BY <1>1, SleepersAround
<1>2. ASSUME NEW p \in Publishers, ReserveSeq(p) \/ PublisherStep(p) PROVE SleepersSound'
  <2>1. CASE CommitSlot(p)
    BY <1>0, <2>1, WakeReachesAll DEF CommitSlot
  <2>2. CASE ~CommitSlot(p)
    BY <1>1, <1>2, <2>2 DEF PublisherStep, ReserveSeq, RegisterConsensus, InsertEntry, ResolveOvertaken,
                            ring
  <2> QED
    BY <2>1, <2>2
<1>3. ASSUME NEW s \in Subscribers, LagBarrier(s) \/ LeaveRegistry(s) \/ NackScan(s)
      PROVE  SleepersSound'
  <2>1. UNCHANGED <<slots, ring_closed>> /\ \A r \in Subscribers : r # s => sub'[r] = sub[r]
    BY <1>0, <1>3 DEF LagBarrier, LeaveRegistry, NackScan, ring
  <2>2. sub'[s].pc # "parked"
    BY <1>0, <1>3 DEF LagBarrier, LeaveRegistry, NackScan, SubscriberStates
  <2> QED
    BY <2>1, <2>2, SleepersAround
<1>4. ASSUME NEW s \in Subscribers, CommitDelivery(s) \/ AbandonDelivery(s) PROVE SleepersSound'
  <2>1. UNCHANGED <<slots, ring_closed>> /\ \A r \in Subscribers : r # s => sub'[r] = sub[r]
    BY <1>0, <1>4 DEF CommitDelivery, AbandonDelivery, ring
  <2>2. sub[s].permitted # 0 /\ sub'[s].pc = sub[s].pc
    BY <1>0, <1>4 DEF CommitDelivery, AbandonDelivery, Finished, SubscriberStates
  <2>3. sub'[s].pc # "parked"
    BY <2>2 DEF SleepersSound, Asleep
  <2> QED
    BY <2>1, <2>3, SleepersAround
<1>5. ASSUME NEW s \in Subscribers, ApplyAck(s) \/ \E q \in Seqs : Ack(s, q) PROVE SleepersSound'
  <2>1. UNCHANGED <<slots, ring_closed>> /\ \A r \in Subscribers : r # s => sub'[r] = sub[r]
    BY <1>0, <1>5 DEF ApplyAck, Ack, ring
  <2>2. /\ sub'[s].pc = sub[s].pc /\ sub'[s].armed = sub[s].armed
        /\ sub'[s].permitted = sub[s].permitted /\ sub'[s].read_seq = sub[s].read_seq
    <3>1. PICK n : sub' = [sub EXCEPT ![s] = [sub[s] EXCEPT !.acking = n]]
      BY <1>5 DEF ApplyAck, Ack
    <3>2. sub[s] \in SubscriberStates /\ sub'[s] = [sub[s] EXCEPT !.acking = n]
      BY <1>0, <3>1
    <3> QED
      BY <3>2 DEF SubscriberStates
  <2> QED
    BY <2>1, <2>2, SleepersAround
<1>6. ASSUME NEW s \in Subscribers, Subscribe(s) PROVE SleepersSound'
  <2>1. UNCHANGED <<slots, ring_closed>> /\ sub' = [sub EXCEPT ![s] = Subscribed(StartSeq)]
    BY <1>6 DEF Subscribe, ring
  <2>2. Subscribed(StartSeq).pc # "parked"
    BY DEF Subscribed, NotSubscribed
  <2> QED
    BY <1>0, <2>1, <2>2, OneStaysAwake
<1>7. ASSUME NEW s \in Subscribers, Drop(s) PROVE SleepersSound'
  <2>1. UNCHANGED <<slots, ring_closed>> /\ \A r \in Subscribers : r # s => sub'[r] = sub[r]
    BY <1>0, <1>7 DEF Drop, ring
  <2>2. sub'[s].pc = "remove" \/ (/\ sub'[s].pc = sub[s].pc /\ sub'[s].armed = sub[s].armed
                                 /\ sub'[s].permitted = sub[s].permitted
                                 /\ sub'[s].read_seq = sub[s].read_seq)
    BY <1>0, <1>7 DEF Drop, SubscriberStates
  <2> QED
    BY <2>1, <2>2, SleepersAround
<1>8. ASSUME NEW s \in Subscribers, NEW q \in Seqs, Nack(s, q) PROVE SleepersSound'
  BY <1>1, <1>8 DEF Nack, ring
<1>9. CASE CloseAll
  BY <1>0, <1>9, WakeReachesAll DEF CloseAll
<1>10. CASE Close \/ Resolving \/ \E q \in Seqs : Expire(q)
  BY <1>1, <1>10 DEF Close, Resolving, ResolveDetached, Expire, ring
<1> QED
  BY <1>2, <1>3, <1>4, <1>5, <1>6, <1>7, <1>8, <1>9, <1>10, SleepersLoad, SleepersRead
  DEF Next, SubscriberStep, Answer

\* A new topic has nothing pending, an empty ring and nobody asleep.
LEMMA InitAttend == Init => AttendInv
<1> SUFFICES ASSUME Init PROVE AttendInv
  OBVIOUS
<1>1. PendingLocated
  BY DEF Init, PendingLocated, Pending, NoEntry
<1>2. RingHonest
  BY DEF Init, RingHonest
<1>3. \A s \in Subscribers : sub[s].pc = "poll"
  BY DEF Init, Subscribed, NotSubscribed
<1> QED
  BY <1>1, <1>2, <1>3 DEF AttendInv, SleepersSound

\* Every step preserves where pending publishes, sequences and sleepers are.
LEMMA StepAttend == IInv /\ AttendInv /\ [Next]_vars => AttendInv'
<1> SUFFICES ASSUME IInv, AttendInv, [Next]_vars PROVE AttendInv'
  OBVIOUS
<1>1. CASE Next
  BY <1>1, LocatedStep, RingStep, SleepersStep DEF AttendInv
<1>2. CASE UNCHANGED vars
  <2>1. UNCHANGED <<entry, entries, detached, pub, slots, write_seq, sub, ring_closed>>
    BY <1>2 DEF vars, ring, tracker
  <2> QED
    BY <2>1, LocatedAround, RingAround, SleepersAround DEF AttendInv, Uncommitted
<1> QED
  BY <1>1, <1>2

\* A member whose answer is missing can step, unless it sleeps on a message that
\* an unfinished publisher has yet to commit or waits for the lock.
LEMMA MemberAttends ==
  ASSUME IInv, AttendInv, NEW q \in entries, NEW s \in entry[q].members \ entry[q].acked
  PROVE  Attended(q)
<1>0. /\ TrackerTyped /\ ThreadsTyped /\ PublishersSound /\ SubscribersSound /\ EntriesSound
      /\ NoSilentMember /\ RingTyped
  BY TypeParts DEF IInv
<1>1. q \in Seqs /\ Pending(q) /\ s \in Subscribers /\ entry[q] \in Entries
  BY <1>0 DEF TrackerTyped, Entries
<1>2. Reachable(s, q) /\ SubscriberSound(s) /\ sub[s] \in SubscriberStates
  BY <1>0, <1>1 DEF NoSilentMember, SubscribersSound, ThreadsTyped
<1>3. ASSUME sub[s].pc \in {"barrier", "remove"} PROVE Attended(q)
  <2>1. CASE lock = Nobody
    BY <1>3, <2>1 DEF Attended, CanStep
  <2>2. CASE lock # Nobody
    <3>1. lock \in Publishers /\ Claiming(lock)
      BY <1>0, <2>2 DEF ThreadsTyped, PublishersSound
    <3> QED
      BY <3>1 DEF Attended, Claiming
  <2> QED
    BY <2>1, <2>2
<1>4. ASSUME sub[s].pc \in {"slot", "scan"} \/ sub[s].acking # 0 PROVE Attended(q)
  BY <1>4 DEF Attended, CanStep
<1>5. ASSUME sub[s].status = "live", sub[s].acking = 0, sub[s].pc \in {"poll", "ended"}
      PROVE  Attended(q)
  BY <1>5 DEF Attended, CanStep, Between
<1>6. ASSUME sub[s].status = "live", sub[s].acking = 0, sub[s].pc = "parked" PROVE Attended(q)
  <2>1. CASE q \in sub[s].handed
    BY <1>6, <2>1 DEF Attended, CanStep, Between
  <2>2. CASE q \notin sub[s].handed
    <3> DEFINE r == sub[s].read_seq
    <3>1. q >= r /\ q <= write_seq /\ r \in Nat \ {0} /\ q \in Nat /\ write_seq \in Nat
      <4>1. q >= r
        BY <1>2, <1>6, <2>2 DEF Reachable
      <4>2. write_seq \in Nat /\ q \in Nat
        BY <1>0, <1>1, TopicAssumption DEF RingTyped, Seqs
      <4>3. entry[q] # NoEntry
        BY <1>1 DEF Pending, NoEntry
      <4>4. q <= write_seq
        BY <1>0, <1>1, <4>2, <4>3 DEF EntriesSound
      <4>5. r \in 1 .. write_seq + 1
        BY <1>2, <1>6 DEF SubscriberSound
      <4> QED
        BY <4>1, <4>2, <4>4, <4>5
    <3>2. slots[SlotOf(r)] < r
      BY <1>1, <1>6 DEF AttendInv, SleepersSound, Asleep
    <3>3. r \in 1 .. write_seq
      BY <3>1
    <3>4. slots[SlotOf(r)] \in Nat
      BY <1>0, <3>1, SlotInRing DEF RingTyped
    <3>5. ~(slots[SlotOf(r)] >= r)
      BY <3>1, <3>2, <3>4
    <3>6. PICK p \in Publishers : Uncommitted(p, r)
      BY <3>3, <3>5 DEF AttendInv, RingHonest
    <3>7. pub[p].pc # "idle" /\ pub[p].seq <= q
      BY <3>1, <3>6 DEF Uncommitted
    <3> QED
      BY <3>7 DEF Attended
  <2> QED
    BY <2>1, <2>2
<1>7. \/ sub[s].status = "live"
      \/ sub[s].pc \in {"remove", "barrier", "scan"}
  BY <1>2 DEF Reachable
<1>8. sub[s].pc \in {"poll", "slot", "barrier", "remove", "scan", "parked", "ended"}
  BY <1>2 DEF SubscriberStates
<1> QED
  BY <1>3, <1>4, <1>5, <1>6, <1>7, <1>8

\* While a tracked publish is pending, a thread that it depends on has a step to
\* take: an unfinished publisher at or before it or in the registry, the thread
\* that took its entry out of the map, or a member that has not answered.  No
\* lost wake-up, overtaken slot, lock or close leaves a publish to its timeout,
\* for any number of publishers, subscribers, slots and messages.
THEOREM PublishesAreAttended == Spec => []NoStuckPublish
<1>1. ASSUME IInv, AttendInv PROVE NoStuckPublish
  <2> SUFFICES ASSUME NEW q \in Seqs, Pending(q) PROVE Attended(q)
    BY DEF NoStuckPublish
  <2>1. Located(q)
    BY <1>1 DEF AttendInv, PendingLocated
  <2>2. CASE q \in entries
    <3>1. PICK s : s \in entry[q].members \ entry[q].acked
      BY <2>1 DEF Located
    <3> QED
      BY <1>1, <2>2, <3>1, MemberAttends
  <2>3. ASSUME NEW p \in Publishers, pub[p].pc = "insert", pub[p].seq = q PROVE Attended(q)
    <3>1. q \in Nat /\ q <= q
      BY TopicAssumption DEF Seqs
    <3> QED
      BY <2>3, <3>1 DEF Attended
  <2>4. CASE \E d \in detached : d[1] = q
    BY <2>4 DEF Attended
  <2> QED
    BY <2>1, <2>2, <2>3, <2>4 DEF Located
<1> QED
  BY <1>1, Invariance, InitAttend, StepAttend, PTL DEF Spec
=============================================================================
