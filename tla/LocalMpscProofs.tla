-------------------------- MODULE LocalMpscProofs --------------------------
(***************************************************************************)
(* Proofs about LocalMpsc for every set of producers, every capacity and   *)
(* every bound on the number of waits.  The lemmas follow the helpers of   *)
(* the channel state; each says what one helper does to a sound state, and *)
(* the invariant theorem only combines them, action by action.             *)
(***************************************************************************)
EXTENDS LocalMpsc, FiniteSetTheorems, TLAPS

KeyOf(c, i) == [index |-> i, generation |-> c.slots[i].generation]

\* Soundness of one slot: a grant and a place in the queue exclude each other,
\* both need a live slot, and a queued slot has a waker and a queue entry.
SlotSound(c, i) ==
  /\ c.slots[i].reserved => c.slots[i].in_use /\ ~c.slots[i].queued
  /\ c.slots[i].queued => /\ c.slots[i].in_use
                          /\ c.slots[i].waker \in Producers
                          /\ \E n \in DOMAIN c.queue : c.queue[n] = KeyOf(c, i)

\* The free list holds distinct slots that nobody uses.
FreeListSound(c) ==
  /\ \A n \in DOMAIN c.free_slots :
        c.free_slots[n] \in DOMAIN c.slots /\ ~c.slots[c.free_slots[n]].in_use
  /\ \A n, m \in DOMAIN c.free_slots : c.free_slots[n] = c.free_slots[m] => n = m

TableSound(c) == (\A i \in DOMAIN c.slots : SlotSound(c, i)) /\ FreeListSound(c)

\* What every helper preserves.
ChannelSound(c) == c \in ChannelStates /\ TableSound(c) /\ CapacityBound(c)

\* The part of the state that the waiter table operations leave alone.
SameFrame(c, d) ==
  /\ d.buffer = c.buffer /\ d.is_closed = c.is_closed /\ d.senders = c.senders
  /\ d.has_receiver = c.has_receiver /\ d.receiver_waker = c.receiver_waker
  /\ d.rx_woken = c.rx_woken

----------------------------------------------------------------------------
(* Sequences of slots and the set of reserved slots.                       *)

\* Rewriting one slot leaves the others alone.
LEMMA SlotUpdate ==
  ASSUME NEW s \in Seq(Slots), NEW i \in DOMAIN s, NEW v \in Slots,
         NEW t, t = [s EXCEPT ![i] = v]
  PROVE  /\ t \in Seq(Slots) /\ Len(t) = Len(s) /\ DOMAIN t = DOMAIN s
         /\ t[i] = v
         /\ \A j \in DOMAIN s : j # i => t[j] = s[j]
OBVIOUS

\* The granted slots can be counted.
LEMMA ReservedFinite ==
  ASSUME NEW c, c.slots \in Seq(Slots)
  PROVE  IsFiniteSet(Reserved(c)) /\ Cardinality(Reserved(c)) \in Nat
<1>1. IsFiniteSet(1..Len(c.slots))
  BY FS_Interval
<1>2. Reserved(c) \subseteq 1..Len(c.slots)
  BY DEF Reserved
<1> QED
  BY <1>1, <1>2, FS_Subset, FS_CardinalityType

\* Granting one more slot adds one to the count.
LEMMA ReservedAdd ==
  ASSUME NEW c, NEW d, c.slots \in Seq(Slots), d.slots \in Seq(Slots),
         NEW i \in DOMAIN c.slots, DOMAIN d.slots = DOMAIN c.slots,
         ~c.slots[i].reserved, d.slots[i].reserved,
         \A j \in DOMAIN c.slots : j # i => d.slots[j].reserved = c.slots[j].reserved
  PROVE  Cardinality(Reserved(d)) = Cardinality(Reserved(c)) + 1
<1>1. Reserved(d) = Reserved(c) \cup {i} /\ i \notin Reserved(c)
  BY DEF Reserved
<1> QED
  BY <1>1, ReservedFinite, FS_AddElement

\* Taking one grant back subtracts one.
LEMMA ReservedRemove ==
  ASSUME NEW c, NEW d, c.slots \in Seq(Slots), d.slots \in Seq(Slots),
         NEW i \in DOMAIN c.slots, DOMAIN d.slots = DOMAIN c.slots,
         c.slots[i].reserved, ~d.slots[i].reserved,
         \A j \in DOMAIN c.slots : j # i => d.slots[j].reserved = c.slots[j].reserved
  PROVE  Cardinality(Reserved(d)) = Cardinality(Reserved(c)) - 1
<1>1. Reserved(d) = Reserved(c) \ {i} /\ i \in Reserved(c)
  BY DEF Reserved
<1> QED
  BY <1>1, ReservedFinite, FS_RemoveElement

\* The count depends on the reserved flags only.
LEMMA ReservedSame ==
  ASSUME NEW c, NEW d, DOMAIN d.slots = DOMAIN c.slots,
         \A j \in DOMAIN c.slots : d.slots[j].reserved = c.slots[j].reserved
  PROVE  Reserved(d) = Reserved(c)
BY DEF Reserved

\* A granted slot is counted, so the counter can be decremented.
LEMMA ReservedPositive ==
  ASSUME NEW c, c.slots \in Seq(Slots), NEW i \in DOMAIN c.slots, c.slots[i].reserved
  PROVE  Cardinality(Reserved(c)) > 0
<1>1. i \in Reserved(c)
  BY DEF Reserved
<1>2. Cardinality(Reserved(c)) # 0
  BY <1>1, ReservedFinite, FS_EmptySet
<1> QED
  BY <1>2, ReservedFinite

\* The first live entry exists whenever some entry is live.
LEMMA FirstLiveIsLive ==
  ASSUME NEW c, c.queue \in Seq(Keys), LiveEntries(c) # {}
  PROVE  FirstLive(c) \in LiveEntries(c) /\ \A m \in LiveEntries(c) : FirstLive(c) <= m
<1>1. LiveEntries(c) \subseteq Nat
  BY DEF LiveEntries
<1>2. OpToRel(<, Nat) = {e \in Nat \X Nat : e[1] < e[2]}
  BY Zenon DEF OpToRel
<1>3. PICK R : IsWellFoundedOn(R, Nat) /\ R = {e \in Nat \X Nat : e[1] < e[2]}
  BY <1>2, NatLessThanWellFounded, Zenon
<1>4. PICK n \in LiveEntries(c) : \A m \in LiveEntries(c) : ~(<<m, n>> \in R)
  BY <1>1, <1>3, WFMin, Zenon
<1>5. \A m \in LiveEntries(c) : n <= m
  <2> SUFFICES ASSUME NEW m \in LiveEntries(c) PROVE n <= m
    OBVIOUS
  <2>1. m \in Nat /\ n \in Nat
    BY <1>1
  <2>2. m < n => <<m, n>> \in R
    <3>1. <<m, n>> \in Nat \X Nat /\ <<m, n>>[1] = m /\ <<m, n>>[2] = n
      BY <2>1
    <3> QED
      BY <1>3, <3>1, Zenon
  <2>3. ~(m < n)
    BY <1>4, <2>2, Zenon
  <2> QED
    BY <2>1, <2>3
<1> QED
  BY <1>5, Zenon DEF FirstLive

\* Entries behind the popped part of the queue survive, shifted.
LEMMA SubSeqShift ==
  ASSUME NEW s \in Seq(Keys), NEW n \in DOMAIN s, NEW m \in DOMAIN s, n < m
  PROVE  LET t == SubSeq(s, n + 1, Len(s)) IN m - n \in DOMAIN t /\ t[m - n] = s[m]
OBVIOUS

\* Components of a channel state, as the other proofs use them.
LEMMA Components ==
  ASSUME NEW c \in ChannelStates
  PROVE  /\ c.slots \in Seq(Slots) /\ c.queue \in Seq(Keys) /\ c.free_slots \in Seq(Nat)
         /\ c.buffer \in Seq(Producers) /\ c.reserved_slots \in Nat /\ c.next_generation \in Nat
         /\ \A i \in DOMAIN c.slots : c.slots[i] \in Slots
<1>1. /\ c.slots \in Seq(Slots) /\ c.queue \in Seq(Keys) /\ c.free_slots \in Seq(Nat)
      /\ c.buffer \in Seq(Producers) /\ c.reserved_slots \in Nat /\ c.next_generation \in Nat
  BY DEF ChannelStates
<1> QED
  BY <1>1

----------------------------------------------------------------------------
(* The helpers of ChannelState.                                            *)

\* grant_one_sender_waiter keeps the channel sound and never leaves a waiter
\* stranded: either it could not grant, or nobody waits, or a grant is out.
LEMMA GrantSound ==
  ASSUME NEW c, ChannelSound(c)
  PROVE  LET d == grant_one_sender_waiter(c)
         IN ChannelSound(d) /\ NoStranded(d) /\ SameFrame(c, d)
<1> DEFINE d == grant_one_sender_waiter(c)
<1>t. c \in ChannelStates /\ TableSound(c) /\ CapacityBound(c)
  BY DEF ChannelSound
<1>1. CASE c.is_closed \/ AtCapacity(c)
  <2>1. d = c
    BY <1>1 DEF grant_one_sender_waiter
  <2>2. NoStranded(c)
    BY <1>t, <1>1, CapacityAssumption DEF NoStranded, AtCapacity, CapacityBound, ChannelStates
  <2> QED
    BY <1>t, <2>1, <2>2 DEF ChannelSound, SameFrame
<1>2. CASE ~c.is_closed /\ ~AtCapacity(c) /\ LiveEntries(c) = {}
  <2>1. d = [c EXCEPT !.queue = << >>]
    BY <1>2 DEF grant_one_sender_waiter
  <2>2. \A i \in DOMAIN c.slots : ~c.slots[i].queued
    <3> SUFFICES ASSUME NEW i \in DOMAIN c.slots, c.slots[i].queued PROVE FALSE
      OBVIOUS
    <3>1. PICK n \in DOMAIN c.queue : c.queue[n] = KeyOf(c, i)
      BY <1>t DEF TableSound, SlotSound
    <3>2. n \in LiveEntries(c)
      BY <3>1, <1>t DEF LiveEntries, Current, KeyOf, TableSound, SlotSound
    <3> QED
      BY <3>2, <1>2
  <2> HIDE DEF d
  <2>3. d \in ChannelStates /\ d.slots = c.slots /\ d.free_slots = c.free_slots
        /\ d.buffer = c.buffer /\ d.reserved_slots = c.reserved_slots /\ SameFrame(c, d)
    <3>1. << >> \in Seq(Keys)
      OBVIOUS
    <3>2. d \in ChannelStates
      BY <3>1, <2>1, <1>t DEF ChannelStates
    <3> QED
      BY <3>2, <2>1, <1>t DEF ChannelStates, SameFrame
  <2>4. TableSound(d)
    BY <2>2, <2>3, <1>t DEF TableSound, SlotSound, FreeListSound
  <2>5. CapacityBound(d)
    BY <2>3, <1>t DEF CapacityBound, Reserved
  <2> QED
    BY <2>2, <2>3, <2>4, <2>5 DEF ChannelSound, NoStranded, d
<1>3. CASE ~c.is_closed /\ ~AtCapacity(c) /\ LiveEntries(c) # {}
  <2> DEFINE n == FirstLive(c)
             i == c.queue[n].index
             v == [c.slots[i] EXCEPT !.queued = FALSE, !.waker = NoWaker, !.reserved = TRUE]
  <2>1. n \in LiveEntries(c) /\ \A m \in LiveEntries(c) : n <= m
    BY <1>3, <1>t, FirstLiveIsLive DEF ChannelStates
  <2>2. n \in DOMAIN c.queue /\ i \in DOMAIN c.slots /\ c.slots[i].in_use /\ c.slots[i].queued
        /\ c.queue[n] = KeyOf(c, i)
    <3>1. n \in DOMAIN c.queue /\ Current(c, c.queue[n]) /\ c.slots[i].queued
      BY <2>1 DEF LiveEntries
    <3>2. c.queue[n] \in Keys
      BY <3>1, <1>t DEF ChannelStates
    <3> QED
      BY <3>1, <3>2 DEF Current, Keys, KeyOf
  <2>3. v \in Slots /\ v.in_use /\ ~v.queued /\ v.reserved /\ v.generation = c.slots[i].generation
    <3>1. c.slots[i] \in Slots
      BY <2>2, <1>t, Components
    <3> QED
      BY <3>1, <2>2 DEF Slots
  <2>4. d = [c EXCEPT !.queue = SubSeq(c.queue, n + 1, Len(c.queue)),
                      !.slots = [c.slots EXCEPT ![i] = v],
                      !.reserved_slots = c.reserved_slots + 1,
                      !.woken = c.woken \cup {c.slots[i].waker}]
    BY <1>3, Zenon DEF grant_one_sender_waiter
  <2> HIDE DEF n, i, v, d
  <2>5. /\ d.slots \in Seq(Slots) /\ Len(d.slots) = Len(c.slots) /\ DOMAIN d.slots = DOMAIN c.slots
        /\ d.slots[i] = v
        /\ \A j \in DOMAIN c.slots : j # i => d.slots[j] = c.slots[j]
    <3>1. d.slots = [c.slots EXCEPT ![i] = v]
      BY <2>4, <1>t DEF ChannelStates
    <3> QED
      BY <3>1, <2>2, <2>3, <1>t, SlotUpdate DEF ChannelStates
  <2>6. /\ d \in ChannelStates /\ SameFrame(c, d) /\ d.free_slots = c.free_slots
        /\ d.reserved_slots = c.reserved_slots + 1
        /\ d.queue = SubSeq(c.queue, n + 1, Len(c.queue))
    <3>1. c.slots[i].waker \in Producers \cup {NoWaker}
      <4>1. c.slots[i] \in Slots
        BY <2>2, <1>t, Components
      <4> QED
        BY <4>1 DEF Slots
    <3>2. SubSeq(c.queue, n + 1, Len(c.queue)) \in Seq(Keys)
      BY <2>2, <1>t DEF ChannelStates
    <3>3. c.woken \cup {c.slots[i].waker} \in SUBSET (Producers \cup {NoWaker})
      BY <3>1, <1>t DEF ChannelStates
    <3>4. [c.slots EXCEPT ![i] = v] \in Seq(Slots)
      BY <2>2, <2>3, <1>t, SlotUpdate DEF ChannelStates
    <3>5. c.reserved_slots + 1 \in Nat
      BY <1>t, Components
    <3>6. d \in ChannelStates
      BY <3>2, <3>3, <3>4, <3>5, <2>4, <1>t DEF ChannelStates
    <3> QED
      BY <3>6, <2>4, <1>t DEF ChannelStates, SameFrame
  <2>7. TableSound(d)
    <3>1. ASSUME NEW j \in DOMAIN d.slots PROVE SlotSound(d, j)
      <4>1. CASE j = i
        BY <4>1, <2>3, <2>5 DEF SlotSound
      <4>2. CASE j # i
        <5>1. d.slots[j] = c.slots[j] /\ j \in DOMAIN c.slots /\ SlotSound(c, j)
          BY <4>2, <2>5, <1>t DEF TableSound
        <5>2. ASSUME c.slots[j].queued
              PROVE  \E m \in DOMAIN d.queue : d.queue[m] = KeyOf(d, j)
          <6>1. PICK m \in DOMAIN c.queue : c.queue[m] = KeyOf(c, j)
            BY <5>1, <5>2 DEF SlotSound
          <6>2. m \in LiveEntries(c)
            BY <5>1, <5>2, <6>1 DEF LiveEntries, Current, KeyOf, SlotSound
          <6>3. m # n
            BY <6>1, <2>2, <4>2 DEF KeyOf
          <6>4. n < m /\ n \in Nat /\ m \in Nat /\ m <= Len(c.queue)
            BY <6>2, <6>3, <2>1, <2>2, <6>1, <1>t DEF ChannelStates
          <6>5. m - n \in DOMAIN d.queue /\ d.queue[m - n] = c.queue[m]
            <7>1. c.queue \in Seq(Keys) /\ n \in DOMAIN c.queue /\ m \in DOMAIN c.queue
              BY <6>1, <2>2, <1>t, Components
            <7>2. d.queue = SubSeq(c.queue, n + 1, Len(c.queue)) /\ n < m
              BY <6>4, <2>6
            <7> QED
              BY <7>1, <7>2, SubSeqShift
          <6> QED
            BY <6>1, <6>5, <5>1 DEF KeyOf
        <5> QED
          BY <5>1, <5>2 DEF SlotSound
      <4> QED
        BY <4>1, <4>2
    <3>2. FreeListSound(d)
      <4>1. \A m \in DOMAIN c.free_slots : c.free_slots[m] # i
        BY <2>2, <1>t DEF TableSound, FreeListSound
      <4> QED
        BY <4>1, <2>5, <2>6, <1>t DEF TableSound, FreeListSound
    <3> QED
      BY <3>1, <3>2 DEF TableSound
  <2>8. CapacityBound(d)
    <3>1. ~c.slots[i].reserved
      BY <2>2, <1>t DEF TableSound, SlotSound
    <3>2. Cardinality(Reserved(d)) = Cardinality(Reserved(c)) + 1
      <4>1. c.slots \in Seq(Slots)
        BY <1>t DEF ChannelStates
      <4> QED
        BY <4>1, <3>1, <2>2, <2>3, <2>5, ReservedAdd
    <3> QED
      BY <3>2, <2>6, <1>3, <1>t, CapacityAssumption, SMTT(20) DEF CapacityBound, AtCapacity, ChannelStates, SameFrame
  <2> QED
    BY <2>6, <2>7, <2>8, <1>t DEF ChannelSound, NoStranded, ChannelStates, d
<1> QED
  BY <1>1, <1>2, <1>3

\* A freed slot goes to the end of the free list.
LEMMA FreeListAppend ==
  ASSUME NEW f \in Seq(Nat), NEW i \in Nat, NEW g, g = Append(f, i)
  PROVE  /\ g \in Seq(Nat) /\ Len(f) \in Nat /\ DOMAIN g = 1..(Len(f) + 1)
         /\ g[Len(f) + 1] = i
         /\ DOMAIN f = 1..Len(f) /\ \A n \in DOMAIN f : g[n] = f[n]
OBVIOUS

\* Freeing a live slot, with the reservation it may hold given back.
LEMMA ReleaseSlotSound ==
  ASSUME NEW c, ChannelSound(c), NEW k \in Keys, Current(c, k), NEW e,
         e = [ReleaseSlot(c, k) EXCEPT !.reserved_slots =
                IF OwnsReservation(c, k) THEN c.reserved_slots - 1 ELSE c.reserved_slots]
  PROVE  /\ ChannelSound(e) /\ SameFrame(c, e) /\ DOMAIN e.slots = DOMAIN c.slots
         /\ \A j \in DOMAIN e.slots : e.slots[j].queued => c.slots[j].queued
         /\ e.reserved_slots = IF OwnsReservation(c, k) THEN c.reserved_slots - 1
                               ELSE c.reserved_slots
<1> DEFINE i == k.index
           v == [c.slots[i] EXCEPT !.in_use = FALSE, !.queued = FALSE,
                                   !.waker = NoWaker, !.reserved = FALSE]
           r == IF OwnsReservation(c, k) THEN c.reserved_slots - 1 ELSE c.reserved_slots
<1>t. c \in ChannelStates /\ TableSound(c) /\ CapacityBound(c)
  BY DEF ChannelSound
<1>1. i \in DOMAIN c.slots /\ c.slots[i].in_use /\ i \in Nat
  BY <1>t, Components DEF Current, Keys
<1>2. v \in Slots /\ ~v.in_use /\ ~v.queued /\ ~v.reserved
  <2>1. c.slots[i] \in Slots
    BY <1>1, <1>t, Components
  <2> QED
    BY <2>1 DEF Slots
<1>3. OwnsReservation(c, k) <=> c.slots[i].reserved
  BY <1>1 DEF OwnsReservation
<1>4. r \in Nat
  <2>1. c.slots[i].reserved => Cardinality(Reserved(c)) > 0
    BY <1>1, <1>t, Components, ReservedPositive
  <2> QED
    BY <2>1, <1>3, <1>t, Components DEF CapacityBound
<1>5. e = [c EXCEPT !.slots = [c.slots EXCEPT ![i] = v],
                    !.free_slots = Append(c.free_slots, i), !.reserved_slots = r]
  BY Zenon DEF ReleaseSlot
<1> HIDE DEF i, v, r
<1>6. /\ e.slots = [c.slots EXCEPT ![i] = v] /\ e.free_slots = Append(c.free_slots, i)
      /\ e.reserved_slots = r /\ e.queue = c.queue /\ SameFrame(c, e)
  BY <1>5, <1>t DEF ChannelStates, SameFrame
<1>7. /\ e.slots \in Seq(Slots) /\ DOMAIN e.slots = DOMAIN c.slots /\ e.slots[i] = v
      /\ \A j \in DOMAIN c.slots : j # i => e.slots[j] = c.slots[j]
  <2>1. c.slots \in Seq(Slots)
    BY <1>t, Components
  <2> QED
    BY <2>1, <1>1, <1>2, <1>6, SlotUpdate
<1>8. e \in ChannelStates
  <2>1. [c.slots EXCEPT ![i] = v] \in Seq(Slots) /\ Append(c.free_slots, i) \in Seq(Nat)
    BY <1>6, <1>7, <1>1, <1>t, Components
  <2> QED
    BY <2>1, <1>4, <1>5, <1>t DEF ChannelStates
<1>9. TableSound(e)
  <2>1. ASSUME NEW j \in DOMAIN e.slots PROVE SlotSound(e, j)
    <3>1. CASE j = i
      BY <3>1, <1>2, <1>7 DEF SlotSound
    <3>2. CASE j # i
      BY <3>2, <1>6, <1>7, <1>t DEF TableSound, SlotSound, KeyOf
    <3> QED
      BY <3>1, <3>2
  <2>2. FreeListSound(e)
    <3>1. \A n \in DOMAIN c.free_slots : c.free_slots[n] # i
      BY <1>1, <1>t DEF TableSound, FreeListSound
    <3>2. /\ DOMAIN e.free_slots = 1..(Len(c.free_slots) + 1)
          /\ e.free_slots[Len(c.free_slots) + 1] = i /\ Len(c.free_slots) \in Nat
          /\ DOMAIN c.free_slots = 1..Len(c.free_slots)
          /\ \A n \in DOMAIN c.free_slots : e.free_slots[n] = c.free_slots[n]
      <4>1. c.free_slots \in Seq(Nat) /\ i \in Nat /\ e.free_slots = Append(c.free_slots, i)
        BY <1>1, <1>6, <1>t, Components
      <4> DEFINE f == c.free_slots
                 g == e.free_slots
      <4> HIDE DEF f, g
      <4>2. f \in Seq(Nat) /\ i \in Nat /\ g = Append(f, i)
        BY <4>1 DEF f, g
      <4>3. /\ DOMAIN g = 1..(Len(f) + 1) /\ g[Len(f) + 1] = i /\ Len(f) \in Nat
            /\ DOMAIN f = 1..Len(f) /\ \A n \in DOMAIN f : g[n] = f[n]
        BY <4>2, FreeListAppend
      <4> QED
        BY <4>3 DEF f, g
    <3>3. \A n \in DOMAIN e.free_slots : n \in DOMAIN c.free_slots \/ n = Len(c.free_slots) + 1
      BY <3>2
    <3>4. FreeListSound(c)
      BY <1>t DEF TableSound
    <3>5. ASSUME NEW n \in DOMAIN e.free_slots
          PROVE  e.free_slots[n] \in DOMAIN e.slots /\ ~e.slots[e.free_slots[n]].in_use
      BY <3>1, <3>2, <3>3, <3>4, <1>1, <1>2, <1>7, SMTT(20) DEF FreeListSound
    <3>6. ASSUME NEW n \in DOMAIN e.free_slots, NEW m \in DOMAIN e.free_slots,
                 e.free_slots[n] = e.free_slots[m]
          PROVE  n = m
      BY <3>1, <3>2, <3>3, <3>4, <3>6 DEF FreeListSound
    <3> QED
      BY <3>5, <3>6 DEF FreeListSound
  <2> QED
    BY <2>1, <2>2 DEF TableSound
<1>10. CapacityBound(e)
  <2>0. c.slots \in Seq(Slots) /\ c.buffer \in Seq(Producers) /\ c.reserved_slots \in Nat
    BY <1>t, Components
  <2>1. CASE c.slots[i].reserved
    <3>1. Cardinality(Reserved(e)) = Cardinality(Reserved(c)) - 1
      <4>1. /\ e.slots \in Seq(Slots) /\ DOMAIN e.slots = DOMAIN c.slots /\ ~e.slots[i].reserved
            /\ \A j \in DOMAIN c.slots : j # i => e.slots[j].reserved = c.slots[j].reserved
        BY ONLY <1>2, <1>7
      <4> QED
        BY ONLY <4>1, <2>0, <2>1, <1>1, ReservedRemove
    <3> QED
      BY <3>1, <2>0, <2>1, <1>3, <1>6, <1>t, CapacityAssumption DEF CapacityBound, SameFrame, r
  <2>2. CASE ~c.slots[i].reserved
    <3>1. Reserved(e) = Reserved(c)
      BY <2>2, <1>1, <1>2, <1>7, ReservedSame DEF Reserved
    <3> QED
      BY <3>1, <2>0, <2>2, <1>3, <1>6, <1>t DEF CapacityBound, SameFrame, r
  <2> QED
    BY <2>1, <2>2
<1> QED
  BY <1>2, <1>6, <1>7, <1>8, <1>9, <1>10 DEF ChannelSound, r

\* unregister_sender_waiter: completion and cancellation of a blocked send.
LEMMA UnregisterSound ==
  ASSUME NEW c, ChannelSound(c), NEW k \in Keys
  PROVE  LET d == unregister_sender_waiter(c, k)
         IN ChannelSound(d) /\ SameFrame(c, d) /\ (NoStranded(c) => NoStranded(d))
<1> DEFINE d == unregister_sender_waiter(c, k)
<1>1. CASE ~Current(c, k)
  BY <1>1 DEF unregister_sender_waiter, SameFrame
<1>2. CASE Current(c, k) /\ OwnsReservation(c, k)
  <2> DEFINE e == [ReleaseSlot(c, k) EXCEPT !.reserved_slots = c.reserved_slots - 1]
  <2>1. ChannelSound(e) /\ SameFrame(c, e)
    BY <1>2, ReleaseSlotSound
  <2>2. d = grant_one_sender_waiter(e)
    BY <1>2 DEF unregister_sender_waiter
  <2> HIDE DEF e, d
  <2>3. ChannelSound(d) /\ NoStranded(d) /\ SameFrame(e, d)
    BY <2>1, <2>2, GrantSound
  <2> QED
    BY <2>1, <2>3 DEF SameFrame, d
<1>3. CASE Current(c, k) /\ ~OwnsReservation(c, k)
  <2>1. d = ReleaseSlot(c, k)
    BY <1>3 DEF unregister_sender_waiter
  <2>2. d = [ReleaseSlot(c, k) EXCEPT !.reserved_slots = c.reserved_slots]
    BY <2>1 DEF ReleaseSlot, ChannelSound, ChannelStates
  <2> HIDE DEF d
  <2>3. /\ ChannelSound(d) /\ SameFrame(c, d) /\ DOMAIN d.slots = DOMAIN c.slots
        /\ \A j \in DOMAIN d.slots : d.slots[j].queued => c.slots[j].queued
        /\ d.reserved_slots = c.reserved_slots
    BY <1>3, <2>2, ReleaseSlotSound, ZenonT(40)
  <2> QED
    BY <2>3 DEF NoStranded, SameFrame, d
<1> QED
  BY <1>1, <1>2, <1>3

\* consume_reservation frees exactly one place for the value of its holder.
LEMMA ConsumeSound ==
  ASSUME NEW c, ChannelSound(c), NEW k \in Keys, OwnsReservation(c, k), NEW d,
         d = consume_reservation(c, k)
  PROVE  /\ ChannelSound(d) /\ SameFrame(c, d)
         /\ Len(d.buffer) + d.reserved_slots < Capacity
<1> DEFINE i == k.index
           v == [c.slots[i] EXCEPT !.reserved = FALSE]
<1>t. c \in ChannelStates /\ TableSound(c) /\ CapacityBound(c)
  BY DEF ChannelSound
<1>c. c.slots \in Seq(Slots) /\ c.buffer \in Seq(Producers) /\ c.reserved_slots \in Nat
  BY <1>t, Components
<1>1. i \in DOMAIN c.slots /\ c.slots[i].in_use /\ c.slots[i].reserved
  BY DEF OwnsReservation, Current
<1>2. /\ v \in Slots /\ v.in_use = c.slots[i].in_use /\ v.queued = c.slots[i].queued
      /\ ~v.reserved /\ v.generation = c.slots[i].generation /\ v.waker = c.slots[i].waker
  <2>1. c.slots[i] \in Slots
    BY <1>1, <1>c
  <2> QED
    BY <2>1 DEF Slots
<1>3. c.reserved_slots - 1 \in Nat
  BY <1>1, <1>c, <1>t, ReservedPositive DEF CapacityBound
<1>4. d = [c EXCEPT !.slots = [c.slots EXCEPT ![i] = v],
                    !.reserved_slots = c.reserved_slots - 1]
  BY DEF consume_reservation
<1> HIDE DEF i, v
<1>5. /\ d.slots = [c.slots EXCEPT ![i] = v] /\ d.reserved_slots = c.reserved_slots - 1
      /\ d.queue = c.queue /\ d.free_slots = c.free_slots /\ SameFrame(c, d)
  BY <1>4, <1>t DEF ChannelStates, SameFrame
<1>6. /\ d.slots \in Seq(Slots) /\ DOMAIN d.slots = DOMAIN c.slots /\ d.slots[i] = v
      /\ \A j \in DOMAIN c.slots : j # i => d.slots[j] = c.slots[j]
  BY <1>c, <1>1, <1>2, <1>5, SlotUpdate
<1>7. d \in ChannelStates
  BY <1>3, <1>4, <1>5, <1>6, <1>t DEF ChannelStates
<1>8. TableSound(d)
  <2>1. ASSUME NEW j \in DOMAIN d.slots PROVE SlotSound(d, j)
    <3>1. CASE j = i
      BY <3>1, <1>1, <1>2, <1>5, <1>6, <1>t DEF TableSound, SlotSound, KeyOf
    <3>2. CASE j # i
      BY <3>2, <1>5, <1>6, <1>t DEF TableSound, SlotSound, KeyOf
    <3> QED
      BY <3>1, <3>2
  <2>2. FreeListSound(d)
    BY <1>1, <1>2, <1>5, <1>6, <1>t DEF TableSound, FreeListSound
  <2> QED
    BY <2>1, <2>2 DEF TableSound
<1>9. Cardinality(Reserved(d)) = Cardinality(Reserved(c)) - 1
  BY <1>c, <1>1, <1>2, <1>6, ReservedRemove
<1> QED
  BY <1>c, <1>3, <1>5, <1>7, <1>8, <1>9, <1>t, CapacityAssumption
  DEF ChannelSound, CapacityBound, SameFrame

\* wake_all_sender_waiters leaves no slot queued.
LEMMA WakeAllSound ==
  ASSUME NEW c, ChannelSound(c), NEW d, d = wake_all_sender_waiters(c)
  PROVE  ChannelSound(d) /\ SameFrame(c, d)
<1> DEFINE live == {c.queue[n].index : n \in LiveEntries(c)}
           s == [i \in DOMAIN c.slots |->
                   IF i \in live
                   THEN [c.slots[i] EXCEPT !.queued = FALSE, !.waker = NoWaker]
                   ELSE c.slots[i]]
           w == c.woken \cup {c.slots[i].waker : i \in live}
<1>t. c \in ChannelStates /\ TableSound(c) /\ CapacityBound(c)
  BY DEF ChannelSound
<1>c. c.slots \in Seq(Slots) /\ c.buffer \in Seq(Producers) /\ c.reserved_slots \in Nat
      /\ \A i \in DOMAIN c.slots : c.slots[i] \in Slots
  BY <1>t, Components
<1>1. \A i \in DOMAIN c.slots : c.slots[i].queued => i \in live
  <2> SUFFICES ASSUME NEW i \in DOMAIN c.slots, c.slots[i].queued PROVE i \in live
    OBVIOUS
  <2>1. PICK n \in DOMAIN c.queue : c.queue[n] = KeyOf(c, i)
    BY <1>t DEF TableSound, SlotSound
  <2>2. n \in LiveEntries(c) /\ c.queue[n].index = i
    BY <2>1, <1>t DEF LiveEntries, Current, KeyOf, TableSound, SlotSound
  <2> QED
    BY <2>2
<1>2. live \subseteq DOMAIN c.slots
  BY DEF LiveEntries, Current
<1> HIDE DEF live
<1>3. ASSUME NEW i \in DOMAIN c.slots
      PROVE  /\ s[i] \in Slots /\ ~s[i].queued /\ s[i].reserved = c.slots[i].reserved
             /\ s[i].in_use = c.slots[i].in_use
  BY <1>1, <1>c DEF Slots
<1>4. s \in Seq(Slots) /\ DOMAIN s = DOMAIN c.slots
  <2>1. Len(c.slots) \in Nat /\ DOMAIN c.slots = 1..Len(c.slots)
    BY <1>c
  <2>2. DOMAIN s = DOMAIN c.slots /\ \A i \in DOMAIN c.slots : s[i] \in Slots
    BY <1>3
  <2>3. s = [i \in DOMAIN c.slots |-> s[i]]
    BY Zenon
  <2> HIDE DEF s
  <2>4. s \in [1..Len(c.slots) -> Slots]
    BY <2>1, <2>2, <2>3
  <2> QED
    BY <2>1, <2>2, <2>4
<1>5. w \in SUBSET (Producers \cup {NoWaker})
  BY <1>2, <1>c, <1>t DEF ChannelStates, Slots
<1>6. d = [c EXCEPT !.queue = << >>, !.slots = s, !.woken = w]
  BY DEF wake_all_sender_waiters, live
<1> HIDE DEF s, w
<1>7. d \in ChannelStates
  <2>1. << >> \in Seq(Keys)
    OBVIOUS
  <2> QED
    BY <2>1, <1>4, <1>5, <1>6, <1>t DEF ChannelStates
<1>8. d.slots = s /\ d.free_slots = c.free_slots /\ d.reserved_slots = c.reserved_slots /\ SameFrame(c, d)
  BY <1>6, <1>t DEF ChannelStates, SameFrame
<1>9. TableSound(d)
  BY <1>3, <1>4, <1>8, <1>t DEF TableSound, SlotSound, FreeListSound
<1>10. Reserved(d) = Reserved(c)
  BY <1>3, <1>4, <1>8 DEF Reserved
<1> QED
  BY <1>7, <1>8, <1>9, <1>10, <1>t DEF ChannelSound, CapacityBound, SameFrame

\* A registered key goes to the end of the queue.
LEMMA AppendKey ==
  ASSUME NEW q \in Seq(Keys), NEW k \in Keys, NEW r, r = Append(q, k)
  PROVE  /\ r \in Seq(Keys) /\ Len(q) + 1 \in DOMAIN r /\ r[Len(q) + 1] = k
         /\ \A n \in DOMAIN q : n \in DOMAIN r /\ r[n] = q[n]
OBVIOUS

\* A new slot gets the next index of the table.
LEMMA AppendSlot ==
  ASSUME NEW s \in Seq(Slots), NEW v \in Slots, NEW t, t = Append(s, v)
  PROVE  /\ t \in Seq(Slots) /\ Len(s) + 1 \in DOMAIN t /\ t[Len(s) + 1] = v
         /\ Len(s) + 1 \notin DOMAIN s /\ Len(s) \in Nat
         /\ \A j \in DOMAIN t : j \in DOMAIN s \/ j = Len(s) + 1
         /\ \A j \in DOMAIN s : j \in DOMAIN t /\ t[j] = s[j]
OBVIOUS

\* Reusing a slot takes it off the free list.
LEMMA FreeListPop ==
  ASSUME NEW f \in Seq(Nat), f # << >>, NEW g, g = SubSeq(f, 1, Len(f) - 1)
  PROVE  /\ g \in Seq(Nat) /\ Len(f) \in DOMAIN f /\ Len(f) \notin DOMAIN g
         /\ \A n \in DOMAIN g : n \in DOMAIN f /\ g[n] = f[n]
OBVIOUS

\* One slot of the table becomes a waiter without a grant under key k: the
\* common part of the three ways in which register_or_refresh can end.
QueuedSlot(c, d, k) ==
  /\ k.index \in DOMAIN d.slots
  /\ d.slots[k.index].generation = k.generation
  /\ d.slots[k.index].waker \in Producers /\ d.slots[k.index].in_use
  /\ ~d.slots[k.index].reserved
  /\ k.index \in DOMAIN c.slots => ~c.slots[k.index].reserved
  /\ \E n \in DOMAIN d.queue : d.queue[n] = k
  /\ \A n \in DOMAIN c.queue : \E m \in DOMAIN d.queue : d.queue[m] = c.queue[n]
  /\ \A j \in DOMAIN c.slots : j \in DOMAIN d.slots
  /\ \A j \in DOMAIN d.slots : j # k.index => j \in DOMAIN c.slots /\ d.slots[j] = c.slots[j]

\* Queueing one slot under its current key keeps the table sound.
LEMMA QueuedSlotSound ==
  ASSUME NEW c, ChannelSound(c), NEW d \in ChannelStates, NEW k \in Keys, QueuedSlot(c, d, k),
         FreeListSound(d), SameFrame(c, d), d.reserved_slots = c.reserved_slots
  PROVE  ChannelSound(d)
<1>t. c \in ChannelStates /\ TableSound(c) /\ CapacityBound(c)
  BY DEF ChannelSound
<1>1. k = [index |-> k.index, generation |-> k.generation]
  BY DEF Keys
<1>2. ASSUME NEW j \in DOMAIN d.slots PROVE SlotSound(d, j)
  <2>1. CASE j = k.index
    BY <2>1, <1>1 DEF SlotSound, KeyOf, QueuedSlot
  <2>2. CASE j # k.index
    <3>1. j \in DOMAIN c.slots /\ d.slots[j] = c.slots[j] /\ SlotSound(c, j)
      BY <2>2, <1>t DEF TableSound, QueuedSlot
    <3> QED
      BY <3>1 DEF SlotSound, KeyOf, QueuedSlot
  <2> QED
    BY <2>1, <2>2
<1>3. Reserved(d) = Reserved(c)
  BY DEF Reserved, QueuedSlot
<1> QED
  BY <1>2, <1>3, <1>t DEF ChannelSound, TableSound, CapacityBound, SameFrame

\* A waiter p that registers anew: the key gets the next generation and a slot that no
\* current key uses, and goes to the end of the queue.
NewWaiter(c, d, p, k) ==
  /\ k \in Keys /\ k.generation = c.next_generation /\ d.next_generation = c.next_generation + 1
  /\ d.queue = Append(c.queue, k) /\ d.woken = c.woken
  /\ k.index \in DOMAIN d.slots
  /\ d.slots[k.index] = [generation |-> c.next_generation, waker |-> p,
                         in_use |-> TRUE, queued |-> TRUE, reserved |-> FALSE]
  /\ \A j \in DOMAIN c.slots : j \in DOMAIN d.slots
  /\ \A j \in DOMAIN d.slots : j # k.index => j \in DOMAIN c.slots /\ d.slots[j] = c.slots[j]
  /\ k.index \in DOMAIN c.slots => ~c.slots[k.index].in_use

\* register_or_refresh on a full channel: the waiter is queued and somebody
\* (the receiver or a grant holder) will serve it.
LEMMA RegisterSound ==
  ASSUME NEW c, ChannelSound(c), NEW k \in Keys, ~OwnsReservation(c, k), AtCapacity(c),
         NEW p \in Producers, NEW d, NEW k2,
         d = register_or_refresh(c, k, p)[1], k2 = register_or_refresh(c, k, p)[2]
  PROVE  /\ ChannelSound(d) /\ NoStranded(d) /\ SameFrame(c, d) /\ k2 \in Keys
         /\ ~Current(c, k) => NewWaiter(c, d, p, k2)
<1>t. c \in ChannelStates /\ TableSound(c) /\ CapacityBound(c)
  BY DEF ChannelSound
<1>c. /\ c.slots \in Seq(Slots) /\ c.queue \in Seq(Keys) /\ c.free_slots \in Seq(Nat)
      /\ c.buffer \in Seq(Producers) /\ c.reserved_slots \in Nat /\ c.next_generation \in Nat
      /\ \A i \in DOMAIN c.slots : c.slots[i] \in Slots
  BY <1>t, Components
<1>1. CASE Current(c, k)
  <2> DEFINE i == k.index
             v == [c.slots[i] EXCEPT !.waker = p, !.queued = TRUE]
             q == IF c.slots[i].queued THEN c.queue ELSE Append(c.queue, k)
  <2>1. i \in DOMAIN c.slots /\ c.slots[i].in_use /\ ~c.slots[i].reserved
        /\ c.slots[i].generation = k.generation
    BY <1>1 DEF Current, OwnsReservation
  <2>2. v \in Slots /\ v.waker = p /\ v.in_use /\ ~v.reserved /\ v.generation = k.generation
    BY <2>1, <1>c DEF Slots
  <2>3. d = [c EXCEPT !.slots = [c.slots EXCEPT ![i] = v], !.queue = q] /\ k2 = k
    BY <1>1 DEF register_or_refresh
  <2>4. /\ q \in Seq(Keys) /\ \E n \in DOMAIN q : q[n] = k
        /\ \A n \in DOMAIN c.queue : \E m \in DOMAIN q : q[m] = c.queue[n]
    <3>1. CASE c.slots[i].queued
      <4>1. q = c.queue
        BY <3>1
      <4>2. \E n \in DOMAIN c.queue : c.queue[n] = KeyOf(c, i)
        BY <3>1, <2>1, <1>t DEF TableSound, SlotSound
      <4>3. KeyOf(c, i) = k
        BY <2>1 DEF KeyOf, Keys
      <4> QED
        BY <4>1, <4>2, <4>3, <1>c
    <3>2. CASE ~c.slots[i].queued
      <4>1. q = Append(c.queue, k)
        BY <3>2
      <4> DEFINE q0 == c.queue
      <4> HIDE DEF q, q0
      <4>2. q0 \in Seq(Keys) /\ q = Append(q0, k)
        BY <4>1, <1>c DEF q0
      <4>3. /\ q \in Seq(Keys) /\ Len(q0) + 1 \in DOMAIN q /\ q[Len(q0) + 1] = k
            /\ \A n \in DOMAIN q0 : n \in DOMAIN q /\ q[n] = q0[n]
        BY <4>2, AppendKey
      <4> QED
        BY <4>3, Zenon DEF q0
    <3> QED
      BY <3>1, <3>2
  <2> HIDE DEF i, v, q
  <2>5. /\ d.slots = [c.slots EXCEPT ![i] = v] /\ d.queue = q /\ d.free_slots = c.free_slots
        /\ d.reserved_slots = c.reserved_slots /\ SameFrame(c, d)
    BY <2>3, <1>t DEF ChannelStates, SameFrame
  <2>6. /\ d.slots \in Seq(Slots) /\ DOMAIN d.slots = DOMAIN c.slots /\ d.slots[i] = v
        /\ \A j \in DOMAIN c.slots : j # i => d.slots[j] = c.slots[j]
    BY <1>c, <2>1, <2>2, <2>5, SlotUpdate
  <2>7. d \in ChannelStates
    BY <2>3, <2>4, <2>5, <2>6, <1>t DEF ChannelStates
  <2>8. FreeListSound(d)
    BY <2>1, <2>2, <2>5, <2>6, <1>t DEF TableSound, FreeListSound
  <2>9. ChannelSound(d)
    <3>1. QueuedSlot(c, d, k)
      BY <2>1, <2>2, <2>4, <2>5, <2>6 DEF i, QueuedSlot
    <3> QED
      BY <3>1, <2>5, <2>7, <2>8, QueuedSlotSound
  <2>10. NoStranded(d)
    BY <2>5, <1>c, <1>t, CapacityAssumption DEF NoStranded, AtCapacity, CapacityBound, SameFrame
  <2> QED
    BY <1>1, <2>3, <2>5, <2>9, <2>10
<1>2. CASE ~Current(c, k)
  <2> DEFINE reuse == c.free_slots # << >>
             i == IF reuse THEN c.free_slots[Len(c.free_slots)] ELSE Len(c.slots) + 1
             new == [index |-> i, generation |-> c.next_generation]
             slot == [generation |-> c.next_generation, waker |-> p,
                      in_use |-> TRUE, queued |-> TRUE, reserved |-> FALSE]
             s == IF reuse THEN [c.slots EXCEPT ![i] = slot] ELSE Append(c.slots, slot)
             f == IF reuse THEN SubSeq(c.free_slots, 1, Len(c.free_slots) - 1)
                  ELSE c.free_slots
             q == Append(c.queue, new)
  <2>1. d = [c EXCEPT !.slots = s, !.free_slots = f,
                      !.next_generation = c.next_generation + 1, !.queue = q]
        /\ k2 = new
    BY <1>2 DEF register_or_refresh
  <2>2. slot \in Slots /\ slot.waker = p /\ slot.in_use /\ ~slot.reserved
        /\ slot.generation = c.next_generation
    BY <1>c DEF Slots
  <2> HIDE DEF slot
  <2>3. /\ i \in Nat /\ s \in Seq(Slots) /\ i \in DOMAIN s /\ s[i] = slot
        /\ \A j \in DOMAIN c.slots : j \in DOMAIN s
        /\ \A j \in DOMAIN s : j # i => j \in DOMAIN c.slots /\ s[j] = c.slots[j]
        /\ i \in DOMAIN c.slots => ~c.slots[i].in_use
        /\ f \in Seq(Nat)
        /\ \A n \in DOMAIN f : n \in DOMAIN c.free_slots /\ f[n] = c.free_slots[n] /\ f[n] # i
    <3>1. CASE reuse
      <4>1. /\ f \in Seq(Nat) /\ Len(c.free_slots) \in DOMAIN c.free_slots
            /\ Len(c.free_slots) \notin DOMAIN f
            /\ \A n \in DOMAIN f : n \in DOMAIN c.free_slots /\ f[n] = c.free_slots[n]
        <5> DEFINE f0 == c.free_slots
        <5>1. f0 \in Seq(Nat) /\ f0 # << >> /\ f = SubSeq(f0, 1, Len(f0) - 1)
          BY <3>1, <1>c
        <5> HIDE DEF f0, f
        <5>2. /\ f \in Seq(Nat) /\ Len(f0) \in DOMAIN f0 /\ Len(f0) \notin DOMAIN f
              /\ \A n \in DOMAIN f : n \in DOMAIN f0 /\ f[n] = f0[n]
          BY <5>1, FreeListPop
        <5> QED
          BY <5>2, Zenon DEF f0
      <4>2. i = c.free_slots[Len(c.free_slots)] /\ s = [c.slots EXCEPT ![i] = slot]
        BY <3>1
      <4> HIDE DEF f, i, s
      <4>3. i \in DOMAIN c.slots /\ ~c.slots[i].in_use
            /\ \A n \in DOMAIN f : f[n] # i
        BY <4>1, <4>2, <1>t DEF TableSound, FreeListSound
      <4>4. /\ s \in Seq(Slots) /\ DOMAIN s = DOMAIN c.slots /\ s[i] = slot
            /\ \A j \in DOMAIN c.slots : j # i => s[j] = c.slots[j]
        BY <4>2, <4>3, <2>2, <1>c, SlotUpdate
      <4>5. i \in Nat
        BY <4>3, <1>c
      <4> QED
        BY <4>1, <4>3, <4>4, <4>5
    <3>2. CASE ~reuse
      <4>1. i = Len(c.slots) + 1 /\ s = Append(c.slots, slot) /\ f = c.free_slots /\ f = << >>
        BY <3>2
      <4> HIDE DEF f, i, s, reuse
      <4>2. /\ s \in Seq(Slots) /\ i \in DOMAIN s /\ s[i] = slot
            /\ i \notin DOMAIN c.slots /\ i \in Nat
            /\ \A j \in DOMAIN s : j \in DOMAIN c.slots \/ j = i
            /\ \A j \in DOMAIN c.slots : j \in DOMAIN s /\ s[j] = c.slots[j]
        BY <4>1, <2>2, <1>c, AppendSlot
      <4>3. DOMAIN f = {}
        BY <4>1
      <4> QED
        BY <4>1, <4>2, <4>3, <1>c
    <3> QED
      BY <3>1, <3>2
  <2> HIDE DEF reuse, i, s, f
  <2>4. new \in Keys /\ new.index = i /\ new.generation = c.next_generation
    BY <2>3, <1>c DEF Keys
  <2> HIDE DEF new
  <2>5. /\ q \in Seq(Keys) /\ \E n \in DOMAIN q : q[n] = new
        /\ \A n \in DOMAIN c.queue : \E m \in DOMAIN q : q[m] = c.queue[n]
    <3>1. q = Append(c.queue, new)
      OBVIOUS
    <3> DEFINE q0 == c.queue
    <3> HIDE DEF q, q0
    <3>2. q0 \in Seq(Keys) /\ q = Append(q0, new) /\ new \in Keys
      BY <3>1, <2>4, <1>c DEF q0
    <3>3. /\ q \in Seq(Keys) /\ Len(q0) + 1 \in DOMAIN q /\ q[Len(q0) + 1] = new
          /\ \A n \in DOMAIN q0 : n \in DOMAIN q /\ q[n] = q0[n]
      BY <3>2, AppendKey
    <3> QED
      BY <3>3, Zenon DEF q0
  <2> HIDE DEF q
  <2>6. d.slots = s /\ d.queue = q /\ d.free_slots = f
        /\ d.reserved_slots = c.reserved_slots /\ SameFrame(c, d)
    BY <2>1, <1>t DEF ChannelStates, SameFrame
  <2>7. d \in ChannelStates
    <3>1. c.next_generation + 1 \in Nat
      BY <1>c
    <3> QED
      BY <3>1, <2>1, <2>3, <2>5, <1>t, ZenonT(40) DEF ChannelStates
  <2>8. FreeListSound(d)
    <3>1. FreeListSound(c)
      BY <1>t DEF TableSound
    <3>2. ASSUME NEW n \in DOMAIN f PROVE f[n] \in DOMAIN s /\ ~s[f[n]].in_use
      BY <3>1, <2>3 DEF FreeListSound
    <3>3. ASSUME NEW n \in DOMAIN f, NEW m \in DOMAIN f, f[n] = f[m] PROVE n = m
      BY <3>1, <3>3, <2>3 DEF FreeListSound
    <3> QED
      BY <3>2, <3>3, <2>6 DEF FreeListSound
  <2>9. i \in DOMAIN c.slots => ~c.slots[i].reserved
    BY <2>3, <1>t DEF TableSound, SlotSound
  <2>10. ChannelSound(d)
    <3>1. QueuedSlot(c, d, new)
      BY <2>2, <2>3, <2>4, <2>5, <2>6, <2>9 DEF QueuedSlot
    <3> QED
      BY <3>1, <2>4, <2>6, <2>7, <2>8, QueuedSlotSound
  <2>11. NoStranded(d)
    BY <2>6, <1>c, <1>t, CapacityAssumption DEF NoStranded, AtCapacity, CapacityBound, SameFrame
  <2>12. NewWaiter(c, d, p, k2)
    <3>1. d.queue = Append(c.queue, new)
      BY <2>6 DEF q
    <3>2. d.next_generation = c.next_generation + 1 /\ d.woken = c.woken
      BY <2>1, <1>t DEF ChannelStates
    <3> QED
      BY <2>1, <2>3, <2>4, <2>6, <3>1, <3>2 DEF NewWaiter, slot
  <2> QED
    BY <2>1, <2>4, <2>6, <2>10, <2>11, <2>12
<1> QED
  BY <1>1, <1>2

----------------------------------------------------------------------------
(* Operations of senders and receiver on a sound channel state.            *)

\* The receiver's half of the invariant, for a channel state c.
RxAwake(c, r) ==
  (r = "waiting" /\ ~c.rx_woken) => c.receiver_waker /\ c.buffer = << >> /\ ~c.is_closed

\* Updates that leave the waiter table alone.
LEMMA PlainUpdate ==
  ASSUME NEW c, ChannelSound(c), NEW d \in ChannelStates,
         d.slots = c.slots, d.queue = c.queue, d.free_slots = c.free_slots,
         d.reserved_slots = c.reserved_slots,
         Len(d.buffer) + d.reserved_slots <= Capacity
  PROVE  ChannelSound(d)
BY DEF ChannelSound, TableSound, SlotSound, KeyOf, FreeListSound, CapacityBound, Reserved

\* Waking the receiver touches nothing but its waker.
LEMMA WakeReceiverSound ==
  ASSUME NEW c, ChannelSound(c), NEW d, d = WakeReceiver(c)
  PROVE  /\ ChannelSound(d) /\ (NoStranded(c) => NoStranded(d))
         /\ d.buffer = c.buffer /\ d.is_closed = c.is_closed /\ d.senders = c.senders
         /\ d.rx_woken \/ (~c.receiver_waker /\ ~c.rx_woken)
<1>t. c \in ChannelStates
  BY DEF ChannelSound
<1>1. CASE ~c.receiver_waker
  BY <1>1, <1>t DEF WakeReceiver, ChannelStates
<1>2. CASE c.receiver_waker
  <2>1. d = [c EXCEPT !.receiver_waker = FALSE, !.rx_woken = TRUE]
    BY <1>2 DEF WakeReceiver
  <2>2. d \in ChannelStates
    BY <2>1, <1>t DEF ChannelStates
  <2>3. /\ d.slots = c.slots /\ d.queue = c.queue /\ d.free_slots = c.free_slots
        /\ d.reserved_slots = c.reserved_slots /\ d.buffer = c.buffer
        /\ d.is_closed = c.is_closed /\ d.senders = c.senders /\ d.rx_woken
    BY <2>1, <1>t DEF ChannelStates
  <2>4. ChannelSound(d)
    <3>1. Len(d.buffer) + d.reserved_slots <= Capacity
      BY <2>3 DEF ChannelSound, CapacityBound
    <3> QED
      BY <3>1, <2>2, <2>3, PlainUpdate
  <2> QED
    BY <2>3, <2>4 DEF NoStranded
<1> QED
  BY <1>1, <1>2, <1>t DEF ChannelStates

\* A value enters a channel that has room for it.
LEMMA BufferPush ==
  ASSUME NEW c, ChannelSound(c), NEW p \in Producers,
         Len(c.buffer) + c.reserved_slots < Capacity,
         NEW d, d = [c EXCEPT !.buffer = Append(c.buffer, p)]
  PROVE  /\ ChannelSound(d) /\ d.reserved_slots = c.reserved_slots
         /\ (NoStranded(c) => NoStranded(d))
         /\ d.is_closed = c.is_closed /\ d.senders = c.senders
         /\ d.has_receiver = c.has_receiver /\ d.receiver_waker = c.receiver_waker
         /\ d.rx_woken = c.rx_woken
<1>t. c \in ChannelStates
  BY DEF ChannelSound
<1>c. c.buffer \in Seq(Producers) /\ c.reserved_slots \in Nat
  BY <1>t, Components
<1>1. Append(c.buffer, p) \in Seq(Producers) /\ Len(Append(c.buffer, p)) = Len(c.buffer) + 1
      /\ Len(c.buffer) \in Nat
  BY <1>c
<1>2. d \in ChannelStates
  BY <1>1, <1>t DEF ChannelStates
<1>3. /\ d.slots = c.slots /\ d.queue = c.queue /\ d.free_slots = c.free_slots
      /\ d.reserved_slots = c.reserved_slots /\ Len(d.buffer) = Len(c.buffer) + 1
      /\ d.is_closed = c.is_closed /\ d.senders = c.senders
      /\ d.has_receiver = c.has_receiver /\ d.receiver_waker = c.receiver_waker
      /\ d.rx_woken = c.rx_woken
  BY <1>1, <1>t DEF ChannelStates
<1>4. ChannelSound(d)
  <2>1. Len(d.buffer) + d.reserved_slots <= Capacity
    BY <1>1, <1>3, <1>c, CapacityAssumption
  <2> QED
    BY <2>1, <1>2, <1>3, PlainUpdate
<1>5. NoStranded(c) => NoStranded(d)
  BY <1>1, <1>3, <1>c, CapacityAssumption DEF NoStranded
<1> QED
  BY <1>3, <1>4, <1>5

\* The end of SendFuture::poll: the value is pushed, the waiter unregistered and
\* the receiver woken, and nobody is stranded.
LEMMA CompleteSendSound ==
  ASSUME NEW c, ChannelSound(c), NEW k \in Keys, NEW p \in Producers,
         Len(c.buffer) + c.reserved_slots < Capacity, NEW d, d = CompleteSend(c, k, p)
  PROVE  /\ ChannelSound(d) /\ NoStranded(d) /\ d.senders = c.senders
         /\ d.is_closed = c.is_closed
         /\ d.rx_woken \/ (~c.receiver_waker /\ ~c.rx_woken)
<1> DEFINE a == [c EXCEPT !.buffer = Append(c.buffer, p)]
           b == unregister_sender_waiter(a, k)
           e == IF b.reserved_slots = 0 THEN grant_one_sender_waiter(b) ELSE b
<1>1. /\ ChannelSound(a) /\ a.senders = c.senders /\ a.is_closed = c.is_closed
      /\ a.receiver_waker = c.receiver_waker /\ a.rx_woken = c.rx_woken
  BY BufferPush
<1>2. d = WakeReceiver(e)
  BY Zenon DEF CompleteSend
<1> HIDE DEF a
<1>3. ChannelSound(b) /\ SameFrame(a, b)
  BY <1>1, UnregisterSound
<1> HIDE DEF b
<1>4. ChannelSound(e) /\ NoStranded(e) /\ SameFrame(b, e)
  <2>1. CASE b.reserved_slots = 0
    BY <2>1, <1>3, GrantSound
  <2>2. CASE b.reserved_slots # 0
    <3>1. b.reserved_slots \in Nat
      BY <1>3, Components DEF ChannelSound
    <3> QED
      BY <2>2, <3>1, <1>3 DEF NoStranded, SameFrame
  <2> QED
    BY <2>1, <2>2
<1> HIDE DEF e
<1>5. /\ ChannelSound(d) /\ NoStranded(d)
      /\ d.is_closed = e.is_closed /\ d.senders = e.senders
      /\ d.rx_woken \/ (~e.receiver_waker /\ ~e.rx_woken)
  BY <1>2, <1>4, WakeReceiverSound
<1> QED
  BY <1>1, <1>3, <1>4, <1>5 DEF SameFrame

\* Dropping a Sender, the last one included, keeps a sound channel.
LEMMA DropHandleSound ==
  ASSUME NEW c, ChannelSound(c), c.senders # 0, NEW d, d = DropHandle(c)
  PROVE  /\ ChannelSound(d) /\ (NoStranded(c) => NoStranded(d))
         /\ d.senders = c.senders - 1
         /\ \A r : RxAwake(c, r) => RxAwake(d, r)
         /\ c.rx_woken => d.rx_woken
<1> DEFINE a == [c EXCEPT !.senders = c.senders - 1]
           b == [a EXCEPT !.is_closed = TRUE]
<1>t. c \in ChannelStates /\ c.senders \in Nat /\ c.rx_woken \in BOOLEAN
  BY DEF ChannelSound, ChannelStates
<1>1. c.senders - 1 \in Nat
  BY <1>t
<1>2. d = IF a.senders = 0 THEN WakeReceiver(b) ELSE a
  BY Zenon DEF DropHandle
<1>3. /\ a \in ChannelStates /\ a.senders = c.senders - 1
      /\ a.slots = c.slots /\ a.queue = c.queue /\ a.free_slots = c.free_slots
      /\ a.reserved_slots = c.reserved_slots /\ a.buffer = c.buffer
      /\ a.is_closed = c.is_closed /\ a.rx_woken = c.rx_woken
      /\ a.receiver_waker = c.receiver_waker
  BY <1>1, <1>t DEF ChannelStates
<1> HIDE DEF a
<1>4. /\ b \in ChannelStates /\ b.senders = a.senders
      /\ b.slots = c.slots /\ b.queue = c.queue /\ b.free_slots = c.free_slots
      /\ b.reserved_slots = c.reserved_slots /\ b.buffer = c.buffer /\ b.is_closed
      /\ b.rx_woken = c.rx_woken /\ b.receiver_waker = c.receiver_waker
  BY <1>3 DEF ChannelStates
<1> HIDE DEF b
<1>5. Len(c.buffer) + c.reserved_slots <= Capacity
  BY DEF ChannelSound, CapacityBound
<1>6. ChannelSound(a) /\ ChannelSound(b)
  BY <1>3, <1>4, <1>5, PlainUpdate
<1>7. CASE a.senders = 0
  <2>1. d = WakeReceiver(b)
    BY <1>2, <1>7
  <2>2. /\ ChannelSound(d) /\ d.senders = b.senders /\ d.is_closed
        /\ d.rx_woken \/ (~b.receiver_waker /\ ~b.rx_woken)
    BY <2>1, <1>4, <1>6, WakeReceiverSound
  <2> QED
    BY <2>2, <1>3, <1>4, <1>t DEF NoStranded, RxAwake
<1>8. CASE a.senders # 0
  BY <1>2, <1>3, <1>6, <1>8 DEF NoStranded, RxAwake
<1> QED
  BY <1>7, <1>8

\* try_recv: the notification at capacity-1 and at 0 strands nobody.
LEMMA PopSound ==
  ASSUME NEW c, ChannelSound(c), NoStranded(c), c.buffer # << >>, NEW d, d = Pop(c)
  PROVE  ChannelSound(d) /\ NoStranded(d) /\ d.senders = c.senders
<1> DEFINE a == [c EXCEPT !.buffer = Tail(c.buffer)]
<1>t. c \in ChannelStates
  BY DEF ChannelSound
<1>c. c.buffer \in Seq(Producers) /\ c.reserved_slots \in Nat
  BY <1>t, Components
<1>1. Tail(c.buffer) \in Seq(Producers) /\ Len(Tail(c.buffer)) = Len(c.buffer) - 1
      /\ Len(c.buffer) \in Nat
  BY <1>c
<1>2. d = IF Len(a.buffer) = Capacity - 1 \/ a.buffer = << >>
          THEN grant_one_sender_waiter(a) ELSE a
  BY Zenon DEF Pop
<1>3. /\ a \in ChannelStates /\ a.senders = c.senders /\ a.is_closed = c.is_closed
      /\ a.slots = c.slots /\ a.queue = c.queue /\ a.free_slots = c.free_slots
      /\ a.reserved_slots = c.reserved_slots /\ Len(a.buffer) = Len(c.buffer) - 1
  BY <1>1, <1>t DEF ChannelStates
<1> HIDE DEF a
<1>4. ChannelSound(a)
  <2>1. Len(a.buffer) + a.reserved_slots <= Capacity
    BY <1>1, <1>3, <1>c, CapacityAssumption DEF ChannelSound, CapacityBound
  <2> QED
    BY <2>1, <1>3, PlainUpdate
<1>5. CASE Len(a.buffer) = Capacity - 1 \/ a.buffer = << >>
  BY <1>2, <1>3, <1>4, <1>5, GrantSound DEF SameFrame
<1>6. CASE ~(Len(a.buffer) = Capacity - 1 \/ a.buffer = << >>)
  <2>1. Len(c.buffer) # Capacity
    BY <1>3, <1>6
  <2>2. NoStranded(a)
    BY <2>1, <1>3 DEF NoStranded
  <2> QED
    BY <2>2, <1>2, <1>3, <1>4, <1>6
<1> QED
  BY <1>5, <1>6

----------------------------------------------------------------------------
(* The inductive invariant.                                                *)

Handles == {p \in Producers : task[p] # "absent"}
Futures == {p \in Producers : task[p] = "blocked"}

\* Every live handle, and every SendFuture's clone of one, is counted.
SendersCounted == ch.senders = Cardinality(Handles) + Cardinality(Futures)

IInv ==
  /\ TypeOK
  /\ ChannelSound(ch)
  /\ NoStrandedWaiter
  /\ SendersCounted
  /\ NoLostReceiverWake

\* Handles and futures can be counted.
LEMMA CountsFinite ==
  /\ IsFiniteSet(Handles) /\ Cardinality(Handles) \in Nat
  /\ IsFiniteSet(Futures) /\ Cardinality(Futures) \in Nat
<1>1. Handles \subseteq Producers /\ Futures \subseteq Producers
  BY DEF Handles, Futures
<1> QED
  BY <1>1, ProducersAssumption, FS_Subset, FS_CardinalityType

\* A producer that holds a handle, or a future as well, is counted.
LEMMA HandleCounted ==
  ASSUME SendersCounted, NEW p \in Producers, task[p] # "absent"
  PROVE  ch.senders # 0 /\ ch.senders \in Nat
<1>1. p \in Handles
  BY DEF Handles
<1>2. Cardinality(Handles) # 0
  BY <1>1, CountsFinite, FS_EmptySet
<1> QED
  BY <1>2, CountsFinite DEF SendersCounted

\* When a blocked send ends, the handle it holds is given back.
LEMMA FutureEnds ==
  ASSUME SendersCounted, task \in [Producers -> {"absent", "idle", "blocked"}],
         NEW p \in Producers, task[p] = "blocked", task' = [task EXCEPT ![p] = "idle"],
         ch'.senders = ch.senders - 1
  PROVE  SendersCounted'
<1>1. Handles' = Handles /\ Futures' = Futures \ {p} /\ p \in Futures
  BY DEF Handles, Futures
<1>2. Cardinality(Futures') = Cardinality(Futures) - 1
  BY <1>1, CountsFinite, FS_RemoveElement
<1> QED
  BY <1>1, <1>2, CountsFinite DEF SendersCounted

\* The invariant holds of a new channel.
THEOREM InitIInv == Init => IInv
<1> SUFFICES ASSUME Init PROVE IInv
  OBVIOUS
<1>e. << >> \in Seq(Producers) /\ << >> \in Seq(Slots) /\ << >> \in Seq(Keys) /\ << >> \in Seq(Nat)
  OBVIOUS
<1>1. PICK p0 \in Producers : task = [q \in Producers |-> IF q = p0 THEN "idle" ELSE "absent"]
  BY DEF Init
<1>2. ch \in ChannelStates
  BY <1>e DEF Init, ChannelStates
<1>3. NoKey \in Keys
  BY DEF NoKey, Keys
<1>4. TypeOK
  BY <1>1, <1>2, <1>3 DEF Init, TypeOK
<1>5. /\ ch.slots = << >> /\ ch.free_slots = << >> /\ ch.buffer = << >>
      /\ ch.reserved_slots = 0 /\ ch.senders = 1
  BY DEF Init
<1>6. TableSound(ch) /\ NoStrandedWaiter
  BY <1>5 DEF TableSound, FreeListSound, NoStrandedWaiter, NoStranded
<1>7. CapacityBound(ch)
  <2>1. Reserved(ch) = {}
    BY <1>5 DEF Reserved
  <2> QED
    BY <2>1, <1>5, FS_EmptySet, CapacityAssumption DEF CapacityBound
<1>8. SendersCounted
  <2>1. Handles = {p0} /\ Futures = {}
    BY <1>1 DEF Handles, Futures
  <2>2. Cardinality(Handles) = 1 /\ Cardinality(Futures) = 0
    BY <2>1, FS_EmptySet, FS_Singleton
  <2> QED
    BY <2>2, <1>5 DEF SendersCounted
<1>9. NoLostReceiverWake
  BY DEF Init, NoLostReceiverWake
<1> QED
  BY <1>2, <1>4, <1>6, <1>7, <1>8, <1>9 DEF IInv, ChannelSound

\* The invariant of the next state from its parts.
LEMMA IInvNext ==
  ASSUME ChannelSound(ch'), NoStranded(ch'), SendersCounted', RxAwake(ch', rx'),
         task' \in [Producers -> {"absent", "idle", "blocked"}],
         key' \in [Producers -> Keys], rx' \in {"idle", "waiting", "dropped"}
  PROVE  IInv'
BY DEF IInv, TypeOK, ChannelSound, NoStrandedWaiter, NoLostReceiverWake, RxAwake

\* Every step of the channel preserves the invariant.
THEOREM StepIInv == IInv /\ [Next]_vars => IInv'
<1> SUFFICES ASSUME IInv, [Next]_vars PROVE IInv'
  OBVIOUS
<1>i. /\ ChannelSound(ch) /\ NoStranded(ch) /\ SendersCounted /\ RxAwake(ch, rx)
      /\ task \in [Producers -> {"absent", "idle", "blocked"}]
      /\ key \in [Producers -> Keys] /\ rx \in {"idle", "waiting", "dropped"}
      /\ ch \in ChannelStates
  BY DEF IInv, TypeOK, ChannelSound, NoStrandedWaiter, NoLostReceiverWake, RxAwake
<1>b. /\ ch.buffer \in Seq(Producers) /\ Len(ch.buffer) \in Nat /\ ch.reserved_slots \in Nat
      /\ ch.rx_woken \in BOOLEAN /\ ch.receiver_waker \in BOOLEAN /\ ch.senders \in Nat
  BY <1>i DEF ChannelStates
<1>n. NoKey \in Keys
  BY DEF NoKey, Keys
<1>k. \A p \in Producers : key[p] \in Keys /\ [key EXCEPT ![p] = NoKey] \in [Producers -> Keys]
  BY <1>i, <1>n
\* The poll of a send starts by taking the task off the executor's run queue.
<1>w. ASSUME NEW p \in Producers, NEW c, c = [ch EXCEPT !.woken = ch.woken \ {p}]
      PROVE  /\ ChannelSound(c) /\ NoStranded(c) /\ SameFrame(ch, c)
             /\ c.reserved_slots = ch.reserved_slots
  <2>1. c \in ChannelStates
    BY <1>w, <1>i DEF ChannelStates
  <2>2. /\ SameFrame(ch, c) /\ c.reserved_slots = ch.reserved_slots /\ c.slots = ch.slots
        /\ c.queue = ch.queue /\ c.free_slots = ch.free_slots /\ c.buffer = ch.buffer
        /\ c.is_closed = ch.is_closed
    BY <1>w, <1>i DEF ChannelStates, SameFrame
  <2>3. ChannelSound(c)
    <3>1. Len(ch.buffer) + ch.reserved_slots <= Capacity
      BY <1>i DEF ChannelSound, CapacityBound
    <3> QED
      BY <3>1, <2>1, <2>2, <1>i, PlainUpdate
  <2> QED
    BY <2>2, <2>3, <1>i DEF NoStranded
<1>1. ASSUME NEW p \in Producers, Send(p) PROVE IInv'
  <2> DEFINE a == [ch EXCEPT !.buffer = Append(ch.buffer, p)]
  <2>0. ch' = WakeReceiver(a) /\ UNCHANGED <<task, key, rx>> /\ ~AtCapacity(ch)
    BY <1>1 DEF Send, Push
  <2>1. Len(ch.buffer) + ch.reserved_slots < Capacity
    BY <2>0, <1>b, CapacityAssumption DEF AtCapacity
  <2>2. /\ ChannelSound(a) /\ NoStranded(a) /\ a.senders = ch.senders
        /\ a.receiver_waker = ch.receiver_waker /\ a.rx_woken = ch.rx_woken
    BY <2>1, <1>i, BufferPush
  <2> HIDE DEF a
  <2>3. /\ ChannelSound(ch') /\ NoStranded(ch') /\ ch'.senders = ch.senders
        /\ ch'.rx_woken \/ (~ch.receiver_waker /\ ~ch.rx_woken)
    BY <2>0, <2>2, WakeReceiverSound
  <2>4. SendersCounted' /\ RxAwake(ch', rx')
    BY <2>0, <2>3, <1>i DEF SendersCounted, Handles, Futures, RxAwake
  <2> QED
    BY <2>0, <2>3, <2>4, <1>i, IInvNext
<1>2. ASSUME NEW p \in Producers, SendBlocks(p) PROVE IInv'
  <2> DEFINE r == register_or_refresh(ch, NoKey, p)
             d == r[1]
  <2>0. /\ AtCapacity(ch) /\ task[p] = "idle"
        /\ ch' = [d EXCEPT !.senders = ch.senders + 1]
        /\ key' = [key EXCEPT ![p] = r[2]]
        /\ task' = [task EXCEPT ![p] = "blocked"] /\ rx' = rx
    BY <1>2 DEF SendBlocks
  <2>1. ~OwnsReservation(ch, NoKey)
    BY <1>i, Components DEF OwnsReservation, Current, NoKey
  <2>2. ChannelSound(d) /\ NoStranded(d) /\ SameFrame(ch, d) /\ r[2] \in Keys
    BY <2>0, <2>1, <1>i, <1>n, RegisterSound
  <2> HIDE DEF r, d
  <2>3. d \in ChannelStates
    BY <2>2 DEF ChannelSound
  <2>4. ch.senders + 1 \in Nat
    BY <1>b
  <2>5. /\ ch' \in ChannelStates /\ ch'.senders = ch.senders + 1
        /\ ch'.slots = d.slots /\ ch'.queue = d.queue /\ ch'.free_slots = d.free_slots
        /\ ch'.reserved_slots = d.reserved_slots /\ ch'.buffer = d.buffer
        /\ ch'.is_closed = d.is_closed /\ ch'.rx_woken = d.rx_woken
        /\ ch'.receiver_waker = d.receiver_waker
    BY <2>0, <2>3, <2>4 DEF ChannelStates
  <2>6. ChannelSound(ch')
    <3>1. Len(d.buffer) + d.reserved_slots <= Capacity
      BY <2>2 DEF ChannelSound, CapacityBound
    <3> QED
      BY <3>1, <2>2, <2>5, PlainUpdate
  <2>7. NoStranded(ch') /\ RxAwake(ch', rx')
    BY <2>0, <2>2, <2>5, <1>i DEF NoStranded, RxAwake, SameFrame
  <2>8. SendersCounted'
    <3>1. Handles' = Handles /\ Futures' = Futures \cup {p} /\ p \notin Futures
      BY <2>0, <1>i DEF Handles, Futures
    <3>2. Cardinality(Futures') = Cardinality(Futures) + 1
      BY <3>1, CountsFinite, FS_AddElement
    <3> QED
      BY <3>1, <3>2, <2>5, <1>i, CountsFinite DEF SendersCounted
  <2>9. task' \in [Producers -> {"absent", "idle", "blocked"}] /\ key' \in [Producers -> Keys]
        /\ rx' \in {"idle", "waiting", "dropped"}
    BY <2>0, <2>2, <1>i
  <2> QED
    BY <2>6, <2>7, <2>8, <2>9, IInvNext
\* A SendFuture that is done or dropped gives its clone of the sender back.
<1>f. ASSUME NEW p \in Producers, task[p] = "blocked", NEW d, ChannelSound(d), NoStranded(d),
             d.senders = ch.senders, RxAwake(d, rx), ch' = DropHandle(d),
             key' = [key EXCEPT ![p] = NoKey], task' = [task EXCEPT ![p] = "idle"], rx' = rx
      PROVE  IInv'
  <2>1. d.senders # 0
    BY <1>f, <1>i, HandleCounted
  <2>2. ChannelSound(ch') /\ NoStranded(ch') /\ ch'.senders = ch.senders - 1 /\ RxAwake(ch', rx')
    BY <1>f, <2>1, DropHandleSound
  <2>3. SendersCounted'
    BY <1>f, <2>2, <1>i, FutureEnds
  <2>4. task' \in [Producers -> {"absent", "idle", "blocked"}] /\ key' \in [Producers -> Keys]
        /\ rx' \in {"idle", "waiting", "dropped"}
    BY <1>f, <1>i, <1>n
  <2> QED
    BY <2>2, <2>3, <2>4, IInvNext
<1>3. ASSUME NEW p \in Producers, PollSend(p) PROVE IInv'
  <2> DEFINE c == [ch EXCEPT !.woken = ch.woken \ {p}]
             k == key[p]
             Finish(d) == /\ ch' = DropHandle(d)
                          /\ key' = [key EXCEPT ![p] = NoKey]
                          /\ task' = [task EXCEPT ![p] = "idle"]
  <2>0. /\ task[p] = "blocked" /\ rx' = rx
        /\ \/ Closed(c) /\ Finish(unregister_sender_waiter(c, k))
           \/ /\ OwnsReservation(c, k)
              /\ Finish(CompleteSend(consume_reservation(c, k), k, p))
           \/ ~OwnsReservation(c, k) /\ ~AtCapacity(c) /\ Finish(CompleteSend(c, k, p))
           \/ /\ ~OwnsReservation(c, k) /\ AtCapacity(c)
              /\ ch' = register_or_refresh(c, k, p)[1]
              /\ key' = [key EXCEPT ![p] = register_or_refresh(c, k, p)[2]]
              /\ task' = task
    BY <1>3, Zenon DEF PollSend
  <2>1. /\ ChannelSound(c) /\ NoStranded(c) /\ SameFrame(ch, c)
        /\ c.reserved_slots = ch.reserved_slots
    BY <1>w
  <2> HIDE DEF c
  <2>2. k \in Keys
    BY <1>k
  <2> HIDE DEF k
  <2>3. RxAwake(c, rx) /\ c.senders = ch.senders
    BY <2>1, <1>i DEF RxAwake, SameFrame
  <2>4. CASE Finish(unregister_sender_waiter(c, k))
    <3> DEFINE d == unregister_sender_waiter(c, k)
    <3>1. ChannelSound(d) /\ NoStranded(d) /\ SameFrame(c, d)
      BY <2>1, <2>2, UnregisterSound
    <3>2. Finish(d)
      BY <2>4
    <3> HIDE DEF d
    <3>3. d.senders = ch.senders /\ RxAwake(d, rx)
      BY <3>1, <2>3 DEF SameFrame, RxAwake
    <3> QED
      BY <3>1, <3>2, <3>3, <2>0, <1>f
  <2>5. CASE OwnsReservation(c, k) /\ Finish(CompleteSend(consume_reservation(c, k), k, p))
    <3> DEFINE e == consume_reservation(c, k)
               d == CompleteSend(e, k, p)
    <3>0. Finish(d)
      BY <2>5
    <3>1. /\ ChannelSound(e) /\ SameFrame(c, e) /\ Len(e.buffer) + e.reserved_slots < Capacity
      BY <2>1, <2>2, <2>5, ConsumeSound
    <3> HIDE DEF e
    <3>2. /\ ChannelSound(d) /\ NoStranded(d) /\ d.senders = e.senders
          /\ d.rx_woken \/ (~e.receiver_waker /\ ~e.rx_woken)
      BY <3>1, <2>2, CompleteSendSound
    <3> HIDE DEF d
    <3>3. d.senders = ch.senders /\ RxAwake(d, rx)
      BY <3>1, <3>2, <2>3 DEF SameFrame, RxAwake
    <3> QED
      BY <3>0, <3>2, <3>3, <2>0, <1>f
  <2>6. CASE ~AtCapacity(c) /\ Finish(CompleteSend(c, k, p))
    <3> DEFINE d == CompleteSend(c, k, p)
    <3>0. Finish(d)
      BY <2>6
    <3>1. Len(c.buffer) + c.reserved_slots < Capacity
      BY <2>1, <2>6, <1>b, CapacityAssumption DEF AtCapacity, SameFrame
    <3>2. /\ ChannelSound(d) /\ NoStranded(d) /\ d.senders = c.senders
          /\ d.rx_woken \/ (~c.receiver_waker /\ ~c.rx_woken)
      BY <3>1, <2>1, <2>2, CompleteSendSound
    <3> HIDE DEF d
    <3>3. d.senders = ch.senders /\ RxAwake(d, rx)
      BY <3>2, <2>3 DEF RxAwake
    <3> QED
      BY <3>0, <3>2, <3>3, <2>0, <1>f
  <2>7. CASE /\ ~OwnsReservation(c, k) /\ AtCapacity(c)
             /\ ch' = register_or_refresh(c, k, p)[1]
             /\ key' = [key EXCEPT ![p] = register_or_refresh(c, k, p)[2]]
             /\ task' = task
    <3> DEFINE r == register_or_refresh(c, k, p)
    <3>1. ChannelSound(r[1]) /\ NoStranded(r[1]) /\ SameFrame(c, r[1]) /\ r[2] \in Keys
      BY <2>1, <2>2, <2>7, RegisterSound
    <3>2. ch' = r[1] /\ key' = [key EXCEPT ![p] = r[2]] /\ task' = task
      BY <2>7
    <3> HIDE DEF r
    <3>3. ch'.senders = ch.senders /\ RxAwake(ch', rx')
      BY <3>1, <3>2, <2>0, <2>3 DEF SameFrame, RxAwake
    <3>4. SendersCounted'
      BY <3>2, <3>3, <1>i DEF SendersCounted, Handles, Futures
    <3>5. key' \in [Producers -> Keys]
      BY <3>1, <3>2, <1>i
    <3> QED
      BY <3>1, <3>2, <3>3, <3>4, <3>5, <2>0, <1>i, IInvNext
  <2> QED
    BY <2>0, <2>4, <2>5, <2>6, <2>7
<1>4. ASSUME NEW p \in Producers, CancelSend(p) PROVE IInv'
  <2> DEFINE c == [ch EXCEPT !.woken = ch.woken \ {p}]
             d == unregister_sender_waiter(c, key[p])
  <2>0. /\ task[p] = "blocked" /\ ch' = DropHandle(d) /\ key' = [key EXCEPT ![p] = NoKey]
        /\ task' = [task EXCEPT ![p] = "idle"] /\ rx' = rx
    BY <1>4 DEF CancelSend
  <2>1. ChannelSound(c) /\ NoStranded(c) /\ SameFrame(ch, c)
    BY <1>w
  <2> HIDE DEF c
  <2>2. ChannelSound(d) /\ NoStranded(d) /\ SameFrame(c, d)
    BY <2>1, <1>k, UnregisterSound
  <2> HIDE DEF d
  <2>3. d.senders = ch.senders /\ RxAwake(d, rx)
    BY <2>1, <2>2, <1>i DEF SameFrame, RxAwake
  <2> QED
    BY <2>0, <2>2, <2>3, <1>f
<1>5. ASSUME NEW p \in Producers, DropSender(p) PROVE IInv'
  <2>0. /\ task[p] = "idle" /\ ch' = DropHandle(ch) /\ task' = [task EXCEPT ![p] = "absent"]
        /\ key' = key /\ rx' = rx
    BY <1>5 DEF DropSender
  <2>1. ch.senders # 0
    BY <2>0, <1>i, HandleCounted
  <2>2. ChannelSound(ch') /\ NoStranded(ch') /\ ch'.senders = ch.senders - 1 /\ RxAwake(ch', rx')
    BY <2>0, <2>1, <1>i, DropHandleSound
  <2>3. SendersCounted'
    <3>1. Handles' = Handles \ {p} /\ Futures' = Futures /\ p \in Handles
      BY <2>0, <1>i DEF Handles, Futures
    <3>2. Cardinality(Handles') = Cardinality(Handles) - 1
      BY <3>1, CountsFinite, FS_RemoveElement
    <3> QED
      BY <3>1, <3>2, <2>2, <1>i, CountsFinite DEF SendersCounted
  <2> QED
    BY <2>0, <2>2, <2>3, <1>i, IInvNext
<1>6. ASSUME NEW p \in Producers, Close(p) PROVE IInv'
  <2> DEFINE a == [ch EXCEPT !.is_closed = TRUE]
             b == WakeReceiver(a)
  <2>0. ch' = wake_all_sender_waiters(b) /\ UNCHANGED <<task, key, rx>>
    BY <1>6 DEF Close
  <2>1. /\ a \in ChannelStates /\ a.slots = ch.slots /\ a.queue = ch.queue
        /\ a.free_slots = ch.free_slots /\ a.reserved_slots = ch.reserved_slots
        /\ a.buffer = ch.buffer /\ a.is_closed /\ a.senders = ch.senders
        /\ a.receiver_waker = ch.receiver_waker /\ a.rx_woken = ch.rx_woken
    BY <1>i DEF ChannelStates
  <2> HIDE DEF a
  <2>2. ChannelSound(a)
    <3>1. Len(ch.buffer) + ch.reserved_slots <= Capacity
      BY <1>i DEF ChannelSound, CapacityBound
    <3> QED
      BY <3>1, <2>1, <1>i, PlainUpdate
  <2>3. /\ ChannelSound(b) /\ b.senders = a.senders /\ b.is_closed
        /\ b.rx_woken \/ (~a.receiver_waker /\ ~a.rx_woken)
    BY <2>1, <2>2, WakeReceiverSound
  <2> HIDE DEF b
  <2>4. ChannelSound(ch') /\ SameFrame(b, ch')
    BY <2>0, <2>3, WakeAllSound
  <2>5. NoStranded(ch') /\ RxAwake(ch', rx') /\ ch'.senders = ch.senders
    BY <2>0, <2>1, <2>3, <2>4, <1>i DEF NoStranded, RxAwake, SameFrame
  <2>6. SendersCounted'
    BY <2>0, <2>5, <1>i DEF SendersCounted, Handles, Futures
  <2> QED
    BY <2>0, <2>4, <2>5, <2>6, <1>i, IInvNext
<1>7. ASSUME NEW p \in Producers, NEW q \in Producers, CloneSender(p, q) PROVE IInv'
  <2>0. /\ task[q] = "absent" /\ ch' = [ch EXCEPT !.senders = ch.senders + 1]
        /\ task' = [task EXCEPT ![q] = "idle"] /\ key' = key /\ rx' = rx
    BY <1>7 DEF CloneSender
  <2>1. ch.senders + 1 \in Nat
    BY <1>b
  <2>2. /\ ch' \in ChannelStates /\ ch'.senders = ch.senders + 1
        /\ ch'.slots = ch.slots /\ ch'.queue = ch.queue /\ ch'.free_slots = ch.free_slots
        /\ ch'.reserved_slots = ch.reserved_slots /\ ch'.buffer = ch.buffer
        /\ ch'.is_closed = ch.is_closed /\ ch'.rx_woken = ch.rx_woken
        /\ ch'.receiver_waker = ch.receiver_waker
    BY <2>0, <2>1, <1>i DEF ChannelStates
  <2>3. ChannelSound(ch')
    <3>1. Len(ch.buffer) + ch.reserved_slots <= Capacity
      BY <1>i DEF ChannelSound, CapacityBound
    <3> QED
      BY <3>1, <2>2, <1>i, PlainUpdate
  <2>4. NoStranded(ch') /\ RxAwake(ch', rx')
    BY <2>0, <2>2, <1>i DEF NoStranded, RxAwake
  <2>5. SendersCounted'
    <3>1. Handles' = Handles \cup {q} /\ Futures' = Futures /\ q \notin Handles
      BY <2>0, <1>i DEF Handles, Futures
    <3>2. Cardinality(Handles') = Cardinality(Handles) + 1
      BY <3>1, CountsFinite, FS_AddElement
    <3> QED
      BY <3>1, <3>2, <2>2, <1>i, CountsFinite DEF SendersCounted
  <2> QED
    BY <2>0, <2>3, <2>4, <2>5, <1>i, IInvNext
<1>8. CASE TryRecv
  <2>0. rx = "idle" /\ ch.buffer # << >> /\ ch' = Pop(ch) /\ UNCHANGED <<task, key, rx>>
    BY <1>8 DEF TryRecv
  <2>1. ChannelSound(ch') /\ NoStranded(ch') /\ ch'.senders = ch.senders
    BY <2>0, <1>i, PopSound
  <2>2. SendersCounted' /\ RxAwake(ch', rx')
    BY <2>0, <2>1, <1>i DEF SendersCounted, Handles, Futures, RxAwake
  <2> QED
    BY <2>0, <2>1, <2>2, <1>i, IInvNext
<1>9. CASE PollRecv
  <2> DEFINE c == [ch EXCEPT !.rx_woken = FALSE]
             e == [c EXCEPT !.receiver_waker = TRUE]
  <2>0. /\ UNCHANGED <<task, key>>
        /\ \/ ch.buffer # << >> /\ ch' = Pop(c) /\ rx' = "idle"
           \/ ch' = c /\ rx' = "idle"
           \/ ch.buffer = << >> /\ ~ch.is_closed /\ ch' = e /\ rx' = "waiting"
    BY <1>9 DEF PollRecv
  <2>1. /\ c \in ChannelStates /\ c.slots = ch.slots /\ c.queue = ch.queue
        /\ c.free_slots = ch.free_slots /\ c.reserved_slots = ch.reserved_slots
        /\ c.buffer = ch.buffer /\ c.is_closed = ch.is_closed /\ c.senders = ch.senders
    BY <1>i DEF ChannelStates
  <2>2. /\ e \in ChannelStates /\ e.slots = ch.slots /\ e.queue = ch.queue
        /\ e.free_slots = ch.free_slots /\ e.reserved_slots = ch.reserved_slots
        /\ e.buffer = ch.buffer /\ e.is_closed = ch.is_closed /\ e.senders = ch.senders
        /\ e.receiver_waker
    BY <1>i DEF ChannelStates
  <2> HIDE DEF c, e
  <2>3. ChannelSound(c) /\ ChannelSound(e) /\ NoStranded(c) /\ NoStranded(e)
    <3>1. Len(ch.buffer) + ch.reserved_slots <= Capacity
      BY <1>i DEF ChannelSound, CapacityBound
    <3>2. ChannelSound(c) /\ ChannelSound(e)
      BY <3>1, <2>1, <2>2, <1>i, PlainUpdate
    <3> QED
      BY <3>2, <2>1, <2>2, <1>i DEF NoStranded
  <2>4. ChannelSound(ch') /\ NoStranded(ch') /\ ch'.senders = ch.senders /\ RxAwake(ch', rx')
    <3>1. CASE ch.buffer # << >> /\ ch' = Pop(c) /\ rx' = "idle"
      BY <3>1, <2>1, <2>3, PopSound DEF RxAwake
    <3>2. CASE ch' = c /\ rx' = "idle"
      BY <3>2, <2>1, <2>3 DEF RxAwake
    <3>3. CASE ch.buffer = << >> /\ ~ch.is_closed /\ ch' = e /\ rx' = "waiting"
      BY <3>3, <2>2, <2>3 DEF RxAwake
    <3> QED
      BY <2>0, <3>1, <3>2, <3>3
  <2>5. SendersCounted'
    BY <2>0, <2>4, <1>i DEF SendersCounted, Handles, Futures
  <2>6. rx' \in {"idle", "waiting", "dropped"}
    BY <2>0
  <2> QED
    BY <2>0, <2>4, <2>5, <2>6, <1>i, IInvNext
<1>10. CASE CancelRecv
  <2>0. rx' = "idle" /\ UNCHANGED <<ch, task, key>>
    BY <1>10 DEF CancelRecv
  <2>1. SendersCounted' /\ RxAwake(ch', rx')
    BY <2>0, <1>i DEF SendersCounted, Handles, Futures, RxAwake
  <2> QED
    BY <2>0, <2>1, <1>i, IInvNext
<1>11. CASE DropReceiver
  <2> DEFINE a == [ch EXCEPT !.has_receiver = FALSE, !.is_closed = TRUE]
  <2>0. ch' = wake_all_sender_waiters(a) /\ rx' = "dropped" /\ UNCHANGED <<task, key>>
    BY <1>11 DEF DropReceiver
  <2>1. /\ a \in ChannelStates /\ a.slots = ch.slots /\ a.queue = ch.queue
        /\ a.free_slots = ch.free_slots /\ a.reserved_slots = ch.reserved_slots
        /\ a.buffer = ch.buffer /\ a.is_closed /\ a.senders = ch.senders
    BY <1>i DEF ChannelStates
  <2> HIDE DEF a
  <2>2. ChannelSound(a)
    <3>1. Len(ch.buffer) + ch.reserved_slots <= Capacity
      BY <1>i DEF ChannelSound, CapacityBound
    <3> QED
      BY <3>1, <2>1, <1>i, PlainUpdate
  <2>3. ChannelSound(ch') /\ SameFrame(a, ch')
    BY <2>0, <2>2, WakeAllSound
  <2>4. NoStranded(ch') /\ RxAwake(ch', rx') /\ ch'.senders = ch.senders
    BY <2>0, <2>1, <2>3 DEF NoStranded, RxAwake, SameFrame
  <2>5. SendersCounted'
    BY <2>0, <2>4, <1>i DEF SendersCounted, Handles, Futures
  <2> QED
    BY <2>0, <2>3, <2>4, <2>5, <1>i, IInvNext
<1>12. CASE UNCHANGED vars
  <2>1. SendersCounted'
    BY <1>12, <1>i DEF vars, SendersCounted, Handles, Futures
  <2> QED
    BY <1>12, <2>1, <1>i, IInvNext DEF vars
<1> QED
  BY <1>1, <1>2, <1>3, <1>4, <1>5, <1>6, <1>7, <1>8, <1>9, <1>10, <1>11, <1>12 DEF Next

----------------------------------------------------------------------------
\* The channel keeps its type, in particular no counter ever underflows.
THEOREM TypeCorrect == Spec => []TypeOK
<1>1. IInv => TypeOK
  BY DEF IInv
<1> QED
  BY <1>1, InitIInv, StepIInv, PTL DEF Spec

\* "buffered + reserved never exceeds capacity", and the counter is exact.
THEOREM CapacityIsRespected == Spec => []CapacityRespected
<1>1. IInv => CapacityRespected
  BY DEF IInv, ChannelSound, CapacityRespected
<1> QED
  BY <1>1, InitIInv, StepIInv, PTL DEF Spec

\* No interleaving of receives, grants and cancellations strands a blocked send.
THEOREM NoWaiterIsStranded == Spec => []NoStrandedWaiter
<1>1. IInv => NoStrandedWaiter
  BY DEF IInv
<1> QED
  BY <1>1, InitIInv, StepIInv, PTL DEF Spec

\* No interleaving of sends, closes and drops loses the receiver's wake-up.
THEOREM NoReceiverWakeIsLost == Spec => []NoLostReceiverWake
<1>1. IInv => NoLostReceiverWake
  BY DEF IInv
<1> QED
  BY <1>1, InitIInv, StepIInv, PTL DEF Spec

----------------------------------------------------------------------------
(* Waiters and their futures, and the order of grants.  These parts of the *)
(* invariant rest on the one above.                                        *)

\* Registrations are queued in the order of their generations.
QueueOrdered(c) ==
  /\ \A n, m \in DOMAIN c.queue : n < m => c.queue[n].generation < c.queue[m].generation
  /\ \A n \in DOMAIN c.queue : c.queue[n].generation < c.next_generation

\* While the channel is open a slot in use is queued or holds a grant, but for those of X.
Accounted(c, X) ==
  ~c.is_closed =>
    \A i \in DOMAIN c.slots \ X : c.slots[i].in_use => c.slots[i].queued \/ c.slots[i].reserved

\* The key k of p is current, and p waits under it unless its waker has fired.
Owner(c, p, k) ==
  /\ Current(c, k)
  /\ p \notin c.woken => c.slots[k.index].waker = p /\ c.slots[k.index].queued

WaitersSound ==
  /\ QueueOrdered(ch) /\ Accounted(ch, {})
  /\ \A p \in Producers : task[p] = "blocked" => Owner(ch, p, key[p])
  /\ \A p, q \in Producers :
       (p # q /\ task[p] = "blocked" /\ task[q] = "blocked") => key[p].index # key[q].index

\* From c to d nobody is granted a place.
NoNewGrant(c, d) ==
  \A i \in DOMAIN c.slots : i \in DOMAIN d.slots /\ (d.slots[i].reserved => c.slots[i].reserved)

\* From c to d a place is granted only to the oldest waiter.
GrantsOldest(c, d) ==
  \A i \in DOMAIN c.slots :
    (d.slots[i].reserved /\ ~c.slots[i].reserved) =>
      \A j \in DOMAIN d.slots : d.slots[j].queued => d.slots[j].generation > d.slots[i].generation

\* A wait outside the slots X survives from c to d.
KeepsOwners(c, d, X) ==
  \A p \in Producers, k \in Keys : k.index \notin X /\ Owner(c, p, k) => Owner(d, p, k)

\* Popping entries off the front of the queue keeps it in order.
LEMMA SuffixOrdered ==
  ASSUME NEW q \in Seq(Keys), NEW n \in DOMAIN q, NEW t, t = SubSeq(q, n + 1, Len(q))
  PROVE  \A m \in DOMAIN t : m + n \in DOMAIN q /\ t[m] = q[m + n] /\ m \in Nat /\ n \in Nat
<1>1. Len(q) \in Nat /\ DOMAIN q = 1..Len(q) /\ n \in 1..Len(q)
  OBVIOUS
<1>2. Len(t) = Len(q) - n /\ DOMAIN t = 1..(Len(q) - n)
  BY <1>1
<1>3. ASSUME NEW m \in 1..(Len(q) - n)
      PROVE  m + n \in DOMAIN q /\ t[m] = q[m + n] /\ m \in Nat /\ n \in Nat
  <2>1. m + n \in DOMAIN q /\ n < m + n /\ (m + n) - n = m
    BY <1>1
  <2>2. t[(m + n) - n] = q[m + n]
    BY <2>1, SubSeqShift
  <2> QED
    BY <1>1, <2>1, <2>2
<1> QED
  BY <1>2, <1>3, Zenon

\* A grant goes to the oldest waiter, whose waker fires; the other waits are untouched.
LEMMA GrantWaits ==
  ASSUME NEW c, ChannelSound(c), QueueOrdered(c), NEW X, Accounted(c, X),
         NEW d, d = grant_one_sender_waiter(c)
  PROVE  /\ QueueOrdered(d) /\ Accounted(d, X) /\ KeepsOwners(c, d, {}) /\ GrantsOldest(c, d)
         /\ DOMAIN d.slots = DOMAIN c.slots
<1>t. c \in ChannelStates /\ TableSound(c)
  BY DEF ChannelSound
<1>c. /\ c.slots \in Seq(Slots) /\ c.queue \in Seq(Keys) /\ c.next_generation \in Nat
      /\ \A i \in DOMAIN c.slots : c.slots[i] \in Slots
  BY <1>t, Components
<1>1. CASE c.is_closed \/ AtCapacity(c)
  <2>1. d = c
    BY <1>1 DEF grant_one_sender_waiter
  <2> QED
    BY <2>1 DEF KeepsOwners, GrantsOldest
<1>2. CASE ~c.is_closed /\ ~AtCapacity(c) /\ LiveEntries(c) = {}
  <2>1. d = [c EXCEPT !.queue = << >>]
    BY <1>2 DEF grant_one_sender_waiter
  <2>2. d.slots = c.slots /\ d.queue = << >> /\ d.woken = c.woken /\ d.is_closed = c.is_closed
    BY <2>1, <1>t DEF ChannelStates
  <2>3. QueueOrdered(d)
    BY <2>2 DEF QueueOrdered
  <2>4. Accounted(d, X) /\ KeepsOwners(c, d, {}) /\ GrantsOldest(c, d)
    BY <2>2 DEF Accounted, KeepsOwners, Owner, Current, GrantsOldest
  <2> QED
    BY <2>2, <2>3, <2>4
<1>3. CASE ~c.is_closed /\ ~AtCapacity(c) /\ LiveEntries(c) # {}
  <2> DEFINE n == FirstLive(c)
             i == c.queue[n].index
             v == [c.slots[i] EXCEPT !.queued = FALSE, !.waker = NoWaker, !.reserved = TRUE]
  <2>1. n \in LiveEntries(c) /\ \A m \in LiveEntries(c) : n <= m
    BY <1>3, <1>c, FirstLiveIsLive
  <2>2. /\ n \in DOMAIN c.queue /\ i \in DOMAIN c.slots /\ c.slots[i].in_use /\ c.slots[i].queued
        /\ c.slots[i].generation = c.queue[n].generation
    BY <2>1 DEF LiveEntries, Current
  <2>3. v \in Slots /\ v.in_use /\ ~v.queued /\ v.reserved /\ v.generation = c.slots[i].generation
    BY <1>c, <2>2 DEF Slots
  <2>4. d = [c EXCEPT !.queue = SubSeq(c.queue, n + 1, Len(c.queue)),
                      !.slots = [c.slots EXCEPT ![i] = v],
                      !.reserved_slots = c.reserved_slots + 1,
                      !.woken = c.woken \cup {c.slots[i].waker}]
    BY <1>3, Zenon DEF grant_one_sender_waiter
  <2> HIDE DEF n, i, v
  <2>5. /\ d.queue = SubSeq(c.queue, n + 1, Len(c.queue)) /\ d.slots = [c.slots EXCEPT ![i] = v]
        /\ d.woken = c.woken \cup {c.slots[i].waker} /\ d.is_closed = c.is_closed
        /\ d.next_generation = c.next_generation
    BY <2>4, <1>t DEF ChannelStates
  <2>6. /\ DOMAIN d.slots = DOMAIN c.slots /\ d.slots[i] = v
        /\ \A j \in DOMAIN c.slots : j # i => d.slots[j] = c.slots[j]
    BY <1>c, <2>2, <2>3, <2>5, SlotUpdate
  <2>7. QueueOrdered(d)
    <3>1. \A m \in DOMAIN d.queue :
             m + n \in DOMAIN c.queue /\ d.queue[m] = c.queue[m + n] /\ m \in Nat /\ n \in Nat
      BY <1>c, <2>2, <2>5, SuffixOrdered
    <3>2. ASSUME NEW l \in DOMAIN d.queue, NEW m \in DOMAIN d.queue, l < m
          PROVE  d.queue[l].generation < d.queue[m].generation
      <4>1. l + n < m + n
        BY <3>1, <3>2
      <4> QED
        BY <3>1, <3>2, <4>1 DEF QueueOrdered
    <3> QED
      BY <2>5, <3>1, <3>2 DEF QueueOrdered
  <2>8. Accounted(d, X)
    BY <2>3, <2>5, <2>6 DEF Accounted
  <2>9. ASSUME NEW p \in Producers, NEW k \in Keys, Owner(c, p, k) PROVE Owner(d, p, k)
    <3>1. CASE k.index = i
      BY <2>2, <2>3, <2>5, <2>6, <2>9, <3>1 DEF Owner, Current
    <3>2. CASE k.index # i
      BY <2>5, <2>6, <2>9, <3>2 DEF Owner, Current
    <3> QED
      BY <3>1, <3>2
  <2>10. ASSUME NEW a \in DOMAIN c.slots, d.slots[a].reserved, ~c.slots[a].reserved,
                NEW j \in DOMAIN d.slots, d.slots[j].queued
         PROVE  d.slots[j].generation > d.slots[a].generation
    <3>1. a = i /\ j # i /\ d.slots[j] = c.slots[j] /\ c.slots[j].queued /\ j \in DOMAIN c.slots
      BY <2>3, <2>6, <2>10
    <3>2. PICK m \in DOMAIN c.queue : c.queue[m] = KeyOf(c, j)
      BY <1>t, <3>1 DEF TableSound, SlotSound
    <3>3. m \in LiveEntries(c) /\ m # n
      BY <1>t, <3>1, <3>2 DEF LiveEntries, Current, KeyOf, TableSound, SlotSound, i
    <3>4. n < m
      BY <1>c, <2>1, <2>2, <3>3
    <3>5. c.queue[n].generation < c.queue[m].generation
      BY <2>2, <3>4 DEF QueueOrdered
    <3>6. c.slots[j].generation \in Nat /\ c.slots[i].generation \in Nat
      BY <1>c, <2>2, <3>1 DEF Slots
    <3> QED
      BY <2>2, <2>3, <2>6, <3>1, <3>2, <3>5, <3>6 DEF KeyOf
  <2> QED
    BY <2>6, <2>7, <2>8, <2>9, <2>10 DEF KeepsOwners, GrantsOldest
<1> QED
  BY <1>1, <1>2, <1>3

\* Giving a slot back grants nothing and leaves the other waits alone.
LEMMA ReleaseWaits ==
  ASSUME NEW c, ChannelSound(c), QueueOrdered(c), NEW k \in Keys, Current(c, k),
         Accounted(c, {k.index}), NEW e, e = ReleaseSlot(c, k)
  PROVE  /\ QueueOrdered(e) /\ Accounted(e, {}) /\ KeepsOwners(c, e, {k.index})
         /\ NoNewGrant(c, e) /\ DOMAIN e.slots = DOMAIN c.slots
<1> DEFINE i == k.index
           v == [c.slots[i] EXCEPT !.in_use = FALSE, !.queued = FALSE,
                                   !.waker = NoWaker, !.reserved = FALSE]
<1>t. c \in ChannelStates
  BY DEF ChannelSound
<1>c. c.slots \in Seq(Slots) /\ \A j \in DOMAIN c.slots : c.slots[j] \in Slots
  BY <1>t, Components
<1>1. i \in DOMAIN c.slots
  BY DEF Current
<1>2. v \in Slots /\ ~v.in_use /\ ~v.queued /\ ~v.reserved
  BY <1>c, <1>1 DEF Slots
<1>3. e = [c EXCEPT !.slots = [c.slots EXCEPT ![i] = v],
                    !.free_slots = Append(c.free_slots, i)]
  BY Zenon DEF ReleaseSlot
<1> HIDE DEF v
<1>4. /\ e.slots = [c.slots EXCEPT ![i] = v] /\ e.queue = c.queue /\ e.woken = c.woken
      /\ e.is_closed = c.is_closed /\ e.next_generation = c.next_generation
  BY <1>3, <1>t DEF ChannelStates
<1>5. /\ DOMAIN e.slots = DOMAIN c.slots /\ e.slots[i] = v
      /\ \A j \in DOMAIN c.slots : j # i => e.slots[j] = c.slots[j]
  BY <1>c, <1>1, <1>2, <1>4, SlotUpdate
<1>6. QueueOrdered(e)
  BY <1>4 DEF QueueOrdered
<1>7. Accounted(e, {})
  BY <1>2, <1>4, <1>5 DEF Accounted
<1>8. KeepsOwners(c, e, {i})
  BY <1>4, <1>5 DEF KeepsOwners, Owner, Current
<1>9. NoNewGrant(c, e)
  BY <1>2, <1>5 DEF NoNewGrant
<1> QED
  BY <1>5, <1>6, <1>7, <1>8, <1>9

\* Composition: a step without grants before one that grants the oldest waiter, and a
\* change that leaves the waiter table alone after it.
LEMMA GrantAfter ==
  ASSUME NEW c, NEW e, NEW d, NoNewGrant(c, e), GrantsOldest(e, d)
  PROVE  GrantsOldest(c, d)
BY DEF NoNewGrant, GrantsOldest

\* Without new grants there is nothing to compare.
LEMMA NoNewGrantOldest ==
  ASSUME NEW c, NEW d, NoNewGrant(c, d)
  PROVE  GrantsOldest(c, d)
BY DEF NoNewGrant, GrantsOldest

\* Waits survive one helper after the other.
LEMMA OwnersCompose ==
  ASSUME NEW c, NEW e, NEW d, NEW X, KeepsOwners(c, e, X), KeepsOwners(e, d, X)
  PROVE  KeepsOwners(c, d, X)
BY DEF KeepsOwners

\* The waits see nothing of the rest of the channel; closing it asks less of them.
SameWaiters(c, d) ==
  /\ d.slots = c.slots /\ d.queue = c.queue /\ d.woken = c.woken
  /\ d.next_generation = c.next_generation /\ (c.is_closed => d.is_closed)

\* So they survive what leaves the waiter table alone.
LEMMA SameWaits ==
  ASSUME NEW c, NEW d, SameWaiters(c, d)
  PROVE  /\ QueueOrdered(c) => QueueOrdered(d)
         /\ \A X : Accounted(c, X) => Accounted(d, X)
         /\ KeepsOwners(c, d, {}) /\ NoNewGrant(c, d)
         /\ \A a : GrantsOldest(a, c) => GrantsOldest(a, d)
         /\ \A k : Current(c, k) => Current(d, k)
         /\ \A k : OwnsReservation(d, k) => OwnsReservation(c, k)
BY DEF SameWaiters, QueueOrdered, Accounted, KeepsOwners, NoNewGrant, GrantsOldest, Owner, Current,
       OwnsReservation

\* Fewer waits are claimed to survive.
LEMMA OwnersWeaken ==
  ASSUME NEW c, NEW d, KeepsOwners(c, d, {})
  PROVE  \A X : KeepsOwners(c, d, X)
BY DEF KeepsOwners

\* unregister_sender_waiter: the grant that is handed on goes to the oldest waiter.
LEMMA UnregisterWaits ==
  ASSUME NEW c, ChannelSound(c), QueueOrdered(c), NEW k \in Keys, Current(c, k),
         Accounted(c, {k.index}), NEW d, d = unregister_sender_waiter(c, k)
  PROVE  /\ QueueOrdered(d) /\ Accounted(d, {}) /\ KeepsOwners(c, d, {k.index})
         /\ GrantsOldest(c, d) /\ DOMAIN d.slots = DOMAIN c.slots
         /\ ~OwnsReservation(c, k) => NoNewGrant(c, d)
<1>1. CASE OwnsReservation(c, k)
  <2> DEFINE f == ReleaseSlot(c, k)
             e == [f EXCEPT !.reserved_slots = c.reserved_slots - 1]
  <2>1. d = grant_one_sender_waiter(e)
    BY <1>1 DEF unregister_sender_waiter
  <2>2. ChannelSound(e)
    BY <1>1, ReleaseSlotSound
  <2>f. SameWaiters(f, e)
    BY DEF SameWaiters, ReleaseSlot, ChannelSound, ChannelStates
  <2>g. /\ QueueOrdered(f) /\ Accounted(f, {}) /\ KeepsOwners(c, f, {k.index})
        /\ NoNewGrant(c, f) /\ DOMAIN f.slots = DOMAIN c.slots
    BY ReleaseWaits
  <2> HIDE DEF f, e
  <2>3. /\ QueueOrdered(e) /\ Accounted(e, {}) /\ KeepsOwners(c, e, {k.index})
        /\ NoNewGrant(c, e) /\ DOMAIN e.slots = DOMAIN c.slots
    <3>1. QueueOrdered(e) /\ Accounted(e, {}) /\ KeepsOwners(f, e, {}) /\ NoNewGrant(f, e)
      BY <2>f, <2>g, SameWaits
    <3>2. KeepsOwners(c, e, {k.index})
      BY <2>g, <3>1, OwnersWeaken, OwnersCompose
    <3>3. NoNewGrant(c, e) /\ DOMAIN e.slots = DOMAIN c.slots
      BY <2>f, <2>g DEF NoNewGrant, SameWaiters
    <3> QED
      BY <3>1, <3>2, <3>3
  <2>4. /\ QueueOrdered(d) /\ Accounted(d, {}) /\ KeepsOwners(e, d, {}) /\ GrantsOldest(e, d)
        /\ DOMAIN d.slots = DOMAIN e.slots
    BY <2>1, <2>2, <2>3, GrantWaits
  <2>5. KeepsOwners(c, d, {k.index})
    BY <2>3, <2>4, OwnersWeaken, OwnersCompose
  <2>6. GrantsOldest(c, d)
    BY <2>3, <2>4, GrantAfter
  <2> QED
    BY <1>1, <2>3, <2>4, <2>5, <2>6
<1>2. CASE ~OwnsReservation(c, k)
  <2>1. d = ReleaseSlot(c, k)
    BY <1>2 DEF unregister_sender_waiter
  <2>4. /\ QueueOrdered(d) /\ Accounted(d, {}) /\ KeepsOwners(c, d, {k.index})
        /\ NoNewGrant(c, d) /\ DOMAIN d.slots = DOMAIN c.slots
    BY <2>1, ReleaseWaits
  <2> QED
    BY <2>4, NoNewGrantOldest
<1> QED
  BY <1>1, <1>2

\* consume_reservation leaves the slot in use but neither queued nor granted.
LEMMA ConsumeWaits ==
  ASSUME NEW c, ChannelSound(c), QueueOrdered(c), Accounted(c, {}), NEW k \in Keys,
         OwnsReservation(c, k), NEW d, d = consume_reservation(c, k)
  PROVE  /\ QueueOrdered(d) /\ Accounted(d, {k.index}) /\ KeepsOwners(c, d, {k.index})
         /\ NoNewGrant(c, d) /\ Current(d, k) /\ ~OwnsReservation(d, k)
<1> DEFINE i == k.index
           v == [c.slots[i] EXCEPT !.reserved = FALSE]
<1>t. c \in ChannelStates
  BY DEF ChannelSound
<1>c. c.slots \in Seq(Slots) /\ \A j \in DOMAIN c.slots : c.slots[j] \in Slots
  BY <1>t, Components
<1>1. i \in DOMAIN c.slots /\ c.slots[i].in_use /\ c.slots[i].generation = k.generation
  BY DEF OwnsReservation, Current
<1>2. /\ v \in Slots /\ v.in_use = c.slots[i].in_use /\ v.generation = c.slots[i].generation
      /\ ~v.reserved
  BY <1>c, <1>1 DEF Slots
<1>3. d = [c EXCEPT !.slots = [c.slots EXCEPT ![i] = v], !.reserved_slots = c.reserved_slots - 1]
  BY Zenon DEF consume_reservation
<1> HIDE DEF v
<1>4. /\ d.slots = [c.slots EXCEPT ![i] = v] /\ d.queue = c.queue /\ d.woken = c.woken
      /\ d.is_closed = c.is_closed /\ d.next_generation = c.next_generation
  BY <1>3, <1>t DEF ChannelStates
<1>5. /\ DOMAIN d.slots = DOMAIN c.slots /\ d.slots[i] = v
      /\ \A j \in DOMAIN c.slots : j # i => d.slots[j] = c.slots[j]
  BY <1>c, <1>1, <1>2, <1>4, SlotUpdate
<1>6. QueueOrdered(d)
  BY <1>4 DEF QueueOrdered
<1>7. Accounted(d, {i})
  BY <1>4, <1>5 DEF Accounted
<1>8. KeepsOwners(c, d, {i})
  BY <1>4, <1>5 DEF KeepsOwners, Owner, Current
<1>9. NoNewGrant(c, d)
  BY <1>2, <1>5 DEF NoNewGrant
<1>10. Current(d, k) /\ ~OwnsReservation(d, k)
  BY <1>1, <1>2, <1>5 DEF Current, OwnsReservation
<1> QED
  BY <1>6, <1>7, <1>8, <1>9, <1>10

\* wake_all_sender_waiters on a closed channel: every queued waiter is woken.
LEMMA WakeAllWaits ==
  ASSUME NEW c, ChannelSound(c), c.is_closed, NEW d, d = wake_all_sender_waiters(c)
  PROVE  QueueOrdered(d) /\ Accounted(d, {}) /\ KeepsOwners(c, d, {}) /\ NoNewGrant(c, d)
<1> DEFINE live == {c.queue[n].index : n \in LiveEntries(c)}
           s == [i \in DOMAIN c.slots |->
                   IF i \in live
                   THEN [c.slots[i] EXCEPT !.queued = FALSE, !.waker = NoWaker]
                   ELSE c.slots[i]]
           w == c.woken \cup {c.slots[i].waker : i \in live}
<1>t. c \in ChannelStates /\ TableSound(c)
  BY DEF ChannelSound
<1>c. \A i \in DOMAIN c.slots : c.slots[i] \in Slots
  BY <1>t, Components
<1>1. \A i \in DOMAIN c.slots : c.slots[i].queued => i \in live
  <2> SUFFICES ASSUME NEW i \in DOMAIN c.slots, c.slots[i].queued PROVE i \in live
    OBVIOUS
  <2>1. PICK n \in DOMAIN c.queue : c.queue[n] = KeyOf(c, i)
    BY <1>t DEF TableSound, SlotSound
  <2>2. n \in LiveEntries(c) /\ c.queue[n].index = i
    BY <2>1, <1>t DEF LiveEntries, Current, KeyOf, TableSound, SlotSound
  <2> QED
    BY <2>2
<1>2. d = [c EXCEPT !.queue = << >>, !.slots = s, !.woken = w]
  BY DEF wake_all_sender_waiters
<1> HIDE DEF live
<1>3. ASSUME NEW i \in DOMAIN c.slots
      PROVE  /\ s[i].reserved = c.slots[i].reserved /\ s[i].in_use = c.slots[i].in_use
             /\ s[i].generation = c.slots[i].generation
  <2>1. s[i] = IF i \in live THEN [c.slots[i] EXCEPT !.queued = FALSE, !.waker = NoWaker]
                             ELSE c.slots[i]
    BY Zenon
  <2> HIDE DEF s, w
  <2> QED
    BY <1>c, <2>1 DEF Slots
<1>4. DOMAIN s = DOMAIN c.slots
  OBVIOUS
<1>5. \A i \in live : c.slots[i].waker \in w
  OBVIOUS
<1>6. c.woken \subseteq w
  OBVIOUS
<1> HIDE DEF s, w
<1>7. d.slots = s /\ d.queue = << >> /\ d.woken = w /\ d.is_closed
  BY <1>2, <1>t DEF ChannelStates
<1>8. QueueOrdered(d) /\ Accounted(d, {})
  BY <1>7 DEF QueueOrdered, Accounted
<1>9. ASSUME NEW p \in Producers, NEW k \in Keys, Owner(c, p, k) PROVE Owner(d, p, k)
  <2>1. k.index \in DOMAIN c.slots /\ Current(d, k)
    BY <1>3, <1>4, <1>7, <1>9 DEF Owner, Current
  <2>2. p \in d.woken
    BY <1>1, <1>5, <1>6, <1>7, <1>9, <2>1 DEF Owner
  <2> QED
    BY <2>1, <2>2 DEF Owner
<1>10. NoNewGrant(c, d)
  BY <1>3, <1>4, <1>7 DEF NoNewGrant
<1> QED
  BY <1>8, <1>9, <1>10 DEF KeepsOwners

\* A new entry at the end of the queue is the youngest.
LEMMA AppendOrdered ==
  ASSUME NEW q \in Seq(Keys), NEW k \in Keys, NEW r, r = Append(q, k),
         \A n, m \in DOMAIN q : n < m => q[n].generation < q[m].generation,
         \A n \in DOMAIN q : q[n].generation < k.generation
  PROVE  /\ \A n, m \in DOMAIN r : n < m => r[n].generation < r[m].generation
         /\ \A n \in DOMAIN r : r[n].generation < k.generation + 1
<1>1. Len(q) \in Nat /\ DOMAIN q = 1..Len(q) /\ DOMAIN r = 1..(Len(q) + 1)
  OBVIOUS
<1>2. r[Len(q) + 1] = k /\ \A n \in DOMAIN q : r[n] = q[n]
  BY AppendKey
<1>3. k.generation \in Nat /\ \A n \in DOMAIN q : q[n].generation \in Nat
  <2>1. k \in Keys /\ \A n \in DOMAIN q : q[n] \in Keys
    OBVIOUS
  <2>2. \A x \in Keys : x.generation \in Nat
    BY DEF Keys
  <2> QED
    BY <2>1, <2>2
<1>4. ASSUME NEW n \in DOMAIN r, NEW m \in DOMAIN r, n < m
      PROVE  r[n].generation < r[m].generation
  <2>1. n \in DOMAIN q
    BY <1>1, <1>4
  <2>2. CASE m \in DOMAIN q
    BY <1>2, <1>4, <2>1, <2>2
  <2>3. CASE m = Len(q) + 1
    BY <1>2, <2>1, <2>3
  <2> QED
    BY <1>1, <2>2, <2>3
<1>5. ASSUME NEW n \in DOMAIN r PROVE r[n].generation < k.generation + 1
  <2>1. CASE n \in DOMAIN q
    BY <1>2, <1>3, <2>1
  <2>2. CASE n = Len(q) + 1
    BY <1>2, <1>3, <2>2
  <2> QED
    BY <1>1, <2>1, <2>2
<1> QED
  BY <1>4, <1>5

\* A poll that finds its registration still queued only stores the waker again.
LEMMA RefreshWaits ==
  ASSUME NEW c, ChannelSound(c), QueueOrdered(c), Accounted(c, {}), ~c.is_closed,
         NEW k \in Keys, NEW p \in Producers, Current(c, k), ~OwnsReservation(c, k),
         NEW d, d = register_or_refresh(c, k, p)[1]
  PROVE  /\ QueueOrdered(d) /\ Accounted(d, {}) /\ KeepsOwners(c, d, {k.index})
         /\ NoNewGrant(c, d) /\ Owner(d, p, k) /\ register_or_refresh(c, k, p)[2] = k
<1> DEFINE i == k.index
           v == [c.slots[i] EXCEPT !.waker = p, !.queued = TRUE]
<1>t. c \in ChannelStates
  BY DEF ChannelSound
<1>c. c.slots \in Seq(Slots) /\ \A j \in DOMAIN c.slots : c.slots[j] \in Slots
  BY <1>t, Components
<1>1. /\ i \in DOMAIN c.slots /\ c.slots[i].in_use /\ c.slots[i].generation = k.generation
      /\ ~c.slots[i].reserved /\ c.slots[i].queued
  BY DEF OwnsReservation, Current, Accounted
<1>2. /\ v \in Slots /\ v.in_use /\ v.generation = k.generation /\ v.queued /\ v.waker = p
      /\ v.reserved = c.slots[i].reserved
  BY <1>c, <1>1 DEF Slots
<1>3. /\ d = [c EXCEPT !.slots = [c.slots EXCEPT ![i] = v], !.queue = c.queue]
      /\ register_or_refresh(c, k, p)[2] = k
  BY <1>1 DEF register_or_refresh
<1> HIDE DEF v
<1>4. /\ d.slots = [c.slots EXCEPT ![i] = v] /\ d.queue = c.queue /\ d.woken = c.woken
      /\ d.is_closed = c.is_closed /\ d.next_generation = c.next_generation
  BY <1>3, <1>t DEF ChannelStates
<1>5. /\ DOMAIN d.slots = DOMAIN c.slots /\ d.slots[i] = v
      /\ \A j \in DOMAIN c.slots : j # i => d.slots[j] = c.slots[j]
  BY <1>c, <1>1, <1>2, <1>4, SlotUpdate
<1>6. QueueOrdered(d)
  BY <1>4 DEF QueueOrdered
<1>7. Accounted(d, {})
  BY <1>2, <1>4, <1>5 DEF Accounted
<1>8. KeepsOwners(c, d, {i})
  BY <1>4, <1>5 DEF KeepsOwners, Owner, Current
<1>9. NoNewGrant(c, d)
  BY <1>2, <1>5 DEF NoNewGrant
<1>10. Owner(d, p, k)
  BY <1>1, <1>2, <1>5 DEF Owner, Current
<1> QED
  BY <1>3, <1>6, <1>7, <1>8, <1>9, <1>10

\* A new waiter is the youngest of the queue and takes nobody's slot.
LEMMA RegisterWaits ==
  ASSUME NEW c, ChannelSound(c), QueueOrdered(c), Accounted(c, {}), NEW d, SameFrame(c, d),
         NEW p \in Producers, NEW k, NewWaiter(c, d, p, k)
  PROVE  /\ QueueOrdered(d) /\ Accounted(d, {}) /\ KeepsOwners(c, d, {}) /\ NoNewGrant(c, d)
         /\ Owner(d, p, k)
         /\ \A m : Current(c, m) => k.index # m.index
<1> DEFINE slot == [generation |-> c.next_generation, waker |-> p,
                    in_use |-> TRUE, queued |-> TRUE, reserved |-> FALSE]
<1>1. slot.queued /\ ~slot.reserved /\ slot.in_use /\ slot.generation = c.next_generation /\ slot.waker = p
  OBVIOUS
<1>2. /\ k \in Keys /\ k.generation = c.next_generation /\ d.next_generation = c.next_generation + 1
      /\ d.queue = Append(c.queue, k) /\ d.woken = c.woken
      /\ k.index \in DOMAIN d.slots /\ d.slots[k.index] = slot
      /\ \A j \in DOMAIN c.slots : j \in DOMAIN d.slots
      /\ \A j \in DOMAIN d.slots : j # k.index => j \in DOMAIN c.slots /\ d.slots[j] = c.slots[j]
      /\ k.index \in DOMAIN c.slots => ~c.slots[k.index].in_use
  BY DEF NewWaiter
<1> HIDE DEF slot
<1>3. QueueOrdered(d)
  <2> DEFINE q == c.queue
             r == d.queue
  <2>1. /\ q \in Seq(Keys) /\ r = Append(q, k) /\ k \in Keys
        /\ \A n, m \in DOMAIN q : n < m => q[n].generation < q[m].generation
        /\ \A n \in DOMAIN q : q[n].generation < k.generation
    BY <1>2, Components DEF ChannelSound, QueueOrdered
  <2> HIDE DEF q, r
  <2>2. /\ \A n, m \in DOMAIN r : n < m => r[n].generation < r[m].generation
        /\ \A n \in DOMAIN r : r[n].generation < k.generation + 1
    BY <2>1, AppendOrdered
  <2> QED
    BY <1>2, <2>2 DEF QueueOrdered, r
<1>4. Accounted(d, {})
  BY <1>1, <1>2 DEF Accounted, SameFrame
<1>5. KeepsOwners(c, d, {})
  BY <1>2 DEF KeepsOwners, Owner, Current
<1>6. NoNewGrant(c, d)
  BY <1>1, <1>2 DEF NoNewGrant
<1>7. Owner(d, p, k)
  BY <1>1, <1>2 DEF Owner, Current
<1>8. \A m : Current(c, m) => k.index # m.index
  BY <1>2 DEF Current
<1> QED
  BY <1>3, <1>4, <1>5, <1>6, <1>7, <1>8

\* The accepting path of a poll: the slot goes back and the place that may be left goes to
\* the oldest waiter.
LEMMA CompleteSendWaits ==
  ASSUME NEW c, ChannelSound(c), QueueOrdered(c), NEW k \in Keys, Current(c, k),
         ~OwnsReservation(c, k), Accounted(c, {k.index}), NEW p \in Producers,
         Len(c.buffer) + c.reserved_slots < Capacity, NEW d, d = CompleteSend(c, k, p)
  PROVE  QueueOrdered(d) /\ Accounted(d, {}) /\ KeepsOwners(c, d, {k.index}) /\ GrantsOldest(c, d)
<1> DEFINE a == [c EXCEPT !.buffer = Append(c.buffer, p)]
           b == unregister_sender_waiter(a, k)
           e == IF b.reserved_slots = 0 THEN grant_one_sender_waiter(b) ELSE b
<1>1. d = WakeReceiver(e)
  BY DEF CompleteSend
<1>2. ChannelSound(a)
  BY BufferPush
<1>3. SameWaiters(c, a) /\ SameWaiters(a, c)
  BY DEF SameWaiters, ChannelSound, ChannelStates
<1> HIDE DEF a
<1>4. /\ QueueOrdered(a) /\ Accounted(a, {k.index}) /\ KeepsOwners(c, a, {}) /\ NoNewGrant(c, a)
      /\ Current(a, k) /\ ~OwnsReservation(a, k)
  BY <1>3, SameWaits
<1>5. /\ ChannelSound(b)
      /\ QueueOrdered(b) /\ Accounted(b, {}) /\ KeepsOwners(a, b, {k.index}) /\ NoNewGrant(a, b)
  BY <1>2, <1>4, UnregisterWaits, UnregisterSound
<1> HIDE DEF b
<1>6. /\ ChannelSound(e) /\ QueueOrdered(e) /\ Accounted(e, {}) /\ KeepsOwners(b, e, {})
      /\ GrantsOldest(b, e)
  <2>1. CASE b.reserved_slots = 0
    BY <1>5, <2>1, GrantWaits, GrantSound
  <2>2. CASE b.reserved_slots # 0
    <3>1. e = b
      BY <2>2
    <3> QED
      BY <1>5, <3>1 DEF KeepsOwners, GrantsOldest
  <2> QED
    BY <2>1, <2>2
<1> HIDE DEF e
<1>7. SameWaiters(e, d)
  BY <1>1, <1>6 DEF SameWaiters, WakeReceiver, ChannelSound, ChannelStates
<1>8. QueueOrdered(d) /\ Accounted(d, {}) /\ KeepsOwners(e, d, {})
  BY <1>6, <1>7, SameWaits
<1>9. KeepsOwners(c, d, {k.index})
  BY <1>4, <1>5, <1>6, <1>8 DEF KeepsOwners
<1>10. GrantsOldest(c, d)
  <2>1. NoNewGrant(c, b)
    BY <1>4, <1>5 DEF NoNewGrant
  <2>2. GrantsOldest(c, e)
    BY <2>1, <1>6, GrantAfter
  <2> QED
    BY <2>2, <1>7, SameWaits
<1> QED
  BY <1>8, <1>9, <1>10

\* The end of a future or a handle: the waiter table is not touched.
LEMMA DropHandleWaits ==
  ASSUME NEW c, ChannelSound(c), NEW d, d = DropHandle(c)
  PROVE  SameWaiters(c, d)
<1> DEFINE a == [c EXCEPT !.senders = c.senders - 1]
           b == [a EXCEPT !.is_closed = TRUE]
<1>t. c \in ChannelStates
  BY DEF ChannelSound
<1>1. d = IF a.senders = 0 THEN WakeReceiver(b) ELSE a
  BY DEF DropHandle
<1>2. SameWaiters(c, a)
  BY <1>t DEF SameWaiters, ChannelStates
<1>3. SameWaiters(c, b)
  BY <1>t DEF SameWaiters, ChannelStates
<1>4. SameWaiters(c, WakeReceiver(b))
  BY <1>t DEF WakeReceiver, SameWaiters, ChannelStates
<1> QED
  BY <1>1, <1>2, <1>4

\* A receive hands the freed place, if it notifies at all, to the oldest waiter.
LEMMA PopWaits ==
  ASSUME NEW c, ChannelSound(c), QueueOrdered(c), Accounted(c, {}), c.buffer # << >>,
         NEW d, d = Pop(c)
  PROVE  QueueOrdered(d) /\ Accounted(d, {}) /\ KeepsOwners(c, d, {}) /\ GrantsOldest(c, d)
<1> DEFINE a == [c EXCEPT !.buffer = Tail(c.buffer)]
<1>t. c \in ChannelStates
  BY DEF ChannelSound
<1>c. c.buffer \in Seq(Producers) /\ c.reserved_slots \in Nat
  BY <1>t, Components
<1>1. Tail(c.buffer) \in Seq(Producers) /\ Len(Tail(c.buffer)) = Len(c.buffer) - 1
      /\ Len(c.buffer) \in Nat
  BY <1>c
<1>2. d = IF Len(a.buffer) = Capacity - 1 \/ a.buffer = << >>
          THEN grant_one_sender_waiter(a) ELSE a
  BY DEF Pop
<1>3. /\ a \in ChannelStates /\ a.slots = c.slots /\ a.queue = c.queue /\ a.free_slots = c.free_slots
      /\ a.reserved_slots = c.reserved_slots /\ Len(a.buffer) = Len(c.buffer) - 1
  BY <1>1, <1>t DEF ChannelStates
<1>4. SameWaiters(c, a)
  BY <1>t DEF SameWaiters, ChannelStates
<1> HIDE DEF a
<1>5. ChannelSound(a)
  <2>1. Len(a.buffer) + a.reserved_slots <= Capacity
    BY <1>1, <1>3, <1>c, CapacityAssumption DEF ChannelSound, CapacityBound
  <2> QED
    BY <2>1, <1>3, PlainUpdate
<1>6. QueueOrdered(a) /\ Accounted(a, {}) /\ KeepsOwners(c, a, {}) /\ NoNewGrant(c, a)
  BY <1>4, SameWaits
<1>7. CASE d = a
  BY <1>6, <1>7, NoNewGrantOldest
<1>8. CASE d = grant_one_sender_waiter(a)
  <2>1. QueueOrdered(d) /\ Accounted(d, {}) /\ KeepsOwners(a, d, {}) /\ GrantsOldest(a, d)
    BY <1>5, <1>6, <1>8, GrantWaits
  <2> QED
    BY <1>6, <2>1, OwnersCompose, GrantAfter
<1> QED
  BY <1>2, <1>7, <1>8

\* A step that blocks nobody and keeps every wait.
LEMMA KeptWaits ==
  ASSUME TypeOK, WaitersSound, QueueOrdered(ch'), Accounted(ch', {}), KeepsOwners(ch, ch', {}),
         key' = key, \A p \in Producers : task'[p] = "blocked" => task[p] = "blocked"
  PROVE  WaitersSound'
<1>1. \A p \in Producers : key[p] \in Keys
  BY DEF TypeOK
<1>2. ASSUME NEW p \in Producers, task'[p] = "blocked" PROVE Owner(ch', p, key'[p])
  BY <1>1, <1>2 DEF WaitersSound, KeepsOwners
<1>3. ASSUME NEW p \in Producers, NEW q \in Producers, p # q, task'[p] = "blocked", task'[q] = "blocked"
      PROVE  key'[p].index # key'[q].index
  BY <1>3 DEF WaitersSound
<1> QED
  BY <1>2, <1>3 DEF WaitersSound

\* The future of p is polled or dropped: its own waker counts as not fired, the waits of
\* the others stand.
LEMMA PolledWaits ==
  ASSUME TypeOK, ChannelSound(ch), WaitersSound, NEW p \in Producers, task[p] = "blocked",
         NEW c, c = [ch EXCEPT !.woken = ch.woken \ {p}]
  PROVE  /\ QueueOrdered(c) /\ Accounted(c, {}) /\ NoNewGrant(ch, c) /\ Current(c, key[p])
         /\ c.slots = ch.slots /\ c.is_closed = ch.is_closed
         /\ key[p] \in Keys
         /\ \A q \in Producers : q # p /\ task[q] = "blocked" =>
              Owner(c, q, key[q]) /\ key[q] \in Keys /\ key[q].index # key[p].index
<1>1. /\ c.slots = ch.slots /\ c.queue = ch.queue /\ c.woken = ch.woken \ {p}
      /\ c.is_closed = ch.is_closed /\ c.next_generation = ch.next_generation
  BY DEF ChannelSound, ChannelStates
<1>2. \A q \in Producers : key[q] \in Keys
  BY DEF TypeOK
<1>3. QueueOrdered(c) /\ Accounted(c, {}) /\ NoNewGrant(ch, c)
  BY <1>1 DEF WaitersSound, QueueOrdered, Accounted, NoNewGrant
<1>4. Current(c, key[p])
  BY <1>1 DEF WaitersSound, Owner, Current
<1>5. ASSUME NEW q \in Producers, q # p, task[q] = "blocked"
      PROVE  Owner(c, q, key[q]) /\ key[q].index # key[p].index
  <2>1. Owner(ch, q, key[q]) /\ key[q].index # key[p].index
    BY <1>5 DEF WaitersSound
  <2>2. Owner(c, q, key[q])
    BY <1>1, <1>5, <2>1 DEF Owner, Current
  <2> QED
    BY <2>1, <2>2
<1> QED
  BY <1>1, <1>2, <1>3, <1>4, <1>5

\* The future of p ends.
LEMMA EndedWaits ==
  ASSUME TypeOK, ChannelSound(ch), WaitersSound, NEW p \in Producers, task[p] = "blocked",
         NEW c, c = [ch EXCEPT !.woken = ch.woken \ {p}],
         NEW d, ChannelSound(d), QueueOrdered(d), Accounted(d, {}),
         KeepsOwners(c, d, {key[p].index}), GrantsOldest(c, d),
         ch' = DropHandle(d), key' = [key EXCEPT ![p] = NoKey], task' = [task EXCEPT ![p] = "idle"]
  PROVE  WaitersSound' /\ GrantsOldest(ch, ch')
<1>1. SameWaiters(d, ch')
  BY DropHandleWaits
<1>2. QueueOrdered(ch') /\ Accounted(ch', {}) /\ KeepsOwners(d, ch', {}) /\ GrantsOldest(c, ch')
  BY <1>1, SameWaits
<1>3. GrantsOldest(ch, ch')
  BY <1>2, PolledWaits, GrantAfter
<1>4. ASSUME NEW q \in Producers, task'[q] = "blocked"
      PROVE  q # p /\ task[q] = "blocked" /\ key'[q] = key[q] /\ Owner(ch', q, key'[q])
  <2>1. q # p /\ task[q] = "blocked" /\ key'[q] = key[q]
    BY <1>4 DEF TypeOK
  <2>2. Owner(c, q, key[q]) /\ key[q] \in Keys /\ key[q].index # key[p].index
    BY <2>1, PolledWaits
  <2> QED
    BY <1>2, <2>1, <2>2 DEF KeepsOwners
<1>5. ASSUME NEW q \in Producers, NEW r \in Producers, q # r, task'[q] = "blocked", task'[r] = "blocked"
      PROVE  key'[q].index # key'[r].index
  BY <1>4, <1>5 DEF WaitersSound
<1> QED
  BY <1>2, <1>3, <1>4, <1>5 DEF WaitersSound

\* Every step keeps the waits and grants places in the order of registration.
LEMMA StepWaits ==
  ASSUME IInv, WaitersSound, [Next]_vars
  PROVE  WaitersSound' /\ GrantsOldest(ch, ch')
<1>i. /\ TypeOK /\ ChannelSound(ch) /\ QueueOrdered(ch) /\ Accounted(ch, {}) /\ ch \in ChannelStates
  BY DEF IInv, WaitersSound, ChannelSound
<1>k. \A p \in Producers : key[p] \in Keys
  BY <1>i DEF TypeOK
<1>b. /\ ch.buffer \in Seq(Producers) /\ Len(ch.buffer) \in Nat /\ ch.reserved_slots \in Nat
  BY <1>i DEF ChannelStates
<1>s. ASSUME SameWaiters(ch, ch'), key' = key,
             \A p \in Producers : task'[p] = "blocked" => task[p] = "blocked"
      PROVE  WaitersSound' /\ GrantsOldest(ch, ch')
  <2>1. QueueOrdered(ch') /\ Accounted(ch', {}) /\ KeepsOwners(ch, ch', {}) /\ NoNewGrant(ch, ch')
    BY <1>i, <1>s, SameWaits
  <2> QED
    BY <1>i, <1>s, <2>1, KeptWaits, NoNewGrantOldest
<1>c. ASSUME NEW p \in Producers, NEW c, c = [ch EXCEPT !.woken = ch.woken \ {p}]
      PROVE  ChannelSound(c) /\ SameFrame(ch, c) /\ c.reserved_slots = ch.reserved_slots
  <2>1. c \in ChannelStates
    BY <1>c, <1>i DEF ChannelStates
  <2>2. /\ SameFrame(ch, c) /\ c.reserved_slots = ch.reserved_slots /\ c.slots = ch.slots
        /\ c.queue = ch.queue /\ c.free_slots = ch.free_slots /\ c.buffer = ch.buffer
    BY <1>c, <1>i DEF ChannelStates, SameFrame
  <2>3. Len(ch.buffer) + ch.reserved_slots <= Capacity
    BY <1>i DEF ChannelSound, CapacityBound
  <2> QED
    BY <1>i, <2>1, <2>2, <2>3, PlainUpdate
<1>1. ASSUME NEW p \in Producers, Send(p) PROVE WaitersSound' /\ GrantsOldest(ch, ch')
  <2>1. ch' = Push(ch, p) /\ UNCHANGED <<task, key>>
    BY <1>1 DEF Send
  <2>2. SameWaiters(ch, ch')
    BY <1>i, <2>1 DEF SameWaiters, Push, WakeReceiver, ChannelStates
  <2> QED
    BY <1>s, <2>1, <2>2
<1>2. ASSUME NEW p \in Producers, SendBlocks(p) PROVE WaitersSound' /\ GrantsOldest(ch, ch')
  <2> DEFINE d == register_or_refresh(ch, NoKey, p)[1]
             k == register_or_refresh(ch, NoKey, p)[2]
  <2>1. /\ AtCapacity(ch) /\ ch' = [d EXCEPT !.senders = ch.senders + 1]
        /\ key' = [key EXCEPT ![p] = k] /\ task' = [task EXCEPT ![p] = "blocked"]
        /\ task[p] = "idle"
    BY <1>2 DEF SendBlocks
  <2>2. ~Current(ch, NoKey) /\ ~OwnsReservation(ch, NoKey) /\ NoKey \in Keys
    BY <1>i, Components DEF OwnsReservation, Current, NoKey, Keys
  <2>3. ChannelSound(d) /\ SameFrame(ch, d) /\ NewWaiter(ch, d, p, k) /\ k \in Keys
    BY <1>i, <2>1, <2>2, RegisterSound
  <2> HIDE DEF d, k
  <2>4. /\ QueueOrdered(d) /\ Accounted(d, {}) /\ KeepsOwners(ch, d, {}) /\ NoNewGrant(ch, d)
        /\ Owner(d, p, k) /\ \A m : Current(ch, m) => k.index # m.index
    BY <1>i, <2>3, RegisterWaits
  <2>5. SameWaiters(d, ch')
    BY <2>1, <2>3 DEF SameWaiters, ChannelSound, ChannelStates
  <2>6. /\ QueueOrdered(ch') /\ Accounted(ch', {}) /\ KeepsOwners(ch, ch', {}) /\ NoNewGrant(ch, ch')
        /\ Owner(ch', p, k)
    <3>1. QueueOrdered(ch') /\ Accounted(ch', {}) /\ KeepsOwners(d, ch', {}) /\ NoNewGrant(d, ch')
      BY <2>4, <2>5, SameWaits
    <3>2. KeepsOwners(ch, ch', {})
      BY <2>4, <3>1, OwnersCompose
    <3>3. NoNewGrant(ch, ch')
      BY <2>4, <3>1 DEF NoNewGrant
    <3>4. Owner(ch', p, k)
      BY <2>3, <2>4, <3>1 DEF KeepsOwners
    <3> QED
      BY <3>1, <3>2, <3>3, <3>4
  <2>7. ASSUME NEW q \in Producers, task'[q] = "blocked", q # p
        PROVE  /\ task[q] = "blocked" /\ key'[q] = key[q] /\ Owner(ch', q, key'[q])
               /\ key'[q].index # k.index
    <3>1. task[q] = "blocked" /\ key'[q] = key[q]
      BY <1>i, <2>1, <2>7 DEF TypeOK
    <3>2. Owner(ch, q, key[q]) /\ key[q] \in Keys
      BY <1>k, <3>1 DEF WaitersSound
    <3>3. key[q].index # k.index
      BY <2>4, <3>2 DEF Owner
    <3> QED
      BY <2>6, <3>1, <3>2, <3>3 DEF KeepsOwners
  <2>8. key'[p] = k
    BY <1>i, <2>1 DEF TypeOK
  <2>9. ASSUME NEW q \in Producers, NEW r \in Producers, q # r, task'[q] = "blocked", task'[r] = "blocked"
        PROVE  key'[q].index # key'[r].index
    <3>1. CASE q = p
      BY <2>7, <2>8, <2>9, <3>1
    <3>2. CASE r = p
      BY <2>7, <2>8, <2>9, <3>2
    <3>3. CASE q # p /\ r # p
      BY <2>7, <2>9, <3>3 DEF WaitersSound
    <3> QED
      BY <3>1, <3>2, <3>3
  <2>10. \A q \in Producers : task'[q] = "blocked" => Owner(ch', q, key'[q])
    BY <2>6, <2>7, <2>8
  <2> QED
    BY <2>6, <2>9, <2>10, NoNewGrantOldest DEF WaitersSound
<1>3. ASSUME NEW p \in Producers, PollSend(p) PROVE WaitersSound' /\ GrantsOldest(ch, ch')
  <2> DEFINE c == [ch EXCEPT !.woken = ch.woken \ {p}]
             k == key[p]
             Finish(d) == /\ ch' = DropHandle(d)
                          /\ key' = [key EXCEPT ![p] = NoKey]
                          /\ task' = [task EXCEPT ![p] = "idle"]
  <2>0. /\ task[p] = "blocked"
        /\ \/ Finish(unregister_sender_waiter(c, k))
           \/ /\ OwnsReservation(c, k)
              /\ Finish(CompleteSend(consume_reservation(c, k), k, p))
           \/ ~OwnsReservation(c, k) /\ ~AtCapacity(c) /\ Finish(CompleteSend(c, k, p))
           \/ /\ ~Closed(c) /\ ~OwnsReservation(c, k) /\ AtCapacity(c)
              /\ ch' = register_or_refresh(c, k, p)[1]
              /\ key' = [key EXCEPT ![p] = register_or_refresh(c, k, p)[2]]
              /\ task' = task
    BY <1>3, Zenon DEF PollSend
  <2>c. c = [ch EXCEPT !.woken = ch.woken \ {p}]
    OBVIOUS
  <2>1. /\ ChannelSound(c) /\ SameFrame(ch, c) /\ c.reserved_slots = ch.reserved_slots
    BY <1>c
  <2>2. /\ QueueOrdered(c) /\ Accounted(c, {}) /\ NoNewGrant(ch, c) /\ Current(c, k)
        /\ c.slots = ch.slots /\ c.is_closed = ch.is_closed /\ k \in Keys
        /\ \A q \in Producers : q # p /\ task[q] = "blocked" =>
             Owner(c, q, key[q]) /\ key[q] \in Keys /\ key[q].index # k.index
    BY <1>i, <2>0, PolledWaits
  <2> HIDE DEF c
  <2>3. Accounted(c, {k.index})
    BY <2>2 DEF Accounted
  <2>4. ASSUME NEW d, Finish(d), ChannelSound(d), QueueOrdered(d), Accounted(d, {}),
               KeepsOwners(c, d, {k.index}), GrantsOldest(c, d)
        PROVE  WaitersSound' /\ GrantsOldest(ch, ch')
    BY <1>i, <2>0, <2>c, <2>4, EndedWaits
  <2> HIDE DEF k
  <2>5. CASE Finish(unregister_sender_waiter(c, k))
    <3> DEFINE d == unregister_sender_waiter(c, k)
    <3>1. Finish(d)
      BY <2>5
    <3>2. ChannelSound(d)
      BY <2>1, <2>2, UnregisterSound
    <3>3. QueueOrdered(d) /\ Accounted(d, {}) /\ KeepsOwners(c, d, {k.index}) /\ GrantsOldest(c, d)
      BY <2>1, <2>2, <2>3, UnregisterWaits
    <3> HIDE DEF d
    <3> QED
      BY <2>4, <3>1, <3>2, <3>3
  <2>6. CASE OwnsReservation(c, k) /\ Finish(CompleteSend(consume_reservation(c, k), k, p))
    <3> DEFINE e == consume_reservation(c, k)
               d == CompleteSend(e, k, p)
    <3>1. Finish(d)
      BY <2>6
    <3>2. ChannelSound(e) /\ Len(e.buffer) + e.reserved_slots < Capacity
      BY <2>1, <2>2, <2>6, ConsumeSound
    <3>3. /\ QueueOrdered(e) /\ Accounted(e, {k.index}) /\ KeepsOwners(c, e, {k.index})
          /\ NoNewGrant(c, e) /\ Current(e, k) /\ ~OwnsReservation(e, k)
      BY <2>1, <2>2, <2>6, ConsumeWaits
    <3> HIDE DEF e
    <3>4. ChannelSound(d)
      BY <2>2, <3>2, CompleteSendSound
    <3>5. QueueOrdered(d) /\ Accounted(d, {}) /\ KeepsOwners(e, d, {k.index}) /\ GrantsOldest(e, d)
      BY <2>2, <3>2, <3>3, CompleteSendWaits
    <3> HIDE DEF d
    <3>6. KeepsOwners(c, d, {k.index}) /\ GrantsOldest(c, d)
      BY <3>3, <3>5, OwnersCompose, GrantAfter
    <3> QED
      BY <2>4, <3>1, <3>4, <3>5, <3>6
  <2>7. CASE ~OwnsReservation(c, k) /\ ~AtCapacity(c) /\ Finish(CompleteSend(c, k, p))
    <3> DEFINE d == CompleteSend(c, k, p)
    <3>1. Finish(d)
      BY <2>7
    <3>2. Len(c.buffer) + c.reserved_slots < Capacity
      BY <1>b, <2>1, <2>7, CapacityAssumption DEF AtCapacity, SameFrame
    <3>3. ChannelSound(d)
      BY <2>1, <2>2, <3>2, CompleteSendSound
    <3>4. QueueOrdered(d) /\ Accounted(d, {}) /\ KeepsOwners(c, d, {k.index}) /\ GrantsOldest(c, d)
      BY <2>1, <2>2, <2>3, <2>7, <3>2, CompleteSendWaits
    <3> HIDE DEF d
    <3> QED
      BY <2>4, <3>1, <3>3, <3>4
  <2>8. CASE /\ ~Closed(c) /\ ~OwnsReservation(c, k) /\ AtCapacity(c)
             /\ ch' = register_or_refresh(c, k, p)[1]
             /\ key' = [key EXCEPT ![p] = register_or_refresh(c, k, p)[2]]
             /\ task' = task
    <3>1. /\ QueueOrdered(ch') /\ Accounted(ch', {}) /\ KeepsOwners(c, ch', {k.index})
          /\ NoNewGrant(c, ch') /\ Owner(ch', p, k) /\ register_or_refresh(c, k, p)[2] = k
      BY <2>1, <2>2, <2>8, RefreshWaits DEF Closed
    <3>2. key' = key
      BY <1>i, <2>8, <3>1 DEF TypeOK, k
    <3>3. ASSUME NEW q \in Producers, task'[q] = "blocked" PROVE Owner(ch', q, key'[q])
      <4>1. CASE q = p
        BY <3>1, <3>2, <4>1 DEF k
      <4>2. CASE q # p
        BY <2>2, <2>8, <3>1, <3>2, <3>3, <4>2 DEF KeepsOwners
      <4> QED
        BY <4>1, <4>2
    <3>4. NoNewGrant(ch, ch')
      BY <2>2, <3>1 DEF NoNewGrant
    <3>5. \A q, r \in Producers :
            (q # r /\ task'[q] = "blocked" /\ task'[r] = "blocked") => key'[q].index # key'[r].index
      BY <2>8, <3>2 DEF WaitersSound
    <3> QED
      BY <3>1, <3>3, <3>4, <3>5, NoNewGrantOldest DEF WaitersSound
  <2> QED
    BY <2>0, <2>5, <2>6, <2>7, <2>8
<1>4. ASSUME NEW p \in Producers, CancelSend(p) PROVE WaitersSound' /\ GrantsOldest(ch, ch')
  <2> DEFINE c == [ch EXCEPT !.woken = ch.woken \ {p}]
             k == key[p]
             d == unregister_sender_waiter(c, k)
  <2>0. /\ task[p] = "blocked" /\ ch' = DropHandle(d) /\ key' = [key EXCEPT ![p] = NoKey]
        /\ task' = [task EXCEPT ![p] = "idle"]
    BY <1>4 DEF CancelSend
  <2>c. c = [ch EXCEPT !.woken = ch.woken \ {p}]
    OBVIOUS
  <2>1. ChannelSound(c)
    BY <1>c
  <2>2. QueueOrdered(c) /\ Accounted(c, {}) /\ Current(c, k) /\ k \in Keys
    BY <1>i, <2>0, PolledWaits
  <2> HIDE DEF c
  <2>3. Accounted(c, {k.index})
    BY <2>2 DEF Accounted
  <2>4. ChannelSound(d)
    BY <2>1, <2>2, UnregisterSound
  <2>5. QueueOrdered(d) /\ Accounted(d, {}) /\ KeepsOwners(c, d, {k.index}) /\ GrantsOldest(c, d)
    BY <2>1, <2>2, <2>3, UnregisterWaits
  <2> HIDE DEF d
  <2> QED
    BY <1>i, <2>0, <2>c, <2>4, <2>5, EndedWaits
<1>5. ASSUME NEW p \in Producers, DropSender(p) PROVE WaitersSound' /\ GrantsOldest(ch, ch')
  <2>1. ch' = DropHandle(ch) /\ task' = [task EXCEPT ![p] = "absent"] /\ key' = key
    BY <1>5 DEF DropSender
  <2>2. SameWaiters(ch, ch')
    BY <1>i, <2>1, DropHandleWaits
  <2> QED
    BY <1>i, <1>s, <2>1, <2>2 DEF TypeOK
<1>6. ASSUME NEW p \in Producers, Close(p) PROVE WaitersSound' /\ GrantsOldest(ch, ch')
  <2> DEFINE a == [ch EXCEPT !.is_closed = TRUE]
             b == WakeReceiver(a)
  <2>0. ch' = wake_all_sender_waiters(b) /\ UNCHANGED <<task, key>>
    BY <1>6 DEF Close
  <2>1. /\ a \in ChannelStates /\ a.slots = ch.slots /\ a.queue = ch.queue
        /\ a.free_slots = ch.free_slots /\ a.reserved_slots = ch.reserved_slots
        /\ a.buffer = ch.buffer /\ a.is_closed /\ a.woken = ch.woken
    BY <1>i DEF ChannelStates
  <2>2. b.slots = ch.slots /\ b.woken = ch.woken /\ b.is_closed
    BY <1>i DEF WakeReceiver, ChannelStates
  <2> HIDE DEF a
  <2>3. ChannelSound(a)
    <3>1. Len(ch.buffer) + ch.reserved_slots <= Capacity
      BY <1>i DEF ChannelSound, CapacityBound
    <3> QED
      BY <3>1, <2>1, <1>i, PlainUpdate
  <2>4. ChannelSound(b)
    BY <2>3, WakeReceiverSound
  <2> HIDE DEF b
  <2>5. QueueOrdered(ch') /\ Accounted(ch', {}) /\ KeepsOwners(b, ch', {}) /\ NoNewGrant(b, ch')
    BY <2>0, <2>2, <2>4, WakeAllWaits
  <2>6. KeepsOwners(ch, ch', {}) /\ NoNewGrant(ch, ch')
    BY <2>2, <2>5 DEF KeepsOwners, NoNewGrant, Owner, Current
  <2> QED
    BY <1>i, <2>0, <2>5, <2>6, KeptWaits, NoNewGrantOldest
<1>7. ASSUME NEW p \in Producers, NEW q \in Producers, CloneSender(p, q)
      PROVE  WaitersSound' /\ GrantsOldest(ch, ch')
  <2>1. /\ ch' = [ch EXCEPT !.senders = ch.senders + 1] /\ task' = [task EXCEPT ![q] = "idle"]
        /\ key' = key
    BY <1>7 DEF CloneSender
  <2>2. SameWaiters(ch, ch')
    BY <1>i, <2>1 DEF SameWaiters, ChannelStates
  <2> QED
    BY <1>i, <1>s, <2>1, <2>2 DEF TypeOK
<1>8. CASE TryRecv
  <2>1. ch.buffer # << >> /\ ch' = Pop(ch) /\ UNCHANGED <<task, key>>
    BY <1>8 DEF TryRecv
  <2>2. QueueOrdered(ch') /\ Accounted(ch', {}) /\ KeepsOwners(ch, ch', {}) /\ GrantsOldest(ch, ch')
    BY <1>i, <2>1, PopWaits
  <2> QED
    BY <1>i, <2>1, <2>2, KeptWaits
<1>9. CASE PollRecv
  <2> DEFINE c == [ch EXCEPT !.rx_woken = FALSE]
             e == [c EXCEPT !.receiver_waker = TRUE]
  <2>0. /\ UNCHANGED <<task, key>>
        /\ \/ ch.buffer # << >> /\ ch' = Pop(c)
           \/ ch' = c
           \/ ch' = e
    BY <1>9 DEF PollRecv
  <2>1. /\ c \in ChannelStates /\ c.slots = ch.slots /\ c.queue = ch.queue
        /\ c.free_slots = ch.free_slots /\ c.reserved_slots = ch.reserved_slots
        /\ c.buffer = ch.buffer
    BY <1>i DEF ChannelStates
  <2>2. SameWaiters(ch, c) /\ SameWaiters(ch, e)
    BY <1>i DEF SameWaiters, ChannelStates
  <2> HIDE DEF c, e
  <2>3. ChannelSound(c)
    <3>1. Len(ch.buffer) + ch.reserved_slots <= Capacity
      BY <1>i DEF ChannelSound, CapacityBound
    <3> QED
      BY <3>1, <2>1, <1>i, PlainUpdate
  <2>4. CASE ch' = c \/ ch' = e
    BY <1>s, <2>0, <2>2, <2>4
  <2>5. CASE ch.buffer # << >> /\ ch' = Pop(c)
    <3>1. QueueOrdered(c) /\ Accounted(c, {}) /\ KeepsOwners(ch, c, {}) /\ NoNewGrant(ch, c)
      BY <1>i, <2>2, SameWaits
    <3>2. QueueOrdered(ch') /\ Accounted(ch', {}) /\ KeepsOwners(c, ch', {}) /\ GrantsOldest(c, ch')
      BY <2>1, <2>3, <2>5, <3>1, PopWaits
    <3>3. KeepsOwners(ch, ch', {}) /\ GrantsOldest(ch, ch')
      BY <3>1, <3>2, OwnersCompose, GrantAfter
    <3> QED
      BY <1>i, <2>0, <3>2, <3>3, KeptWaits
  <2> QED
    BY <2>0, <2>4, <2>5
<1>10. CASE CancelRecv \/ UNCHANGED vars
  <2>1. ch' = ch /\ UNCHANGED <<task, key>>
    BY <1>10 DEF CancelRecv, vars
  <2>2. SameWaiters(ch, ch')
    BY <2>1 DEF SameWaiters
  <2> QED
    BY <1>s, <2>1, <2>2
<1>11. CASE DropReceiver
  <2> DEFINE a == [ch EXCEPT !.has_receiver = FALSE, !.is_closed = TRUE]
  <2>0. ch' = wake_all_sender_waiters(a) /\ UNCHANGED <<task, key>>
    BY <1>11 DEF DropReceiver
  <2>1. /\ a \in ChannelStates /\ a.slots = ch.slots /\ a.queue = ch.queue
        /\ a.free_slots = ch.free_slots /\ a.reserved_slots = ch.reserved_slots
        /\ a.buffer = ch.buffer /\ a.is_closed /\ a.woken = ch.woken
    BY <1>i DEF ChannelStates
  <2> HIDE DEF a
  <2>2. ChannelSound(a)
    <3>1. Len(ch.buffer) + ch.reserved_slots <= Capacity
      BY <1>i DEF ChannelSound, CapacityBound
    <3> QED
      BY <3>1, <2>1, <1>i, PlainUpdate
  <2>3. QueueOrdered(ch') /\ Accounted(ch', {}) /\ KeepsOwners(a, ch', {}) /\ NoNewGrant(a, ch')
    BY <2>0, <2>1, <2>2, WakeAllWaits
  <2>4. KeepsOwners(ch, ch', {}) /\ NoNewGrant(ch, ch')
    BY <2>1, <2>3 DEF KeepsOwners, NoNewGrant, Owner, Current
  <2> QED
    BY <1>i, <2>0, <2>3, <2>4, KeptWaits, NoNewGrantOldest
<1> QED
  BY <1>1, <1>2, <1>3, <1>4, <1>5, <1>6, <1>7, <1>8, <1>9, <1>10, <1>11 DEF Next

\* Waiters and futures match in every reachable state.
THEOREM WaitersInvariance == Spec => [](IInv /\ WaitersSound)
<1>1. Init => WaitersSound
  <2> SUFFICES ASSUME Init PROVE WaitersSound
    OBVIOUS
  <2>1. ch.slots = << >> /\ ch.queue = << >>
    BY DEF Init
  <2>2. \A p \in Producers : task[p] # "blocked"
    BY DEF Init
  <2> QED
    BY <2>1, <2>2 DEF WaitersSound, QueueOrdered, Accounted
<1>2. IInv /\ WaitersSound /\ [Next]_vars => WaitersSound'
  BY StepWaits
<1> QED
  BY <1>1, <1>2, InitIInv, StepIInv, PTL DEF Spec

\* Every blocked send that has not been woken is queued under its own key, no two share a
\* slot, and nobody uses a slot of the free list: the ABA protection of the generations.
THEOREM WaiterTableIsSound == Spec => []WaiterTableSound
<1>1. ASSUME IInv, WaitersSound PROVE WaiterTableSound
  <2>1. ASSUME NEW p \in Producers, task[p] = "blocked", p \notin ch.woken
        PROVE  /\ ch.slots[key[p].index].waker = p
               /\ \E n \in LiveEntries(ch) : ch.queue[n] = key[p]
    <3> DEFINE k == key[p]
    <3>1. Owner(ch, p, k) /\ k \in Keys
      BY <1>1, <2>1 DEF WaitersSound, IInv, TypeOK
    <3> HIDE DEF k
    <3>2. /\ Current(ch, k) /\ ch.slots[k.index].waker = p /\ ch.slots[k.index].queued
          /\ k.index \in DOMAIN ch.slots
      BY <2>1, <3>1 DEF Owner, Current
    <3>3. PICK n \in DOMAIN ch.queue : ch.queue[n] = KeyOf(ch, k.index)
      BY <1>1, <3>2 DEF IInv, ChannelSound, TableSound, SlotSound
    <3>4. KeyOf(ch, k.index) = k
      BY <3>1, <3>2 DEF KeyOf, Current, Keys
    <3>5. n \in LiveEntries(ch)
      BY <3>2, <3>3, <3>4 DEF LiveEntries
    <3> QED
      BY <3>2, <3>3, <3>4, <3>5 DEF k
  <2>2. \A p \in Producers : task[p] = "blocked" => Current(ch, key[p])
    BY <1>1 DEF WaitersSound, Owner
  <2>3. \A n \in DOMAIN ch.free_slots : ~ch.slots[ch.free_slots[n]].in_use
    BY <1>1 DEF IInv, ChannelSound, TableSound, FreeListSound
  <2>4. \A p, q \in Producers :
          (p # q /\ task[p] = "blocked" /\ task[q] = "blocked") => key[p].index # key[q].index
    BY <1>1 DEF WaitersSound
  <2> QED
    BY <2>1, <2>2, <2>3, <2>4 DEF WaiterTableSound
<1> QED
  BY <1>1, WaitersInvariance, PTL

\* "Blocked sends receive FIFO reservations": a step that grants capacity to a waiter leaves
\* no waiter queued that registered earlier.
THEOREM GrantsAreFifo == Spec => FifoGrants
<1>1. IInv /\ WaitersSound /\ [Next]_vars => [FifoGrant]_vars
  BY StepWaits DEF GrantsOldest, FifoGrant
<1> QED
  BY <1>1, WaitersInvariance, PTL DEF Spec, FifoGrants
============================================================================
