---------------------- MODULE QuiverDurabilityProofs -----------------------
(***************************************************************************)
(* QuiverEngine implements DurableLog: proof for any subscribers, bundles  *)
(* and crashes and every size of the log, when no process ends inside a    *)
(* rotation or a purge (WholeLog) and no segment write fails once open;    *)
(* with failed segment writes, only their bundles are lost.                *)
(***************************************************************************)
EXTENDS QuiverEngineProofs

----------------------------------------------------------------------------
(* The invariant.                                                          *)

\* Bundle b is the entry of file f, of log d, of the log, at position p.
Holds(f, b, p) == \E k \in 1..Len(f.data) : f.data[k] = b /\ f.start + k = p + 1
Entry(d, b, p) == \E i \in 1..Len(Found(d)) : Holds(Found(d)[i], b, p)
InLog(b, p) == Entry(disk, b, p)

\* Bundles in segment files.
Stored == UNION Range(files)

\* Bundles that need the log no more, or have no claim to it.
Safe(b) == b \in Resolved \/ b \in at_risk \/ b \in Stored

\* The entry at p is in memory too, or replay is yet to read it.
Held(b, p) ==
  \/ b \in open_segment
  \/ job.at = "write" /\ b \in job.seg
  \/ job.at \in {"rename", "reopen", "segment"} /\ b = job.bundle
  \/ phase = "replay" /\ replay.pos <= p

\* No cursor has passed p.
Ahead(p) == disk.sidecar <= p /\ (phase # "down" => writer.cursor <= p)

\* An accepted bundle that needs the log is in it, ahead of the cursors, and does
\* not depend on the log alone while the engine runs.
KeptAt(b, p) == InLog(b, p) /\ Ahead(p) /\ (phase # "down" => Held(b, p))
Durable == \A b \in accepted : Safe(b) \/ \E p \in Nat : KeptAt(b, p)

\* The bundle whose ingest is about to return Ok is in the log or in a segment file.
IngestDurable ==
  /\ phase = "up" /\ job.at \in {"rename", "reopen", "segment"} =>
       \E p \in Nat : InLog(job.bundle, p) /\ Ahead(p)
  /\ job.then = "ingest" =>
       /\ job.at = "write" => job.bundle \in job.seg
       /\ job.at \in {"persist", "purge"} => job.bundle \in files[job.seq]

\* The sidecar is not beyond the log.
SidecarSound == disk.sidecar <= IF phase = "down" THEN FileEnd(disk.active) ELSE LogEnd

\* What replay has yet to read: everything from its position on, in order.
Unread(f) ==
  \A k \in 1..Len(f.data) :
    f.start + k > replay.pos =>
      \/ \E l \in 1..Len(replay.entries) :
           replay.entries[l].bundle = f.data[k] /\ replay.entries[l].next = f.start + k
      \/ \E j \in 1..Len(replay.files) : replay.files[j] = f
ReplayOrdered ==
  /\ \A l, k \in 1..Len(replay.entries) : l < k => replay.entries[l].next < replay.entries[k].next
  /\ \A k \in 1..Len(replay.entries), j \in 1..Len(replay.files) :
       replay.entries[k].next <= replay.files[j].start
  /\ \A j, l \in 1..Len(replay.files) : j < l => FileEnd(replay.files[j]) <= replay.files[l].start
ReplaySound ==
  phase = "replay" =>
    /\ replay.files \in Seq(Files) /\ ReplayOrdered
    /\ \A i \in 1..Len(Found(disk)) : Unread(Found(disk)[i])

\* Every subscriber tracks every segment it could still need.
TrackingSound ==
  phase = "up" =>
    \A s \in Subscribers : registry[s].active /\ store \subseteq DOMAIN registry[s].segments

DInv ==
  /\ Durable /\ IngestDurable /\ SidecarSound /\ ReplaySound /\ TrackingSound
  /\ at_risk \subseteq Bundles

----------------------------------------------------------------------------
(* Reading the log back.                                                   *)

\* Where each file comes in the reading order.
LEMMA ReadPlaces ==
  ASSUME NEW d \in Disks
  PROVE  \E at \in [1..(Len(d.rotated) + 1) -> 1..(Len(d.rotated) + 1)] :
           /\ \A k \in 1..(Len(d.rotated) + 1) : ReadOrder(d)[k] = Found(d)[at[k]]
           /\ \A k, l \in 1..(Len(d.rotated) + 1) : k < l => at[k] \in ReadBefore(d, at[l])
           /\ \A i \in 1..(Len(d.rotated) + 1) : \E k \in 1..(Len(d.rotated) + 1) : at[k] = i
<1> DEFINE n == Len(d.rotated) + 1
           rank == [i \in 1..n |-> Cardinality(ReadBefore(d, i))]
           Is(k, i) == ReadOrder(d)[k] = Found(d)[i] /\ rank[i] = k - 1
           at == [k \in 1..n |-> CHOOSE i \in 1..n : Is(k, i)]
<1>1. Len(Found(d)) = n /\ n \in Nat
  BY FoundIs
<1>2. \A k \in 1..n : \E i \in 1..n : Is(k, i)
  BY ReadOrderIs
<1>3. \A k \in 1..n : at[k] \in 1..n /\ Is(k, at[k])
  <2> SUFFICES ASSUME NEW k \in 1..n PROVE at[k] \in 1..n /\ Is(k, at[k])
    OBVIOUS
  <2>1. \E i \in 1..n : Is(k, i)
    BY <1>2
  <2>2. at[k] = CHOOSE i \in 1..n : Is(k, i)
    BY Zenon
  <2> HIDE DEF at, Is
  <2> QED
    BY <2>1, <2>2, Zenon
<1>4. \A i \in 1..n : rank[i] \in 0..(n - 1)
  BY <1>1, RankFacts
<1>5. \A i, j \in 1..n : i # j => i \in ReadBefore(d, j) \/ j \in ReadBefore(d, i)
  BY <1>1, RankFacts
<1>6. \A i, j \in 1..n : i \in ReadBefore(d, j) => rank[i] < rank[j]
  BY <1>1, RankFacts
<1>7. \A k \in 1..n : ReadOrder(d)[k] = Found(d)[at[k]] /\ rank[at[k]] = k - 1 /\ at[k] \in 1..n
  <2> HIDE DEF at, rank
  <2> QED
    BY <1>3
<1>8. at \in [1..n -> 1..n]
  BY <1>7
<1> HIDE DEF rank, at
<1>9. ASSUME NEW k \in 1..n, NEW l \in 1..n, k < l PROVE at[k] \in ReadBefore(d, at[l])
  <2>1. rank[at[k]] = k - 1 /\ rank[at[l]] = l - 1 /\ at[k] \in 1..n /\ at[l] \in 1..n
    BY <1>7
  <2>2. at[k] # at[l] /\ ~(rank[at[l]] < rank[at[k]])
    BY <1>1, <1>9, <2>1
  <2> QED
    BY <1>5, <1>6, <2>1, <2>2
<1>10. ASSUME NEW i \in 1..n PROVE \E k \in 1..n : at[k] = i
  <2> DEFINE k == rank[i] + 1
  <2>1. k \in 1..n /\ rank[i] = k - 1 /\ rank[i] \in Nat
    BY <1>1, <1>4
  <2> HIDE DEF k
  <2>2. at[k] \in 1..n /\ rank[at[k]] = rank[i]
    BY <1>7, <2>1
  <2>3. at[k] = i
    BY <1>5, <1>6, <2>1, <2>2
  <2> QED
    BY <2>1, <2>3
<1> QED
  BY <1>7, <1>8, <1>9, <1>10

\* Of two rotated files the earlier one ends where the later one starts, or before.
LEMMA RotatedChain ==
  ASSUME IInv, LogSound, NEW a \in 1..Len(disk.rotated), NEW b \in 1..Len(disk.rotated), a < b
  PROVE  FileEnd(disk.rotated[a]) <= disk.rotated[b].start
<1> DEFINE n == Len(disk.rotated)
           start == [k \in 1..n |-> disk.rotated[k].start]
           end == [k \in 1..n |-> FileEnd(disk.rotated[k])]
           U == {k \in 1..n : a < k /\ ~(end[a] <= start[k])}
<1>1. n \in Nat
  BY Fields
<1>2. \A k \in 1..n : start[k] \in Nat /\ end[k] \in Nat /\ start[k] <= end[k]
  <2> SUFFICES ASSUME NEW k \in 1..n
               PROVE  start[k] \in Nat /\ end[k] \in Nat /\ start[k] <= end[k]
    OBVIOUS
  <2> DEFINE x == disk.rotated[k].start
             y == Len(disk.rotated[k].data)
             z == FileEnd(disk.rotated[k])
  <2>1. x \in Nat /\ y \in Nat /\ z = x + y
    BY LogNumbers
  <2>2. x <= z
    <3> HIDE DEF x, y, z
    <3> QED
      BY <2>1
  <2> QED
    BY <2>2, LogNumbers
<1>3. \A k, l \in 1..n : l = k + 1 => start[l] = end[k]
  BY DEF LogSound
<1>4. a \in 1..n /\ b \in 1..n /\ end[a] = FileEnd(disk.rotated[a]) /\ start[b] = disk.rotated[b].start
  OBVIOUS
<1> HIDE DEF n, start, end
<1>5. U = {}
  <2> SUFFICES ASSUME U # {} PROVE FALSE
    OBVIOUS
  <2> DEFINE m == Min(U)
  <2>1. m \in U /\ \A q \in U : m <= q
    <3>1. U \subseteq Nat
      BY <1>1
    <3> HIDE DEF U
    <3> QED
      BY <3>1, MinOf
  <2> HIDE DEF m
  <2>2. m \in 1..n /\ a < m /\ ~(end[a] <= start[m])
    BY <2>1
  <2>3. m - 1 \in 1..n /\ m = (m - 1) + 1 /\ m - 1 \notin U
    BY <1>1, <1>4, <2>1, <2>2
  <2>4. start[m] = end[m - 1]
    BY <1>3, <2>2, <2>3
  <2>5. m - 1 = a \/ end[a] <= start[m - 1]
    BY <1>1, <1>4, <2>2, <2>3
  <2>6. start[m - 1] \in Nat /\ end[m - 1] \in Nat /\ start[m - 1] <= end[m - 1] /\ end[a] \in Nat
    BY <1>2, <1>4, <2>3
  <2> QED
    BY ONLY <2>2, <2>4, <2>5, <2>6
<1>6. end[a] <= start[b]
  BY <1>4, <1>5
<1> QED
  BY <1>4, <1>6

\* The files read before one that has entries end where it starts, or before.  Only
\* between the two halves of a rotation may an empty file be out of order.
LEMMA FilesApart ==
  ASSUME IInv, LogSound, NEW i \in 1..Len(Found(disk)), NEW j \in ReadBefore(disk, i),
         job.at = "reopen" => Len(Found(disk)[i].data) > 0
  PROVE  FileEnd(Found(disk)[j]) <= Found(disk)[i].start
<1> DEFINE n == Len(disk.rotated)
           F == Found(disk)
<1>1. /\ disk \in Disks /\ n \in Nat /\ Len(F) = n + 1 /\ F[n + 1] = disk.active
      /\ \A k \in 1..n : F[k] = disk.rotated[k]
      /\ \A k \in 1..Len(F) : F[k] \in Files /\ F[k].start \in Nat
  BY FoundIs DEF IInv, LogTyped
<1>2. /\ i \in 1..(n + 1) /\ j \in 1..(n + 1)
      /\ F[j].start < F[i].start \/ (F[j].start = F[i].start /\ j < i)
  BY <1>1 DEF ReadBefore
<1>3. /\ F[i].start \in Nat /\ F[j].start \in Nat
      /\ FileEnd(F[i]) \in Nat /\ F[i].start <= FileEnd(F[i])
      /\ FileEnd(F[j]) \in Nat /\ (F[j].data = << >> => FileEnd(F[j]) = F[j].start)
  <2>1. \A f \in Files : /\ f.start \in Nat /\ FileEnd(f) \in Nat /\ f.start <= FileEnd(f)
                         /\ (f.data = << >> => FileEnd(f) = f.start)
    BY DEF Files, FileEnd
  <2>2. F[i] \in Files /\ F[j] \in Files
    BY <1>1, <1>2
  <2> HIDE DEF F
  <2> QED
    BY <2>1, <2>2
<1>4. CASE i \in 1..n /\ j \in 1..n
  <2>1. F[i] = disk.rotated[i] /\ F[j] = disk.rotated[j]
    BY <1>1, <1>4
  <2>2. CASE j < i
    BY <1>4, <2>1, <2>2, RotatedChain
  <2>3. CASE i < j
    <3>1. FileEnd(F[i]) <= F[j].start
      BY <1>4, <2>1, <2>3, RotatedChain
    <3> HIDE DEF F
    <3>2. i \in Nat /\ j \in Nat
      BY <1>2
    <3> QED
      BY <1>2, <1>3, <2>3, <3>1, <3>2
  <2>4. i # j
    <3> HIDE DEF F
    <3> QED
      BY <1>1, <1>2, <1>3
  <2> QED
    BY <1>1, <1>2, <2>2, <2>3, <2>4
<1>5. CASE i \in 1..n /\ j = n + 1
  <2>1. F[i] = disk.rotated[i] /\ F[j] = disk.active
    BY <1>1, <1>5
  <2>2. CASE job.at = "reopen"
    <3>1. F[j].data = << >>
      BY <2>1, <2>2 DEF LogSound
    <3>2. FileEnd(F[j]) = F[j].start
      BY <1>3, <3>1
    <3>3. F[j].start <= F[i].start
      <4> HIDE DEF F
      <4> QED
        BY <1>2, <1>3
    <3> QED
      BY <3>2, <3>3
  <2>3. CASE job.at # "reopen"
    <3>1. F[i].start < F[j].start
      BY <1>5, <2>1, <2>3, RotatedBefore
    <3> HIDE DEF F
    <3> QED
      BY <1>2, <1>3, <3>1
  <2> QED
    BY <2>2, <2>3
<1>6. CASE i = n + 1
  <2>1. F[i] = disk.active /\ j \in 1..n
    <3>1. F[i] = disk.active
      BY <1>1, <1>6
    <3> HIDE DEF F, n
    <3> QED
      BY <1>1, <1>2, <1>3, <1>6, <3>1
  <2>2. job.at # "reopen"
    <3>1. job.at = "reopen" => F[i].data = << >> /\ Len(F[i].data) > 0
      BY <2>1 DEF LogSound
    <3> QED
      BY <3>1
  <2>3. FileEnd(disk.rotated[j]) <= disk.active.start
    BY <2>1, <2>2, RotatedBefore
  <2> QED
    BY <1>1, <2>1, <2>3
<1>7. (i \in 1..n \/ i = n + 1) /\ (j \in 1..n \/ j = n + 1)
  BY <1>1, <1>2
<1> QED
  BY <1>4, <1>5, <1>6, <1>7

\* Replay starts at the sidecar's position or before.
LEMMA ReplayFromAtMost ==
  ASSUME NEW d \in Disks PROVE ReplayFrom(d) <= d.sidecar
<1>1. WalEndPosition(d) \in Nat /\ d.sidecar \in Nat
  BY ReplayFromIs DEF Disks
<1> QED
  BY <1>1 DEF ReplayFrom

\* A restart reads every entry of the log from the sidecar's position on.
LEMMA InLogReplayed ==
  ASSUME IInv, LogSound, NEW b, NEW p \in Nat, InLog(b, p), disk.sidecar <= p
  PROVE  b \in Replayable(disk)
<1> DEFINE n == Len(disk.rotated) + 1
           F == Found(disk)
           R == ReadOrder(disk)
<1>0. disk \in Disks
  BY DEF IInv, LogTyped
<1>1. /\ disk \in Disks /\ Len(F) = n /\ n \in Nat /\ Len(R) = n /\ R \in Seq(Files)
      /\ \A i \in 1..n : F[i] \in Files /\ F[i].start \in Nat
  <2>1. /\ Len(F) = n /\ n \in Nat /\ \A i \in 1..Len(F) : F[i] \in Files /\ F[i].start \in Nat
    BY <1>0, FoundIs
  <2>2. Len(R) = n /\ R \in Seq(Files)
    BY <1>0, ReadOrderIs
  <2> QED
    BY <1>0, <2>1, <2>2
<1>2a. PICK i \in 1..n : \E k \in 1..Len(F[i].data) : F[i].data[k] = b /\ F[i].start + k = p + 1
  BY <1>1 DEF InLog, Entry, Holds
<1>2. PICK k \in 1..Len(F[i].data) : F[i].data[k] = b /\ F[i].start + k = p + 1
  BY <1>2a
<1>3. PICK at \in [1..n -> 1..n] :
        /\ \A m \in 1..n : R[m] = F[at[m]]
        /\ \A m, l \in 1..n : m < l => at[m] \in ReadBefore(disk, at[l])
        /\ \A j \in 1..n : \E m \in 1..n : at[m] = j
  BY <1>0, ReadPlaces
<1>4. PICK m \in 1..n : at[m] = i
  BY <1>3
<1>5. Len(F[i].data) > 0 /\ k \in Nat /\ k >= 1 /\ F[i].data \in Seq(Bundles) /\ F[i].start \in Nat
  <2>1. F[i] \in Files
    BY <1>1
  <2>2. F[i].data \in Seq(Bundles) /\ F[i].start \in Nat
    BY <2>1 DEF Files
  <2> QED
    BY <2>2
<1>6. F[i].start <= p /\ F[i].start + k - 1 = p
  <2> DEFINE x == F[i].start
  <2>1. x \in Nat /\ k \in Nat /\ k >= 1 /\ x + k = p + 1
    BY <1>2, <1>5
  <2> HIDE DEF x
  <2>2. x <= p /\ x + k - 1 = p
    BY ONLY <2>1, p \in Nat
  <2> QED
    BY <2>2 DEF x
<1>7. ReplayFrom(disk) <= p
  <2>1. ReplayFrom(disk) \in Nat /\ ReplayFrom(disk) <= disk.sidecar /\ disk.sidecar \in Nat
    BY <1>1, ReplayFromIs, ReplayFromAtMost DEF Disks
  <2> QED
    BY <2>1
<1>8. ASSUME NEW j \in 1..(m - 1) PROVE FileEnd(R[j]) <= p
  <2>1. j \in 1..n /\ j < m
    BY <1>1
  <2>2. at[j] \in ReadBefore(disk, i) /\ R[j] = F[at[j]] /\ at[j] \in 1..n
    BY <1>3, <1>4, <2>1
  <2>3. FileEnd(F[at[j]]) <= F[i].start
    BY <1>1, <1>5, <2>2, FilesApart
  <2>4. FileEnd(R[j]) \in Nat /\ FileEnd(R[j]) <= F[i].start
    <3>1. R[j] \in Files
      BY <1>1, <2>1
    <3>2. FileEnd(R[j]) \in Nat
      BY <3>1 DEF FileEnd, Files
    <3> QED
      BY <2>2, <2>3, <3>2
  <2> DEFINE x == FileEnd(R[j])
             y == F[i].start
  <2>5. x \in Nat /\ y \in Nat /\ x <= y /\ y <= p
    BY <1>5, <1>6, <2>4
  <2> HIDE DEF x, y
  <2>6. x <= p
    BY ONLY <2>5, p \in Nat
  <2> QED
    BY <2>6 DEF x
<1> DEFINE Read(l, q) == q >= ReplayFrom(disk) /\ \A j \in 1..(l - 1) : q >= FileEnd(R[j])
           Part(l) == {R[l].data[h] : h \in {h \in DOMAIN R[l].data : Read(l, R[l].start + h - 1)}}
<1>9. R[m] = F[i] /\ m \in DOMAIN R /\ k \in DOMAIN R[m].data
  <2>1. R[m] = F[i]
    BY <1>3, <1>4
  <2>2. DOMAIN R = 1..n
    BY <1>1
  <2>3. DOMAIN F[i].data = 1..Len(F[i].data)
    BY <1>5
  <2> QED
    BY <2>1, <2>2, <2>3
<1>10. Replayable(disk) = UNION {Part(l) : l \in DOMAIN R}
  BY Zenon DEF Replayable
<1> HIDE DEF R, F
<1>11. Read(m, p) /\ R[m].start + k - 1 = p /\ R[m].data[k] = b
  <2>1. p >= ReplayFrom(disk) /\ ReplayFrom(disk) \in Nat
    BY <1>1, <1>7, ReplayFromIs
  <2>2. \A j \in 1..(m - 1) : p >= FileEnd(R[j])
    BY <1>8
  <2> QED
    BY <1>2, <1>6, <1>9, <2>1, <2>2
<1>12. b \in Part(m)
  <2> HIDE DEF Read
  <2> QED
    BY <1>9, <1>11
<1> HIDE DEF Part
<1> QED
  BY <1>9, <1>10, <1>12

\* And, a rotation aside, nothing else.
LEMMA ReplayedInLog ==
  ASSUME IInv, LogSound, job.at # "reopen", disk.sidecar <= FileEnd(disk.active),
         NEW b \in Replayable(disk)
  PROVE  \E p \in Nat : InLog(b, p) /\ disk.sidecar <= p
<1> DEFINE n == Len(disk.rotated) + 1
           F == Found(disk)
           R == ReadOrder(disk)
           Read(l, q) == q >= ReplayFrom(disk) /\ \A j \in 1..(l - 1) : q >= FileEnd(R[j])
           Part(l) == {R[l].data[h] : h \in {h \in DOMAIN R[l].data : Read(l, R[l].start + h - 1)}}
<1>0. disk \in Disks
  BY DEF IInv, LogTyped
<1>1. /\ disk \in Disks /\ Len(F) = n /\ n \in Nat /\ Len(R) = n /\ R \in Seq(Files)
      /\ \A i \in 1..n : F[i] \in Files
      /\ \A k \in 1..n : \E i \in 1..n : R[k] = F[i]
  <2>1. Len(F) = n /\ n \in Nat /\ \A i \in 1..Len(F) : F[i] \in Files
    BY <1>0, FoundIs
  <2>2. Len(R) = n /\ R \in Seq(Files) /\ \A k \in 1..n : \E i \in 1..n : R[k] = F[i]
    BY <1>0, ReadOrderIs
  <2> QED
    BY <1>0, <2>1, <2>2
<1>2. Replayable(disk) = UNION {Part(l) : l \in DOMAIN R}
  BY Zenon DEF Replayable
<1>3. DOMAIN R = 1..n
  BY <1>1
<1>4. ReplayFrom(disk) = disk.sidecar /\ disk.sidecar \in Nat
  <2>0. WalEndPosition(disk) = FileEnd(disk.active)
    <3>1. WalEndPosition(disk) = disk.active.start + Len(disk.active.data)
      BY WalEnds
    <3> QED
      BY ONLY <3>1 DEF FileEnd
  <2>1. disk.sidecar \in Nat /\ WalEndPosition(disk) \in Nat
    BY <1>0, ReplayFromIs DEF Disks
  <2>2. disk.sidecar <= WalEndPosition(disk)
    BY <2>0, <2>1
  <2> QED
    BY <2>1, <2>2 DEF ReplayFrom
<1> HIDE DEF F, R
<1>5. PICK l \in 1..n : b \in Part(l)
  <2> HIDE DEF Part
  <2> QED
    BY <1>2, <1>3
<1>6. PICK h \in DOMAIN R[l].data : R[l].data[h] = b /\ Read(l, R[l].start + h - 1)
  <2> HIDE DEF Read
  <2> QED
    BY <1>5
<1>7. PICK i \in 1..n : R[l] = F[i]
  BY <1>1
<1>8. h \in 1..Len(F[i].data) /\ F[i].data[h] = b /\ F[i].start \in Nat
  <2>1. F[i] \in Files
    BY <1>1
  <2>2. F[i].data \in Seq(Bundles) /\ F[i].start \in Nat
    BY <2>1 DEF Files
  <2>3. DOMAIN F[i].data = 1..Len(F[i].data)
    BY <2>2
  <2> QED
    BY <1>6, <1>7, <2>2, <2>3
<1> DEFINE p == F[i].start + h - 1
<1>9. p \in Nat /\ F[i].start + h = p + 1
  BY <1>8
<1>10. disk.sidecar <= p
  BY <1>4, <1>6, <1>7, <1>9
<1> HIDE DEF p
<1>11. InLog(b, p)
  BY <1>1, <1>8, <1>9 DEF InLog, Entry, Holds, F
<1> QED
  BY <1>9, <1>10, <1>11

----------------------------------------------------------------------------
(* What the invariant says about DurableLog.                               *)

\* Only bundles at risk are lost.
LEMMA LostAtRisk == IInv /\ CInv /\ DInv => Lost \subseteq accepted \cap at_risk
<1> SUFFICES ASSUME IInv, CInv, DInv, NEW b \in Lost PROVE b \in accepted /\ b \in at_risk
  OBVIOUS
<1>1. b \in accepted /\ b \notin Resolved /\ b \notin Stored /\ b \notin Replayable(disk)
  <2> DEFINE unresolved == (accepted \ Resolved) \ UNION Range(files)
  <2>1. b \in IF unresolved = {} THEN {} ELSE unresolved \ Replayable(disk)
    BY Zenon DEF Lost
  <2>2. b \in unresolved /\ b \notin Replayable(disk)
    <3> HIDE DEF unresolved
    <3> QED
      BY <2>1
  <2> QED
    BY <2>2 DEF Stored
<1>2. ASSUME b \notin at_risk PROVE FALSE
  <2>1. ~Safe(b)
    BY <1>1, <1>2 DEF Safe
  <2>2. PICK p \in Nat : KeptAt(b, p)
    BY <1>1, <2>1 DEF DInv, Durable
  <2>3. InLog(b, p) /\ disk.sidecar <= p
    BY <2>2 DEF KeptAt, Ahead
  <2> QED
    BY <1>1, <2>3, InLogReplayed DEF CInv
<1> QED
  BY <1>1, <1>2

\* Bundles stay resolved, at risk and stored.
LEMMA SameSafe ==
  ASSUME UNCHANGED <<files, done, at_risk>>
  PROVE  Stored' = Stored /\ Resolved' = Resolved /\ \A b : Safe(b)' <=> Safe(b)
<1>1. Stored' = Stored
  BY DEF Stored
<1>2. Resolved' = Resolved
  BY DEF Resolved
<1> QED
  BY <1>1, <1>2 DEF Safe

\* The log stays.
LEMMA SameLog ==
  ASSUME UNCHANGED disk PROVE \A b, p : InLog(b, p)' <=> InLog(b, p)
BY DEF InLog

\* Steps that leave the log alone while nothing is under way in memory.
LEMMA DSame ==
  ASSUME DInv, UNCHANGED <<disk, phase, replay, writer, open_segment, at_risk>>,
         job.at \notin {"rename", "reopen", "segment", "write"},
         job'.at \in {"idle", "append", "retry", "cleanup"},
         \A b : Safe(b) => Safe(b)', \A b \in accepted' : b \in accepted \/ Safe(b)',
         TrackingSound'
  PROVE  DInv'
<1>1. \A b, p : KeptAt(b, p) => KeptAt(b, p)'
  BY SameLog DEF KeptAt, Ahead, Held
<1>2. Durable'
  BY <1>1 DEF DInv, Durable
<1>3. IngestDurable'
  BY DEF IngestDurable
<1>4. SidecarSound'
  BY DEF DInv, SidecarSound, LogEnd
<1>5. ReplaySound'
  BY DEF DInv, ReplaySound, Unread, ReplayOrdered
<1> QED
  BY <1>2, <1>3, <1>4, <1>5 DEF DInv

\* finalize_segment_impl takes the open segment, and the bundle that was to go there.
LEMMA DTaken ==
  ASSUME DInv, phase # "down", job.at \notin {"rename", "reopen", "write"},
         UNCHANGED <<disk, files, phase, replay, writer, done, at_risk, accepted, registry, store>>,
         job'.at = "write", open_segment \subseteq job'.seg,
         job.at = "segment" => job.bundle \in job'.seg,
         job'.then = "ingest" => job'.bundle \in job'.seg
  PROVE  DInv'
<1>1. \A b, p : KeptAt(b, p) => KeptAt(b, p)'
  BY SameLog DEF KeptAt, Ahead, Held
<1>2. Durable'
  BY <1>1, SameSafe DEF DInv, Durable
<1>3. IngestDurable'
  BY DEF IngestDurable
<1>4. SidecarSound'
  BY DEF DInv, SidecarSound, LogEnd
<1>5. ReplaySound'
  BY DEF DInv, ReplaySound, Unread, ReplayOrdered
<1>6. TrackingSound'
  BY DEF DInv, TrackingSound
<1> QED
  BY <1>2, <1>3, <1>4, <1>5, <1>6 DEF DInv

\* WalAtCapacity.
LEMMA DWalFull == IInv /\ DInv /\ WalFull => DInv'
<1> SUFFICES ASSUME IInv, DInv, WalFull PROVE DInv'
  OBVIOUS
<1>0. /\ UNCHANGED <<disk, files, phase, replay, writer, done, at_risk, accepted, registry, store>>
      /\ phase = "up" /\ job.at \in {"append", "retry"} /\ job \in Jobs
  BY DEF WalFull, on_disk, engine, subscriber, history, IInv, EngineTyped
<1>1. CASE job.at = "append" /\ open_segment # {}
  <2>1. TakeSegment(job, open_segment, segment_cursor, "append")
    BY <1>1 DEF WalFull
  <2>2. job'.at = "write" /\ job'.seg = open_segment /\ job'.then = "append"
    BY <1>0, <2>1 DEF TakeSegment, Jobs
  <2> QED
    BY <1>0, <2>2, DTaken
<1>2. CASE ~(job.at = "append" /\ open_segment # {})
  <2>1. job' = Idle /\ UNCHANGED open_segment
    BY <1>2 DEF WalFull, engine
  <2>2. TrackingSound'
    BY <1>0 DEF DInv, TrackingSound
  <2> QED
    BY <1>0, <2>1, <2>2, IdleIs, SameSafe, DSame
<1> QED
  BY <1>1, <1>2

\* flush.
LEMMA DFlush == IInv /\ DInv /\ Flush => DInv'
<1> SUFFICES ASSUME IInv, DInv, Flush PROVE DInv'
  OBVIOUS
<1>0. /\ UNCHANGED <<disk, files, phase, replay, writer, done, at_risk, accepted, registry, store>>
      /\ phase = "up" /\ job.at = "idle"
      /\ TakeSegment(Idle, open_segment, segment_cursor, "flush")
  BY IdleIs DEF Flush, on_disk, subscriber, history
<1>1. job'.at = "write" /\ job'.seg = open_segment /\ job'.then = "flush"
  BY <1>0 DEF TakeSegment, Idle
<1> QED
  BY <1>0, <1>1, DTaken

\* The bundle is in the open segment, or in the one that is being finalized.
LEMMA DAppendToSegment ==
  ASSUME IInv, DInv, NEW full \in BOOLEAN, AppendToSegment(full) PROVE DInv'
<1>0. /\ UNCHANGED <<disk, files, phase, replay, writer, done, at_risk, registry, store>>
      /\ job.at = "segment" /\ phase # "down" /\ job \in Jobs
  BY IdleIs DEF AppendToSegment, on_disk, subscriber, IInv, JobSound, EngineTyped
<1>2. CASE full
  <2> DEFINE seg == open_segment \cup {job.bundle}
             then == IF phase = "replay" THEN "replay" ELSE "ingest"
  <2>1. TakeSegment(job, seg, job.cursor, then) /\ accepted' = accepted
    BY <1>2 DEF AppendToSegment
  <2>2. open_segment \subseteq seg /\ job.bundle \in seg
    OBVIOUS
  <2> HIDE DEF seg, then
  <2>3. job'.at = "write" /\ job'.seg = seg /\ job'.bundle = job.bundle
    BY <1>0, <2>1 DEF TakeSegment, Jobs
  <2> QED
    BY <1>0, <2>1, <2>2, <2>3, DTaken
<1>3. CASE ~full
  <2>1. /\ open_segment' = open_segment \cup {job.bundle} /\ job'.at = "idle"
        /\ job'.then = "none"
        /\ accepted' = IF phase = "up" THEN accepted \cup {job.bundle} ELSE accepted
    BY <1>3, IdleIs DEF AppendToSegment
  <2>2. \A b, p : KeptAt(b, p) => KeptAt(b, p)'
    BY <1>0, <2>1, SameLog DEF KeptAt, Ahead, Held
  <2>3. ASSUME NEW b, b = job.bundle, phase = "up" PROVE \E p \in Nat : KeptAt(b, p)'
    <3>1. PICK p \in Nat : InLog(b, p) /\ Ahead(p)
      BY <1>0, <2>3 DEF DInv, IngestDurable
    <3>2. KeptAt(b, p)'
      BY <1>0, <2>1, <2>3, <3>1, SameLog DEF KeptAt, Ahead, Held
    <3> QED
      BY <3>2
  <2>4. Durable'
    BY <1>0, <2>1, <2>2, <2>3, SameSafe DEF DInv, Durable
  <2>5. IngestDurable'
    BY <2>1 DEF IngestDurable
  <2>6. SidecarSound' /\ ReplaySound' /\ TrackingSound'
    BY <1>0 DEF DInv, SidecarSound, LogEnd, ReplaySound, Unread, ReplayOrdered, TrackingSound
  <2> QED
    BY <1>0, <2>4, <2>5, <2>6 DEF DInv
<1> QED
  BY <1>2, <1>3

----------------------------------------------------------------------------
(* Steps that write to the log.                                            *)

\* The files that are there, after a change to the active one or a rename.
LEMMA EntryWhere ==
  ASSUME NEW d \in Disks, NEW b, NEW p
  PROVE  Entry(d, b, p) <=>
           Holds(d.active, b, p) \/ \E i \in 1..Len(d.rotated) : Holds(d.rotated[i], b, p)
<1> DEFINE n == Len(d.rotated)
           F == Found(d)
<1>1. /\ Len(F) = n + 1 /\ n \in Nat /\ F[n + 1] = d.active
      /\ \A i \in 1..n : F[i] = d.rotated[i]
  BY FoundIs
<1>2. Entry(d, b, p) <=> \E i \in 1..Len(F) : Holds(F[i], b, p)
  BY DEF Entry
<1> HIDE DEF F, n
<1>3. \A i : i \in 1..(n + 1) <=> i \in 1..n \/ i = n + 1
  BY <1>1
<1>4. Entry(d, b, p) <=> (\E i \in 1..n : Holds(d.rotated[i], b, p)) \/ Holds(d.active, b, p)
  BY <1>1, <1>2, <1>3
<1> QED
  BY <1>4 DEF n

\* The new entry is the last of the log.
LEMMA DAppendToWal == IInv /\ IInv' /\ CInv /\ DInv /\ AppendToWal => DInv'
<1> SUFFICES ASSUME IInv, IInv', CInv, DInv, AppendToWal PROVE DInv'
  OBVIOUS
<1> DEFINE a == IF MustRotate(disk') THEN "rename" ELSE "segment"
           c == ToWalPosition(disk', writer)
           old == disk.active.data
           x == Append(disk.active.data, job.bundle)
           end == disk.active.start + Len(disk.active.data)
<1>0. /\ UNCHANGED <<files, phase, replay, writer, open_segment, store, registry, done, at_risk, accepted>>
      /\ phase = "up" /\ job.at \in {"append", "retry"} /\ job.bundle \in Bundles
  BY DEF AppendToWal, engine, subscriber, history, IInv, JobSound
<1>1. disk' = [rotated |-> disk.rotated, sidecar |-> disk.sidecar,
               active |-> [start |-> disk.active.start, data |-> x]]
  <2>1. disk \in Disks /\ disk.active \in Files
    BY Fields DEF IInv, LogTyped
  <2>2. disk' = AppendEntry(disk, job.bundle)
    BY DEF AppendToWal
  <2> QED
    BY <2>1, <2>2 DEF AppendEntry, Disks, Files
<1>2. /\ old \in Seq(Bundles) /\ Len(x) = Len(old) + 1 /\ Len(old) \in Nat
      /\ x[Len(old) + 1] = job.bundle /\ \A k \in 1..Len(old) : x[k] = old[k]
  BY <1>0, Fields, AppendIs
<1> HIDE DEF x
<1>3. /\ disk'.rotated = disk.rotated /\ disk'.active.start = disk.active.start
      /\ disk'.active.data = x /\ disk'.sidecar = disk.sidecar
  BY <1>1
<1>4. job' = [job EXCEPT !.at = a, !.cursor = c] /\ a \in {"rename", "segment"}
  BY DEF AppendToWal
<1> HIDE DEF a, c
<1>5. job'.at \in {"rename", "segment"} /\ job'.bundle = job.bundle /\ job'.then = job.then
  BY <1>4 DEF IInv, EngineTyped, Jobs
<1>6. disk \in Disks /\ disk' \in Disks
  BY DEF IInv, LogTyped
<1>6a. ASSUME NEW b, NEW p, Entry(disk, b, p) PROVE Entry(disk', b, p)
  <2>1. ASSUME Holds(disk.active, b, p) PROVE Holds(disk'.active, b, p)
    <3>1. \E k \in 1..Len(old) : old[k] = b /\ disk.active.start + k = p + 1
      BY <2>1 DEF Holds
    <3>2. \E k \in 1..Len(x) : x[k] = b /\ disk.active.start + k = p + 1
      <4> HIDE DEF old
      <4> QED
        BY <1>2, <3>1
    <3> QED
      BY <1>3, <3>2 DEF Holds
  <2> QED
    BY <1>3, <1>6, <1>6a, <2>1, EntryWhere
<1>7. \A b, p : KeptAt(b, p) => KeptAt(b, p)'
  BY <1>0, <1>3, <1>6a DEF InLog, KeptAt, Ahead, Held
<1>8. Durable'
  BY <1>0, <1>7, SameSafe DEF DInv, Durable
<1>9. /\ end \in Nat /\ disk.sidecar <= end /\ writer.cursor <= end /\ LogEnd = end
      /\ disk.sidecar \in Nat /\ disk.active.start \in Nat
  <2>1. LogEnd = end
    BY <1>0 DEF CInv, PositionsSound, LogEnd
  <2> QED
    BY <1>0, <2>1, Fields DEF DInv, SidecarSound, CInv, CursorsSound
<1>10. IngestDurable'
  <2>1. ASSUME NEW b, b = job.bundle, NEW p, p = end PROVE Entry(disk', b, p)
    <3> DEFINE m == Len(old)
               s == disk.active.start
    <3>1. m \in Nat /\ s \in Nat /\ p = s + m /\ Len(x) = m + 1 /\ x[m + 1] = b
      BY <1>2, <1>9, <2>1
    <3>2. disk'.active.start = s /\ disk'.active.data = x
      BY <1>3
    <3> HIDE DEF m, s
    <3>3. m + 1 \in 1..Len(x) /\ s + (m + 1) = p + 1
      BY ONLY <3>1
    <3> QED
      BY <1>6, <3>1, <3>2, <3>3, EntryWhere DEF Holds
  <2>2. PICK p \in Nat : p = end
    BY <1>9
  <2>3. disk'.sidecar <= p /\ writer'.cursor <= p
    BY <1>0, <1>3, <1>9, <2>2
  <2>4. Entry(disk', job'.bundle, p)
    <3> DEFINE b == job.bundle
    <3>1. b = job.bundle
      OBVIOUS
    <3> HIDE DEF b
    <3> QED
      BY <1>5, <2>1, <2>2, <3>1
  <2> QED
    BY <1>5, <2>3, <2>4 DEF IngestDurable, Ahead, InLog
<1>11. SidecarSound'
  <2>1. LogEnd' = writer.start + Len(x)
    BY <1>0, <1>3 DEF LogEnd
  <2>2. LogEnd = writer.start + Len(old) /\ writer.start \in Nat /\ disk.sidecar <= LogEnd
    BY <1>0, <1>9, Fields DEF LogEnd
  <2> DEFINE u == Len(x)
             v == Len(old)
             w == writer.start
             s == disk.sidecar
  <2>3. u = v + 1 /\ v \in Nat /\ w \in Nat /\ s \in Nat /\ s <= w + v
    BY <1>2, <1>9, <2>2
  <2> HIDE DEF u, v, w, s
  <2>4. s <= w + u
    BY ONLY <2>3
  <2> QED
    BY <1>0, <1>3, <2>1, <2>4 DEF SidecarSound, s, w, u
<1>12. ReplaySound' /\ TrackingSound'
  BY <1>0 DEF DInv, ReplaySound, Unread, ReplayOrdered, TrackingSound
<1> QED
  BY <1>0, <1>8, <1>10, <1>11, <1>12 DEF DInv

\* The renamed file is still read.
LEMMA DRotateByRename == IInv /\ IInv' /\ CInv /\ DInv /\ RotateByRename => DInv'
<1> SUFFICES ASSUME IInv, IInv', CInv, DInv, RotateByRename PROVE DInv'
  OBVIOUS
<1> DEFINE n == Len(disk.rotated)
           x == Append(disk.rotated, disk.active)
           end == writer.start + Len(disk.active.data)
           y == Append(writer.ends, end)
<1>0. /\ UNCHANGED <<files, phase, replay, open_segment, store, registry, done, at_risk, accepted>>
      /\ job.at = "rename" /\ phase = "up" /\ job'.at = "reopen" /\ job'.bundle = job.bundle
      /\ job'.then = job.then
  <2>1. job.at = "rename" /\ job' = [job EXCEPT !.at = "reopen"]
        /\ UNCHANGED <<files, phase, replay, open_segment, store, registry, done, at_risk, accepted>>
    BY DEF RotateByRename, subscriber, history
  <2>2. phase = "up"
    BY <2>1, IdleIs DEF IInv, JobSound, EngineTyped, CInv, CursorsSound
  <2> QED
    BY <2>1, <2>2, JobMoves DEF IInv, EngineTyped
<1>1. /\ n \in Nat /\ disk.active \in Files /\ disk.rotated \in Seq(Files)
      /\ disk \in Disks /\ disk' \in Disks /\ writer.start \in Nat /\ Len(disk.active.data) \in Nat
  BY Fields DEF IInv, LogTyped
<1>2. disk' = [rotated |-> x, active |-> NewFile(0), sidecar |-> disk.sidecar]
  BY DEF RotateByRename, RotateRename, IInv, LogTyped, Disks
<1>3. writer' = [ends |-> y, start |-> end, cursor |-> writer.cursor]
  BY <1>0, ActiveStartIs DEF RotateByRename, RotatedWriter, ToWalPosition, IInv, LogTyped, Writers
<1>4. Len(x) = n + 1 /\ x[n + 1] = disk.active /\ \A i \in 1..n : x[i] = disk.rotated[i]
  BY <1>1, AppendIs
<1> HIDE DEF x, y, end
<1>5. disk'.rotated = x /\ disk'.active.data = << >> /\ disk'.sidecar = disk.sidecar
  BY <1>2 DEF NewFile
<1>6. writer'.start = end /\ writer'.cursor = writer.cursor
  BY <1>3
<1> HIDE DEF n
<1>7. ASSUME NEW b, NEW p, Entry(disk, b, p) PROVE Entry(disk', b, p)
  <2>1. Holds(disk.active, b, p) \/ \E i \in 1..n : Holds(disk.rotated[i], b, p)
    BY <1>1, <1>7, EntryWhere DEF n
  <2>2. \E i \in 1..(n + 1) : Holds(x[i], b, p)
    BY <1>1, <1>4, <2>1
  <2> QED
    BY <1>1, <1>4, <1>5, <2>2, EntryWhere
<1>8. \A b, p : InLog(b, p) /\ Ahead(p) => InLog(b, p)' /\ Ahead(p)'
  BY <1>0, <1>5, <1>6, <1>7 DEF InLog, Ahead
<1>9. \A b, p : KeptAt(b, p) => KeptAt(b, p)'
  BY <1>0, <1>8 DEF KeptAt, Held
<1>10. Durable'
  BY <1>0, <1>9, SameSafe DEF DInv, Durable
<1>11. IngestDurable'
  <2>1. PICK p \in Nat : InLog(job.bundle, p) /\ Ahead(p)
    BY <1>0 DEF DInv, IngestDurable
  <2>2. PICK b : b = job.bundle
    OBVIOUS
  <2>3. InLog(b, p)' /\ Ahead(p)'
    BY <1>8, <2>1, <2>2
  <2> QED
    BY <1>0, <2>2, <2>3 DEF IngestDurable, InLog
<1>12. SidecarSound'
  <2>1. LogEnd = end /\ end \in Nat
    BY <1>1 DEF LogEnd, end
  <2>2. LogEnd' = end
    <3>1. Len(disk'.active.data) = 0
      BY <1>5
    <3> QED
      BY <1>6, <2>1, <3>1 DEF LogEnd
  <2> QED
    BY <1>0, <1>5, <2>1, <2>2 DEF DInv, SidecarSound
<1>13. ReplaySound' /\ TrackingSound'
  BY <1>0 DEF DInv, ReplaySound, Unread, ReplayOrdered, TrackingSound
<1> QED
  BY <1>0, <1>10, <1>11, <1>12, <1>13 DEF DInv

\* The new file takes the place of none; the sidecar is rewritten with the writer's cursor.
LEMMA DRotateToNewFile == IInv /\ IInv' /\ CInv /\ DInv /\ RotateToNewFile => DInv'
<1> SUFFICES ASSUME IInv, IInv', CInv, DInv, RotateToNewFile PROVE DInv'
  OBVIOUS
<1>0. /\ UNCHANGED <<files, phase, replay, open_segment, writer, store, registry, done, at_risk, accepted>>
      /\ job.at = "reopen" /\ phase = "up" /\ job'.at = "segment" /\ job'.bundle = job.bundle
      /\ job'.then = job.then
  <2>1. job.at = "reopen" /\ job' = [job EXCEPT !.at = "segment"]
        /\ UNCHANGED <<files, phase, replay, open_segment, writer, store, registry, done, at_risk, accepted>>
    BY DEF RotateToNewFile, engine, subscriber, history
  <2>2. phase = "up"
    BY <2>1, IdleIs DEF IInv, JobSound, EngineTyped, CInv, CursorsSound
  <2> QED
    BY <2>1, <2>2, JobMoves DEF IInv, EngineTyped
<1>1. disk \in Disks /\ disk' \in Disks
  BY DEF IInv, LogTyped
<1>2. disk' = [rotated |-> disk.rotated, active |-> NewFile(writer.start), sidecar |-> writer.cursor]
  BY DEF RotateToNewFile, RotateReopen, IInv, LogTyped, Disks
<1>3. /\ disk'.rotated = disk.rotated /\ disk'.sidecar = writer.cursor
      /\ disk'.active.data = << >> /\ disk.active.data = << >>
  BY <1>0, <1>2 DEF NewFile, CInv, LogSound
<1>4. \A b, p : ~Holds(disk.active, b, p)
  BY <1>3 DEF Holds
<1>5. \A b, p : Entry(disk, b, p) => Entry(disk', b, p)
  BY <1>1, <1>3, <1>4, EntryWhere
<1>6. \A b, p : InLog(b, p) /\ Ahead(p) => InLog(b, p)' /\ Ahead(p)'
  BY <1>0, <1>3, <1>5 DEF InLog, Ahead
<1>7. \A b, p : KeptAt(b, p) => KeptAt(b, p)'
  BY <1>0, <1>6 DEF KeptAt, Held
<1>8. Durable'
  BY <1>0, <1>7, SameSafe DEF DInv, Durable
<1>9. IngestDurable'
  <2>1. PICK p \in Nat : InLog(job.bundle, p) /\ Ahead(p)
    BY <1>0 DEF DInv, IngestDurable
  <2>2. PICK b : b = job.bundle
    OBVIOUS
  <2>3. InLog(b, p)' /\ Ahead(p)'
    BY <1>6, <2>1, <2>2
  <2> QED
    BY <1>0, <2>2, <2>3 DEF IngestDurable, InLog
<1>10. SidecarSound'
  <2>1. LogEnd' = LogEnd /\ writer.cursor <= LogEnd
    BY <1>0, <1>3 DEF LogEnd, CInv, CursorsSound
  <2> QED
    BY <1>0, <1>3, <2>1 DEF SidecarSound
<1>11. ReplaySound' /\ TrackingSound'
  BY <1>0 DEF DInv, ReplaySound, Unread, ReplayOrdered, TrackingSound
<1> QED
  BY <1>0, <1>8, <1>9, <1>10, <1>11 DEF DInv

\* The cursor moves to the end of the segment that was written; what the log alone
\* still holds is read by replay later.
LEMMA DPersistCursor == IInv /\ CInv /\ DInv /\ PersistCursor => DInv'
<1> SUFFICES ASSUME IInv, CInv, DInv, PersistCursor PROVE DInv'
  OBVIOUS
<1>0. /\ UNCHANGED <<files, phase, replay, open_segment, store, registry, done, at_risk, accepted>>
      /\ job.at = "persist" /\ phase # "down"
      /\ job' = [job EXCEPT !.at = "purge"]
  BY IdleIs DEF PersistCursor, subscriber, history, IInv, JobSound
<1>1. job'.at = "purge" /\ job'.bundle = job.bundle /\ job'.then = job.then /\ job'.seq = job.seq
  BY <1>0, JobMoves DEF IInv, EngineTyped
<1>2. disk' = [rotated |-> disk.rotated, active |-> disk.active, sidecar |-> job.cursor]
  BY DEF PersistCursor, IInv, LogTyped, Disks
<1>3. writer' = [ends |-> writer.ends, start |-> writer.start, cursor |-> job.cursor]
  BY DEF PersistCursor, IInv, LogTyped, Writers
<1>4. /\ disk'.rotated = disk.rotated /\ disk'.active = disk.active /\ disk'.sidecar = job.cursor
      /\ writer'.start = writer.start /\ writer'.cursor = job.cursor /\ job.cursor \in Nat
  BY <1>2, <1>3, Fields
<1>5. Found(disk') = Found(disk)
  BY <1>4 DEF Found
<1>6. ASSUME NEW b, NEW p \in Nat, KeptAt(b, p) PROVE KeptAt(b, p)'
  <2>1. open_segment = {} /\ (phase = "replay" => job.cursor <= replay.pos) /\ LogEnd' = LogEnd
    BY <1>0, <1>4 DEF CInv, CursorsSound, LogEnd
  <2>2. phase = "replay" /\ replay.pos <= p /\ replay.pos \in Nat
    BY <1>0, <1>6, <2>1 DEF KeptAt, Held, IInv, LogTyped
  <2>3. job.cursor <= p
    BY <1>4, <2>1, <2>2
  <2> QED
    BY <1>0, <1>4, <1>5, <1>6, <2>2, <2>3 DEF KeptAt, InLog, Entry, Ahead, Held
<1>7. Durable'
  BY <1>0, <1>6, SameSafe DEF DInv, Durable
<1>8. IngestDurable'
  BY <1>0, <1>1 DEF DInv, IngestDurable
<1>9. SidecarSound'
  <2>1. LogEnd' = LogEnd /\ job.cursor <= LogEnd
    BY <1>0, <1>4 DEF LogEnd, CInv, CursorsSound
  <2> QED
    BY <1>0, <1>4, <2>1 DEF SidecarSound
<1>10. ReplaySound'
  BY <1>0, <1>5 DEF DInv, ReplaySound, Unread, ReplayOrdered
<1>11. TrackingSound'
  BY <1>0 DEF DInv, TrackingSound
<1> QED
  BY <1>0, <1>7, <1>8, <1>9, <1>10, <1>11 DEF DInv

\* The file that goes was consumed: no entry of it is ahead of the cursor.
LEMMA DPurgeRotatedFile == IInv /\ IInv' /\ CInv /\ DInv /\ PurgeRotatedFile => DInv'
<1> SUFFICES ASSUME IInv, IInv', CInv, DInv, PurgeRotatedFile PROVE DInv'
  OBVIOUS
<1> DEFINE n == Len(disk.rotated)
           old == disk.rotated
           x == Tail(disk.rotated)
           y == Tail(writer.ends)
<1>0. /\ UNCHANGED <<files, phase, replay, open_segment, job, store, registry, done, at_risk, accepted>>
      /\ job.at = "purge" /\ phase # "down" /\ writer.ends # << >>
      /\ Head(writer.ends) <= writer.cursor
  BY IdleIs DEF PurgeRotatedFile, CanPurge, subscriber, history, IInv, JobSound
<1>1. /\ n \in Nat /\ n > 0 /\ old \in Seq(Files) /\ disk \in Disks /\ disk' \in Disks
      /\ Head(writer.ends) = FileEnd(old[1]) /\ 1 \in 1..n
  <2>1. Len(writer.ends) = n /\ disk \in Disks /\ disk' \in Disks
    BY <1>0 DEF IInv, LogTyped
  <2>2. n \in Nat /\ n > 0 /\ old \in Seq(Files) /\ 1 \in 1..n
    BY <1>0, <2>1, Fields
  <2>3. Head(writer.ends) = writer.ends[1]
    BY <1>0, Fields
  <2>4. writer.ends[1] = FileEnd(old[1])
    BY <1>0, <2>2 DEF CInv, PositionsSound
  <2> QED
    BY <2>1, <2>2, <2>3, <2>4
<1>2. disk' = [rotated |-> x, active |-> disk.active, sidecar |-> disk.sidecar]
  BY DEF PurgeRotatedFile, PurgeFront, IInv, LogTyped, Disks
<1>3. writer' = [ends |-> y, start |-> writer.start, cursor |-> writer.cursor]
  BY DEF PurgeRotatedFile, IInv, LogTyped, Writers
<1>4. Len(x) = n - 1 /\ \A i \in 1..(n - 1) : x[i] = old[i + 1]
  <2> HIDE DEF old
  <2>1. x = Tail(old) /\ n = Len(old) /\ old # << >>
    BY <1>1 DEF old
  <2> HIDE DEF x, n
  <2> QED
    BY <1>1, <2>1
<1> HIDE DEF x, y
<1>5. /\ disk'.rotated = x /\ disk'.active = disk.active /\ disk'.sidecar = disk.sidecar
      /\ writer'.start = writer.start /\ writer'.cursor = writer.cursor
  BY <1>2, <1>3
<1>6. old[1].start \in Nat /\ Len(old[1].data) \in Nat /\ FileEnd(old[1]) = old[1].start + Len(old[1].data)
      /\ FileEnd(old[1]) <= writer.cursor /\ writer.cursor \in Nat
  BY <1>0, <1>1, LogNumbers, Fields
<1>7. ASSUME NEW b, NEW p \in Nat, Entry(disk, b, p), writer.cursor <= p PROVE Entry(disk', b, p)
  <2>1. ~Holds(old[1], b, p)
    <3> SUFFICES ASSUME Holds(old[1], b, p) PROVE FALSE
      OBVIOUS
    <3>1. PICK k \in 1..Len(old[1].data) : old[1].start + k = p + 1
      BY DEF Holds
    <3> DEFINE s == old[1].start
               m == Len(old[1].data)
               e == FileEnd(old[1])
    <3>2. s \in Nat /\ m \in Nat /\ e = s + m /\ e <= writer.cursor /\ writer.cursor \in Nat
          /\ k \in 1..m /\ s + k = p + 1
      BY <1>6, <3>1
    <3> HIDE DEF s, m, e
    <3> QED
      BY ONLY <1>7, <3>2, p \in Nat
  <2>2. Holds(disk.active, b, p) \/ \E i \in 1..n : Holds(old[i], b, p)
    BY <1>1, <1>7, EntryWhere
  <2>3. ASSUME NEW i \in 1..n, Holds(old[i], b, p) PROVE \E j \in 1..(n - 1) : Holds(x[j], b, p)
    <3> HIDE DEF n, old
    <3>1. i # 1
      BY <2>1, <2>3
    <3>2. i - 1 \in 1..(n - 1) /\ (i - 1) + 1 = i
      BY <1>1, <3>1
    <3>3. x[i - 1] = old[i]
      BY <1>4, <3>2
    <3> QED
      BY <2>3, <3>2, <3>3
  <2> QED
    BY <1>1, <1>4, <1>5, <2>2, <2>3, EntryWhere
<1>8. ASSUME NEW b, NEW p \in Nat, KeptAt(b, p) PROVE KeptAt(b, p)'
  BY <1>0, <1>5, <1>7, <1>8 DEF KeptAt, InLog, Ahead, Held
<1>9. Durable'
  BY <1>0, <1>8, SameSafe DEF DInv, Durable
<1>10. IngestDurable'
  BY <1>0 DEF DInv, IngestDurable
<1>11. SidecarSound'
  BY <1>0, <1>5 DEF DInv, SidecarSound, LogEnd
<1>12. ASSUME NEW i \in 1..Len(Found(disk')) PROVE \E j \in 1..Len(Found(disk)) : Found(disk')[i] = Found(disk)[j]
  <2>1. /\ Len(Found(disk)) = n + 1 /\ Found(disk)[n + 1] = disk.active
        /\ \A k \in 1..n : Found(disk)[k] = old[k]
    BY <1>1, FoundIs
  <2>2. /\ Len(Found(disk')) = (n - 1) + 1 /\ Found(disk')[(n - 1) + 1] = disk.active
        /\ \A k \in 1..(n - 1) : Found(disk')[k] = x[k]
    BY <1>1, <1>4, <1>5, FoundIs
  <2> HIDE DEF n, old
  <2>3. i \in 1..(n - 1) \/ i = (n - 1) + 1
    BY <1>1, <2>2
  <2>4. i + 1 \in 1..(n + 1) /\ (i \in 1..(n - 1) => i + 1 \in 1..n) /\ n + 1 \in 1..(n + 1)
    BY <1>1, <2>2
  <2> QED
    BY <1>4, <2>1, <2>2, <2>3, <2>4
<1>13. ReplaySound'
  <2>1. \A f : Unread(f)' <=> Unread(f)
    BY <1>0 DEF Unread
  <2>2. phase = "replay" => \A i \in 1..Len(Found(disk')) : Unread(Found(disk')[i])
    BY <1>12 DEF DInv, ReplaySound
  <2>3. phase = "replay" => \A i \in 1..Len(Found(disk')) : \A f : f = Found(disk')[i] => Unread(f)'
    BY <2>1, <2>2
  <2> QED
    BY <1>0, <2>3 DEF DInv, ReplaySound, ReplayOrdered, Unread
<1>14. TrackingSound'
  BY <1>0 DEF DInv, TrackingSound
<1> QED
  BY <1>0, <1>9, <1>10, <1>11, <1>13, <1>14 DEF DInv

\* The segment is on disk before the cursor moves.
LEMMA DWriteSegment == IInv /\ DInv /\ WriteSegment => DInv'
<1> SUFFICES ASSUME IInv, DInv, WriteSegment PROVE DInv'
  OBVIOUS
<1>0. /\ UNCHANGED <<disk, phase, replay, writer, open_segment, store, registry, done, at_risk, accepted>>
      /\ job.at = "write" /\ job' = [job EXCEPT !.at = "persist"]
      /\ files' = Added(files, Single(job.seq, job.seg))
  BY DEF WriteSegment, engine, subscriber, history
<1>1. /\ job'.at = "persist" /\ job'.bundle = job.bundle /\ job'.then = job.then /\ job'.seq = job.seq
  BY <1>0, JobMoves DEF IInv, EngineTyped
<1>2. phase # "down" /\ job.seq \in Nat /\ job.seg \subseteq Bundles /\ files \in SegmentMaps
      /\ job.seq \notin DOMAIN files
  <2>1. phase # "down" /\ Above(job.seq) /\ job.seq \in Nat /\ job.seg \subseteq Bundles /\ files \in SegmentMaps
    BY <1>0, Fields, IdleIs DEF IInv, SegmentsTyped, JobSound, NumbersSound
  <2>2. ~(job.seq < job.seq)
    BY <2>1
  <2> QED
    BY <2>1, <2>2 DEF Above
<1>3. /\ DOMAIN files' = DOMAIN files \cup {job.seq} /\ files'[job.seq] = job.seg
      /\ \A q \in DOMAIN files : files'[q] = files[q]
  <2> DEFINE m == Single(job.seq, job.seg)
  <2>1. m \in SegmentMaps /\ DOMAIN m = {job.seq} /\ m[job.seq] = job.seg
    BY <1>2, SingleMap
  <2> HIDE DEF m
  <2>2. files' = Added(files, m)
    BY <1>0 DEF m
  <2>3. /\ DOMAIN Added(files, m) = DOMAIN files \cup DOMAIN m
        /\ \A q \in DOMAIN files : Added(files, m)[q] = files[q]
        /\ \A q \in DOMAIN m \ DOMAIN files : Added(files, m)[q] = m[q]
    BY <1>2, <2>1, AddedMap
  <2> QED
    BY <1>2, <2>1, <2>2, <2>3
<1>4. Stored' = Stored \cup job.seg
  BY <1>3 DEF Stored, Range
<1>5. Resolved' = Resolved
  BY <1>0 DEF Resolved
<1>6. \A b : (Safe(b) \/ b \in job.seg) => Safe(b)'
  BY <1>0, <1>4, <1>5 DEF Safe
<1>7. \A b, p : KeptAt(b, p) => KeptAt(b, p)' \/ b \in job.seg
  BY <1>0, <1>1, <1>2, SameLog DEF KeptAt, Ahead, Held
<1>8. Durable'
  BY <1>0, <1>6, <1>7 DEF DInv, Durable
<1>9. IngestDurable'
  BY <1>0, <1>1, <1>3 DEF DInv, IngestDurable
<1>10. SidecarSound' /\ ReplaySound' /\ TrackingSound'
  BY <1>0 DEF DInv, SidecarSound, LogEnd, ReplaySound, Unread, ReplayOrdered, TrackingSound
<1> QED
  BY <1>0, <1>8, <1>9, <1>10 DEF DInv

----------------------------------------------------------------------------
(* Processes that end, and finalize_segment_impl failing.                  *)

\* Outside a rotation the log ends with the active file.
LEMMA LogEnds ==
  ASSUME CInv, phase # "down", job.at # "reopen" PROVE LogEnd = FileEnd(disk.active)
BY DEF CInv, PositionsSound, LogEnd, FileEnd

\* The next process finds what was at risk and not lost.
LEMMA DForgotten ==
  ASSUME IInv, CInv, DInv, WholeLog, phase # "down", MayEnd, Forget,
         UNCHANGED <<on_disk, accepted, done>>
  PROVE  DInv'
<1>0. /\ UNCHANGED <<disk, files, accepted, done>> /\ phase' = "down" /\ job' = Idle
      /\ at_risk' = at_risk \cap Lost /\ job.at # "reopen"
  BY DEF Forget, on_disk, MayEnd, WholeLog
<1>1. Stored' = Stored
  BY <1>0 DEF Stored
<1>2. Resolved' = Resolved
  BY <1>0 DEF Resolved
<1>3. disk.sidecar <= FileEnd(disk.active)
  BY <1>0, LogEnds DEF DInv, SidecarSound
<1>4. ASSUME NEW b \in accepted PROVE Safe(b)' \/ \E p \in Nat : KeptAt(b, p)'
  <2>1. CASE b \in Resolved \/ b \in Stored \/ (b \in Lost /\ b \in at_risk)
    BY <1>0, <1>1, <1>2, <2>1 DEF Safe
  <2>2. CASE b \notin Resolved /\ b \notin Stored /\ b \notin Lost
    <3> DEFINE unresolved == (accepted \ Resolved) \ UNION Range(files)
    <3>1. b \in unresolved
      BY <2>2 DEF Stored
    <3>2. Lost = IF unresolved = {} THEN {} ELSE unresolved \ Replayable(disk)
      BY Zenon DEF Lost
    <3> HIDE DEF unresolved
    <3>3. b \in Replayable(disk)
      BY <2>2, <3>1, <3>2
    <3>4. PICK p \in Nat : InLog(b, p) /\ disk.sidecar <= p
      BY <1>0, <1>3, <3>3, ReplayedInLog DEF CInv
    <3> QED
      BY <1>0, <3>4, SameLog DEF KeptAt, Ahead
  <2>3. CASE b \notin at_risk /\ b \notin Resolved /\ b \notin Stored
    <3>1. PICK p \in Nat : KeptAt(b, p)
      BY <2>3 DEF DInv, Durable, Safe
    <3> QED
      BY <1>0, <3>1, SameLog DEF KeptAt, Ahead
  <2> QED
    BY <2>1, <2>2, <2>3
<1>5. Durable'
  BY <1>0, <1>4 DEF Durable
<1>6. IngestDurable'
  BY <1>0, IdleIs DEF IngestDurable
<1>7. SidecarSound'
  BY <1>0, <1>3 DEF SidecarSound
<1>8. ReplaySound' /\ TrackingSound'
  BY <1>0 DEF ReplaySound, TrackingSound
<1>9. at_risk' \subseteq Bundles
  BY <1>0 DEF DInv
<1> QED
  BY <1>5, <1>6, <1>7, <1>8, <1>9 DEF DInv

\* A crash.
LEMMA DCrash == IInv /\ CInv /\ DInv /\ WholeLog /\ Crash => DInv'
BY DForgotten DEF Crash

\* finalize_segment_impl fails while the engine is up: what it held in memory only is
\* at risk, and the writer's own cursor may have moved up to the segment's.
LEMMA DFailed ==
  ASSUME IInv, CInv, DInv, WholeLog, job.at \in {"write", "persist"}, NEW risked, risked \subseteq Bundles,
         job.at = "write" => job.seg \subseteq risked,
         NEW w, w.start = writer.start, FinalizeFails(risked, w), UNCHANGED <<on_disk, accepted, done>>
  PROVE  DInv'
<1>1. CASE phase = "replay" /\ MayEnd /\ Forget
  BY <1>1, DForgotten
<1>2. CASE /\ phase = "up" /\ job' = Idle /\ writer' = w
           /\ at_risk' = at_risk \cup risked
           /\ UNCHANGED <<phase, replay, open_segment, store, subscriber>>
  <2>0. UNCHANGED <<disk, files, accepted, done, registry>>
    BY <1>2 DEF on_disk, subscriber
  <2>1. writer'.start = writer.start
    BY <1>2
  <2>2. open_segment = {}
    BY <1>2 DEF CInv, CursorsSound
  <2>3. Stored' = Stored
    BY <2>0 DEF Stored
  <2>4. Resolved' = Resolved
    BY <2>0 DEF Resolved
  <2>5. \A b : (Safe(b) \/ b \in risked) => Safe(b)'
    BY <1>2, <2>3, <2>4 DEF Safe
  <2>6. \A b, p : KeptAt(b, p) => b \in risked
    BY <1>2, <2>2 DEF KeptAt, Held
  <2>7. Durable'
    BY <2>0, <2>5, <2>6 DEF DInv, Durable
  <2>8. IngestDurable'
    BY <1>2, IdleIs DEF IngestDurable
  <2>9. SidecarSound' /\ ReplaySound' /\ TrackingSound'
    BY <1>2, <2>0, <2>1 DEF DInv, SidecarSound, LogEnd, ReplaySound, TrackingSound
  <2> QED
    BY <1>2, <2>7, <2>8, <2>9 DEF DInv
<1> QED
  BY <1>1, <1>2 DEF FinalizeFails

\* The segment could not be written.
LEMMA DWriteSegmentFails == IInv /\ CInv /\ DInv /\ WholeLog /\ WriteSegmentFails => DInv'
<1> SUFFICES ASSUME IInv, CInv, DInv, WholeLog, WriteSegmentFails PROVE DInv'
  OBVIOUS
<1>1. /\ job.at = "write" /\ FinalizeFails(job.seg, writer) /\ UNCHANGED <<on_disk, accepted, done>>
      /\ job.seg \subseteq Bundles
  BY Fields DEF WriteSegmentFails
<1> QED
  BY <1>1, DFailed

\* The cursor could not be written.
LEMMA DPersistCursorFails == IInv /\ CInv /\ DInv /\ WholeLog /\ PersistCursorFails => DInv'
<1> SUFFICES ASSUME IInv, CInv, DInv, WholeLog, PersistCursorFails PROVE DInv'
  OBVIOUS
<1> DEFINE own == IF ValidCursor(disk, writer, job.cursor) THEN job.cursor ELSE writer.cursor
<1>1. /\ job.at = "persist" /\ FinalizeFails({}, [writer EXCEPT !.cursor = own])
      /\ UNCHANGED <<on_disk, accepted, done>>
  BY DEF PersistCursorFails
<1> DEFINE w == [writer EXCEPT !.cursor = own]
<1>2. FinalizeFails({}, w) /\ w.start = writer.start
  BY <1>1 DEF IInv, LogTyped, Writers
<1> HIDE DEF w
<1> QED
  BY <1>1, <1>2, DFailed

----------------------------------------------------------------------------
(* Opening and replay.                                                     *)

\* Replay opens the files from the first on that ends after its position.
LEMMA FilesFromIs ==
  ASSUME NEW d \in Disks, NEW pos \in Nat
  PROVE  \E m \in 1..(Len(d.rotated) + 2) :
           /\ FilesFrom(d, pos) \in Seq(Files) /\ Len(FilesFrom(d, pos)) = Len(d.rotated) + 2 - m
           /\ \A j \in 1..Len(FilesFrom(d, pos)) : FilesFrom(d, pos)[j] = ReadOrder(d)[m + j - 1]
           /\ \A k \in 1..(Len(d.rotated) + 1) : FileEnd(ReadOrder(d)[k]) > pos => m <= k
<1> DEFINE n == Len(d.rotated) + 1
           R == ReadOrder(d)
           after == {i \in 1..Len(R) : FileEnd(R[i]) > pos}
<1>1. n \in Nat /\ n > 0 /\ R \in Seq(Files) /\ Len(R) = n
  BY FoundIs, ReadOrderIs
<1>2. FilesFrom(d, pos) = IF after = {} THEN << >> ELSE SubSeq(R, Min(after), Len(R))
  BY Zenon DEF FilesFrom
<1>3. Len(d.rotated) + 2 = n + 1
  BY FoundIs
<1>4. \A k \in 1..n : FileEnd(R[k]) > pos <=> k \in after
  BY <1>1
<1>5. after \subseteq 1..n
  BY <1>1
<1> HIDE DEF R, n, after
<1>6. CASE after = {}
  <2>1. FilesFrom(d, pos) = << >>
    BY <1>2, <1>6
  <2>2. n + 1 \in 1..(n + 1) /\ Len(<< >>) = n + 1 - (n + 1)
    BY <1>1
  <2>3. << >> \in Seq(Files)
    OBVIOUS
  <2> QED
    BY <1>3, <1>4, <1>6, <2>1, <2>2, <2>3 DEF R, n
<1>7. CASE after # {}
  <2> DEFINE m == Min(after)
  <2>1. m \in after /\ \A k \in after : m <= k
    <3>1. after \subseteq Nat
      BY <1>1, <1>5
    <3> QED
      BY <1>7, <3>1, MinOf
  <2>2. FilesFrom(d, pos) = SubSeq(R, m, n)
    BY <1>1, <1>2, <1>7
  <2> HIDE DEF m
  <2>3. m \in 1..n
    BY <1>5, <2>1
  <2>4. /\ SubSeq(R, m, n) \in Seq(Files) /\ Len(SubSeq(R, m, n)) = n + 1 - m
        /\ \A j \in 1..(n + 1 - m) : SubSeq(R, m, n)[j] = R[m + j - 1]
    BY <1>1, <2>3
  <2>5. m \in 1..(n + 1)
    BY <1>1, <2>3
  <2>6. \A k \in 1..n : FileEnd(R[k]) > pos => m <= k
    BY <1>4, <2>1
  <2> QED
    BY <1>3, <2>2, <2>4, <2>5, <2>6 DEF R, n
<1> QED
  BY <1>6, <1>7

\* open() will read everything the log alone holds.
LEMMA DOpen == IInv /\ CInv /\ DInv /\ Open => DInv'
<1> SUFFICES ASSUME IInv, CInv, DInv, Open PROVE DInv'
  OBVIOUS
<1> DEFINE n == Len(disk.rotated) + 1
           F == Found(disk)
           R == ReadOrder(disk)
           pos == ReplayFrom(disk)
           Z == FilesFrom(disk, ReplayFrom(disk))
<1>0. /\ UNCHANGED <<disk, files, job, open_segment, accepted, done, at_risk>> /\ phase = "down"
      /\ phase' = "replay" /\ writer' = OpenWriter(disk) /\ job = Idle /\ disk \in Disks
      /\ replay' = [files |-> Z, pos |-> pos, entries |-> << >>]
      /\ LogSound /\ job.at = "idle"
  BY IdleIs DEF Open, on_disk, history, IInv, JobSound, LogTyped, CInv
<1>1. writer'.start = disk.active.start /\ writer'.cursor <= disk.sidecar /\ writer'.cursor \in Nat
  BY <1>0, OpenWriterIs DEF Writers
<1>2. pos \in Nat /\ pos <= disk.sidecar /\ disk.sidecar \in Nat
  BY <1>0, ReplayFromIs, ReplayFromAtMost DEF Disks
<1>3. PICK m \in 1..(Len(disk.rotated) + 2) :
        /\ Z \in Seq(Files) /\ Len(Z) = Len(disk.rotated) + 2 - m
        /\ \A j \in 1..Len(Z) : Z[j] = R[m + j - 1]
        /\ \A k \in 1..(Len(disk.rotated) + 1) : FileEnd(R[k]) > pos => m <= k
  BY <1>0, <1>2, FilesFromIs
<1>4. PICK at \in [1..n -> 1..n] :
        /\ \A k \in 1..n : R[k] = F[at[k]]
        /\ \A k, l \in 1..n : k < l => at[k] \in ReadBefore(disk, at[l])
        /\ \A i \in 1..n : \E k \in 1..n : at[k] = i
  BY <1>0, ReadPlaces
<1>5. /\ n \in Nat /\ Len(disk.rotated) + 2 = n + 1 /\ m \in 1..(n + 1) /\ Len(F) = n
      /\ Len(Z) = n + 1 - m /\ \A i \in 1..n : F[i] \in Files
  BY <1>0, <1>3, FoundIs
<1>6. \A k \in 1..n : FileEnd(R[k]) > pos => m <= k
  BY <1>3
<1>7. \A i, j \in 1..n : j \in ReadBefore(disk, i) => FileEnd(F[j]) <= F[i].start
  BY <1>0, <1>5, FilesApart
<1> HIDE DEF F, R, Z, pos, n
<1>8. replay'.files = Z /\ replay'.pos = pos /\ replay'.entries = << >>
  BY <1>0
<1>9. ASSUME NEW j \in 1..Len(Z), NEW l \in 1..Len(Z), j < l PROVE FileEnd(Z[j]) <= Z[l].start
  <2>1. m + j - 1 \in 1..n /\ m + l - 1 \in 1..n /\ m + j - 1 < m + l - 1
    BY <1>5, <1>9
  <2> DEFINE a == m + j - 1
             b == m + l - 1
  <2>2. a \in 1..n /\ b \in 1..n /\ a < b /\ Z[j] = R[a] /\ Z[l] = R[b]
    BY <1>3, <2>1
  <2> HIDE DEF a, b
  <2>3. R[a] = F[at[a]] /\ R[b] = F[at[b]] /\ at[a] \in ReadBefore(disk, at[b]) /\ at[a] \in 1..n /\ at[b] \in 1..n
    BY <1>4, <2>2
  <2> QED
    BY <1>7, <2>2, <2>3
<1>10. ASSUME NEW i \in 1..n, NEW k \in 1..Len(F[i].data), F[i].start + k > pos
       PROVE  \E j \in 1..Len(Z) : Z[j] = F[i]
  <2>1. PICK q \in 1..n : at[q] = i
    BY <1>4
  <2>2. F[i] \in Files /\ F[i].start \in Nat /\ Len(F[i].data) \in Nat
    <3>1. F[i] \in Files
      BY <1>5
    <3> QED
      BY <3>1 DEF Files
  <2>3. FileEnd(F[i]) > pos
    <3> DEFINE s == F[i].start
               e == Len(F[i].data)
    <3>1. s \in Nat /\ e \in Nat /\ k \in 1..e /\ s + k > pos /\ FileEnd(F[i]) = s + e
      BY <1>10, <2>2 DEF FileEnd
    <3> HIDE DEF s, e
    <3> QED
      BY <1>2, <3>1
  <2>4. m <= q /\ R[q] = F[i]
    BY <1>4, <1>6, <2>1, <2>3
  <2> DEFINE j == q - m + 1
  <2>5. j \in 1..Len(Z) /\ m + j - 1 = q
    <3>1. n \in Nat /\ m \in 1..(n + 1) /\ q \in 1..n /\ m <= q /\ Len(Z) = n + 1 - m
      BY <1>5, <2>4
    <3> QED
      BY ONLY <3>1
  <2> HIDE DEF j
  <2>6. Z[j] = R[q]
    BY <1>3, <2>5
  <2> QED
    BY <2>4, <2>5, <2>6
<1>11. ReplaySound'
  <2>1. ReplayOrdered'
    BY <1>8, <1>9 DEF ReplayOrdered
  <2>2. ASSUME NEW i \in 1..n, NEW f, f = F[i] PROVE Unread(f)'
    BY <1>8, <1>10, <2>2 DEF Unread
  <2>3. Found(disk') = F /\ Len(Found(disk')) = n
    BY <1>0, <1>5 DEF F
  <2>4. \A i \in 1..n : Unread(F[i])'
    <3> SUFFICES ASSUME NEW i \in 1..n PROVE Unread(F[i])'
      OBVIOUS
    <3>1. F' = F
      BY <1>0 DEF F
    <3> QED
      BY <2>2, <3>1 DEF Unread
  <2> QED
    BY <1>3, <1>8, <2>1, <2>3, <2>4 DEF ReplaySound, F
<1>12. ASSUME NEW b, NEW p \in Nat, KeptAt(b, p) PROVE KeptAt(b, p)'
  <2>1. disk.sidecar <= p /\ InLog(b, p)
    BY <1>12 DEF KeptAt, Ahead
  <2>2. writer'.cursor <= p /\ replay'.pos <= p
    BY <1>1, <1>2, <1>8, <2>1
  <2> QED
    BY <1>0, <2>1, <2>2, SameLog DEF KeptAt, Ahead, Held
<1>13. Durable'
  BY <1>0, <1>12, SameSafe DEF DInv, Durable
<1>14. IngestDurable'
  BY <1>0, IdleIs DEF IngestDurable
<1>15. SidecarSound'
  BY <1>0, <1>1 DEF DInv, SidecarSound, LogEnd, FileEnd
<1>16. TrackingSound'
  BY <1>0 DEF TrackingSound
<1> QED
  BY <1>0, <1>11, <1>13, <1>14, <1>15, <1>16 DEF DInv

\* Every entry of f from pos on is read, once and in order.
LEMMA EntriesFromAll ==
  ASSUME NEW f \in Files, NEW pos \in Nat, NEW e, e = EntriesFrom(f, pos)
  PROVE  /\ e \in Seq(ReadAhead)
         /\ \A k, l \in 1..Len(e) : k < l => e[k].next < e[l].next
         /\ \A k \in 1..Len(e) : e[k].next <= FileEnd(f)
         /\ \A k \in 1..Len(f.data) : f.start + k > pos =>
              \E l \in 1..Len(e) : e[l].bundle = f.data[k] /\ e[l].next = f.start + k
<1> DEFINE first == IF pos > f.start THEN pos - f.start ELSE 0
           d == Len(f.data)
           s == f.start
           n == IF first < d THEN d - first ELSE 0
<1>1. s \in Nat /\ d \in Nat
  BY DEF Files
<1>2. first \in Nat /\ n \in Nat /\ \A k \in 1..d : s + k > pos => k - first \in 1..n
  <2> HIDE DEF s, d
  <2> QED
    BY <1>1 DEF s
<1>3. e = [i \in 1..n |-> [bundle |-> f.data[first + i], next |-> s + first + i]]
  BY Zenon DEF EntriesFrom
<1>4. e \in Seq(ReadAhead) /\ \A k \in 1..Len(e) : e[k].next <= FileEnd(f)
  BY EntriesFromIs
<1> HIDE DEF first, n
<1>5. Len(e) = n
  BY <1>2, <1>3, <1>4
<1>6. \A i \in 1..n : e[i].bundle = f.data[first + i] /\ e[i].next = s + first + i
  BY <1>3
<1>7. ASSUME NEW k \in 1..Len(e), NEW l \in 1..Len(e), k < l PROVE e[k].next < e[l].next
  <2>1. e[k].next = s + first + k /\ e[l].next = s + first + l
    BY <1>5, <1>6
  <2> HIDE DEF s
  <2> QED
    BY <1>1, <1>2, <1>5, <1>7, <2>1
<1>8. ASSUME NEW k \in 1..d, s + k > pos
      PROVE  \E l \in 1..Len(e) : e[l].bundle = f.data[k] /\ e[l].next = s + k
  <2> DEFINE l == k - first
  <2>1. l \in 1..n
    BY <1>2, <1>8
  <2>2. first + l = k /\ s + first + l = s + k
    <3> HIDE DEF s, d
    <3> QED
      BY <1>1, <1>2
  <2> HIDE DEF l
  <2>3. e[l].bundle = f.data[first + l] /\ e[l].next = s + first + l
    BY <1>6, <2>1
  <2> QED
    BY <1>5, <2>1, <2>2, <2>3
<1> QED
  BY <1>4, <1>7, <1>8

\* The next file is opened; one that is gone has nothing that is still needed.
LEMMA DReplayOpenFile == IInv /\ DInv /\ ReplayOpenFile => DInv'
<1> SUFFICES ASSUME IInv, DInv, ReplayOpenFile PROVE DInv'
  OBVIOUS
<1> DEFINE z == replay.files
           f == Head(z)
           there == f \in Range(disk.rotated) \cup {disk.active}
           x == IF there THEN EntriesFrom(f, replay.pos) ELSE << >>
           y == Tail(z)
<1>0. /\ UNCHANGED <<disk, files, phase, job, writer, open_segment, store, registry, done, at_risk, accepted>>
      /\ phase = "replay" /\ job.at = "idle" /\ job.then = "none" /\ replay.entries = << >> /\ z # << >>
  BY IdleIs DEF ReplayOpenFile, on_disk, engine, subscriber, history
<1>1. replay' = [replay EXCEPT !.files = Tail(@), !.entries = x]
  BY Zenon DEF ReplayOpenFile
<1>2. replay = [files |-> replay.files, pos |-> replay.pos, entries |-> replay.entries]
      /\ replay.pos \in Nat /\ disk \in Disks
  BY DEF IInv, LogTyped
<1>3. /\ z \in Seq(Files) /\ \A i \in 1..Len(Found(disk)) : Unread(Found(disk)[i])
      /\ \A j, l \in 1..Len(z) : j < l => FileEnd(z[j]) <= z[l].start
  BY <1>0 DEF DInv, ReplaySound, ReplayOrdered
<1>4. /\ f \in Files /\ f = z[1] /\ y \in Seq(Files) /\ Len(y) = Len(z) - 1 /\ Len(z) \in Nat /\ Len(z) > 0
      /\ \A j \in 1..Len(y) : y[j] = z[j + 1]
  <2> HIDE DEF z
  <2> QED
    BY <1>0, <1>3
<1>5. there => /\ \A k, l \in 1..Len(x) : k < l => x[k].next < x[l].next
               /\ \A k \in 1..Len(x) : x[k].next <= FileEnd(f) /\ x[k].next \in Nat
               /\ \A k \in 1..Len(f.data) : f.start + k > replay.pos =>
                    \E l \in 1..Len(x) : x[l].bundle = f.data[k] /\ x[l].next = f.start + k
  <2> SUFFICES ASSUME there
               PROVE  /\ \A k, l \in 1..Len(x) : k < l => x[k].next < x[l].next
                      /\ \A k \in 1..Len(x) : x[k].next <= FileEnd(f) /\ x[k].next \in Nat
                      /\ \A k \in 1..Len(f.data) : f.start + k > replay.pos =>
                           \E l \in 1..Len(x) : x[l].bundle = f.data[k] /\ x[l].next = f.start + k
    OBVIOUS
  <2>1. x = EntriesFrom(f, replay.pos)
    OBVIOUS
  <2> HIDE DEF x, f
  <2>2. /\ x \in Seq(ReadAhead)
        /\ \A k, l \in 1..Len(x) : k < l => x[k].next < x[l].next
        /\ \A k \in 1..Len(x) : x[k].next <= FileEnd(f)
        /\ \A k \in 1..Len(f.data) : f.start + k > replay.pos =>
             \E l \in 1..Len(x) : x[l].bundle = f.data[k] /\ x[l].next = f.start + k
    <3> DEFINE pos == replay.pos
    <3>1. f \in Files /\ pos \in Nat /\ x = EntriesFrom(f, pos)
      BY <1>2, <1>4, <2>1
    <3> HIDE DEF pos
    <3>2. /\ x \in Seq(ReadAhead)
          /\ \A k, l \in 1..Len(x) : k < l => x[k].next < x[l].next
          /\ \A k \in 1..Len(x) : x[k].next <= FileEnd(f)
          /\ \A k \in 1..Len(f.data) : f.start + k > pos =>
               \E l \in 1..Len(x) : x[l].bundle = f.data[k] /\ x[l].next = f.start + k
      BY ONLY <3>1, EntriesFromAll
    <3> QED
      BY <3>2 DEF pos
  <2>3. \A k \in 1..Len(x) : x[k].next \in Nat
    <3>1. \A k \in 1..Len(x) : x[k] \in ReadAhead
      BY <2>2
    <3> QED
      BY <3>1 DEF ReadAhead
  <2> QED
    BY <2>2, <2>3
<1>6. ~there => x = << >>
  OBVIOUS
<1>7. ASSUME NEW i \in 1..Len(Found(disk)), Found(disk)[i] = f PROVE there
  <2>1. /\ Len(Found(disk)) = Len(disk.rotated) + 1 /\ Found(disk)[Len(disk.rotated) + 1] = disk.active
        /\ Len(disk.rotated) \in Nat
        /\ \A j \in 1..Len(disk.rotated) : Found(disk)[j] = disk.rotated[j]
    BY <1>2, FoundIs
  <2>2. DOMAIN disk.rotated = 1..Len(disk.rotated)
    BY Fields
  <2>3. i \in 1..Len(disk.rotated) \/ i = Len(disk.rotated) + 1
    BY <2>1
  <2> HIDE DEF f
  <2> QED
    BY <1>7, <2>1, <2>2, <2>3 DEF Range
<1> HIDE DEF x, y, f, there
<1>8. replay' = [files |-> y, pos |-> replay.pos, entries |-> x]
  BY <1>1, <1>2 DEF y
<1>9. replay'.files = y /\ replay'.pos = replay.pos /\ replay'.entries = x
  BY ONLY <1>8
<1> HIDE DEF z
<1>10. ASSUME NEW i \in 1..Len(Found(disk)), NEW g, g = Found(disk)[i] PROVE Unread(g)'
  <2> SUFFICES ASSUME NEW k \in 1..Len(g.data), g.start + k > replay.pos
               PROVE  \/ \E l \in 1..Len(x) : x[l].bundle = g.data[k] /\ x[l].next = g.start + k
                      \/ \E j \in 1..Len(y) : y[j] = g
    BY <1>9 DEF Unread
  <2>1. PICK j \in 1..Len(z) : z[j] = g
    BY <1>0, <1>3, <1>10 DEF Unread, z
  <2>2. CASE j = 1
    <3>1. g = f /\ there
      BY <1>4, <1>7, <1>10, <2>1, <2>2
    <3>2. k \in 1..Len(f.data) /\ f.start + k > replay.pos
      BY <3>1
    <3>3. \E l \in 1..Len(x) : x[l].bundle = f.data[k] /\ x[l].next = f.start + k
      BY <1>5, <3>1, <3>2
    <3> QED
      BY <3>1, <3>3
  <2>3. CASE j # 1
    <3>1. j - 1 \in 1..Len(y) /\ (j - 1) + 1 = j
      BY <1>4, <2>1, <2>3
    <3> QED
      BY <1>4, <2>1, <3>1
  <2> QED
    BY <2>2, <2>3
<1>11. ReplayOrdered'
  <2>1. \A k, l \in 1..Len(x) : k < l => x[k].next < x[l].next
    BY <1>5, <1>6
  <2>2. ASSUME NEW k \in 1..Len(x), NEW j \in 1..Len(y) PROVE x[k].next <= y[j].start
    <3>1. there
      BY <1>6
    <3>2. j + 1 \in 1..Len(z) /\ 1 \in 1..Len(z) /\ 1 < j + 1
      BY <1>4
    <3>3. FileEnd(f) <= y[j].start
      BY <1>3, <1>4, <3>2
    <3>4. FileEnd(f) \in Nat /\ y[j].start \in Nat
      <4>1. f \in Files /\ y[j] \in Files
        BY <1>4
      <4> QED
        BY <4>1 DEF Files, FileEnd
    <3>5. x[k].next <= FileEnd(f) /\ x[k].next \in Nat
      BY <1>5, <3>1
    <3> QED
      BY <3>3, <3>4, <3>5
  <2>3. ASSUME NEW j \in 1..Len(y), NEW l \in 1..Len(y), j < l PROVE FileEnd(y[j]) <= y[l].start
    <3>1. j + 1 \in 1..Len(z) /\ l + 1 \in 1..Len(z) /\ j + 1 < l + 1
      BY <1>4, <2>3
    <3> QED
      BY <1>3, <1>4, <3>1
  <2> QED
    BY <1>9, <2>1, <2>2, <2>3 DEF ReplayOrdered
<1>12. ReplaySound'
  <2>1. \A i \in 1..Len(Found(disk)) : Unread(Found(disk)[i])'
    BY <1>0, <1>10 DEF Unread
  <2> QED
    BY <1>0, <1>4, <1>9, <1>11, <2>1 DEF ReplaySound
<1>13. \A b, p : KeptAt(b, p) => KeptAt(b, p)'
  BY <1>0, <1>9, SameLog DEF KeptAt, Ahead, Held
<1>14. Durable'
  BY <1>0, <1>13, SameSafe DEF DInv, Durable
<1>15. IngestDurable' /\ SidecarSound' /\ TrackingSound'
  BY <1>0 DEF DInv, IngestDurable, SidecarSound, LogEnd, TrackingSound
<1> QED
  BY <1>0, <1>12, <1>14, <1>15 DEF DInv

\* The entry that replay passes is the one that goes to the open segment next.
LEMMA DReplayEntry == IInv /\ CInv /\ DInv /\ ReplayEntry => DInv'
<1> SUFFICES ASSUME IInv, CInv, DInv, ReplayEntry PROVE DInv'
  OBVIOUS
<1> DEFINE z == replay.entries
           fs == replay.files
           pos == replay.pos
           c == Head(replay.entries).next
           v == Head(replay.entries).bundle
           x == Tail(replay.entries)
<1>0. /\ UNCHANGED <<disk, files, phase, writer, open_segment, store, registry, done, at_risk, accepted>>
      /\ phase = "replay" /\ job.at = "idle" /\ z # << >> /\ z \in Seq(ReadAhead) /\ pos \in Nat
      /\ replay = [files |-> replay.files, pos |-> replay.pos, entries |-> replay.entries]
      /\ disk \in Disks
  BY IdleIs DEF ReplayEntry, on_disk, engine, subscriber, history, IInv, LogTyped
<1>1. /\ replay' = [replay EXCEPT !.entries = x, !.pos = c]
      /\ job' = [Idle EXCEPT !.at = "segment", !.bundle = v, !.cursor = c]
  BY DEF ReplayEntry
<1>2. /\ Len(z) \in Nat /\ Len(z) > 0 /\ Len(x) = Len(z) - 1 /\ z[1] = Head(z) /\ 1 \in 1..Len(z)
      /\ \A k \in 1..Len(x) : x[k] = z[k + 1]
  BY <1>0
<1>3. \A k \in 1..Len(z) : pos <= z[k].next
  BY <1>0 DEF CInv, CursorsSound
<1>4. \A k \in 1..Len(z) : z[k].next \in Nat
  <2>1. \A k \in 1..Len(z) : z[k] \in ReadAhead
    BY <1>0
  <2>2. \A e \in ReadAhead : e.next \in Nat
    BY DEF ReadAhead
  <2> HIDE DEF z
  <2> QED
    BY <2>1, <2>2
<1>5. c = z[1].next /\ v = z[1].bundle /\ c \in Nat /\ pos <= c
  BY <1>2, <1>3, <1>4
<1>6. /\ fs \in Seq(Files) /\ \A i \in 1..Len(Found(disk)) : Unread(Found(disk)[i])
      /\ \A l, k \in 1..Len(z) : l < k => z[l].next < z[k].next
      /\ \A k \in 1..Len(z), j \in 1..Len(fs) : z[k].next <= fs[j].start
      /\ \A j, l \in 1..Len(fs) : j < l => FileEnd(fs[j]) <= fs[l].start
  BY <1>0 DEF DInv, ReplaySound, ReplayOrdered
<1>7. \A i \in 1..Len(Found(disk)) : Found(disk)[i].start \in Nat
  BY <1>0, FoundIs
<1>8. replay' = [files |-> fs, pos |-> c, entries |-> x]
  BY <1>0, <1>1
<1>9. job'.at = "segment" /\ job'.bundle = v /\ job'.then = "none"
  BY <1>1 DEF Idle
<1> HIDE DEF c, v, x, fs
<1>10. replay'.files = fs /\ replay'.pos = c /\ replay'.entries = x
  BY ONLY <1>8
<1>11. ASSUME NEW i \in 1..Len(Found(disk)), NEW g, g = Found(disk)[i], NEW k \in 1..Len(g.data), g.start + k > pos
       PROVE  \/ \E l \in 1..Len(z) : z[l].bundle = g.data[k] /\ z[l].next = g.start + k
              \/ \E j \in 1..Len(fs) : fs[j] = g
  <2>1. Unread(g)
    BY <1>6, <1>11
  <2> QED
    BY <1>11, <2>1 DEF Unread, fs
<1> HIDE DEF z, pos
<1>12. ASSUME NEW i \in 1..Len(Found(disk)), NEW g, g = Found(disk)[i] PROVE Unread(g)'
  <2> SUFFICES ASSUME NEW k \in 1..Len(g.data), g.start + k > c
               PROVE  \/ \E l \in 1..Len(x) : x[l].bundle = g.data[k] /\ x[l].next = g.start + k
                      \/ \E j \in 1..Len(fs) : fs[j] = g
    BY <1>10 DEF Unread
  <2>1. g.start \in Nat /\ k \in Nat
    BY <1>7, <1>12
  <2>2. g.start + k > pos
    BY <1>0, <1>5, <2>1
  <2>3. CASE \E j \in 1..Len(fs) : fs[j] = g
    BY <2>3
  <2>4. ASSUME NEW l \in 1..Len(z), z[l].bundle = g.data[k], z[l].next = g.start + k
        PROVE  \E m \in 1..Len(x) : x[m].bundle = g.data[k] /\ x[m].next = g.start + k
    <3>1. l # 1
      <4>1. z[l].next > c
        BY <2>4
      <4>2. ~(c > c)
        BY <1>5
      <4> QED
        BY <1>5, <4>1, <4>2
    <3>2. l - 1 \in 1..Len(x) /\ (l - 1) + 1 = l
      BY <1>2, <3>1
    <3>3. x[l - 1] = z[l]
      BY <1>2, <3>2
    <3> QED
      BY <2>4, <3>2, <3>3
  <2> QED
    BY <1>11, <1>12, <2>2, <2>3, <2>4
<1>13. ReplayOrdered'
  <2>1. \A k \in 1..Len(x) : k + 1 \in 1..Len(z)
    BY <1>2
  <2>2. ASSUME NEW l \in 1..Len(x), NEW k \in 1..Len(x), l < k PROVE x[l].next < x[k].next
    <3>1. l + 1 \in 1..Len(z) /\ k + 1 \in 1..Len(z) /\ l + 1 < k + 1
      BY <2>1, <2>2
    <3> QED
      BY <1>2, <1>6, <3>1
  <2>3. \A k \in 1..Len(x), j \in 1..Len(fs) : x[k].next <= fs[j].start
    BY <1>2, <1>6, <2>1
  <2> QED
    BY <1>6, <1>10, <2>2, <2>3 DEF ReplayOrdered
<1>14. ReplaySound'
  <2>1. \A i \in 1..Len(Found(disk)) : Unread(Found(disk)[i])'
    BY <1>0, <1>12 DEF Unread
  <2> QED
    BY <1>0, <1>6, <1>10, <1>13, <2>1 DEF ReplaySound
<1>15. ASSUME NEW b, NEW p \in Nat, KeptAt(b, p) PROVE KeptAt(b, p)'
  <2>1. InLog(b, p)' /\ Ahead(p)'
    BY <1>0, <1>15, SameLog DEF KeptAt, Ahead
  <2>2. b \in open_segment \/ pos <= p
    BY <1>0, <1>15 DEF KeptAt, Held, pos
  <2>3. CASE b \in open_segment \/ c <= p
    BY <1>0, <1>10, <2>1, <2>3 DEF KeptAt, Held
  <2>4. CASE pos <= p /\ ~(c <= p)
    <3>1. PICK i \in 1..Len(Found(disk)) : Holds(Found(disk)[i], b, p)
      BY <1>15 DEF KeptAt, InLog, Entry
    <3>2. PICK g : g = Found(disk)[i]
      OBVIOUS
    <3>3. PICK k \in 1..Len(g.data) : g.data[k] = b /\ g.start + k = p + 1
      BY <3>1, <3>2 DEF Holds
    <3>4. g.start \in Nat /\ k \in Nat /\ k >= 1 /\ g.start <= p /\ g.start + k > pos
      <4>1. g.start \in Nat /\ k \in Nat /\ k >= 1
        BY <1>7, <3>2
      <4> QED
        BY <1>0, <2>4, <3>3, <4>1
    <3>5. ASSUME NEW j \in 1..Len(fs), fs[j] = g PROVE FALSE
      <4>1. c <= g.start
        BY <1>2, <1>5, <1>6, <3>5
      <4> QED
        BY <1>5, <2>4, <3>4, <4>1
    <3>6. PICK l \in 1..Len(z) : z[l].bundle = b /\ z[l].next = p + 1
      <4>1. \/ \E l \in 1..Len(z) : z[l].bundle = g.data[k] /\ z[l].next = g.start + k
            \/ \E j \in 1..Len(fs) : fs[j] = g
        BY <1>11, <3>2, <3>4
      <4> QED
        BY <3>3, <3>5, <4>1
    <3>7. l = 1
      <4> SUFFICES ASSUME l # 1 PROVE FALSE
        OBVIOUS
      <4>1. 1 < l
        BY <1>2
      <4>2. c < p + 1
        BY <1>2, <1>5, <1>6, <3>6, <4>1
      <4> QED
        BY <1>5, <2>4, <4>2
    <3>8. b = v
      BY <1>5, <3>6, <3>7
    <3> QED
      BY <1>9, <2>1, <3>8 DEF KeptAt, Held
  <2> QED
    BY <2>2, <2>3, <2>4
<1>16. Durable'
  BY <1>0, <1>15, SameSafe DEF DInv, Durable
<1>17. IngestDurable' /\ SidecarSound' /\ TrackingSound'
  BY <1>0, <1>9 DEF DInv, IngestDurable, SidecarSound, LogEnd, TrackingSound
<1> QED
  BY <1>0, <1>14, <1>16, <1>17 DEF DInv

\* When replay ends, nothing is left that only the log holds, and every subscriber
\* tracks every segment.
LEMMA DReplayDone == IInv /\ DInv /\ ReplayDone => DInv'
<1> SUFFICES ASSUME IInv, DInv, ReplayDone PROVE DInv'
  OBVIOUS
<1>0. /\ UNCHANGED <<disk, files, job, writer, open_segment, store, done, at_risk, accepted>>
      /\ phase = "replay" /\ phase' = "up" /\ job.at = "idle" /\ job.then = "none"
      /\ replay.entries = << >> /\ replay.files = << >> /\ disk \in Disks /\ replay.pos \in Nat
      /\ registry' = [s \in Subscribers |-> Activated(registry[s])]
  BY IdleIs DEF ReplayDone, on_disk, engine, history, IInv, LogTyped
<1>1. ASSUME NEW b, NEW p \in Nat, KeptAt(b, p) PROVE KeptAt(b, p)'
  <2>1. InLog(b, p)' /\ Ahead(p)'
    BY <1>0, <1>1, SameLog DEF KeptAt, Ahead
  <2>2. ASSUME replay.pos <= p PROVE FALSE
    <3>1. PICK i \in 1..Len(Found(disk)) : Holds(Found(disk)[i], b, p)
      BY <1>1 DEF KeptAt, InLog, Entry
    <3>2. PICK g : g = Found(disk)[i]
      OBVIOUS
    <3>3. PICK k \in 1..Len(g.data) : g.data[k] = b /\ g.start + k = p + 1
      BY <3>1, <3>2 DEF Holds
    <3>4. g.start + k > replay.pos
      BY <1>0, <2>2, <3>3
    <3>5. Unread(g)
      BY <1>0, <3>2 DEF DInv, ReplaySound
    <3> QED
      BY <1>0, <3>4, <3>5 DEF Unread
  <2>3. b \in open_segment
    BY <1>0, <1>1, <2>2 DEF KeptAt, Held
  <2> QED
    BY <1>0, <2>1, <2>3 DEF KeptAt, Held
<1>2. Durable'
  BY <1>0, <1>1, SameSafe DEF DInv, Durable
<1>3. TrackingSound'
  <2> SUFFICES ASSUME NEW s \in Subscribers
               PROVE  registry'[s].active /\ store \subseteq DOMAIN registry'[s].segments
    BY <1>0 DEF TrackingSound
  <2> DEFINE st == registry[s]
             r == Restrict(files, store)
             m == Added(st.segments, r)
  <2>1. registry'[s] = [st EXCEPT !.active = TRUE, !.segments = m]
    BY <1>0 DEF Activated
  <2>2. st \in SubscriberStates /\ st.segments \in SegmentMaps
    BY DEF IInv, SegmentsTyped, SubscriberStates
  <2>3. r \in SegmentMaps /\ DOMAIN r = store
    BY RestrictMap DEF IInv, SegmentsTyped
  <2> HIDE DEF r, st
  <2>4. store \subseteq DOMAIN m
    BY <2>2, <2>3, AddedMap
  <2> HIDE DEF m
  <2>5. registry'[s].active = TRUE /\ registry'[s].segments = m
    BY <2>1, <2>2 DEF SubscriberStates
  <2> QED
    BY <2>4, <2>5
<1>4. IngestDurable' /\ SidecarSound' /\ ReplaySound'
  BY <1>0 DEF DInv, IngestDurable, SidecarSound, LogEnd, ReplaySound
<1> QED
  BY <1>0, <1>2, <1>3, <1>4 DEF DInv

----------------------------------------------------------------------------
(* Reclaiming segments, and the subscribers.                               *)

\* maintain reclaims only while the engine is up.
CleanupUp == job.at = "cleanup" => phase = "up"

\* Only maintain starts to reclaim, and no process ends without forgetting it.
LEMMA StepCleanupUp == IInv /\ CleanupUp /\ [Next]_vars => CleanupUp'
<1> SUFFICES ASSUME IInv, CleanupUp, [Next]_vars PROVE CleanupUp'
  OBVIOUS
<1>0. job \in Jobs /\ (phase = "down" => job.at = "idle")
  BY IdleIs DEF IInv, EngineTyped, JobSound
<1>1. CASE Open \/ ReplayOpenFile \/ ReplayEntry \/ ReplayDone
  <2>1. job'.at \in {"idle", "segment"}
    BY <1>0, <1>1, IdleIs DEF Open, ReplayOpenFile, ReplayEntry, ReplayDone, Idle
  <2> QED
    BY <2>1 DEF CleanupUp
<1>2. CASE AppendToWal
  <2> DEFINE a == IF MustRotate(disk') THEN "rename" ELSE "segment"
             c == ToWalPosition(disk', writer)
  <2>1. job' = [job EXCEPT !.at = a, !.cursor = c] /\ a \in {"rename", "segment"}
    BY <1>2 DEF AppendToWal
  <2> HIDE DEF a, c
  <2>2. job'.at = a
    BY <1>0, <2>1 DEF Jobs
  <2> QED
    BY <2>1, <2>2 DEF CleanupUp
<1>3. CASE WalFull \/ Flush
  <2>1. job'.at \in {"idle", "write"}
    BY <1>0, <1>3, IdleIs DEF WalFull, Flush, TakeSegment, Jobs, Idle
  <2> QED
    BY <2>1 DEF CleanupUp
<1>4. ASSUME NEW full \in BOOLEAN, AppendToSegment(full) PROVE CleanupUp'
  <2>1. job'.at \in {"idle", "write"}
    BY <1>0, <1>4, IdleIs DEF AppendToSegment, TakeSegment, Jobs, Idle
  <2> QED
    BY <2>1 DEF CleanupUp
<1>5. CASE RotateByRename \/ RotateToNewFile \/ WriteSegment \/ PersistCursor \/ PurgeRotatedFile
  <2>1. job'.at \in {"reopen", "segment", "persist", "purge"}
    BY <1>0, <1>5 DEF RotateByRename, RotateToNewFile, WriteSegment, PersistCursor, PurgeRotatedFile, Jobs
  <2> QED
    BY <2>1 DEF CleanupUp
<1>6. CASE RegisterSegment
  <2>1. job'.at \in {"idle", "retry"}
    BY <1>6, IdleIs DEF RegisterSegment, Idle
  <2> QED
    BY <2>1 DEF CleanupUp
<1>7. CASE Cleanup \/ RejectOverSoftCap
  BY <1>7, IdleIs DEF Cleanup, RejectOverSoftCap, CleanupUp
<1>8. ASSUME NEW over \in BOOLEAN, Ingest(over) PROVE CleanupUp'
  BY <1>8 DEF Ingest, CleanupUp
<1>9. CASE FlushProgress
  BY <1>9 DEF FlushProgress, Free, CleanupUp
<1>10. CASE WriteSegmentFails \/ PersistCursorFails \/ Crash
  <2>1. job' = Idle
    BY <1>10 DEF WriteSegmentFails, PersistCursorFails, Crash, FinalizeFails, Forget
  <2> QED
    BY <2>1, IdleIs DEF CleanupUp
<1>11. ASSUME NEW s \in Subscribers,
              \/ Poll(s) \/ ResolveSome(s)
              \/ \E r \in Handles(s) : Defer(s, r)
       PROVE  CleanupUp'
  BY <1>11 DEF Poll, ResolveSome, Resolve, Defer, CleanupUp
<1>12. CASE UNCHANGED vars
  BY <1>12 DEF vars, CleanupUp
<1> QED
  BY <1>1, <1>2, <1>3, <1>4, <1>5, <1>6, <1>7, <1>8, <1>9, <1>10, <1>11, <1>12 DEF Next, EngineStep

\* A segment that is reclaimed was resolved by everyone.
LEMMA DCleaned ==
  ASSUME IInv, DInv, phase = "up", CleanupCompletedSegments, UNCHANGED <<done, at_risk>>
  PROVE  (\A b : Safe(b) => Safe(b)') /\ TrackingSound'
<1> DEFINE boundary == DeleteBoundary
           kept == {q \in store : q >= boundary}
           D == DOMAIN files \ (store \ kept)
           incomplete == UNION {Incomplete(registry[s]) : s \in Subscribers}
<1>0. /\ store' = kept /\ files' = Restrict(files, D)
      /\ registry' = [s \in Subscribers |-> RemoveCompletedSegmentsBefore(registry[s], boundary)]
  BY Zenon DEF CleanupCompletedSegments
<1>1. /\ files \in SegmentMaps /\ store \subseteq DOMAIN files /\ DOMAIN files \subseteq Nat
      /\ \A q \in DOMAIN files : files[q] \subseteq Bundles
      /\ \A s \in Subscribers : registry[s] \in SubscriberStates /\ registry[s].segments \in SegmentMaps
  BY MapFacts DEF IInv, SegmentsTyped, SubscriberStates
<1>2. \A s \in Subscribers : registry[s].active /\ store \subseteq DOMAIN registry[s].segments
  BY DEF DInv, TrackingSound
<1>3. incomplete # {} => boundary = Min(incomplete)
  BY Zenon DEF DeleteBoundary
<1>4. incomplete \subseteq Nat
  BY <1>1, MapFacts DEF Incomplete
<1>5. ASSUME NEW q \in store, q \notin kept, NEW s \in Subscribers
      PROVE  files[q] \subseteq done[s]
  <2>1. q \notin Incomplete(registry[s])
    <3> SUFFICES ASSUME q \in Incomplete(registry[s]) PROVE FALSE
      OBVIOUS
    <3>1. q \in incomplete
      OBVIOUS
    <3>2. ~(q >= boundary)
      BY <1>5
    <3> HIDE DEF incomplete, boundary
    <3>3. boundary \in Nat /\ boundary <= q
      BY <1>3, <1>4, <3>1, MinOf
    <3> QED
      BY <1>4, <3>1, <3>2, <3>3
  <2>2. q \in DOMAIN registry[s].segments /\ q \in DOMAIN files
    BY <1>1, <1>2
  <2>3. registry[s].segments[q] = {}
    BY <2>1, <2>2 DEF Incomplete
  <2>4. files[q] \ registry[s].segments[q] \subseteq done[s]
    BY <2>2 DEF IInv, ProgressHonest
  <2> QED
    BY <2>3, <2>4
<1>6. kept \subseteq D /\ D \subseteq DOMAIN files /\ kept \subseteq store
      /\ \A q \in DOMAIN files : q \notin D => q \in store /\ q \notin kept
  BY <1>1
<1>7. \A q \in kept : q >= boundary
  OBVIOUS
<1> HIDE DEF boundary, kept, D, incomplete
<1>8. files' \in SegmentMaps /\ DOMAIN files' = D /\ \A q \in D : files'[q] = files[q]
  BY <1>0, <1>1, <1>6, RestrictMap
<1>9. Resolved' = Resolved
  BY DEF Resolved
<1>10. ASSUME NEW b, b \in Stored PROVE b \in Resolved \/ b \in Stored'
  <2>1. PICK q \in DOMAIN files : b \in files[q]
    BY <1>10 DEF Stored, Range
  <2>2. CASE q \in D
    BY <1>8, <2>1, <2>2 DEF Stored, Range
  <2>3. CASE q \notin D
    BY <1>1, <1>5, <1>6, <2>1, <2>3 DEF Resolved
  <2> QED
    BY <2>2, <2>3
<1>11. \A b : Safe(b) => Safe(b)'
  BY <1>9, <1>10 DEF Safe
<1>12. ASSUME NEW s \in Subscribers
       PROVE  registry'[s].active /\ store' \subseteq DOMAIN registry'[s].segments
  <2> DEFINE st == registry[s]
             E == {q \in DOMAIN st.segments : q >= boundary \/ st.segments[q] # {}}
             r == Restrict(st.segments, E)
  <2>1. registry'[s] = [st EXCEPT !.segments = r]
    BY <1>0 DEF RemoveCompletedSegmentsBefore
  <2>2. st \in SubscriberStates /\ st.segments \in SegmentMaps /\ st.active
    BY <1>1, <1>2
  <2>3. E \subseteq DOMAIN st.segments /\ kept \subseteq E
    BY <1>2, <1>6, <1>7
  <2> HIDE DEF E, st
  <2>4. r \in SegmentMaps /\ DOMAIN r = E
    BY <2>2, <2>3, RestrictMap
  <2> HIDE DEF r
  <2>5. registry'[s].active = st.active /\ registry'[s].segments = r
    BY <2>1, <2>2 DEF SubscriberStates
  <2> QED
    BY <1>0, <2>2, <2>3, <2>4, <2>5
<1>13. TrackingSound'
  BY <1>12 DEF TrackingSound
<1> QED
  BY <1>11, <1>13


\* ingest is called, and may reclaim segments first.
LEMMA DIngest == ASSUME IInv, DInv, NEW over \in BOOLEAN, Ingest(over) PROVE DInv'
<1>0. /\ UNCHANGED <<disk, phase, replay, writer, open_segment, done, at_risk, accepted>>
      /\ phase = "up" /\ job.at = "idle" /\ job'.at = "append"
  BY IdleIs DEF Ingest, engine, Idle
<1>1. (\A b : Safe(b) => Safe(b)') /\ TrackingSound'
  <2>1. CASE over
    BY <1>0, <2>1, DCleaned DEF Ingest
  <2>2. CASE ~over
    <3>1. UNCHANGED <<store, files, registry>>
      BY <2>2 DEF Ingest
    <3>2. TrackingSound'
      BY <1>0, <3>1 DEF DInv, TrackingSound
    <3> QED
      BY <1>0, <3>1, <3>2, SameSafe
  <2> QED
    BY <2>1, <2>2
<1> QED
  BY <1>0, <1>1, DSame

\* ingest is refused over the soft cap, or maintain ends.
LEMMA DReclaim == IInv /\ DInv /\ CleanupUp /\ (RejectOverSoftCap \/ Cleanup) => DInv'
<1> SUFFICES ASSUME IInv, DInv, CleanupUp, RejectOverSoftCap \/ Cleanup PROVE DInv'
  OBVIOUS
<1>1. /\ UNCHANGED <<disk, phase, replay, writer, open_segment, done, at_risk, accepted>>
      /\ CleanupCompletedSegments /\ job.at \in {"idle", "cleanup"} /\ job'.at = "idle" /\ phase = "up"
  BY IdleIs DEF RejectOverSoftCap, Cleanup, engine, history, CleanupUp
<1>2. (\A b : Safe(b) => Safe(b)') /\ TrackingSound'
  BY <1>1, DCleaned
<1> QED
  BY <1>1, <1>2, DSame

\* maintain writes the progress files.
LEMMA DFlushProgress == IInv /\ DInv /\ FlushProgress => DInv'
<1> SUFFICES ASSUME IInv, DInv, FlushProgress PROVE DInv'
  OBVIOUS
<1>1. /\ UNCHANGED <<disk, files, phase, replay, writer, open_segment, done, at_risk, accepted, store, registry>>
      /\ job.at = "idle" /\ job'.at = "cleanup"
  BY IdleIs DEF FlushProgress, Free, engine, history, Idle
<1>2. TrackingSound'
  BY <1>1 DEF DInv, TrackingSound
<1> QED
  BY <1>1, <1>2, SameSafe, DSame

\* A subscriber's claims change.
LEMMA DClaims ==
  ASSUME IInv, DInv, NEW s \in Subscribers, Poll(s) \/ \E r \in Handles(s) : Defer(s, r)
  PROVE  DInv'
<1>1. /\ UNCHANGED <<disk, files, phase, job, replay, writer, open_segment, done, at_risk, accepted, store>>
      /\ job.at = "idle"
  BY IdleIs DEF Poll, Defer, Free, on_disk, engine, history
<1>2. PICK c : registry' = [registry EXCEPT ![s].claimed = c]
  <2>1. CASE Poll(s)
    BY <2>1 DEF Poll
  <2>2. CASE \E r \in Handles(s) : Defer(s, r)
    BY <2>2 DEF Defer
  <2> QED
    BY <2>1, <2>2
<1>3. TrackingSound'
  <2>1. registry \in [Subscribers -> SubscriberStates]
    BY DEF IInv, SegmentsTyped
  <2>2. \A t \in Subscribers : /\ registry'[t].active = registry[t].active
                               /\ registry'[t].segments = registry[t].segments
    BY <1>2, <2>1 DEF SubscriberStates
  <2> QED
    BY <1>1, <2>2 DEF DInv, TrackingSound
<1> QED
  BY <1>1, <1>3, SameSafe, DSame

\* What resolve changes.
LEMMA ResolveIs ==
  ASSUME IInv, NEW s \in Subscribers, NEW r, Resolve(s, r)
  PROVE  /\ UNCHANGED <<disk, files, phase, job, replay, writer, open_segment, at_risk, accepted, store>>
         /\ job.at = "idle" /\ r[2] \in Bundles /\ Resolved \subseteq Resolved'
         /\ done' = [done EXCEPT ![s] = @ \cup {r[2]}]
<1>1. /\ UNCHANGED <<disk, files, phase, job, replay, writer, open_segment, at_risk, accepted, store>>
      /\ job.at = "idle" /\ r \in registry[s].claimed
      /\ done' = [done EXCEPT ![s] = @ \cup {r[2]}]
  BY IdleIs DEF Resolve, Free, Handles, on_disk, engine
<1>2. registry[s].claimed \subseteq Nat \X Bundles /\ done \in [Subscribers -> SUBSET Bundles]
  BY DEF IInv, SegmentsTyped, SubscriberStates
<1>3. r[2] \in Bundles
  BY <1>1, <1>2
<1>4. \A t \in Subscribers : done[t] \subseteq done'[t]
  BY <1>1, <1>2
<1>5. Resolved \subseteq Resolved'
  BY <1>4 DEF Resolved
<1> QED
  BY <1>1, <1>3, <1>5

\* A subscriber resolves a bundle.
LEMMA DResolve == ASSUME IInv, DInv, NEW s \in Subscribers, NEW r, Resolve(s, r) PROVE DInv'
<1>1. /\ UNCHANGED <<disk, files, phase, job, replay, writer, open_segment, at_risk, accepted, store>>
      /\ job.at = "idle" /\ Resolved \subseteq Resolved'
  BY ResolveIs
<1>2. \A b : Safe(b) => Safe(b)'
  <2>1. Stored' = Stored
    BY <1>1 DEF Stored
  <2> QED
    BY <1>1, <2>1 DEF Safe
<1>3. TrackingSound'
  <2>1. /\ registry \in [Subscribers -> SubscriberStates]
        /\ registry' = [registry EXCEPT ![s] = RecordOutcome(registry[s], r)]
    BY DEF IInv, SegmentsTyped, Resolve
  <2> DEFINE st == registry[s]
             m == [q \in DOMAIN st.segments |-> IF q = r[1] THEN st.segments[q] \ {r[2]} ELSE st.segments[q]]
             c == st.claimed \ {r}
  <2>2. RecordOutcome(st, r) = [st EXCEPT !.claimed = c, !.segments = m]
    BY DEF RecordOutcome
  <2>3. DOMAIN m = DOMAIN st.segments /\ st \in SubscriberStates
    BY <2>1
  <2>4. registry'[s] = [st EXCEPT !.claimed = c, !.segments = m]
    BY <2>1, <2>2
  <2>5. registry'[s].active = st.active /\ registry'[s].segments = m
    <3> HIDE DEF st, m, c
    <3> QED
      BY <2>3, <2>4 DEF SubscriberStates
  <2>6. DOMAIN registry'[s].segments = DOMAIN registry[s].segments
    BY <2>3, <2>5
  <2>7. \A t \in Subscribers : t # s => registry'[t] = registry[t]
    BY <2>1
  <2>8. registry'[s].active = registry[s].active
    BY <2>5
  <2> HIDE DEF st, m, c
  <2>9. ASSUME NEW t \in Subscribers, phase = "up"
        PROVE  registry'[t].active /\ store \subseteq DOMAIN registry'[t].segments
    BY <2>6, <2>7, <2>8, <2>9 DEF DInv, TrackingSound
  <2> QED
    BY <1>1, <2>9 DEF TrackingSound
<1> QED
  BY <1>1, <1>2, <1>3, DSame

\* What registering a segment changes.
LEMMA RegisterIs ==
  ASSUME IInv, DInv, RegisterSegment
  PROVE  /\ UNCHANGED <<disk, files, phase, replay, writer, open_segment, done, at_risk>>
         /\ job.at = "purge" /\ job.seq \in DOMAIN files /\ job'.at \in {"idle", "retry"}
         /\ accepted' = IF job.then = "ingest" THEN accepted \cup {job.bundle} ELSE accepted
         /\ job.then = "ingest" => job.bundle \in Stored
<1>1. /\ UNCHANGED <<disk, files, phase, replay, writer, open_segment, done, at_risk>>
      /\ job.at = "purge" /\ job'.at \in {"idle", "retry"}
      /\ accepted' = IF job.then = "ingest" THEN accepted \cup {job.bundle} ELSE accepted
  BY IdleIs DEF RegisterSegment, on_disk, engine, Idle
<1>2. job.seq \in DOMAIN files
  BY <1>1 DEF IInv, JobSound
<1>3. job.then = "ingest" => job.bundle \in files[job.seq]
  BY <1>1 DEF DInv, IngestDurable
<1>4. files[job.seq] \subseteq Stored
  BY <1>2 DEF Stored, Range
<1> QED
  BY <1>1, <1>2, <1>3, <1>4

\* The segment is registered and ingest returns Ok.
LEMMA DRegisterSegment == IInv /\ DInv /\ RegisterSegment => DInv'
<1> SUFFICES ASSUME IInv, DInv, RegisterSegment PROVE DInv'
  OBVIOUS
<1>1. /\ UNCHANGED <<disk, files, phase, replay, writer, open_segment, done, at_risk>>
      /\ job.at = "purge" /\ job.seq \in DOMAIN files /\ job'.at \in {"idle", "retry"}
      /\ accepted' = IF job.then = "ingest" THEN accepted \cup {job.bundle} ELSE accepted
      /\ job.then = "ingest" => job.bundle \in Stored
  BY RegisterIs
<1>2. \A b : Safe(b) <=> Safe(b)'
  BY <1>1, SameSafe
<1>3. \A b \in accepted' : b \in accepted \/ Safe(b)'
  BY <1>1, <1>2 DEF Safe
<1>4. TrackingSound'
  <2> SUFFICES ASSUME phase = "up", NEW s \in Subscribers
               PROVE  registry'[s].active /\ store' \subseteq DOMAIN registry'[s].segments
    BY <1>1 DEF TrackingSound
  <2> DEFINE st == registry[s]
             one == Single(job.seq, files[job.seq])
             m == Added(st.segments, one)
  <2>1. st.active /\ store \subseteq DOMAIN st.segments /\ store' = store \cup {job.seq}
    BY DEF DInv, TrackingSound, RegisterSegment
  <2>2. registry'[s] = AddSegment(st, job.seq, files[job.seq])
    BY <2>1 DEF RegisterSegment
  <2>3. st \in SubscriberStates /\ st.segments \in SegmentMaps /\ files \in SegmentMaps
    BY DEF IInv, SegmentsTyped, SubscriberStates
  <2>4. job.seq \in Nat /\ files[job.seq] \subseteq Bundles
    BY <1>1, <2>3, MapFacts
  <2>5. one \in SegmentMaps /\ DOMAIN one = {job.seq}
    BY <2>4, SingleMap
  <2>6. DOMAIN m = DOMAIN st.segments \cup {job.seq}
    <3> DEFINE old == st.segments
    <3>0. old \in SegmentMaps
      BY <2>3
    <3> HIDE DEF one, old
    <3>1. DOMAIN Added(old, one) = DOMAIN old \cup DOMAIN one
      BY <2>5, <3>0, AddedMap
    <3> QED
      BY <2>5, <3>1 DEF old
  <2>7. CASE job.seq \in DOMAIN st.segments
    BY <2>1, <2>2, <2>7 DEF AddSegment
  <2>8. CASE job.seq \notin DOMAIN st.segments
    <3>1. registry'[s] = [st EXCEPT !.segments = m]
      BY <2>2, <2>8 DEF AddSegment
    <3> HIDE DEF st, m
    <3>2. registry'[s].active = st.active /\ registry'[s].segments = m
      BY <2>3, <3>1 DEF SubscriberStates
    <3> QED
      BY <2>1, <2>6, <3>2
  <2> QED
    BY <2>7, <2>8
<1> QED
  BY <1>1, <1>2, <1>3, <1>4, DSame

----------------------------------------------------------------------------
(* The invariant is kept.                                                  *)

\* Nothing is accepted and nothing is on disk.
LEMMA InitDInv == Init => DInv /\ CleanupUp
<1> SUFFICES ASSUME Init PROVE DInv /\ CleanupUp
  OBVIOUS
<1>1. /\ disk = EmptyDisk /\ accepted = {} /\ phase = "down" /\ job = Idle /\ at_risk = {}
  BY DEF Init
<1>2. disk.sidecar = 0 /\ FileEnd(disk.active) = 0
  BY <1>1 DEF EmptyDisk, NewFile, FileEnd
<1> QED
  BY <1>1, <1>2, IdleIs
     DEF DInv, Durable, IngestDurable, SidecarSound, ReplaySound, TrackingSound, CleanupUp

\* Every step keeps what was accepted.
LEMMA StepDInv ==
  ASSUME IInv, IInv', CInv, DInv, CleanupUp, WholeLog, [Next]_vars PROVE DInv'
<1>1. CASE Open \/ ReplayOpenFile \/ ReplayEntry \/ ReplayDone
  BY <1>1, DOpen, DReplayOpenFile, DReplayEntry, DReplayDone
<1>2. CASE AppendToWal \/ WalFull \/ RotateByRename \/ RotateToNewFile
  BY <1>2, DAppendToWal, DWalFull, DRotateByRename, DRotateToNewFile
<1>3. CASE \E full \in BOOLEAN : AppendToSegment(full)
  BY <1>3, DAppendToSegment
<1>4. CASE Flush \/ WriteSegment \/ PersistCursor \/ PurgeRotatedFile \/ RegisterSegment \/ Cleanup
  BY <1>4, DFlush, DWriteSegment, DPersistCursor, DPurgeRotatedFile, DRegisterSegment, DReclaim
<1>5. CASE \E over \in BOOLEAN : Ingest(over)
  BY <1>5, DIngest
<1>6. CASE RejectOverSoftCap \/ FlushProgress
  BY <1>6, DReclaim, DFlushProgress
<1>7. CASE WriteSegmentFails \/ PersistCursorFails \/ Crash
  BY <1>7, DWriteSegmentFails, DPersistCursorFails, DCrash
<1>8. ASSUME NEW s \in Subscribers,
             \/ Poll(s) \/ ResolveSome(s)
             \/ \E r \in Handles(s) : Defer(s, r)
      PROVE  DInv'
  <2>1. CASE ResolveSome(s)
    BY <2>1, DResolve DEF ResolveSome
  <2> QED
    BY <1>8, <2>1, DClaims
<1>9. CASE UNCHANGED vars
  <2>0. UNCHANGED <<disk, files, phase, job, replay, writer, open_segment, store, registry, done, at_risk, accepted>>
    BY <1>9 DEF vars, on_disk, engine, subscriber, history
  <2>1. \A b, p : KeptAt(b, p) => KeptAt(b, p)'
    BY <2>0, SameLog DEF KeptAt, Ahead, Held
  <2>2. Durable'
    BY <2>0, <2>1, SameSafe DEF DInv, Durable
  <2>3. IngestDurable'
    <3>1. ASSUME NEW b, NEW p PROVE InLog(b, p)' = InLog(b, p) /\ Ahead(p)' = Ahead(p)
      BY <2>0 DEF InLog, Ahead
    <3> QED
      BY <2>0 DEF DInv, IngestDurable, InLog, Ahead
  <2>4. SidecarSound' /\ ReplaySound' /\ TrackingSound'
    BY <2>0 DEF DInv, SidecarSound, LogEnd, ReplaySound, Unread, ReplayOrdered, TrackingSound
  <2> QED
    BY <2>0, <2>2, <2>3, <2>4 DEF DInv
<1> QED
  BY <1>1, <1>2, <1>3, <1>4, <1>5, <1>6, <1>7, <1>8, <1>9 DEF Next, EngineStep

----------------------------------------------------------------------------
(* The refinement.                                                         *)

\* What of acc is lost, when res is resolved, sto stored and rep replayed.
LostOf(acc, res, sto, rep) ==
  LET unresolved == (acc \ res) \ sto
  IN  IF unresolved = {} THEN {} ELSE unresolved \ rep

\* The case of LostOf is a shortcut.
LEMMA LostOfIs ==
  \A acc, res, sto, rep : LostOf(acc, res, sto, rep) = ((acc \ res) \ sto) \ rep
<1> TAKE acc, res, sto, rep
<1> DEFINE unresolved == (acc \ res) \ sto
<1>1. LostOf(acc, res, sto, rep) = IF unresolved = {} THEN {} ELSE unresolved \ rep
  BY Zenon DEF LostOf
<1> HIDE DEF unresolved
<1>2. LostOf(acc, res, sto, rep) = unresolved \ rep
  BY <1>1
<1> QED
  BY <1>2 DEF unresolved

\* Lost, before and after a step.
LEMMA LostIs ==
  /\ Lost = ((accepted \ Resolved) \ Stored) \ Replayable(disk)
  /\ Lost' = ((accepted' \ Resolved') \ Stored') \ Replayable(disk')
<1>1. Lost = LostOf(accepted, Resolved, Stored, Replayable(disk))
  BY Zenon DEF Lost, LostOf, Stored
<1>2. Lost' = LostOf(accepted', Resolved', Stored', Replayable(disk'))
  BY Zenon DEF Lost, LostOf, Stored
<1> QED
  BY <1>1, <1>2, LostOfIs

\* Only what is at risk is lost.
RiskOnly == Lost \subseteq accepted \cap at_risk

\* With failed segment writes of a running engine, at most their bundles are lost, and
\* only those a later finalization has moved the WAL cursor past: what every other
\* ingest that returned Ok wrote is found by a restart at any moment, over rotations,
\* purges, replays, reclaimed segments, failed cursor writes and any crash but the two
\* that WholeLog leaves out (engine.rs, finalize_segment_impl).
THEOREM OnlyFailedWritesLose == WholeLog => (Spec => []RiskOnly)
<1> SUFFICES ASSUME WholeLog PROVE Spec => []RiskOnly
  OBVIOUS
<1>1. Init => CInv /\ DInv /\ CleanupUp
  BY InitCInv, InitDInv
<1>2. IInv /\ CInv /\ [Next]_vars => CInv'
  BY StepCInv
<1>3. IInv /\ CleanupUp /\ [Next]_vars => CleanupUp'
  BY StepCleanupUp
<1>4. IInv /\ IInv' /\ CInv /\ DInv /\ CleanupUp /\ [Next]_vars => DInv'
  BY StepDInv
<1>5. IInv /\ CInv /\ DInv => RiskOnly
  BY LostAtRisk DEF RiskOnly
<1> QED
  BY <1>1, <1>2, <1>3, <1>4, <1>5, Invariance, PTL DEF Spec

\* Nothing is at risk.
NoRisk == at_risk = {}

\* Only a segment write that fails in a running engine puts bundles at risk.
LEMMA StepNoRisk == ~SegmentWriteMayFail /\ NoRisk /\ [Next]_vars => NoRisk'
<1> SUFFICES ASSUME ~SegmentWriteMayFail, NoRisk, [Next]_vars PROVE NoRisk'
  OBVIOUS
<1>0. at_risk = {}
  BY DEF NoRisk
<1>1. CASE UNCHANGED at_risk
  BY <1>0, <1>1 DEF NoRisk
<1>2. CASE Forget
  BY <1>0, <1>2 DEF Forget, NoRisk
<1>3. CASE WriteSegmentFails
  <2>1. phase = "replay"
    BY <1>3 DEF WriteSegmentFails
  <2>2. Forget
    BY <1>3, <2>1 DEF WriteSegmentFails, FinalizeFails
  <2> QED
    BY <1>2, <2>2
<1>4. CASE PersistCursorFails
  <2>1. Forget \/ at_risk' = at_risk \cup {}
    BY <1>4 DEF PersistCursorFails, FinalizeFails
  <2> QED
    BY <1>1, <1>2, <2>1
<1>5. CASE EngineStep
  <2>1. UNCHANGED at_risk
    BY <1>5 DEF EngineStep, Open, ReplayOpenFile, ReplayEntry, ReplayDone, AppendToWal, WalFull,
       RotateByRename, RotateToNewFile, AppendToSegment, Flush, WriteSegment, PersistCursor,
       PurgeRotatedFile, RegisterSegment, Cleanup, history
  <2> QED
    BY <1>1, <2>1
<1>6. CASE RejectOverSoftCap \/ FlushProgress \/ \E over \in BOOLEAN : Ingest(over)
  BY <1>1, <1>6 DEF RejectOverSoftCap, FlushProgress, Ingest, history
<1>7. ASSUME NEW s \in Subscribers,
             \/ Poll(s) \/ ResolveSome(s)
             \/ \E r \in Handles(s) : Defer(s, r)
      PROVE  NoRisk'
  BY <1>1, <1>7 DEF Poll, ResolveSome, Resolve, Defer, history
<1>8. CASE UNCHANGED vars
  BY <1>1, <1>8 DEF vars, history
<1> QED
  BY <1>2, <1>3, <1>4, <1>5, <1>6, <1>7, <1>8 DEF Next, Crash

\* As long as no segment write fails in a running engine, every accepted bundle that
\* somebody waits for is found by a restart at any moment: truncating the log never
\* removes an entry that is still needed, however often the engine crashes, open() or
\* a cursor write fails, the log rotates and segments are reclaimed.
THEOREM NothingLostWithoutFailures ==
  WholeLog /\ ~SegmentWriteMayFail => (Spec => []TruncationSafe)
<1> SUFFICES ASSUME WholeLog, ~SegmentWriteMayFail PROVE Spec => []TruncationSafe
  OBVIOUS
<1>1. Init => NoRisk
  BY DEF Init, NoRisk
<1>2. NoRisk /\ [Next]_vars => NoRisk'
  BY StepNoRisk
<1>3. RiskOnly /\ NoRisk => TruncationSafe
  BY DEF RiskOnly, NoRisk, TruncationSafe
<1> QED
  BY <1>1, <1>2, <1>3, OnlyFailedWritesLose, PTL DEF Spec

\* What a restart finds, before and after a step.
LEMMA KeptIs ==
  Kept = Stored \cup Replayable(disk) /\ Kept' = Stored' \cup Replayable(disk')
BY DEF Kept, Stored

\* Steps that accept and resolve nothing.
LEMMA Stores ==
  ASSUME IInv', TruncationSafe', UNCHANGED <<accepted, done>> PROVE DL!Next
<1>1. Lost' = {}
  BY DEF TruncationSafe
<1>2. ASSUME NEW b \in DL!Needed PROVE b \in Kept'
  <2>1. b \in accepted' /\ b \notin Resolved'
    BY <1>2 DEF DL!Needed, Resolved
  <2> QED
    BY <1>1, <2>1, LostIs, KeptIs
<1>3. DL!Store
  BY <1>2 DEF DL!Store
<1> QED
  BY <1>3 DEF DL!Next

\* ingest returns Ok for b: the log is read up to it, or a segment has it.
LEMMA Accepts ==
  ASSUME IInv', TruncationSafe', NEW b \in Bundles, accepted' = accepted \cup {b},
         b \in Stored \/ b \in Replayable(disk), UNCHANGED <<disk, files, done>>
  PROVE  DL!Next
<1>1. CASE b \in accepted
  <2>1. accepted' = accepted
    BY <1>1
  <2> QED
    BY <2>1, Stores
<1>2. CASE b \notin accepted
  <2>1. Stored' = Stored
    BY DEF Stored
  <2>2. Kept' = Kept /\ b \in Kept
    BY <2>1, KeptIs
  <2>3. DL!Accept(b)
    BY <1>2, <2>2 DEF DL!Accept
  <2> QED
    BY <2>3 DEF DL!Next
<1> QED
  BY <1>1, <1>2

\* A bundle goes to the open segment.
LEMMA AppendMaps ==
  ASSUME IInv, IInv', CInv, DInv, TruncationSafe', NEW full \in BOOLEAN, AppendToSegment(full)
  PROVE  DL!Next
<1>0. UNCHANGED <<disk, files, done>> /\ job.at = "segment"
  BY DEF AppendToSegment, on_disk
<1>1. CASE accepted' = accepted
  BY <1>0, <1>1, Stores
<1>2. CASE phase = "up" /\ accepted' = accepted \cup {job.bundle}
  <2>1. PICK b : b = job.bundle
    OBVIOUS
  <2>2. b \in Bundles
    BY <1>0, <2>1 DEF IInv, JobSound
  <2>3. PICK p \in Nat : InLog(b, p) /\ Ahead(p)
    BY <1>0, <1>2, <2>1 DEF DInv, IngestDurable
  <2>4. b \in Replayable(disk)
    BY <2>3, InLogReplayed DEF CInv, Ahead
  <2> QED
    BY <1>0, <1>2, <2>1, <2>2, <2>4, Accepts
<1> QED
  BY <1>1, <1>2 DEF AppendToSegment

\* The segment of a bundle is registered.
LEMMA RegisterMaps ==
  ASSUME IInv, IInv', DInv, TruncationSafe', RegisterSegment PROVE DL!Next
<1>0. /\ UNCHANGED <<disk, files, done>>
      /\ accepted' = IF job.then = "ingest" THEN accepted \cup {job.bundle} ELSE accepted
      /\ job.then = "ingest" => job.bundle \in Stored
  BY RegisterIs
<1>1. CASE job.then # "ingest"
  BY <1>0, <1>1, Stores
<1>2. CASE job.then = "ingest"
  <2>1. PICK b : b = job.bundle
    OBVIOUS
  <2>2. b \in Bundles
    BY <1>2, <2>1 DEF IInv, JobSound
  <2> QED
    BY <1>0, <1>2, <2>1, <2>2, Accepts
<1> QED
  BY <1>1, <1>2

\* A subscriber resolves a bundle, for the first time or again after a replay.
LEMMA ResolveMaps ==
  ASSUME IInv, IInv', TruncationSafe', NEW s \in Subscribers, NEW r, Resolve(s, r) PROVE DL!Next
<1>0. /\ UNCHANGED <<disk, files, accepted>> /\ r[2] \in Bundles
      /\ done' = [done EXCEPT ![s] = @ \cup {r[2]}]
  BY ResolveIs
<1>1. done \in [Subscribers -> SUBSET Bundles]
  BY DEF IInv, SegmentsTyped
<1>2. CASE r[2] \in done[s]
  <2>1. done[s] \cup {r[2]} = done[s]
    BY <1>2
  <2>2. done' = done
    BY <1>0, <1>1, <2>1
  <2> QED
    BY <1>0, <2>2, Stores
<1>3. CASE r[2] \notin done[s]
  <2>1. Stored' = Stored
    BY <1>0 DEF Stored
  <2>2. Kept' = Kept
    BY <1>0, <2>1, KeptIs
  <2>3. DL!Resolve(s, r[2])
    BY <1>0, <1>3, <2>2 DEF DL!Resolve
  <2> QED
    BY <1>0, <2>3 DEF DL!Next
<1> QED
  BY <1>2, <1>3

\* Every step of the engine is one of DurableLog.
LEMMA StepMaps ==
  ASSUME IInv, IInv', CInv, DInv, TruncationSafe', [Next]_vars
  PROVE  DL!Next
<1>1. CASE \E full \in BOOLEAN : AppendToSegment(full)
  BY <1>1, AppendMaps
<1>2. CASE RegisterSegment
  BY <1>2, RegisterMaps
<1>3. ASSUME NEW s \in Subscribers, ResolveSome(s) PROVE DL!Next
  BY <1>3, ResolveMaps DEF ResolveSome
<1>4. CASE UNCHANGED <<accepted, done>>
  BY <1>4, Stores
<1>5. CASE WriteSegmentFails \/ PersistCursorFails \/ Crash
  BY <1>4, <1>5 DEF WriteSegmentFails, PersistCursorFails, Crash
<1>6. CASE Open \/ ReplayOpenFile \/ ReplayEntry \/ ReplayDone \/ AppendToWal \/ WalFull
           \/ RotateByRename \/ RotateToNewFile \/ Flush \/ WriteSegment \/ PersistCursor
           \/ PurgeRotatedFile \/ Cleanup \/ RejectOverSoftCap \/ FlushProgress
  <2>1. UNCHANGED <<accepted, done>>
    BY <1>6 DEF Open, ReplayOpenFile, ReplayEntry, ReplayDone, AppendToWal, WalFull, RotateByRename,
       RotateToNewFile, Flush, WriteSegment, PersistCursor, PurgeRotatedFile, Cleanup,
       RejectOverSoftCap, FlushProgress, history
  <2> QED
    BY <1>4, <2>1
<1>7. CASE \E over \in BOOLEAN : Ingest(over)
  BY <1>4, <1>7 DEF Ingest
<1>8. ASSUME NEW s \in Subscribers, Poll(s) \/ \E r \in Handles(s) : Defer(s, r) PROVE DL!Next
  BY <1>4, <1>8 DEF Poll, Defer, history
<1>9. CASE UNCHANGED vars
  BY <1>4, <1>9 DEF vars, history
<1> QED
  BY <1>1, <1>2, <1>3, <1>5, <1>6, <1>7, <1>8, <1>9 DEF Next, EngineStep

\* Initially there is no file and no log entry.
LEMMA InitMaps == Init => DL!Init
<1> SUFFICES ASSUME Init PROVE DL!Init
  OBVIOUS
<1>1. accepted = {} /\ done = [s \in Subscribers |-> {}] /\ disk = EmptyDisk /\ files = << >>
  BY DEF Init
<1>2. Replayable(disk) = {}
  <2>1. disk.sidecar <= FileEnd(disk.active) /\ job.at # "reopen"
    BY <1>1, IdleIs DEF Init, EmptyDisk, NewFile, FileEnd
  <2>2. ASSUME NEW b \in Replayable(disk) PROVE FALSE
    <3>1. PICK p \in Nat : InLog(b, p)
      BY <2>1, <2>2, InitIInv, InitCInv, ReplayedInLog DEF CInv
    <3>2. ~Entry(EmptyDisk, b, p)
      BY DEF Entry, Holds, Found, EmptyDisk, NewFile
    <3> QED
      BY <1>1, <3>1, <3>2 DEF InLog
  <2> QED
    BY <2>2
<1>3. Stored = {}
  BY <1>1 DEF Stored, Range
<1>4. Kept = {}
  BY <1>2, <1>3, KeptIs
<1> QED
  BY <1>1, <1>4 DEF DL!Init

\* The engine implements DurableLog as long as no segment write fails in a running
\* engine: a bundle is durable when its ingest returns Ok and stays so while a
\* subscriber waits for it, over rotations, purges, replays, reclaimed segments, failed
\* cursor writes, failures of open() and any crash but the two that WholeLog leaves out
\* (engine.rs, ingest, finalize_segment_impl, replay_wal, cleanup_completed_segments;
\* wal/writer.rs, persist_cursor and rotation).
THEOREM EngineIsDurable ==
  WholeLog /\ ~SegmentWriteMayFail => (Spec => ImplementsDurableLog)
<1> SUFFICES ASSUME WholeLog, ~SegmentWriteMayFail PROVE Spec => ImplementsDurableLog
  OBVIOUS
<1>1. Init => CInv /\ DInv /\ CleanupUp
  BY InitCInv, InitDInv
<1>2. IInv /\ CInv /\ [Next]_vars => CInv'
  BY StepCInv
<1>3. IInv /\ CleanupUp /\ [Next]_vars => CleanupUp'
  BY StepCleanupUp
<1>4. IInv /\ IInv' /\ CInv /\ DInv /\ CleanupUp /\ [Next]_vars => DInv'
  BY StepDInv
<1>5. Spec => []TruncationSafe
  BY NothingLostWithoutFailures
<1>6. Init => DL!Init
  BY InitMaps
<1>7. IInv /\ IInv' /\ CInv /\ DInv /\ TruncationSafe' /\ [Next]_vars => [DL!Next]_(DL!vars)
  BY StepMaps
<1> QED
  BY <1>1, <1>2, <1>3, <1>4, <1>5, <1>6, <1>7, Invariance, PTL DEF Spec, ImplementsDurableLog, DL!Spec


----------------------------------------------------------------------------
(* Nothing is skipped.                                                     *)

\* The bundle that is being ingested has not been accepted.
JobUnaccepted == phase = "up" => job.bundle \notin accepted

\* ingest returns Ok when it is done with its bundle, and not before.
LEMMA StepUnaccepted == IInv /\ JobUnaccepted /\ [Next]_vars => JobUnaccepted'
<1> SUFFICES ASSUME IInv, JobUnaccepted, [Next]_vars PROVE JobUnaccepted'
  OBVIOUS
<1>0. /\ offered \in Nat /\ accepted \subseteq 1..offered /\ 0 \notin accepted
      /\ offered + 1 \notin accepted /\ Idle.bundle = 0 /\ job \in Jobs
  BY EngineAssumption DEF IInv, EngineTyped, Idle
<1>1. ASSUME accepted' = accepted, phase' = phase, job'.bundle \in {0, job.bundle, offered + 1}
      PROVE  JobUnaccepted'
  BY <1>0, <1>1 DEF JobUnaccepted
<1>2. CASE Forget
  BY <1>2 DEF Forget, JobUnaccepted
<1>3. CASE Open
  BY <1>3 DEF Open, JobUnaccepted
<1>4. CASE ReplayDone
  BY <1>0, <1>4 DEF ReplayDone, JobUnaccepted, history
<1>5. CASE ReplayEntry \/ ReplayOpenFile
  BY <1>5 DEF ReplayEntry, ReplayOpenFile, JobUnaccepted
<1>6. ASSUME NEW full \in BOOLEAN, AppendToSegment(full) PROVE JobUnaccepted'
  <2>1. phase' = phase
    BY <1>6 DEF AppendToSegment
  <2>2. CASE full
    <3>1. job'.bundle = job.bundle /\ accepted' = accepted
      BY <1>0, <1>6, <2>2 DEF AppendToSegment, TakeSegment, Jobs
    <3> QED
      BY <1>1, <2>1, <3>1
  <2>3. CASE ~full
    <3>1. job' = Idle /\ accepted' \subseteq accepted \cup {job.bundle}
      BY <1>6, <2>3 DEF AppendToSegment
    <3>2. job.bundle # 0
      BY <1>6 DEF AppendToSegment, IInv, JobSound, Bundles
    <3> QED
      BY <1>0, <3>1, <3>2 DEF JobUnaccepted
  <2> QED
    BY <2>2, <2>3
<1>7. CASE RegisterSegment
  <2>1. phase' = phase
    BY <1>7 DEF RegisterSegment
  <2>2. CASE job.then = "append"
    <3>1. job'.bundle = job.bundle /\ accepted' = accepted
      BY <1>7, <2>2 DEF RegisterSegment, Idle
    <3> QED
      BY <1>1, <2>1, <3>1
  <2>3. CASE job.then # "append"
    <3>1. job' = Idle /\ accepted' \subseteq accepted \cup {job.bundle}
          /\ (job.then # "ingest" => accepted' = accepted)
      BY <1>7, <2>3 DEF RegisterSegment
    <3>2. job.then = "ingest" => job.bundle # 0
      BY DEF IInv, JobSound, Bundles
    <3> QED
      BY <1>0, <3>1, <3>2 DEF JobUnaccepted
  <2> QED
    BY <2>2, <2>3
<1>8. CASE AppendToWal \/ WalFull \/ RotateByRename \/ RotateToNewFile \/ Flush \/ WriteSegment
           \/ PersistCursor \/ PurgeRotatedFile \/ Cleanup \/ RejectOverSoftCap \/ FlushProgress
  <2>1. accepted' = accepted /\ phase' = phase
    BY <1>8 DEF AppendToWal, WalFull, RotateByRename, RotateToNewFile, Flush, WriteSegment, PersistCursor,
       PurgeRotatedFile, Cleanup, RejectOverSoftCap, FlushProgress, history
  <2>2. job'.bundle \in {0, job.bundle}
    <3>1. CASE AppendToWal \/ RotateByRename \/ RotateToNewFile \/ WriteSegment \/ PersistCursor
      BY <1>0, <3>1 DEF AppendToWal, RotateByRename, RotateToNewFile, WriteSegment, PersistCursor, Jobs
    <3>2. CASE WalFull
      BY <1>0, <3>2 DEF WalFull, TakeSegment, Jobs
    <3>3. CASE Flush \/ FlushProgress \/ Cleanup
      <4>1. \/ job' = Idle \/ job' = [Idle EXCEPT !.at = "cleanup"]
            \/ job' = [Idle EXCEPT !.at = "write", !.then = "flush", !.seq = next_segment_seq,
                                  !.seg = open_segment, !.cursor = segment_cursor]
        BY <3>3 DEF Flush, TakeSegment, FlushProgress, Cleanup
      <4>2. \A j : [Idle EXCEPT !.at = j].bundle = 0
        BY DEF Idle
      <4>3. [Idle EXCEPT !.at = "write", !.then = "flush", !.seq = next_segment_seq,
                         !.seg = open_segment, !.cursor = segment_cursor].bundle = 0
        BY DEF Idle
      <4> QED
        BY <1>0, <4>1, <4>2, <4>3
    <3>4. CASE PurgeRotatedFile \/ RejectOverSoftCap
      BY <3>4 DEF PurgeRotatedFile, RejectOverSoftCap
    <3> QED
      BY <1>8, <3>1, <3>2, <3>3, <3>4
  <2> QED
    BY <1>1, <2>1, <2>2
<1>9. ASSUME NEW over \in BOOLEAN, Ingest(over) PROVE JobUnaccepted'
  <2>1. accepted' = accepted /\ phase' = phase /\ job'.bundle = offered + 1
    BY <1>9 DEF Ingest, Idle
  <2> QED
    BY <1>1, <2>1
<1>10. CASE WriteSegmentFails \/ PersistCursorFails
  <2>1. accepted' = accepted /\ (Forget \/ (job' = Idle /\ phase' = phase))
    BY <1>10 DEF WriteSegmentFails, PersistCursorFails, FinalizeFails
  <2> QED
    BY <1>0, <1>1, <1>2, <2>1
<1>11. ASSUME NEW s \in Subscribers,
              \/ Poll(s) \/ ResolveSome(s)
              \/ \E r \in Handles(s) : Defer(s, r)
       PROVE  JobUnaccepted'
  <2>1. UNCHANGED <<accepted, phase, job>>
    BY <1>11 DEF Poll, ResolveSome, Resolve, Defer, history
  <2> QED
    BY <2>1 DEF JobUnaccepted
<1>12. CASE UNCHANGED vars
  BY <1>12 DEF vars, history, JobUnaccepted
<1> QED
  BY <1>2, <1>3, <1>4, <1>5, <1>6, <1>7, <1>8, <1>9, <1>10, <1>11, <1>12 DEF Next, EngineStep, Crash

\* What the invariants say of one bundle and one subscriber.
LEMMA BundleNotSkipped ==
  ASSUME IInv, DInv, JobUnaccepted, phase = "up", NEW s \in Subscribers, NEW b \in accepted,
         b \notin done[s], b \notin at_risk, b \notin Stranded, b \notin InMemory
  PROVE  b \in Offered(s)
<1>1. b \notin Resolved
  BY DEF Resolved
<1>2. ASSUME NEW p \in Nat, KeptAt(b, p) PROVE FALSE
  BY <1>2 DEF KeptAt, Held, InMemory, JobUnaccepted
<1>3. b \in Stored
  BY <1>1, <1>2 DEF DInv, Durable, Safe
<1>4. PICK q \in DOMAIN files : b \in files[q]
  BY <1>3 DEF Stored, Range
<1>5. q \in store
  BY <1>4 DEF Stranded
<1>6. q \in DOMAIN registry[s].segments
  BY <1>5 DEF DInv, TrackingSound
<1>7. b \in registry[s].segments[q]
  BY <1>4, <1>6 DEF IInv, ProgressHonest
<1>8. <<q, b>> \in UNION {{x} \X registry[s].segments[x] : x \in DOMAIN registry[s].segments}
  BY <1>6, <1>7
<1>9. <<q, b>> \in Pending(registry[s]) \cup Handles(s)
  BY <1>5, <1>8 DEF Pending, Handles
<1> QED
  BY <1>5, <1>9 DEF Offered

\* While the engine runs, every accepted bundle that a subscriber has not resolved is
\* offered to it or in its hands, or on its way into a segment file, unless a segment or
\* cursor write has failed in this process: no restored progress, activation, replay,
\* reclaimed segment or new segment hides it, over any number of crashes.
THEOREM BacklogIsOffered == WholeLog => (Spec => []NothingSkipped)
<1> SUFFICES ASSUME WholeLog PROVE Spec => []NothingSkipped
  OBVIOUS
<1>1. Init => CInv /\ DInv /\ CleanupUp /\ JobUnaccepted
  BY InitCInv, InitDInv DEF Init, JobUnaccepted
<1>2. IInv /\ CInv /\ [Next]_vars => CInv'
  BY StepCInv
<1>3. IInv /\ CleanupUp /\ [Next]_vars => CleanupUp'
  BY StepCleanupUp
<1>4. IInv /\ IInv' /\ CInv /\ DInv /\ CleanupUp /\ [Next]_vars => DInv'
  BY StepDInv
<1>5. IInv /\ JobUnaccepted /\ [Next]_vars => JobUnaccepted'
  BY StepUnaccepted
<1>6. ASSUME IInv, DInv, JobUnaccepted PROVE NothingSkipped
  BY <1>6, BundleNotSkipped DEF NothingSkipped
<1> QED
  BY <1>1, <1>2, <1>3, <1>4, <1>5, <1>6, Invariance, PTL DEF Spec
============================================================================
