------------------------ MODULE QuiverEngineProofs -------------------------
(***************************************************************************)
(* Proofs about QuiverEngine for any subscribers, any number of bundles,   *)
(* crashes and failed writes, and every size of the write-ahead log.       *)
(***************************************************************************)
EXTENDS QuiverEngine, NaturalsInduction, FiniteSetTheorems, SequenceTheorems, TLAPS

----------------------------------------------------------------------------
(* The invariant.                                                          *)

Files == [start : Nat, data : Seq(Bundles)]
Disks == [rotated : Seq(Files), active : Files, sidecar : Nat]
Writers == [ends : Seq(Nat), start : Nat, cursor : Nat]
SegmentMaps == UNION {[D -> SUBSET Bundles] : D \in SUBSET Nat}
SubscriberStates == [active : BOOLEAN, segments : SegmentMaps, claimed : SUBSET (Nat \X Bundles)]
ProgressFiles == [written : BOOLEAN, oldest : Nat, entries : SegmentMaps]
ReadAhead == [bundle : Bundles, next : Nat]
Jobs == [at : {"idle", "append", "retry", "rename", "reopen", "segment", "write", "persist",
               "purge", "cleanup"},
         bundle : 0..MaxBundles, then : {"none", "append", "ingest", "flush", "replay"},
         seq : Nat, seg : SUBSET Bundles, cursor : Nat]

\* The type invariant, with the fields it leaves open.
LogTyped ==
  /\ disk \in Disks /\ writer \in Writers
  /\ Len(writer.ends) = (IF phase = "down" THEN 0 ELSE Len(disk.rotated))
  /\ replay = [files |-> replay.files, pos |-> replay.pos, entries |-> replay.entries]
  /\ replay.pos \in Nat /\ replay.entries \in Seq(ReadAhead)
SegmentsTyped ==
  /\ files \in SegmentMaps /\ store \subseteq DOMAIN files /\ dirty \subseteq Subscribers
  /\ progress \in [Subscribers -> ProgressFiles]
  /\ registry \in [Subscribers -> SubscriberStates]
  /\ done \in [Subscribers -> SUBSET Bundles]
EngineTyped ==
  /\ phase \in {"down", "replay", "up"} /\ job \in Jobs
  /\ open_segment \subseteq Bundles /\ segment_cursor \in Nat /\ next_segment_seq \in Nat
  /\ offered \in 0..MaxBundles /\ accepted \subseteq 1..offered

\* What the engine's task knows of the bundle and the segment it works on.
JobSound ==
  /\ phase = "down" => job = Idle
  /\ job.at \in {"append", "retry", "rename", "reopen", "segment"}
       \/ job.then \in {"append", "ingest"} => job.bundle \in Bundles
  /\ phase = "up" => job.bundle <= offered
  /\ phase = "replay" => job.then \in {"none", "replay"}
  /\ job.at \in {"persist", "purge"} => job.seq \in DOMAIN files
  /\ job.at = "write" => next_segment_seq = job.seq + 1

\* No file, subscriber or progress file refers to a segment number from n on.
Above(n) ==
  /\ \A q \in DOMAIN files : q < n
  /\ \A s \in Subscribers :
       /\ \A q \in DOMAIN registry[s].segments \cup DOMAIN progress[s].entries : q < n
       /\ progress[s].oldest # 0 => progress[s].oldest < n

\* The numbers the running engine has yet to use are new, the one of the segment
\* that is being written included.
NumbersSound ==
  /\ \E n \in Nat : Above(n)
  /\ phase # "down" => Above(IF job.at = "write" THEN job.seq ELSE next_segment_seq)

IInv == LogTyped /\ SegmentsTyped /\ EngineTyped /\ JobSound /\ NumbersSound /\ ProgressHonest

----------------------------------------------------------------------------
(* The log and the cursors, when every process ends with a whole log.      *)

\* Rotated files are not empty and follow each other; so does the active file.
LogSound ==
  /\ \A i \in 1..Len(disk.rotated) : Len(disk.rotated[i].data) > 0
  /\ job.at = "rename" => Len(disk.active.data) > 0
  /\ \A i, j \in 1..Len(disk.rotated) :
       j = i + 1 => disk.rotated[j].start = FileEnd(disk.rotated[i])
  /\ job.at # "reopen" /\ disk.rotated # << >> =>
       disk.active.start = FileEnd(Last(disk.rotated))
  /\ job.at = "reopen" => disk.active.data = << >>
  /\ phase = "down" => ~PartlyPurged

\* The writer's positions are the ones in the headers.
PositionsSound ==
  phase # "down" =>
    /\ \A i \in 1..Len(disk.rotated) : writer.ends[i] = FileEnd(disk.rotated[i])
    /\ writer.ends # << >> => writer.start = Last(writer.ends)
    /\ job.at # "reopen" => writer.start = disk.active.start

LogEnd == writer.start + Len(disk.active.data)

\* A cursor that is yet to be persisted is between the writer's and the end of the log.
CursorsSound ==
  /\ phase = "down" => open_segment = {}
  /\ phase # "down" =>
       /\ writer.cursor <= LogEnd
       /\ open_segment # {} => writer.cursor <= segment_cursor /\ segment_cursor <= LogEnd
       /\ job.at \in {"rename", "reopen", "segment", "write", "persist"} =>
            writer.cursor <= job.cursor /\ job.cursor <= LogEnd
       /\ job.at \in {"write", "persist"} => open_segment = {}
  /\ phase = "replay" =>
       /\ writer.cursor <= replay.pos
       /\ job.at \in {"segment", "write", "persist"} => job.cursor <= replay.pos
       /\ job.at \notin {"rename", "reopen"}
       /\ \A k \in 1..Len(replay.entries) :
            /\ replay.pos <= replay.entries[k].next /\ replay.entries[k].next <= LogEnd
            /\ \A l \in 1..k : replay.entries[l].next <= replay.entries[k].next

\* No process ends between the two halves of a rotation, or with a log whose first
\* files are purged and others not.
WholeLog == ~CrashMidRotation /\ ~CrashPartlyPurged

CInv == LogSound /\ PositionsSound /\ CursorsSound
----------------------------------------------------------------------------
(* Numbers and maps.                                                       *)

\* A nonempty set of numbers has a least one.
LEMMA MinOf ==
  ASSUME NEW S, S \subseteq Nat, S # {}
  PROVE  Min(S) \in S /\ \A j \in S : Min(S) <= j
<1>1. OpToRel(<, Nat) = {e \in Nat \X Nat : e[1] < e[2]}
  BY Zenon DEF OpToRel
<1>2. PICK R : IsWellFoundedOn(R, Nat) /\ R = {e \in Nat \X Nat : e[1] < e[2]}
  BY <1>1, NatLessThanWellFounded, Zenon
<1>3. PICK n \in S : \A m \in S : ~(<<m, n>> \in R)
  BY <1>2, WFMin, Zenon
<1>4. \A m \in S : n <= m
  <2> SUFFICES ASSUME NEW m \in S PROVE n <= m
    OBVIOUS
  <2>1. m \in Nat /\ n \in Nat
    OBVIOUS
  <2>2. m < n => <<m, n>> \in R
    <3>1. <<m, n>> \in Nat \X Nat /\ <<m, n>>[1] = m /\ <<m, n>>[2] = n
      BY <2>1
    <3> QED
      BY <1>2, <3>1, Zenon
  <2>3. ~(m < n)
    BY <1>3, <2>2, Zenon
  <2> QED
    BY <2>1, <2>3
<1> QED
  BY <1>4, Zenon DEF Min

\* A nonempty set of numbers below n has a greatest one.
LEMMA MaxOf ==
  ASSUME NEW S, S \subseteq Nat, S # {}, NEW n \in Nat, \A q \in S : q < n
  PROVE  Max(S) \in S /\ \A q \in S : q <= Max(S)
<1> DEFINE U == {m \in Nat : \A q \in S : q <= m}
           u == Min(U)
<1>1. n \in U
  OBVIOUS
<1>2. u \in U /\ \A m \in U : u <= m
  BY <1>1, MinOf
<1>3. u \in S
  <2> SUFFICES ASSUME u \notin S PROVE FALSE
    OBVIOUS
  <2>1. \A q \in S : q \in Nat /\ q < u
    BY <1>2
  <2>2. u \in Nat /\ u - 1 \in U
    <3>1. PICK q \in S : TRUE
      OBVIOUS
    <3>2. u \in Nat /\ u >= 1
      <4> HIDE DEF u
      <4> QED
        BY <1>2, <2>1, <3>1
    <3> HIDE DEF u
    <3> QED
      BY <2>1, <3>2
  <2> QED
    BY <1>2, <2>2
<1>4. u \in S /\ \A q \in S : u >= q
  BY <1>2, <1>3
<1>5. Max(S) \in S /\ \A q \in S : Max(S) >= q
  <2> HIDE DEF u
  <2> QED
    BY ONLY <1>4, Zenon DEF Max
<1> QED
  BY <1>5

\* What belonging to SegmentMaps means.
LEMMA MapFacts ==
  ASSUME NEW m \in SegmentMaps
  PROVE  /\ DOMAIN m \subseteq Nat /\ m = [q \in DOMAIN m |-> m[q]]
         /\ \A q \in DOMAIN m : m[q] \subseteq Bundles
<1>1. PICK D \in SUBSET Nat : m \in [D -> SUBSET Bundles]
  BY DEF SegmentMaps
<1> QED
  BY <1>1

\* And how it is shown.
LEMMA MapIntro ==
  ASSUME NEW m, NEW D, D \subseteq Nat, m \in [D -> SUBSET Bundles]
  PROVE  m \in SegmentMaps
BY DEF SegmentMaps

\* The empty map.
LEMMA EmptyMap == << >> \in SegmentMaps /\ DOMAIN << >> = {}
<1>1. << >> \in [{} -> SUBSET Bundles]
  OBVIOUS
<1> QED
  BY <1>1, MapIntro

\* Adding the segments of n to m.
LEMMA AddedMap ==
  ASSUME NEW m \in SegmentMaps, NEW n \in SegmentMaps
  PROVE  /\ Added(m, n) \in SegmentMaps /\ DOMAIN Added(m, n) = DOMAIN m \cup DOMAIN n
         /\ \A q \in DOMAIN m : Added(m, n)[q] = m[q]
         /\ \A q \in DOMAIN n \ DOMAIN m : Added(m, n)[q] = n[q]
<1> DEFINE D == DOMAIN m \cup DOMAIN n
<1>1. /\ D \subseteq Nat /\ \A q \in DOMAIN m : m[q] \subseteq Bundles
      /\ \A q \in DOMAIN n : n[q] \subseteq Bundles
  BY MapFacts
<1>2. Added(m, n) \in [D -> SUBSET Bundles]
  BY <1>1 DEF Added
<1>3. Added(m, n) \in SegmentMaps
  <2> HIDE DEF D
  <2> QED
    BY <1>1, <1>2, MapIntro
<1> QED
  BY <1>3 DEF Added

\* A map of one segment.
LEMMA SingleMap ==
  ASSUME NEW q \in Nat, NEW b, b \subseteq Bundles
  PROVE  Single(q, b) \in SegmentMaps /\ DOMAIN Single(q, b) = {q} /\ Single(q, b)[q] = b
<1>1. Single(q, b) \in [{q} -> SUBSET Bundles]
  BY DEF Single
<1>2. Single(q, b) \in SegmentMaps
  BY <1>1, MapIntro
<1> QED
  BY <1>2 DEF Single

\* Keeping some segments.
LEMMA RestrictMap ==
  ASSUME NEW m \in SegmentMaps, NEW D, D \subseteq DOMAIN m
  PROVE  /\ Restrict(m, D) \in SegmentMaps /\ DOMAIN Restrict(m, D) = D
         /\ \A q \in D : Restrict(m, D)[q] = m[q]
<1>1. D \subseteq Nat /\ \A q \in D : m[q] \subseteq Bundles
  BY MapFacts
<1>2. Restrict(m, D) \in [D -> SUBSET Bundles]
  BY <1>1 DEF Restrict
<1>3. Restrict(m, D) \in SegmentMaps
  BY <1>1, <1>2, MapIntro
<1> QED
  BY <1>3 DEF Restrict

\* poll_next_bundle finds the first pending bundle if there is one.
LEMMA NextPendingIs ==
  ASSUME NEW st \in SubscriberStates, Pending(st) # {}
  PROVE  NextPending(st) \in Pending(st) /\ NextPending(st) \in Nat \X Bundles
<1> DEFINE P == Pending(st)
           Q == {r[1] : r \in P}
           q == Min(Q)
           B == {r[2] : r \in {o \in P : o[1] = q}}
           b == Min(B)
<1>1. P \subseteq Nat \X Bundles
  <2>1. st.segments \in SegmentMaps
    BY DEF SubscriberStates
  <2>2. \A d \in DOMAIN st.segments : d \in Nat /\ st.segments[d] \subseteq Bundles
    BY <2>1, MapFacts
  <2> QED
    BY <2>2 DEF Pending
<1>2. Bundles \subseteq Nat
  BY DEF Bundles
<1> HIDE DEF P
<1>3. Q \subseteq Nat /\ Q # {}
  <2>1. P # {}
    BY DEF P
  <2> QED
    BY <2>1, <1>1
<1>4. q \in Q /\ \A d \in Q : q <= d
  BY <1>3, MinOf
<1> HIDE DEF q
<1>5. B \subseteq Nat /\ B # {}
  BY <1>1, <1>2, <1>4
<1>6. b \in B /\ \A d \in B : b <= d
  BY <1>5, MinOf
<1> HIDE DEF b
<1>7. PICK r \in P : r[1] = q /\ r[2] = b
  BY <1>6
<1>8. \A o \in P : r[1] < o[1] \/ (r[1] = o[1] /\ r[2] <= o[2])
  <2> SUFFICES ASSUME NEW o \in P PROVE r[1] < o[1] \/ (r[1] = o[1] /\ r[2] <= o[2])
    OBVIOUS
  <2>1. o[1] \in Q /\ (o[1] = q => o[2] \in B)
    OBVIOUS
  <2>2. q <= o[1] /\ (o[1] = q => b <= o[2])
    BY <1>4, <1>6, <2>1
  <2>3. o[1] \in Nat /\ q \in Nat
    BY <1>3, <1>4, <2>1
  <2> QED
    BY <1>7, <2>2, <2>3
<1>9. NextPending(st) \in P
  BY <1>7, <1>8, Zenon DEF NextPending, P
<1> QED
  BY <1>1, <1>9 DEF P

----------------------------------------------------------------------------
(* The log.                                                                *)

\* The positions reload_rotated_files adds up: one per file, each the one before
\* plus the size of the file.
LEMMA ReloadIs ==
  ASSUME NEW f \in Seq(Files)
  PROVE  LET e == ReloadRotatedFiles(f)
         IN  /\ e \in Seq(Nat) /\ Len(e) = Len(f)
             /\ Len(f) > 0 => e[1] = Len(f[1].data)
             /\ \A i, j \in 1..Len(f) : j = i + 1 => e[j] = e[i] + Len(f[j].data)
<1> DEFINE n == Len(f)
           P(m, g) == g \in [0..m -> Nat] /\ g[0] = 0
                      /\ \A k \in 1..m : g[k] = g[k - 1] + Len(f[k].data)
           Bad == {m \in 0..n : ~(\E g : P(m, g))}
<1>1. n \in Nat /\ \A k \in 1..n : Len(f[k].data) \in Nat
  <2>1. \A k \in 1..n : f[k] \in Files
    OBVIOUS
  <2> QED
    BY <2>1 DEF Files
<1>2. Bad = {}
  <2> SUFFICES ASSUME Bad # {} PROVE FALSE
    OBVIOUS
  <2> DEFINE m == Min(Bad)
  <2>1. m \in Bad /\ \A k \in Bad : m <= k
    <3>1. Bad \subseteq Nat
      BY <1>1
    <3> HIDE DEF Bad
    <3> QED
      BY <3>1, MinOf
  <2>2. m # 0
    <3> DEFINE g == [k \in 0..0 |-> 0]
    <3>1. P(0, g)
      OBVIOUS
    <3> QED
      BY <2>1, <3>1
  <2>3. m - 1 \in 0..n /\ m \in 1..n
    <3> HIDE DEF m
    <3> QED
      BY <1>1, <2>1, <2>2
  <2> HIDE DEF m
  <2>4. m - 1 \notin Bad
    <3> HIDE DEF Bad, n
    <3> QED
      BY <2>1, <2>3, <1>1
  <2>5. PICK g : P(m - 1, g)
    BY <2>3, <2>4
  <2> DEFINE h == [k \in 0..m |-> IF k = m THEN g[m - 1] + Len(f[m].data) ELSE g[k]]
  <2>6. P(m, h)
    <3> HIDE DEF n
    <3>1. m - 1 \in 0..(m - 1) /\ g[m - 1] \in Nat /\ Len(f[m].data) \in Nat
      BY <1>1, <2>3, <2>5
    <3>2. h \in [0..m -> Nat]
      BY <1>1, <2>3, <2>5, <3>1
    <3>3. h[0] = 0
      BY <1>1, <2>3, <2>5
    <3>4. ASSUME NEW k \in 1..m PROVE h[k] = h[k - 1] + Len(f[k].data)
      <4>0. m \in Nat /\ k \in Nat /\ k - 1 \in 0..m /\ k - 1 # m
        BY <1>1, <2>3
      <4>1. CASE k = m
        BY ONLY <4>0, <4>1, <2>3
      <4>2. CASE k # m
        <5>1. k \in 1..(m - 1)
          BY ONLY <4>0, <4>2, k \in 1..m
        <5>2. h[k] = g[k] /\ h[k - 1] = g[k - 1]
          BY ONLY <4>0, <4>2, k \in 1..m
        <5> QED
          BY ONLY <5>1, <5>2, <2>5
      <4> QED
        BY <4>1, <4>2
    <3> QED
      BY <3>2, <3>3, <3>4
  <2> QED
    BY <2>1, <2>6
<1>3. PICK g : P(n, g)
  BY <1>1, <1>2
<1> DEFINE Eq(w) == w = [i \in 0..Len(f) |-> IF i = 0 THEN 0 ELSE w[i - 1] + Len(f[i].data)]
           w == CHOOSE v : Eq(v)
<1>4. Eq(g)
  BY <1>1, <1>3
<1>5. Eq(w)
  <2> HIDE DEF Eq
  <2> QED
    BY <1>4, Zenon
<1>6. ReloadRotatedFiles(f) = [i \in 1..Len(f) |-> w[i]]
  BY Zenon DEF ReloadRotatedFiles
<1> HIDE DEF w
<1>7. w[0] = 0 /\ \A k \in 1..n : w[k] = w[k - 1] + Len(f[k].data)
  BY <1>1, <1>5
<1>8. \A k \in 0..n : w[k] = g[k]
  <2> DEFINE Off == {k \in 0..n : w[k] # g[k]}
  <2> SUFFICES ASSUME Off # {} PROVE FALSE
    OBVIOUS
  <2> DEFINE m == Min(Off)
  <2>1. m \in Off /\ \A k \in Off : m <= k
    <3>1. Off \subseteq Nat
      BY <1>1
    <3> HIDE DEF Off
    <3> QED
      BY <3>1, MinOf
  <2> HIDE DEF m
  <2>2. m \in 1..n /\ m - 1 \in 0..n /\ m - 1 \notin Off
    BY <1>1, <1>3, <1>7, <2>1
  <2>3. w[m - 1] = g[m - 1]
    BY <2>2
  <2>4. w[m] = g[m]
    BY <1>3, <1>7, <2>2, <2>3
  <2> QED
    BY <2>1, <2>4
<1>9. \A k \in 0..n : w[k] \in Nat
  BY <1>3, <1>8
<1> DEFINE e == ReloadRotatedFiles(f)
<1>10. e = [i \in 1..n |-> w[i]] /\ e \in Seq(Nat) /\ Len(e) = n
  BY <1>1, <1>6, <1>9
<1>11. n > 0 => e[1] = Len(f[1].data)
  <2> HIDE DEF e, n
  <2> QED
    BY <1>1, <1>7, <1>10
<1>12. \A i, j \in 1..n : j = i + 1 => e[j] = e[i] + Len(f[j].data)
  <2> HIDE DEF e, n
  <2> QED
    BY <1>1, <1>7, <1>10
<1> QED
  BY <1>10, <1>11, <1>12

Found(d) == Append(d.rotated, d.active)

\* The files that are read before file i.
ReadBefore(d, i) ==
  {j \in 1..Len(Found(d)) : \/ Found(d)[j].start < Found(d)[i].start
                            \/ Found(d)[j].start = Found(d)[i].start /\ j < i}

\* The files that are there, oldest rotated file first and the active one last.
LEMMA FoundIs ==
  ASSUME NEW d \in Disks
  PROVE  /\ Found(d) \in Seq(Files) /\ Len(Found(d)) = Len(d.rotated) + 1 /\ Len(d.rotated) \in Nat
         /\ Found(d)[Len(d.rotated) + 1] = d.active
         /\ \A i \in 1..Len(d.rotated) : Found(d)[i] = d.rotated[i]
         /\ \A i \in 1..Len(Found(d)) : Found(d)[i] \in Files /\ Found(d)[i].start \in Nat
<1>1. d.rotated \in Seq(Files) /\ d.active \in Files
  BY DEF Disks
<1>2. /\ Found(d) \in Seq(Files) /\ Len(Found(d)) = Len(d.rotated) + 1 /\ Len(d.rotated) \in Nat
      /\ Found(d)[Len(d.rotated) + 1] = d.active
      /\ \A i \in 1..Len(d.rotated) : Found(d)[i] = d.rotated[i]
  <2> DEFINE q == d.rotated
             a == d.active
  <2>1. q \in Seq(Files) /\ a \in Files
    BY <1>1
  <2> HIDE DEF q, a
  <2>2. /\ Append(q, a) \in Seq(Files) /\ Len(Append(q, a)) = Len(q) + 1 /\ Len(q) \in Nat
        /\ Append(q, a)[Len(q) + 1] = a /\ \A i \in 1..Len(q) : Append(q, a)[i] = q[i]
    BY <2>1
  <2> QED
    BY <2>2 DEF q, a, Found
<1>3. \A i \in 1..Len(Found(d)) : Found(d)[i] \in Files
  BY <1>2
<1> QED
  BY <1>2, <1>3 DEF Files

\* The files read before one are fewer than those read before a later one, and of two
\* files one is read first.
LEMMA RankFacts ==
  ASSUME NEW d \in Disks, NEW i \in 1..Len(Found(d)), NEW j \in 1..Len(Found(d))
  PROVE  /\ Cardinality(ReadBefore(d, i)) \in 0..(Len(Found(d)) - 1)
         /\ i \in ReadBefore(d, j) => Cardinality(ReadBefore(d, i)) < Cardinality(ReadBefore(d, j))
         /\ i # j => i \in ReadBefore(d, j) \/ j \in ReadBefore(d, i)
<1> DEFINE n == Len(Found(d))
<1>1. n \in Nat /\ n >= 1 /\ \A k \in 1..n : Found(d)[k].start \in Nat
  BY FoundIs
<1>2. IsFiniteSet(1..n) /\ Cardinality(1..n) = n
  <2> HIDE DEF n
  <2> QED
    BY <1>1, FS_Interval
<1>3. ASSUME NEW k \in 1..n
      PROVE  IsFiniteSet(ReadBefore(d, k)) /\ Cardinality(ReadBefore(d, k)) \in 0..(n - 1)
  <2>1. ReadBefore(d, k) \subseteq (1..n) \ {k}
    <3>1. k \notin ReadBefore(d, k)
      BY <1>1 DEF ReadBefore
    <3> QED
      BY <3>1 DEF ReadBefore
  <2>2. IsFiniteSet((1..n) \ {k}) /\ Cardinality((1..n) \ {k}) = n - 1
    <3> HIDE DEF n
    <3> QED
      BY <1>2, FS_RemoveElement
  <2>3. /\ IsFiniteSet(ReadBefore(d, k)) /\ Cardinality(ReadBefore(d, k)) <= n - 1
        /\ Cardinality(ReadBefore(d, k)) \in Nat
    <3> HIDE DEF n
    <3>1. IsFiniteSet(ReadBefore(d, k)) /\ Cardinality(ReadBefore(d, k)) <= n - 1
      BY <2>1, <2>2, FS_Subset
    <3> QED
      BY <3>1, FS_CardinalityType
  <2> HIDE DEF n
  <2> QED
    BY <1>1, <2>3
<1>4. ASSUME i \in ReadBefore(d, j)
      PROVE  Cardinality(ReadBefore(d, i)) < Cardinality(ReadBefore(d, j))
  <2> DEFINE S == ReadBefore(d, j)
             T == ReadBefore(d, i)
  <2>1. T \subseteq S
    BY <1>1, <1>4 DEF ReadBefore
  <2>2. i \notin T
    BY <1>1 DEF ReadBefore
  <2>3. T # S
    BY <1>4, <2>2
  <2>4. IsFiniteSet(S) /\ Cardinality(S) \in Nat /\ Cardinality(T) \in Nat
    BY <1>3
  <2> HIDE DEF S, T
  <2>5. Cardinality(T) <= Cardinality(S) /\ Cardinality(T) # Cardinality(S)
    BY <2>1, <2>3, <2>4, FS_Subset
  <2>6. Cardinality(T) < Cardinality(S)
    BY <2>4, <2>5
  <2> QED
    BY <2>6 DEF S, T
<1>5. ASSUME i # j
      PROVE  i \in ReadBefore(d, j) \/ j \in ReadBefore(d, i)
  BY <1>1, <1>5 DEF ReadBefore
<1> QED
  BY <1>3, <1>4, <1>5

\* Every place in the reading order is taken by exactly one file.
LEMMA RankOnto ==
  ASSUME NEW d \in Disks, NEW k \in 1..Len(Found(d))
  PROVE  \E i \in 1..Len(Found(d)) : Cardinality(ReadBefore(d, i)) = k - 1
<1> DEFINE n == Len(Found(d))
           rank == [i \in 1..n |-> Cardinality(ReadBefore(d, i))]
<1>1. n \in Nat /\ n >= 1
  BY FoundIs
<1>2. IsFiniteSet(1..n) /\ Cardinality(1..n) = n /\ IsFiniteSet(0..(n - 1)) /\ Cardinality(0..(n - 1)) = n
  <2> HIDE DEF n
  <2> QED
    BY <1>1, FS_Interval
<1>3. \A i \in 1..n : rank[i] \in 0..(n - 1)
  BY RankFacts
<1>4. \A i, j \in 1..n : i # j => rank[i] # rank[j]
  <2> SUFFICES ASSUME NEW i \in 1..n, NEW j \in 1..n, i # j PROVE rank[i] # rank[j]
    OBVIOUS
  <2>1. rank[i] < rank[j] \/ rank[j] < rank[i]
    BY RankFacts
  <2>2. rank[i] \in Nat /\ rank[j] \in Nat
    BY <1>1, <1>3
  <2> HIDE DEF rank
  <2> QED
    BY <2>1, <2>2
<1> HIDE DEF n
<1>6. rank \in [1..n -> 0..(n - 1)]
  BY <1>3
<1>8. rank \in Injection(1..n, 0..(n - 1))
  BY <1>4, <1>6 DEF Injection, IsInjective
<1>9. rank \in Surjection(1..n, 0..(n - 1))
  <2> HIDE DEF rank
  <2> QED
    BY <1>2, <1>8, FS_Injection
<1>10. k \in 1..n /\ k - 1 \in 0..(n - 1)
  <2>1. k \in 1..n
    BY DEF n
  <2> QED
    BY <1>1, <2>1
<1>11. \E i \in 1..n : rank[i] = k - 1
  BY <1>9, <1>10 DEF Surjection
<1> QED
  BY <1>11 DEF n

\* The k-th file in the reading order is one that is there, with k-1 before it.
LEMMA ReadOrderIs ==
  ASSUME NEW d \in Disks
  PROVE  /\ ReadOrder(d) \in Seq(Files) /\ Len(ReadOrder(d)) = Len(d.rotated) + 1
         /\ \A k \in 1..(Len(d.rotated) + 1) :
              \E i \in 1..(Len(d.rotated) + 1) :
                ReadOrder(d)[k] = Found(d)[i] /\ Cardinality(ReadBefore(d, i)) = k - 1
<1> DEFINE n == Len(Found(d))
           pick == [k \in 1..n |-> CHOOSE i \in 1..n : Cardinality(ReadBefore(d, i)) = k - 1]
<1>1. n = Len(d.rotated) + 1 /\ n \in Nat /\ \A i \in 1..n : Found(d)[i] \in Files
  BY FoundIs
<1>2. ReadOrder(d) = [k \in 1..n |-> Found(d)[pick[k]]]
  <2>1. ReadOrder(d) = [k \in 1..n |->
                          Found(d)[CHOOSE i \in 1..n : Cardinality(ReadBefore(d, i)) = k - 1]]
    BY Zenon DEF ReadOrder, Found, ReadBefore
  <2> QED
    BY <2>1
<1>3. \A k \in 1..n : pick[k] \in 1..n /\ Cardinality(ReadBefore(d, pick[k])) = k - 1
  <2> SUFFICES ASSUME NEW k \in 1..n
               PROVE  pick[k] \in 1..n /\ Cardinality(ReadBefore(d, pick[k])) = k - 1
    OBVIOUS
  <2>1. \E i \in 1..n : Cardinality(ReadBefore(d, i)) = k - 1
    BY RankOnto
  <2>2. pick[k] = CHOOSE i \in 1..n : Cardinality(ReadBefore(d, i)) = k - 1
    BY Zenon
  <2> HIDE DEF pick
  <2> QED
    BY <2>1, <2>2, Zenon
<1> HIDE DEF n, pick
<1>4. ReadOrder(d) \in Seq(Files) /\ Len(ReadOrder(d)) = n
  BY <1>1, <1>2, <1>3
<1>5. \A k \in 1..n : \E i \in 1..n :
        ReadOrder(d)[k] = Found(d)[i] /\ Cardinality(ReadBefore(d, i)) = k - 1
  BY <1>2, <1>3
<1> QED
  BY <1>1, <1>4, <1>5

\* The smaller of two numbers.
LEMMA MinOfTwo ==
  ASSUME NEW a \in Nat, NEW b \in Nat
  PROVE  Min({a, b}) \in Nat /\ Min({a, b}) <= a /\ Min({a, b}) <= b /\ Min({a, b}) \in {a, b}
<1> DEFINE S == {a, b}
<1>1. S \subseteq Nat /\ S # {} /\ a \in S /\ b \in S
  OBVIOUS
<1> HIDE DEF S
<1>2. Min(S) \in S /\ \A j \in S : Min(S) <= j
  BY <1>1, MinOf
<1> QED
  BY <1>1, <1>2 DEF S

\* What open() makes of the log: positions added up, and a cursor within the log.
LEMMA OpenWriterIs ==
  ASSUME NEW d \in Disks
  PROVE  LET w == OpenWriter(d)
             ends == ReloadRotatedFiles(d.rotated)
             rotated_end == IF ends = << >> THEN 0 ELSE Last(ends)
         IN  /\ w \in Writers /\ Len(w.ends) = Len(d.rotated) /\ w.ends = ends
             /\ w.start = d.active.start /\ rotated_end \in Nat
             /\ w.cursor <= d.sidecar /\ w.cursor <= rotated_end + Len(d.active.data)
<1> DEFINE w == OpenWriter(d)
           ends == ReloadRotatedFiles(d.rotated)
           rotated_end == IF ends = << >> THEN 0 ELSE Last(ends)
           c == Min({d.sidecar, rotated_end + Len(d.active.data)})
<1>1. d.rotated \in Seq(Files) /\ d.active \in Files /\ d.sidecar \in Nat
  BY DEF Disks
<1>2. d.active.start \in Nat /\ Len(d.active.data) \in Nat
  BY <1>1 DEF Files
<1>3. ends \in Seq(Nat) /\ Len(ends) = Len(d.rotated)
  BY <1>1, ReloadIs
<1>4. rotated_end \in Nat
  <2> HIDE DEF ends
  <2>1. ends # << >> => Last(ends) \in Nat
    BY <1>3 DEF Last
  <2> QED
    BY <2>1
<1>5. w = [ends |-> ends, start |-> d.active.start, cursor |-> c]
  BY Zenon DEF OpenWriter
<1> HIDE DEF rotated_end, ends
<1>6. c \in Nat /\ c <= d.sidecar /\ c <= rotated_end + Len(d.active.data)
  BY <1>1, <1>2, <1>4, MinOfTwo
<1> HIDE DEF c, w
<1>7. w \in Writers /\ w.ends = ends /\ w.start = d.active.start /\ w.cursor = c
  BY <1>2, <1>3, <1>5, <1>6 DEF Writers
<1> QED
  BY <1>3, <1>4, <1>6, <1>7 DEF w, ends, rotated_end

\* Replay starts at the sidecar's position or at the end of the last file.
LEMMA ReplayFromIs ==
  ASSUME NEW d \in Disks
  PROVE  /\ ReplayFrom(d) \in Nat /\ WalEndPosition(d) \in Nat
         /\ ReplayFrom(d) \in {d.sidecar, WalEndPosition(d)}
<1>1. ReadOrder(d) \in Seq(Files) /\ Len(ReadOrder(d)) = Len(d.rotated) + 1 /\ Len(d.rotated) \in Nat
  BY ReadOrderIs, FoundIs
<1>2. Last(ReadOrder(d)) \in Files
  BY <1>1 DEF Last
<1>3. WalEndPosition(d) \in Nat
  BY <1>2 DEF WalEndPosition, FileEnd, Files
<1>4. d.sidecar \in Nat
  BY DEF Disks
<1> QED
  BY <1>3, <1>4 DEF ReplayFrom

\* The entries read from f at pos come in order and lie between pos and the end of f.
LEMMA EntriesFromIs ==
  ASSUME NEW f \in Files, NEW pos \in Nat
  PROVE  LET e == EntriesFrom(f, pos)
         IN  /\ e \in Seq(ReadAhead)
             /\ \A k \in 1..Len(e) : /\ pos <= e[k].next /\ e[k].next <= FileEnd(f)
                                     /\ \A l \in 1..k : e[l].next <= e[k].next
<1> DEFINE first == IF pos > f.start THEN pos - f.start ELSE 0
           n == IF first < Len(f.data) THEN Len(f.data) - first ELSE 0
           e == EntriesFrom(f, pos)
<1>1. f.start \in Nat /\ f.data \in Seq(Bundles) /\ Len(f.data) \in Nat
  BY DEF Files
<1>2. first \in Nat /\ n \in Nat /\ f.start + first >= pos
  BY <1>1
<1>3. n > 0 => first + n = Len(f.data)
  BY <1>1
<1>4. e = [i \in 1..n |-> [bundle |-> f.data[first + i], next |-> f.start + first + i]]
  BY Zenon DEF EntriesFrom
<1> HIDE DEF first, n, e
<1>5. \A i \in 1..n : f.data[first + i] \in Bundles
  <2> DEFINE x == f.data
  <2>1. x \in Seq(Bundles) /\ Len(x) \in Nat /\ (n > 0 => first + n = Len(x))
    BY <1>1, <1>3
  <2> HIDE DEF x
  <2>2. \A i \in 1..n : x[first + i] \in Bundles
    <3> SUFFICES ASSUME NEW i \in 1..n PROVE x[first + i] \in Bundles
      OBVIOUS
    <3>1. first + i \in 1..Len(x)
      BY <1>2, <2>1
    <3> QED
      BY <2>1, <3>1
  <2> QED
    BY <2>2 DEF x
<1>6. \A i \in 1..n : e[i] \in ReadAhead /\ e[i].next = f.start + first + i
  <2> SUFFICES ASSUME NEW i \in 1..n
               PROVE  e[i] \in ReadAhead /\ e[i].next = f.start + first + i
    OBVIOUS
  <2> DEFINE b == f.data[first + i]
             x == f.start + first + i
  <2>1. b \in Bundles /\ x \in Nat
    <3>1. b \in Bundles
      BY <1>5
    <3>2. i \in Nat /\ first \in Nat /\ f.start \in Nat
      BY <1>1, <1>2
    <3>3. x \in Nat
      BY ONLY <3>2
    <3> QED
      BY <3>1, <3>3
  <2>2. e[i] = [bundle |-> b, next |-> x]
    BY <1>4
  <2> HIDE DEF b, x
  <2>3. e[i] \in ReadAhead /\ e[i].next = x
    BY ONLY <2>1, <2>2 DEF ReadAhead
  <2> QED
    BY <2>3 DEF x
<1>7. e \in Seq(ReadAhead) /\ Len(e) = n
  BY <1>2, <1>4, <1>6
<1>8. ASSUME NEW k \in 1..n
      PROVE  /\ pos <= e[k].next /\ e[k].next <= FileEnd(f)
             /\ \A l \in 1..k : e[l].next <= e[k].next
  <2>1. e[k].next = f.start + first + k
    BY <1>6
  <2>2. \A l \in 1..k : e[l].next = f.start + first + l
    BY <1>2, <1>6
  <2>3. FileEnd(f) = f.start + Len(f.data)
    BY DEF FileEnd
  <2> DEFINE x == f.start
             z == Len(f.data)
  <2>4. x \in Nat /\ z \in Nat /\ first \in Nat /\ n \in Nat /\ x + first >= pos /\ k \in 1..n
        /\ (n > 0 => first + n = z)
    BY <1>1, <1>2, <1>3
  <2> HIDE DEF x, z
  <2>5. pos <= x + first + k /\ x + first + k <= x + z
    BY ONLY <2>4, pos \in Nat
  <2>6. \A l \in 1..k : x + first + l <= x + first + k
    BY ONLY <2>4
  <2> QED
    BY <2>1, <2>2, <2>3, <2>5, <2>6 DEF x, z
<1> QED
  BY <1>7, <1>8 DEF e

----------------------------------------------------------------------------
(* The invariant and the type invariant.                                   *)

\* The invariant gives the types of the fields.
LEMMA Fields ==
  ASSUME IInv
  PROVE  /\ disk.rotated \in Seq(Files) /\ disk.active \in Files /\ disk.sidecar \in Nat
         /\ disk.active.start \in Nat /\ disk.active.data \in Seq(Bundles)
         /\ Len(disk.rotated) \in Nat /\ Len(disk.active.data) \in Nat
         /\ writer.ends \in Seq(Nat) /\ writer.start \in Nat /\ writer.cursor \in Nat
         /\ Len(writer.ends) \in Nat
         /\ job.at \in {"idle", "append", "retry", "rename", "reopen", "segment", "write",
                        "persist", "purge", "cleanup"}
         /\ job.bundle \in 0..MaxBundles /\ job.seq \in Nat /\ job.seg \subseteq Bundles
         /\ job.cursor \in Nat /\ job.then \in {"none", "append", "ingest", "flush", "replay"}
<1>1. disk \in Disks /\ writer \in Writers /\ job \in Jobs
  BY DEF IInv, LogTyped, EngineTyped
<1>2. disk.rotated \in Seq(Files) /\ disk.active \in Files /\ disk.sidecar \in Nat
  BY <1>1 DEF Disks
<1>3. writer.ends \in Seq(Nat) /\ writer.start \in Nat /\ writer.cursor \in Nat
  BY <1>1 DEF Writers
<1>4. disk.active.start \in Nat /\ disk.active.data \in Seq(Bundles)
  BY <1>2 DEF Files
<1>5. Len(disk.rotated) \in Nat /\ Len(disk.active.data) \in Nat /\ Len(writer.ends) \in Nat
  BY <1>2, <1>3, <1>4
<1>6. /\ job.at \in {"idle", "append", "retry", "rename", "reopen", "segment", "write",
                     "persist", "purge", "cleanup"}
      /\ job.bundle \in 0..MaxBundles /\ job.seq \in Nat /\ job.seg \subseteq Bundles
      /\ job.cursor \in Nat /\ job.then \in {"none", "append", "ingest", "flush", "replay"}
  BY <1>1 DEF Jobs
<1> QED
  BY <1>2, <1>3, <1>4, <1>5, <1>6

\* So it implies the type invariant.
LEMMA IInvTypeOK == IInv => TypeOK
<1> SUFFICES ASSUME IInv PROVE TypeOK
  OBVIOUS
<1>1. \A f \in Range(disk.rotated) \cup {disk.active} : IsFile(f)
  <2>1. \A f \in Range(disk.rotated) : f \in Files
    BY Fields DEF Range
  <2>2. \A f \in Files : IsFile(f)
    BY DEF Files, IsFile
  <2> QED
    BY Fields, <2>1, <2>2
<1>2. IsSegmentMap(files)
  BY MapFacts DEF IInv, SegmentsTyped, IsSegmentMap
<1>3. \A s \in Subscribers :
        /\ progress[s].oldest \in Nat /\ IsSegmentMap(progress[s].entries)
        /\ IsSegmentMap(registry[s].segments) /\ registry[s].claimed \subseteq Nat \X Bundles
  <2> SUFFICES ASSUME NEW s \in Subscribers
               PROVE  /\ progress[s].oldest \in Nat /\ IsSegmentMap(progress[s].entries)
                      /\ IsSegmentMap(registry[s].segments) /\ registry[s].claimed \subseteq Nat \X Bundles
    OBVIOUS
  <2>1. progress[s] \in ProgressFiles /\ registry[s] \in SubscriberStates
    BY DEF IInv, SegmentsTyped
  <2>2. /\ progress[s].oldest \in Nat /\ progress[s].entries \in SegmentMaps
        /\ registry[s].segments \in SegmentMaps /\ registry[s].claimed \subseteq Nat \X Bundles
    BY <2>1 DEF ProgressFiles, SubscriberStates
  <2> QED
    BY <2>2, MapFacts DEF IsSegmentMap
<1>4. /\ phase \in {"down", "replay", "up"} /\ open_segment \subseteq Bundles /\ segment_cursor \in Nat
      /\ store \subseteq DOMAIN files /\ dirty \subseteq Subscribers
      /\ offered \in 0..MaxBundles /\ accepted \subseteq 1..offered
      /\ Len(writer.ends) = (IF phase = "down" THEN 0 ELSE Len(disk.rotated))
  BY DEF IInv, LogTyped, SegmentsTyped, EngineTyped
<1> QED
  BY <1>1, <1>2, <1>3, <1>4, Fields DEF TypeOK

----------------------------------------------------------------------------
(* Steps that leave segments, subscribers and progress files alone.        *)

\* These parts of the invariant are then kept.
LEMMA SameSegments ==
  ASSUME IInv, UNCHANGED <<files, progress, registry, store, dirty, done>>
  PROVE  SegmentsTyped' /\ ProgressHonest' /\ \A n : Above(n)' <=> Above(n)
BY DEF IInv, SegmentsTyped, ProgressHonest, Above

\* The numbers stay sound while the next number and the one being written do.
LEMMA SameNumbers ==
  ASSUME IInv, UNCHANGED <<files, progress, registry, store, dirty, done>>,
         phase' # "down" => phase # "down",
         next_segment_seq' = next_segment_seq, job.at # "write", job'.at # "write"
  PROVE  NumbersSound'
BY SameSegments DEF IInv, NumbersSound

\* Replay opens the next file, or skips one that is gone.
LEMMA StepReplayOpenFile == IInv /\ ReplayOpenFile => IInv'
<1> SUFFICES ASSUME IInv, ReplayOpenFile PROVE IInv'
  OBVIOUS
<1>1. SegmentsTyped' /\ ProgressHonest'
  BY SameSegments DEF ReplayOpenFile, on_disk, subscriber, history
<1>2. NumbersSound'
  BY SameNumbers DEF ReplayOpenFile, on_disk, engine, subscriber, history, Idle
<1>3. EngineTyped' /\ JobSound'
  BY DEF IInv, EngineTyped, JobSound, ReplayOpenFile, on_disk, engine, history
<1>4. LogTyped'
  <2> DEFINE f == Head(replay.files)
             x == IF f \in Range(disk.rotated) \cup {disk.active} THEN EntriesFrom(f, replay.pos) ELSE << >>
  <2>1. replay' = [replay EXCEPT !.files = Tail(@), !.entries = x]
    BY Zenon DEF ReplayOpenFile
  <2>2. x \in Seq(ReadAhead)
    <3>1. f \in Range(disk.rotated) => f \in Files
      BY Fields DEF Range
    <3>2. f \in Range(disk.rotated) \cup {disk.active} => f \in Files
      BY <3>1, Fields
    <3>3. replay.pos \in Nat
      BY DEF IInv, LogTyped
    <3> QED
      BY <3>2, <3>3, EntriesFromIs
  <2>3. replay = [files |-> replay.files, pos |-> replay.pos, entries |-> replay.entries]
        /\ replay.pos \in Nat
    BY DEF IInv, LogTyped
  <2> DEFINE y == Tail(replay.files)
  <2> HIDE DEF x, y
  <2>4. replay' = [files |-> y, pos |-> replay.pos, entries |-> x]
    BY <2>1, <2>3 DEF y
  <2>5. replay'.files = y /\ replay'.pos = replay.pos /\ replay'.entries = x
    BY ONLY <2>4
  <2> QED
    BY <2>2, <2>3, <2>4, <2>5 DEF IInv, LogTyped, ReplayOpenFile, on_disk, engine
<1> QED
  BY <1>1, <1>2, <1>3, <1>4 DEF IInv

\* Replay hands an entry to the open segment.
LEMMA StepReplayEntry == IInv /\ ReplayEntry => IInv'
<1> SUFFICES ASSUME IInv, ReplayEntry PROVE IInv'
  OBVIOUS
<1> DEFINE e == Head(replay.entries)
           x == Tail(replay.entries)
<1>0. /\ replay = [files |-> replay.files, pos |-> replay.pos, entries |-> replay.entries]
      /\ replay.entries \in Seq(ReadAhead) /\ replay.entries # << >>
  BY DEF IInv, LogTyped, ReplayEntry
<1>1. e \in ReadAhead /\ x \in Seq(ReadAhead)
  BY <1>0
<1>2. e.bundle \in Bundles /\ e.next \in Nat
  BY <1>1 DEF ReadAhead
<1>3. /\ replay' = [replay EXCEPT !.entries = Tail(@), !.pos = e.next]
      /\ job' = [Idle EXCEPT !.at = "segment", !.bundle = e.bundle, !.cursor = e.next]
  BY Zenon DEF ReplayEntry
<1> DEFINE b == e.bundle
           c == e.next
<1> HIDE DEF e, x
<1>4. replay' = [files |-> replay.files, pos |-> c, entries |-> x]
  BY <1>0, <1>3 DEF x
<1>5. replay'.pos = c /\ replay'.entries = x /\ replay'.files = replay.files
  BY ONLY <1>4
<1>6. job' = [at |-> "segment", bundle |-> b, then |-> "none", seq |-> 0, seg |-> {}, cursor |-> c]
  BY <1>3 DEF Idle
<1>7. b \in Bundles /\ c \in Nat /\ b \in 0..MaxBundles
  BY <1>2 DEF Bundles
<1> HIDE DEF b, c
<1>8. /\ job' \in Jobs /\ job'.at = "segment" /\ job'.bundle = b /\ job'.then = "none"
  BY <1>6, <1>7 DEF Jobs
<1>9. SegmentsTyped' /\ ProgressHonest'
  BY SameSegments DEF ReplayEntry, on_disk, subscriber, history
<1>10. NumbersSound'
  BY <1>8, SameNumbers DEF ReplayEntry, on_disk, engine, subscriber, history, Idle
<1>11. EngineTyped' /\ JobSound'
  BY <1>7, <1>8 DEF IInv, EngineTyped, JobSound, ReplayEntry, on_disk, engine, history
<1>12. LogTyped'
  BY <1>1, <1>4, <1>5, <1>7 DEF IInv, LogTyped, ReplayEntry, on_disk, engine
<1> QED
  BY <1>9, <1>10, <1>11, <1>12 DEF IInv

\* The first state has an empty log, no segments and no process.
LEMMA InitIInv == Init => IInv
<1> SUFFICES ASSUME Init PROVE IInv
  OBVIOUS
<1>1. NewFile(0) \in Files /\ << >> \in Seq(Files) /\ << >> \in Seq(Nat) /\ << >> \in Seq(ReadAhead)
  BY DEF NewFile, Files
<1>2. EmptyDisk \in Disks /\ EmptyDisk.rotated = << >>
  BY <1>1 DEF EmptyDisk, Disks
<1>3. ClosedWriter \in Writers /\ Len(ClosedWriter.ends) = 0
  BY <1>1 DEF ClosedWriter, Writers
<1>4. LogTyped
  BY <1>1, <1>2, <1>3 DEF Init, LogTyped, NoReplay
<1>5. NewSubscriber \in SubscriberStates /\ NoProgress \in ProgressFiles
  BY EmptyMap DEF NewSubscriber, NoProgress, SubscriberStates, ProgressFiles
<1>6. SegmentsTyped
  BY <1>5, EmptyMap DEF Init, SegmentsTyped
<1>7. Idle \in Jobs /\ Idle.at = "idle" /\ Idle.then = "none" /\ Idle.bundle = 0
  BY EngineAssumption DEF Idle, Jobs
<1>8. EngineTyped /\ JobSound
  BY <1>7, EngineAssumption DEF Init, EngineTyped, JobSound
<1>9. \A s \in Subscribers : /\ registry[s].segments = << >> /\ progress[s].entries = << >>
                             /\ progress[s].oldest = 0
  BY DEF Init, NewSubscriber, NoProgress
<1>10. Above(0) /\ ProgressHonest
  BY <1>9, EmptyMap DEF Init, Above, ProgressHonest
<1>11. NumbersSound
  BY <1>10 DEF Init, NumbersSound
<1> QED
  BY <1>4, <1>6, <1>8, <1>10, <1>11 DEF IInv

\* The job of a step that only moves on.
LEMMA JobMoves ==
  ASSUME job \in Jobs, NEW a \in {"idle", "append", "retry", "rename", "reopen", "segment",
                                  "write", "persist", "purge", "cleanup"},
         job' = [job EXCEPT !.at = a]
  PROVE  /\ job' \in Jobs /\ job'.at = a /\ job'.bundle = job.bundle /\ job'.then = job.then
         /\ job'.seq = job.seq /\ job'.seg = job.seg /\ job'.cursor = job.cursor
BY DEF Jobs

\* The entry is at the end of the active file.
LEMMA StepAppendToWal == IInv /\ AppendToWal => IInv'
<1> SUFFICES ASSUME IInv, AppendToWal PROVE IInv'
  OBVIOUS
<1> DEFINE a == IF MustRotate(disk') THEN "rename" ELSE "segment"
           c == ToWalPosition(disk', writer)
           x == Append(disk.active.data, job.bundle)
<1>1. disk' = [rotated |-> disk.rotated, sidecar |-> disk.sidecar,
               active |-> [start |-> disk.active.start, data |-> x]]
  <2>1. disk \in Disks /\ disk.active \in Files
    BY Fields DEF IInv, LogTyped
  <2>2. disk' = AppendEntry(disk, job.bundle)
    BY DEF AppendToWal
  <2> QED
    BY <2>1, <2>2 DEF AppendEntry, Disks, Files
<1>2. job.bundle \in Bundles /\ x \in Seq(Bundles)
  <2>1. job.bundle \in Bundles
    BY DEF IInv, JobSound, AppendToWal
  <2> QED
    BY <2>1, Fields
<1>3. disk' \in Disks /\ disk'.rotated = disk.rotated /\ disk'.active.data \in Seq(Bundles)
  <2> HIDE DEF x
  <2> QED
    BY <1>1, <1>2, Fields DEF Disks, Files
<1>4. c \in Nat
  <2>1. ActiveWalPositionStart(writer) \in Nat
    BY Fields DEF ActiveWalPositionStart, Last
  <2> QED
    BY <1>3, <2>1 DEF ToWalPosition
<1>5. a \in {"rename", "segment"}
  OBVIOUS
<1>6. job' = [job EXCEPT !.at = a, !.cursor = c]
  BY DEF AppendToWal
<1> HIDE DEF a, c, x
<1>7. /\ job' \in Jobs /\ job'.at = a /\ job'.bundle = job.bundle /\ job'.then = job.then
  BY <1>4, <1>5, <1>6 DEF Jobs, IInv, EngineTyped
<1>8. SegmentsTyped' /\ ProgressHonest'
  BY SameSegments DEF AppendToWal, subscriber, history
<1>9. NumbersSound'
  BY <1>5, <1>7, SameNumbers DEF AppendToWal, engine, subscriber, history
<1>10. EngineTyped' /\ JobSound'
  BY <1>2, <1>5, <1>7 DEF IInv, EngineTyped, JobSound, AppendToWal, engine, history
<1>11. LogTyped'
  BY <1>3 DEF IInv, LogTyped, AppendToWal, engine
<1> QED
  BY <1>8, <1>9, <1>10, <1>11 DEF IInv

\* finalize_segment_impl takes the next number; nothing refers to it yet.
LEMMA Taken ==
  ASSUME IInv, phase # "down", phase' = phase, job.at # "write",
         UNCHANGED <<files, progress, registry, store, dirty, done, offered>>,
         NEW j \in Jobs, NEW seg, seg \subseteq Bundles, NEW c \in Nat,
         NEW t \in {"append", "ingest", "flush", "replay"},
         t \in {"append", "ingest"} => j.bundle \in Bundles,
         phase = "up" => j.bundle <= offered,
         phase = "replay" => t = "replay",
         TakeSegment(j, seg, c, t)
  PROVE  /\ job' \in Jobs /\ JobSound' /\ NumbersSound' /\ next_segment_seq' \in Nat
         /\ open_segment' = {} /\ segment_cursor' = 0
         /\ job'.at = "write" /\ job'.cursor = c /\ job'.seg = seg
<1>1. next_segment_seq \in Nat /\ Above(next_segment_seq) /\ phase \in {"down", "replay", "up"}
  BY DEF IInv, EngineTyped, NumbersSound
<1>2. job' = [j EXCEPT !.at = "write", !.then = t, !.seq = next_segment_seq, !.seg = seg,
                       !.cursor = c]
  BY DEF TakeSegment
<1>3. /\ job' \in Jobs /\ job'.at = "write" /\ job'.bundle = j.bundle /\ job'.then = t
      /\ job'.seq = next_segment_seq /\ job'.cursor = c /\ job'.seg = seg
  BY <1>1, <1>2 DEF Jobs
<1>4. next_segment_seq' = next_segment_seq + 1 /\ open_segment' = {} /\ segment_cursor' = 0
  BY DEF TakeSegment
<1>5. JobSound'
  BY <1>1, <1>3, <1>4 DEF JobSound
<1>6. NumbersSound'
  BY <1>1, <1>3, SameSegments DEF NumbersSound
<1> QED
  BY <1>1, <1>3, <1>4, <1>5, <1>6

\* A job that is over.
LEMMA IdleIs == Idle \in Jobs /\ Idle.at = "idle" /\ Idle.then = "none" /\ Idle.bundle = 0
BY EngineAssumption DEF Idle, Jobs

\* WalAtCapacity: the open segment is taken, or the error is returned.
LEMMA StepWalFull == IInv /\ WalFull => IInv'
<1> SUFFICES ASSUME IInv, WalFull PROVE IInv'
  OBVIOUS
<1>0. /\ UNCHANGED <<files, progress, registry, store, dirty, done, offered>>
      /\ UNCHANGED <<disk, phase, replay, writer, accepted>> /\ phase = "up"
      /\ job.at \in {"append", "retry"}
  BY DEF WalFull, on_disk, subscriber, history, engine
<1>1. SegmentsTyped' /\ ProgressHonest'
  BY <1>0, SameSegments
<1>2. LogTyped'
  BY <1>0 DEF IInv, LogTyped
<1>3. CASE job.at = "append" /\ open_segment # {}
  <2>1. TakeSegment(job, open_segment, segment_cursor, "append")
    BY <1>3 DEF WalFull
  <2>2. job \in Jobs /\ open_segment \subseteq Bundles /\ segment_cursor \in Nat
    BY DEF IInv, EngineTyped
  <2>3. job.bundle \in Bundles /\ job.bundle <= offered
    BY <1>0 DEF IInv, JobSound
  <2>4. /\ job' \in Jobs /\ JobSound' /\ NumbersSound' /\ next_segment_seq' \in Nat
        /\ open_segment' = {} /\ segment_cursor' = 0
    BY <1>0, <2>1, <2>2, <2>3, Taken
  <2>5. EngineTyped'
    BY <1>0, <2>4 DEF IInv, EngineTyped
  <2> QED
    BY <1>1, <1>2, <2>4, <2>5 DEF IInv
<1>4. CASE ~(job.at = "append" /\ open_segment # {})
  <2>1. job' = Idle /\ UNCHANGED <<open_segment, segment_cursor, next_segment_seq>>
    BY <1>4 DEF WalFull, engine
  <2>2. NumbersSound'
    BY <1>0, <2>1, IdleIs, SameNumbers
  <2>3. EngineTyped' /\ JobSound'
    BY <1>0, <2>1, IdleIs DEF IInv, EngineTyped, JobSound
  <2> QED
    BY <1>1, <1>2, <2>2, <2>3 DEF IInv
<1> QED
  BY <1>3, <1>4

\* Rotation, first half: the active file is renamed and the writer notes its end.
LEMMA StepRotateByRename == IInv /\ RotateByRename => IInv'
<1> SUFFICES ASSUME IInv, RotateByRename PROVE IInv'
  OBVIOUS
<1>0. /\ UNCHANGED <<files, progress, registry, store, dirty, done>>
      /\ UNCHANGED <<offered, phase, replay, accepted, open_segment, segment_cursor, next_segment_seq>>
      /\ job.at = "rename" /\ job' = [job EXCEPT !.at = "reopen"]
  BY DEF RotateByRename, subscriber, history
<1>1. SegmentsTyped' /\ ProgressHonest'
  BY <1>0, SameSegments
<1>2. /\ job' \in Jobs /\ job'.at = "reopen" /\ job'.bundle = job.bundle /\ job'.then = job.then
  BY <1>0, JobMoves DEF IInv, EngineTyped
<1>3. NumbersSound'
  BY <1>0, <1>2, SameNumbers
<1>4. EngineTyped' /\ JobSound'
  BY <1>0, <1>2, IdleIs DEF IInv, EngineTyped, JobSound
<1>5. LogTyped'
  <2> DEFINE x == Append(disk.rotated, disk.active)
             end == ToWalPosition(disk, writer)
             y == Append(writer.ends, end)
  <2>1. end \in Nat
    <3>1. ActiveWalPositionStart(writer) \in Nat
      BY Fields DEF ActiveWalPositionStart, Last
    <3>2. Len(disk.active.data) \in Nat
      BY Fields
    <3> QED
      BY <3>1, <3>2 DEF ToWalPosition
  <2> HIDE DEF end
  <2>2. /\ x \in Seq(Files) /\ y \in Seq(Nat) /\ NewFile(0) \in Files
        /\ Len(x) = Len(disk.rotated) + 1 /\ Len(y) = Len(writer.ends) + 1
    BY <2>1, Fields DEF NewFile, Files
  <2>3. disk' = [rotated |-> x, active |-> NewFile(0), sidecar |-> disk.sidecar]
    BY DEF RotateByRename, RotateRename, IInv, LogTyped, Disks
  <2>4. writer' = [ends |-> y, start |-> end, cursor |-> writer.cursor]
    BY DEF RotateByRename, RotatedWriter, IInv, LogTyped, Writers, end
  <2>5. phase # "down"
    BY <1>0 DEF IInv, JobSound, Idle
  <2> HIDE DEF x, y
  <2>6. disk' \in Disks /\ disk'.rotated = x
    BY <2>2, <2>3, Fields DEF Disks
  <2>7. writer' \in Writers /\ writer'.ends = y
    BY <2>1, <2>2, <2>4, Fields DEF Writers
  <2> QED
    BY <1>0, <2>2, <2>5, <2>6, <2>7 DEF IInv, LogTyped
<1> QED
  BY <1>1, <1>3, <1>4, <1>5 DEF IInv

\* Rotation, second half: the new file and the sidecar.
LEMMA StepRotateToNewFile == IInv /\ RotateToNewFile => IInv'
<1> SUFFICES ASSUME IInv, RotateToNewFile PROVE IInv'
  OBVIOUS
<1>0. /\ UNCHANGED <<files, progress, registry, store, dirty, done>>
      /\ UNCHANGED <<offered, phase, replay, accepted, open_segment, segment_cursor, next_segment_seq, writer>>
      /\ job.at = "reopen" /\ job' = [job EXCEPT !.at = "segment"]
  BY DEF RotateToNewFile, subscriber, history, engine
<1>1. SegmentsTyped' /\ ProgressHonest'
  BY <1>0, SameSegments
<1>2. /\ job' \in Jobs /\ job'.at = "segment" /\ job'.bundle = job.bundle /\ job'.then = job.then
  BY <1>0, JobMoves DEF IInv, EngineTyped
<1>3. NumbersSound'
  BY <1>0, <1>2, SameNumbers
<1>4. EngineTyped' /\ JobSound'
  BY <1>0, <1>2, IdleIs DEF IInv, EngineTyped, JobSound
<1>5. LogTyped'
  <2>1. disk' = [rotated |-> disk.rotated, active |-> NewFile(writer.start), sidecar |-> writer.cursor]
    BY DEF RotateToNewFile, RotateReopen, IInv, LogTyped, Disks
  <2>2. NewFile(writer.start) \in Files
    BY Fields DEF NewFile, Files
  <2>3. disk' \in Disks /\ disk'.rotated = disk.rotated
    BY <2>1, <2>2, Fields DEF Disks
  <2> QED
    BY <1>0, <2>3 DEF IInv, LogTyped
<1> QED
  BY <1>1, <1>3, <1>4, <1>5 DEF IInv

\* The bundle joins the open segment, which may be taken at once.
LEMMA StepAppendToSegment ==
  ASSUME IInv, NEW full \in BOOLEAN, AppendToSegment(full) PROVE IInv'
<1> DEFINE seg == open_segment \cup {job.bundle}
           then == IF phase = "replay" THEN "replay" ELSE "ingest"
<1>0. /\ UNCHANGED <<files, progress, registry, store, dirty, done, offered>>
      /\ UNCHANGED <<disk, phase, replay, writer>> /\ job.at = "segment"
  BY DEF AppendToSegment, on_disk, subscriber
<1>1. SegmentsTyped' /\ ProgressHonest'
  BY <1>0, SameSegments
<1>2. LogTyped'
  BY <1>0 DEF IInv, LogTyped
<1>3. phase \in {"replay", "up"} /\ job \in Jobs /\ job.bundle \in Bundles /\ seg \subseteq Bundles
      /\ (phase = "up" => job.bundle <= offered)
  BY <1>0 DEF IInv, EngineTyped, JobSound, Idle
<1>4. CASE full
  <2>1. TakeSegment(job, seg, job.cursor, then) /\ accepted' = accepted
    BY <1>4 DEF AppendToSegment
  <2>2. then \in {"append", "ingest", "flush", "replay"} /\ (phase = "replay" => then = "replay")
    OBVIOUS
  <2> HIDE DEF seg, then
  <2>4. /\ job' \in Jobs /\ JobSound' /\ NumbersSound' /\ next_segment_seq' \in Nat
        /\ open_segment' = {} /\ segment_cursor' = 0
    BY <1>0, <1>3, <2>1, <2>2, Taken, Fields
  <2>5. EngineTyped'
    BY <1>0, <2>1, <2>4 DEF IInv, EngineTyped
  <2> QED
    BY <1>1, <1>2, <2>4, <2>5 DEF IInv
<1>5. CASE ~full
  <2>1. /\ job' = Idle /\ next_segment_seq' = next_segment_seq /\ open_segment' = seg
        /\ segment_cursor' = job.cursor
        /\ accepted' = IF phase = "up" THEN accepted \cup {job.bundle} ELSE accepted
    BY <1>5 DEF AppendToSegment
  <2> HIDE DEF seg
  <2>2. NumbersSound'
    BY <1>0, <2>1, IdleIs, SameNumbers
  <2>3. accepted' \subseteq 1..offered
    <3>1. accepted \subseteq 1..offered /\ offered \in Nat
      BY DEF IInv, EngineTyped
    <3>2. phase = "up" => job.bundle \in 1..offered
      BY <1>3, <3>1 DEF Bundles
    <3> QED
      BY <2>1, <3>1, <3>2
  <2>4. EngineTyped' /\ JobSound'
    BY <1>0, <1>3, <2>1, <2>3, IdleIs, Fields DEF IInv, EngineTyped, JobSound
  <2> QED
    BY <1>1, <1>2, <2>2, <2>4 DEF IInv
<1> QED
  BY <1>4, <1>5

\* flush takes the open segment.
LEMMA StepFlush == IInv /\ Flush => IInv'
<1> SUFFICES ASSUME IInv, Flush PROVE IInv'
  OBVIOUS
<1>0. /\ UNCHANGED <<files, progress, registry, store, dirty, done, offered>>
      /\ UNCHANGED <<disk, phase, replay, writer, accepted>> /\ phase = "up" /\ job = Idle
      /\ TakeSegment(Idle, open_segment, segment_cursor, "flush")
  BY DEF Flush, on_disk, subscriber, history
<1>1. SegmentsTyped' /\ ProgressHonest'
  BY <1>0, SameSegments
<1>2. LogTyped'
  BY <1>0 DEF IInv, LogTyped
<1>3. open_segment \subseteq Bundles /\ segment_cursor \in Nat /\ offered \in Nat
  BY DEF IInv, EngineTyped
<1>4. /\ job' \in Jobs /\ JobSound' /\ NumbersSound' /\ next_segment_seq' \in Nat
      /\ open_segment' = {} /\ segment_cursor' = 0
  BY <1>0, <1>3, IdleIs, Taken
<1>5. EngineTyped'
  BY <1>0, <1>4 DEF IInv, EngineTyped
<1> QED
  BY <1>1, <1>2, <1>4, <1>5 DEF IInv

\* The sidecar and the writer have the segment's cursor.
LEMMA StepPersistCursor == IInv /\ PersistCursor => IInv'
<1> SUFFICES ASSUME IInv, PersistCursor PROVE IInv'
  OBVIOUS
<1>0. /\ UNCHANGED <<files, progress, registry, store, dirty, done>>
      /\ UNCHANGED <<offered, phase, replay, accepted, open_segment, segment_cursor, next_segment_seq>>
      /\ job.at = "persist" /\ job' = [job EXCEPT !.at = "purge"]
  BY DEF PersistCursor, subscriber, history
<1>1. SegmentsTyped' /\ ProgressHonest'
  BY <1>0, SameSegments
<1>2. /\ job' \in Jobs /\ job'.at = "purge" /\ job'.bundle = job.bundle /\ job'.then = job.then
      /\ job'.seq = job.seq
  BY <1>0, JobMoves DEF IInv, EngineTyped
<1>3. NumbersSound'
  BY <1>0, <1>2, SameNumbers
<1>4. EngineTyped' /\ JobSound'
  BY <1>0, <1>2, IdleIs DEF IInv, EngineTyped, JobSound
<1>5. LogTyped'
  <2>1. disk' = [rotated |-> disk.rotated, active |-> disk.active, sidecar |-> job.cursor]
    BY DEF PersistCursor, IInv, LogTyped, Disks
  <2>2. writer' = [ends |-> writer.ends, start |-> writer.start, cursor |-> job.cursor]
    BY DEF PersistCursor, IInv, LogTyped, Writers
  <2>3. disk' \in Disks /\ disk'.rotated = disk.rotated
    BY <2>1, Fields DEF Disks
  <2>4. writer' \in Writers /\ writer'.ends = writer.ends
    BY <2>2, Fields DEF Writers
  <2> QED
    BY <1>0, <2>3, <2>4 DEF IInv, LogTyped
<1> QED
  BY <1>1, <1>3, <1>4, <1>5 DEF IInv

\* The first rotated file goes from the disk and from the writer's list.
LEMMA StepPurgeRotatedFile == IInv /\ PurgeRotatedFile => IInv'
<1> SUFFICES ASSUME IInv, PurgeRotatedFile PROVE IInv'
  OBVIOUS
<1>0. /\ UNCHANGED <<files, progress, registry, store, dirty, done>>
      /\ UNCHANGED <<offered, phase, replay, accepted, open_segment, segment_cursor, next_segment_seq, job>>
      /\ job.at = "purge"
  BY DEF PurgeRotatedFile, subscriber, history
<1>1. SegmentsTyped' /\ ProgressHonest'
  BY <1>0, SameSegments
<1>3. NumbersSound'
  BY <1>0, SameNumbers
<1>4. EngineTyped' /\ JobSound'
  BY <1>0 DEF IInv, EngineTyped, JobSound
<1>5. LogTyped'
  <2> DEFINE x == Tail(disk.rotated)
             y == Tail(writer.ends)
  <2>0. phase # "down"
    BY <1>0 DEF IInv, JobSound, Idle
  <2>1. writer.ends # << >> /\ Len(writer.ends) = Len(disk.rotated)
    BY <2>0 DEF PurgeRotatedFile, CanPurge, IInv, LogTyped
  <2>2. disk.rotated # << >>
    BY <2>1, Fields
  <2>3. /\ x \in Seq(Files) /\ y \in Seq(Nat)
        /\ Len(x) = Len(disk.rotated) - 1 /\ Len(y) = Len(writer.ends) - 1
    BY <2>1, <2>2, Fields
  <2>4. disk' = [rotated |-> x, active |-> disk.active, sidecar |-> disk.sidecar]
    BY DEF PurgeRotatedFile, PurgeFront, IInv, LogTyped, Disks
  <2>5. writer' = [ends |-> y, start |-> writer.start, cursor |-> writer.cursor]
    BY DEF PurgeRotatedFile, IInv, LogTyped, Writers
  <2> HIDE DEF x, y
  <2>6. disk' \in Disks /\ disk'.rotated = x
    BY <2>3, <2>4, Fields DEF Disks
  <2>7. writer' \in Writers /\ writer'.ends = y
    BY <2>3, <2>5, Fields DEF Writers
  <2> QED
    BY <1>0, <2>0, <2>1, <2>3, <2>6, <2>7 DEF IInv, LogTyped
<1> QED
  BY <1>1, <1>3, <1>4, <1>5 DEF IInv

----------------------------------------------------------------------------
(* Processes that end, and finalize_segment_impl failing.                  *)

\* A process ends and leaves the disk behind.
LEMMA Forgotten ==
  ASSUME IInv, Forget, UNCHANGED <<on_disk, offered, accepted, done>> PROVE IInv'
<1>0. /\ UNCHANGED <<disk, files, progress, offered, accepted, done>>
      /\ phase' = "down" /\ job' = Idle /\ replay' = NoReplay /\ writer' = ClosedWriter
      /\ open_segment' = {} /\ segment_cursor' = 0 /\ next_segment_seq' = 0 /\ store' = {}
      /\ registry' = [s \in Subscribers |-> NewSubscriber] /\ dirty' = {}
  BY DEF Forget, on_disk
<1>1. << >> \in Seq(Nat) /\ << >> \in Seq(ReadAhead)
  OBVIOUS
<1>2. ClosedWriter \in Writers /\ Len(ClosedWriter.ends) = 0
  BY <1>1 DEF ClosedWriter, Writers
<1>3. LogTyped'
  BY <1>0, <1>1, <1>2 DEF IInv, LogTyped, NoReplay
<1>4. NewSubscriber \in SubscriberStates /\ NewSubscriber.segments = << >>
  BY EmptyMap DEF NewSubscriber, SubscriberStates
<1>5. SegmentsTyped'
  BY <1>0, <1>4 DEF IInv, SegmentsTyped
<1>6. EngineTyped' /\ JobSound'
  BY <1>0, IdleIs DEF IInv, EngineTyped, JobSound
<1>7. \A s \in Subscribers : registry'[s].segments = << >>
  BY <1>0, <1>4
<1>8. ASSUME NEW n, Above(n) PROVE Above(n)'
  BY <1>0, <1>7, <1>8, EmptyMap DEF Above
<1>9. NumbersSound'
  BY <1>0, <1>8 DEF IInv, NumbersSound
<1>10. ProgressHonest'
  BY <1>0, <1>7, EmptyMap DEF IInv, ProgressHonest
<1> QED
  BY <1>3, <1>5, <1>6, <1>9, <1>10 DEF IInv

\* A crash.
LEMMA StepCrash == IInv /\ Crash => IInv'
BY Forgotten DEF Crash

\* A number that is above n is above every larger one.
LEMMA AboveUp ==
  ASSUME SegmentsTyped, NEW m \in Nat, NEW n \in Nat, m <= n, Above(m) PROVE Above(n)
<1>1. ASSUME NEW s \in Subscribers
      PROVE  /\ DOMAIN registry[s].segments \cup DOMAIN progress[s].entries \subseteq Nat
             /\ progress[s].oldest \in Nat
  <2>1. progress[s] \in ProgressFiles /\ registry[s] \in SubscriberStates
    BY DEF SegmentsTyped
  <2>2. /\ progress[s].oldest \in Nat /\ progress[s].entries \in SegmentMaps
        /\ registry[s].segments \in SegmentMaps
    BY <2>1 DEF ProgressFiles, SubscriberStates
  <2> QED
    BY <2>2, MapFacts
<1>2. DOMAIN files \subseteq Nat
  BY MapFacts DEF SegmentsTyped
<1>3. \A q \in DOMAIN files : q < n
  BY <1>2 DEF Above
<1>4. ASSUME NEW s \in Subscribers
      PROVE  /\ \A q \in DOMAIN registry[s].segments \cup DOMAIN progress[s].entries : q < n
             /\ progress[s].oldest # 0 => progress[s].oldest < n
  <2>1. /\ \A q \in DOMAIN registry[s].segments \cup DOMAIN progress[s].entries : q < m
        /\ progress[s].oldest # 0 => progress[s].oldest < m
    BY DEF Above
  <2> QED
    BY <1>1, <2>1
<1> QED
  BY <1>3, <1>4 DEF Above

\* finalize_segment_impl fails: the number it took is not used again.
LEMMA Failed ==
  ASSUME IInv, job.at \in {"write", "persist"}, NEW risked, NEW w \in Writers,
         w.ends = writer.ends, FinalizeFails(risked, w),
         UNCHANGED <<on_disk, offered, accepted, done>>
  PROVE  IInv'
<1>1. CASE phase = "replay" /\ Forget
  BY <1>1, Forgotten
<1>2. CASE /\ phase = "up" /\ job' = Idle /\ writer' = w
           /\ UNCHANGED <<phase, replay, open_segment, segment_cursor, next_segment_seq, store,
                          subscriber>>
  <2>0. /\ UNCHANGED <<files, progress, registry, store, dirty, done>>
        /\ UNCHANGED <<offered, accepted, disk, phase, replay, open_segment, segment_cursor,
                       next_segment_seq>>
    BY <1>2 DEF subscriber, on_disk
  <2>1. SegmentsTyped' /\ ProgressHonest' /\ \A n : Above(n)' <=> Above(n)
    BY <2>0, SameSegments
  <2>2. LogTyped'
    BY <1>2, <2>0 DEF IInv, LogTyped
  <2>3. EngineTyped' /\ JobSound'
    BY <1>2, <2>0, IdleIs DEF IInv, EngineTyped, JobSound
  <2>4. Above(next_segment_seq)
    <3>1. CASE job.at = "write"
      <4>1. next_segment_seq = job.seq + 1 /\ Above(job.seq) /\ job.seq \in Nat /\ SegmentsTyped
        BY <1>2, <3>1, Fields DEF IInv, JobSound, NumbersSound
      <4> QED
        BY <4>1, AboveUp
    <3>2. CASE job.at # "write"
      BY <1>2, <3>2 DEF IInv, NumbersSound
    <3> QED
      BY <3>1, <3>2
  <2>5. next_segment_seq \in Nat
    BY DEF IInv, EngineTyped
  <2>6. NumbersSound'
    BY <1>2, <2>0, <2>1, <2>4, <2>5, IdleIs DEF NumbersSound
  <2> QED
    BY <2>1, <2>2, <2>3, <2>6 DEF IInv
<1> QED
  BY <1>1, <1>2 DEF FinalizeFails

\* The segment could not be written.
LEMMA StepWriteSegmentFails == IInv /\ WriteSegmentFails => IInv'
<1> SUFFICES ASSUME IInv, WriteSegmentFails PROVE IInv'
  OBVIOUS
<1>1. job.at = "write" /\ FinalizeFails(job.seg, writer) /\ UNCHANGED <<on_disk, offered, accepted, done>>
  BY DEF WriteSegmentFails
<1>2. writer \in Writers
  BY DEF IInv, LogTyped
<1> QED
  BY <1>1, <1>2, Failed

\* The cursor was refused or could not be written.
LEMMA StepPersistCursorFails == IInv /\ PersistCursorFails => IInv'
<1> SUFFICES ASSUME IInv, PersistCursorFails PROVE IInv'
  OBVIOUS
<1> DEFINE own == IF ValidCursor(disk, writer, job.cursor) THEN job.cursor ELSE writer.cursor
           w == [writer EXCEPT !.cursor = own]
<1>1. job.at = "persist" /\ FinalizeFails({}, w) /\ UNCHANGED <<on_disk, offered, accepted, done>>
  BY Zenon DEF PersistCursorFails
<1>2. own \in Nat
  BY Fields
<1> HIDE DEF own
<1>3. w \in Writers /\ w.ends = writer.ends
  BY <1>2 DEF IInv, LogTyped, Writers
<1> HIDE DEF w
<1> QED
  BY <1>1, <1>3, Failed

----------------------------------------------------------------------------
(* open and the end of replay.                                             *)

\* A restored subscriber tracks what its progress file says, and segment files.
LEMMA RestoredIs ==
  ASSUME NEW p \in ProgressFiles, files \in SegmentMaps
  PROVE  LET st == RestoredSubscriber(p)
         IN  /\ st \in SubscriberStates
             /\ DOMAIN st.segments \subseteq DOMAIN p.entries \cup DOMAIN files
             /\ \A q \in DOMAIN st.segments :
                  st.segments[q] = IF q \in DOMAIN p.entries THEN p.entries[q] ELSE files[q]
<1> DEFINE covered == {q \in DOMAIN files :
                         IF p.oldest = 0 THEN p.entries # << >> /\ q <= HighestPersisted(p)
                         ELSE q < p.oldest}
           added == DOMAIN files \ (covered \cup DOMAIN p.entries)
           r == Restrict(files, added)
           m == Added(p.entries, r)
           st == RestoredSubscriber(p)
<1>1. p.entries \in SegmentMaps
  BY DEF ProgressFiles
<1>2. NewSubscriber \in SubscriberStates /\ NewSubscriber.segments = << >>
  BY EmptyMap DEF NewSubscriber, SubscriberStates
<1>3. CASE p.written
  <2>1. st = [NewSubscriber EXCEPT !.segments = m]
    BY <1>3, Zenon DEF RestoredSubscriber
  <2>2. added \subseteq DOMAIN files /\ added \cap DOMAIN p.entries = {}
    OBVIOUS
  <2> HIDE DEF added
  <2>3. r \in SegmentMaps /\ DOMAIN r = added /\ \A q \in added : r[q] = files[q]
    BY <2>2, RestrictMap
  <2> HIDE DEF r
  <2>4. /\ m \in SegmentMaps /\ DOMAIN m = DOMAIN p.entries \cup DOMAIN r
        /\ \A q \in DOMAIN p.entries : m[q] = p.entries[q]
        /\ \A q \in DOMAIN r \ DOMAIN p.entries : m[q] = r[q]
    BY <1>1, <2>3, AddedMap
  <2> HIDE DEF m
  <2>5. st \in SubscriberStates /\ st.segments = m
    BY <1>2, <2>1, <2>4 DEF SubscriberStates
  <2> HIDE DEF st
  <2>6. DOMAIN st.segments \subseteq DOMAIN p.entries \cup DOMAIN files
    BY <2>2, <2>3, <2>4, <2>5
  <2>7. \A q \in DOMAIN st.segments :
          st.segments[q] = IF q \in DOMAIN p.entries THEN p.entries[q] ELSE files[q]
    BY <2>2, <2>3, <2>4, <2>5
  <2> QED
    BY <2>5, <2>6, <2>7 DEF st
<1>4. CASE ~p.written
  <2>1. st = NewSubscriber
    BY <1>4, Zenon DEF RestoredSubscriber
  <2> QED
    BY <1>2, <2>1, EmptyMap
<1> QED
  BY <1>3, <1>4

\* The first free number is above everything that is on disk.
LEMMA FirstFreeIs ==
  ASSUME SegmentsTyped, NEW n \in Nat, Above(n)
  PROVE  /\ FirstFreeSegment \in Nat
         /\ \A q \in DOMAIN files : q < FirstFreeSegment
         /\ \A s \in Subscribers :
              /\ \A q \in DOMAIN progress[s].entries : q < FirstFreeSegment
              /\ progress[s].oldest # 0 => progress[s].oldest < FirstFreeSegment
<1> DEFINE referred == UNION {DOMAIN progress[s].entries
                                \cup ({progress[s].oldest} \ {0}) : s \in Subscribers}
           used == DOMAIN files \cup referred
<1>1. ASSUME NEW s \in Subscribers
      PROVE  /\ \A q \in DOMAIN progress[s].entries : q \in Nat /\ q < n
             /\ progress[s].oldest \in Nat /\ (progress[s].oldest # 0 => progress[s].oldest < n)
  <2>1. progress[s] \in ProgressFiles
    BY DEF SegmentsTyped
  <2>2. progress[s].oldest \in Nat /\ progress[s].entries \in SegmentMaps
    BY <2>1 DEF ProgressFiles
  <2> QED
    BY <2>2, MapFacts DEF Above
<1>2. \A q \in DOMAIN files : q \in Nat /\ q < n
  BY MapFacts DEF SegmentsTyped, Above
<1>3. used \subseteq Nat /\ \A q \in used : q < n
  BY <1>1, <1>2
<1>4. FirstFreeSegment = IF used = {} THEN 0 ELSE Max(used) + 1
  BY Zenon DEF FirstFreeSegment
<1>5. \A s \in Subscribers : \A q \in DOMAIN progress[s].entries : q \in used
  OBVIOUS
<1>6. \A s \in Subscribers : progress[s].oldest # 0 => progress[s].oldest \in used
  OBVIOUS
<1>7. \A q \in DOMAIN files : q \in used
  OBVIOUS
<1> HIDE DEF used
<1>8. used # {} => Max(used) \in used /\ \A q \in used : q <= Max(used)
  BY <1>3, MaxOf
<1>9. FirstFreeSegment \in Nat /\ \A q \in used : q < FirstFreeSegment
  <2>1. CASE used = {}
    BY <1>4, <2>1
  <2>2. CASE used # {}
    <3> DEFINE top == Max(used)
    <3>1. top \in used /\ top \in Nat /\ (\A q \in used : q \in Nat /\ q <= top)
          /\ FirstFreeSegment = top + 1
      BY <1>3, <1>4, <1>8, <2>2
    <3> HIDE DEF top
    <3> QED
      BY ONLY <3>1
  <2> QED
    BY <2>1, <2>2
<1> QED
  BY <1>5, <1>6, <1>7, <1>9

\* open() builds the memory from the disk.
LEMMA StepOpen == IInv /\ Open => IInv'
<1> SUFFICES ASSUME IInv, Open PROVE IInv'
  OBVIOUS
<1>0. /\ UNCHANGED <<disk, files, progress, job, open_segment, segment_cursor, dirty>>
      /\ UNCHANGED <<offered, accepted, done>>
      /\ phase = "down" /\ phase' = "replay" /\ store' = DOMAIN files
      /\ writer' = OpenWriter(disk) /\ next_segment_seq' = FirstFreeSegment
      /\ registry' = [s \in Subscribers |-> RestoredSubscriber(progress[s])]
      /\ replay' = [files |-> FilesFrom(disk, ReplayFrom(disk)), pos |-> ReplayFrom(disk),
                    entries |-> << >>]
      /\ job = Idle
  BY DEF Open, on_disk, history, IInv, JobSound
<1>1. LogTyped'
  <2>1. disk \in Disks
    BY DEF IInv, LogTyped
  <2>2. writer' \in Writers /\ Len(writer'.ends) = Len(disk.rotated)
    BY <1>0, <2>1, OpenWriterIs
  <2> DEFINE x == FilesFrom(disk, ReplayFrom(disk))
             y == ReplayFrom(disk)
  <2>3. y \in Nat
    BY <2>1, ReplayFromIs
  <2>4. replay' = [files |-> x, pos |-> y, entries |-> << >>]
    BY <1>0
  <2> HIDE DEF x, y
  <2>5. /\ replay' = [files |-> replay'.files, pos |-> replay'.pos, entries |-> replay'.entries]
        /\ replay'.pos \in Nat /\ replay'.entries \in Seq(ReadAhead)
    BY <2>3, <2>4
  <2> QED
    BY <1>0, <2>1, <2>2, <2>5 DEF LogTyped
<1>2. files \in SegmentMaps /\ \A s \in Subscribers : progress[s] \in ProgressFiles
  BY DEF IInv, SegmentsTyped
<1>3. ASSUME NEW s \in Subscribers
      PROVE  /\ registry'[s] \in SubscriberStates
             /\ DOMAIN registry'[s].segments \subseteq DOMAIN progress[s].entries \cup DOMAIN files
             /\ \A q \in DOMAIN registry'[s].segments :
                  registry'[s].segments[q] =
                    IF q \in DOMAIN progress[s].entries THEN progress[s].entries[q] ELSE files[q]
  <2>1. registry'[s] = RestoredSubscriber(progress[s])
    BY <1>0
  <2> QED
    BY <1>2, <2>1, RestoredIs
<1>4. SegmentsTyped'
  <2>1. registry' \in [Subscribers -> SubscriberStates]
    BY <1>0, <1>3
  <2> QED
    BY <1>0, <2>1 DEF IInv, SegmentsTyped
<1>5. PICK n \in Nat : Above(n)
  BY DEF IInv, NumbersSound
<1>6. /\ FirstFreeSegment \in Nat
      /\ \A q \in DOMAIN files : q < FirstFreeSegment
      /\ \A s \in Subscribers :
           /\ \A q \in DOMAIN progress[s].entries : q < FirstFreeSegment
           /\ progress[s].oldest # 0 => progress[s].oldest < FirstFreeSegment
  BY <1>5, FirstFreeIs DEF IInv
<1>7. Above(next_segment_seq)'
  <2> DEFINE x == FirstFreeSegment
  <2> HIDE DEF x
  <2>1. next_segment_seq' = x
    BY <1>0 DEF x
  <2> QED
    BY <1>0, <1>3, <1>6, <2>1 DEF Above, x
<1>8. NumbersSound'
  <2>1. next_segment_seq' \in Nat
    BY <1>0, <1>6
  <2>2. job'.at = "idle"
    BY <1>0, IdleIs
  <2> QED
    BY <1>7, <2>1, <2>2 DEF NumbersSound
<1>9. EngineTyped' /\ JobSound'
  BY <1>0, <1>6, IdleIs DEF IInv, EngineTyped, JobSound
<1>10. ProgressHonest'
  <2>1. ASSUME NEW s \in Subscribers, NEW q \in DOMAIN progress[s].entries \cap DOMAIN files
        PROVE  files[q] \ progress[s].entries[q] \subseteq done[s]
    BY DEF IInv, ProgressHonest
  <2>2. ASSUME NEW s \in Subscribers, NEW q \in DOMAIN registry'[s].segments \cap DOMAIN files
        PROVE  files[q] \ registry'[s].segments[q] \subseteq done[s]
    <3>1. CASE q \in DOMAIN progress[s].entries
      BY <1>3, <2>1, <3>1
    <3>2. CASE q \notin DOMAIN progress[s].entries
      BY <1>3, <3>2
    <3> QED
      BY <3>1, <3>2
  <2> QED
    BY <1>0, <2>1, <2>2 DEF ProgressHonest
<1> QED
  BY <1>1, <1>4, <1>8, <1>9, <1>10 DEF IInv

\* The end of replay: every subscriber tracks every segment in the store.
LEMMA StepReplayDone == IInv /\ ReplayDone => IInv'
<1> SUFFICES ASSUME IInv, ReplayDone PROVE IInv'
  OBVIOUS
<1>0. /\ UNCHANGED <<disk, files, progress, job, open_segment, segment_cursor, dirty>>
      /\ UNCHANGED <<offered, accepted, done, store, writer, next_segment_seq>>
      /\ phase = "replay" /\ phase' = "up" /\ job = Idle /\ replay' = NoReplay
      /\ registry' = [s \in Subscribers |-> Activated(registry[s])]
  BY DEF ReplayDone, on_disk, history, engine
<1>1. LogTyped'
  <2>1. << >> \in Seq(ReadAhead)
    OBVIOUS
  <2> QED
    BY <1>0, <2>1 DEF IInv, LogTyped, NoReplay
<1>2. /\ files \in SegmentMaps /\ store \subseteq DOMAIN files
      /\ \A s \in Subscribers : registry[s] \in SubscriberStates
  BY DEF IInv, SegmentsTyped
<1>3. ASSUME NEW s \in Subscribers
      PROVE  /\ registry'[s] \in SubscriberStates
             /\ DOMAIN registry'[s].segments = DOMAIN registry[s].segments \cup store
             /\ \A q \in DOMAIN registry'[s].segments :
                  registry'[s].segments[q] =
                    IF q \in DOMAIN registry[s].segments THEN registry[s].segments[q] ELSE files[q]
  <2> DEFINE st == registry[s]
             r == Restrict(files, store)
             m == Added(st.segments, r)
  <2>1. registry'[s] = [st EXCEPT !.active = TRUE, !.segments = m]
    BY <1>0 DEF Activated
  <2>2. st \in SubscriberStates /\ st.segments \in SegmentMaps
    BY <1>2 DEF SubscriberStates
  <2>3. r \in SegmentMaps /\ DOMAIN r = store /\ \A q \in store : r[q] = files[q]
    BY <1>2, RestrictMap
  <2> HIDE DEF r, st
  <2>4. /\ m \in SegmentMaps /\ DOMAIN m = DOMAIN st.segments \cup DOMAIN r
        /\ \A q \in DOMAIN st.segments : m[q] = st.segments[q]
        /\ \A q \in DOMAIN r \ DOMAIN st.segments : m[q] = r[q]
    BY <2>2, <2>3, AddedMap
  <2> HIDE DEF m
  <2>5. registry'[s] \in SubscriberStates /\ registry'[s].segments = m
    BY <2>1, <2>2, <2>4 DEF SubscriberStates
  <2> QED
    BY <2>3, <2>4, <2>5 DEF st
<1>4. SegmentsTyped'
  <2>1. registry' \in [Subscribers -> SubscriberStates]
    BY <1>0, <1>3
  <2> QED
    BY <1>0, <2>1 DEF IInv, SegmentsTyped
<1>5. job.at = "idle" /\ job'.at = "idle"
  BY <1>0, IdleIs
<1>6. Above(next_segment_seq) /\ next_segment_seq \in Nat
  BY <1>0, <1>5 DEF IInv, NumbersSound, EngineTyped
<1>7. Above(next_segment_seq)'
  BY <1>0, <1>2, <1>3, <1>6 DEF Above
<1>8. NumbersSound'
  BY <1>0, <1>5, <1>6, <1>7 DEF NumbersSound
<1>9. EngineTyped' /\ JobSound'
  BY <1>0, IdleIs DEF IInv, EngineTyped, JobSound
<1>10. ProgressHonest'
  <2>1. ASSUME NEW s \in Subscribers, NEW q \in DOMAIN registry'[s].segments \cap DOMAIN files
        PROVE  files[q] \ registry'[s].segments[q] \subseteq done[s]
    <3>1. CASE q \in DOMAIN registry[s].segments
      BY <1>3, <3>1 DEF IInv, ProgressHonest
    <3>2. CASE q \notin DOMAIN registry[s].segments
      BY <1>3, <3>2
    <3> QED
      BY <3>1, <3>2
  <2>2. ASSUME NEW s \in Subscribers, NEW q \in DOMAIN progress[s].entries \cap DOMAIN files
        PROVE  files[q] \ progress[s].entries[q] \subseteq done[s]
    BY DEF IInv, ProgressHonest
  <2> QED
    BY <1>0, <2>1, <2>2 DEF ProgressHonest
<1> QED
  BY <1>1, <1>4, <1>8, <1>9, <1>10 DEF IInv

----------------------------------------------------------------------------
(* Reclaiming segments, and the rest of finalize_segment_impl.             *)

\* cleanup_completed_segments drops segments and changes none.
LEMMA Cleaned ==
  ASSUME IInv, CleanupCompletedSegments, UNCHANGED <<progress, done, dirty>>
  PROVE  SegmentsTyped' /\ ProgressHonest' /\ \A n : Above(n) => Above(n)'
<1> DEFINE boundary == DeleteBoundary
           kept == {q \in store : q >= boundary}
           D == DOMAIN files \ (store \ kept)
<1>0. /\ store' = kept /\ files' = Restrict(files, D)
      /\ registry' = [s \in Subscribers |-> RemoveCompletedSegmentsBefore(registry[s], boundary)]
  BY Zenon DEF CleanupCompletedSegments
<1>1. /\ files \in SegmentMaps /\ store \subseteq DOMAIN files
      /\ \A s \in Subscribers : registry[s] \in SubscriberStates
  BY DEF IInv, SegmentsTyped
<1>2. kept \subseteq D /\ D \subseteq DOMAIN files
  BY <1>1
<1> HIDE DEF boundary, kept, D
<1>3. files' \in SegmentMaps /\ DOMAIN files' = D /\ \A q \in D : files'[q] = files[q]
  BY <1>0, <1>1, <1>2, RestrictMap
<1>4. ASSUME NEW s \in Subscribers
      PROVE  /\ registry'[s] \in SubscriberStates
             /\ DOMAIN registry'[s].segments \subseteq DOMAIN registry[s].segments
             /\ \A q \in DOMAIN registry'[s].segments :
                  registry'[s].segments[q] = registry[s].segments[q]
  <2> DEFINE st == registry[s]
             E == {q \in DOMAIN st.segments : q >= boundary \/ st.segments[q] # {}}
             r == Restrict(st.segments, E)
  <2>1. registry'[s] = [st EXCEPT !.segments = r]
    BY <1>0 DEF RemoveCompletedSegmentsBefore
  <2>2. st \in SubscriberStates /\ st.segments \in SegmentMaps
    BY <1>1 DEF SubscriberStates
  <2>3. E \subseteq DOMAIN st.segments
    OBVIOUS
  <2> HIDE DEF E, st
  <2>4. r \in SegmentMaps /\ DOMAIN r = E /\ \A q \in E : r[q] = st.segments[q]
    BY <2>2, <2>3, RestrictMap
  <2> HIDE DEF r
  <2>5. registry'[s] \in SubscriberStates /\ registry'[s].segments = r
    BY <2>1, <2>2, <2>4 DEF SubscriberStates
  <2> QED
    BY <2>3, <2>4, <2>5 DEF st
<1>5. SegmentsTyped'
  <2>1. registry' \in [Subscribers -> SubscriberStates]
    BY <1>0, <1>4
  <2> QED
    BY <1>0, <1>2, <1>3, <2>1 DEF IInv, SegmentsTyped
<1>6. ASSUME NEW n, Above(n) PROVE Above(n)'
  BY <1>2, <1>3, <1>4, <1>6 DEF Above
<1>7. ProgressHonest'
  <2>1. ASSUME NEW s \in Subscribers, NEW q \in DOMAIN registry'[s].segments \cap DOMAIN files'
        PROVE  files'[q] \ registry'[s].segments[q] \subseteq done[s]
    <3>1. q \in DOMAIN registry[s].segments \cap DOMAIN files
      BY <1>2, <1>3, <1>4
    <3>2. files[q] \ registry[s].segments[q] \subseteq done[s]
      BY <3>1 DEF IInv, ProgressHonest
    <3> QED
      BY <1>3, <1>4, <3>2
  <2>2. ASSUME NEW s \in Subscribers, NEW q \in DOMAIN progress[s].entries \cap DOMAIN files'
        PROVE  files'[q] \ progress[s].entries[q] \subseteq done[s]
    BY <1>2, <1>3 DEF IInv, ProgressHonest
  <2> QED
    BY <2>1, <2>2 DEF ProgressHonest
<1> QED
  BY <1>5, <1>6, <1>7

\* ingest is called, and may reclaim segments first.
LEMMA StepIngest == ASSUME IInv, NEW over \in BOOLEAN, Ingest(over) PROVE IInv'
<1>0. /\ UNCHANGED <<disk, progress, phase, replay, writer, open_segment, segment_cursor>>
      /\ UNCHANGED <<next_segment_seq, dirty, accepted, done>> /\ phase = "up" /\ job = Idle
      /\ offered < MaxBundles /\ offered' = offered + 1
      /\ job' = [Idle EXCEPT !.at = "append", !.bundle = offered + 1]
  BY DEF Ingest, engine
<1>1. SegmentsTyped' /\ ProgressHonest' /\ \A n : Above(n) => Above(n)'
  <2>1. CASE over
    <3>1. CleanupCompletedSegments
      BY <2>1 DEF Ingest
    <3> QED
      BY <1>0, <3>1, Cleaned
  <2>2. CASE ~over
    <3>1. UNCHANGED <<store, files, registry>>
      BY <2>2 DEF Ingest
    <3> QED
      BY <1>0, <3>1, SameSegments
  <2> QED
    BY <2>1, <2>2
<1>2. offered + 1 \in Bundles /\ offered + 1 \in 0..MaxBundles /\ offered \in Nat
  BY <1>0, EngineAssumption DEF IInv, EngineTyped, Bundles
<1> DEFINE b == offered + 1
<1> HIDE DEF b
<1>3. job' = [Idle EXCEPT !.at = "append", !.bundle = b] /\ b \in Bundles /\ b \in 0..MaxBundles
  BY <1>0, <1>2 DEF b
<1>4. job' \in Jobs /\ job'.at = "append" /\ job'.bundle = b /\ job'.then = "none"
  BY <1>3 DEF Idle, Jobs
<1>5. LogTyped'
  BY <1>0 DEF IInv, LogTyped
<1>6. EngineTyped' /\ JobSound'
  <2>1. accepted \subseteq 1..offered'
    BY <1>0, <1>2 DEF IInv, EngineTyped
  <2>2. offered' = b /\ b <= b
    BY <1>0, <1>2 DEF b
  <2> QED
    BY <1>0, <1>3, <1>4, <2>1, <2>2 DEF IInv, EngineTyped, JobSound
<1>7. NumbersSound'
  <2>1. next_segment_seq \in Nat /\ Above(next_segment_seq)
    BY <1>0, IdleIs DEF IInv, EngineTyped, NumbersSound
  <2> QED
    BY <1>0, <1>1, <1>4, <2>1 DEF NumbersSound
<1> QED
  BY <1>1, <1>5, <1>6, <1>7 DEF IInv

\* Reclaiming alone, on behalf of a refused ingest or of maintain.
LEMMA JustCleaned ==
  ASSUME IInv, CleanupCompletedSegments, job.at # "write", job' = Idle,
         UNCHANGED <<disk, progress, phase, replay, engine, dirty, history>>
  PROVE  IInv'
<1>0. /\ UNCHANGED <<disk, progress, phase, replay, writer, open_segment, segment_cursor>>
      /\ UNCHANGED <<next_segment_seq, dirty, offered, accepted, done>>
  BY DEF engine, history
<1>1. SegmentsTyped' /\ ProgressHonest' /\ \A n : Above(n) => Above(n)'
  BY <1>0, Cleaned
<1>2. LogTyped'
  BY <1>0 DEF IInv, LogTyped
<1>3. EngineTyped' /\ JobSound'
  BY <1>0, IdleIs DEF IInv, EngineTyped, JobSound
<1>4. NumbersSound'
  BY <1>0, <1>1, IdleIs DEF IInv, NumbersSound
<1> QED
  BY <1>1, <1>2, <1>3, <1>4 DEF IInv

\* A refused ingest.
LEMMA StepRejectOverSoftCap == IInv /\ RejectOverSoftCap => IInv'
BY JustCleaned, IdleIs DEF RejectOverSoftCap

\* The second half of maintain.
LEMMA StepCleanup == IInv /\ Cleanup => IInv'
BY JustCleaned DEF Cleanup

\* The segment file appears; nobody refers to its number yet.
LEMMA StepWriteSegment == IInv /\ WriteSegment => IInv'
<1> SUFFICES ASSUME IInv, WriteSegment PROVE IInv'
  OBVIOUS
<1>0. /\ UNCHANGED <<disk, progress, phase, replay, writer, open_segment, segment_cursor>>
      /\ UNCHANGED <<next_segment_seq, store, registry, dirty, offered, accepted, done>>
      /\ job.at = "write" /\ job' = [job EXCEPT !.at = "persist"]
      /\ files' = Added(files, Single(job.seq, job.seg))
  BY DEF WriteSegment, engine, subscriber, history
<1>1. /\ job' \in Jobs /\ job'.at = "persist" /\ job'.bundle = job.bundle /\ job'.then = job.then
      /\ job'.seq = job.seq
  BY <1>0, JobMoves DEF IInv, EngineTyped
<1>2. phase # "down" /\ job.seq \in Nat /\ job.seg \subseteq Bundles /\ files \in SegmentMaps
      /\ next_segment_seq = job.seq + 1 /\ Above(job.seq)
  BY <1>0, Fields, IdleIs DEF IInv, SegmentsTyped, JobSound, NumbersSound
<1>3. /\ files' \in SegmentMaps /\ DOMAIN files' = DOMAIN files \cup {job.seq}
      /\ \A q \in DOMAIN files : files'[q] = files[q]
  <2> DEFINE n == Single(job.seq, job.seg)
  <2>1. n \in SegmentMaps /\ DOMAIN n = {job.seq}
    BY <1>2, SingleMap
  <2> HIDE DEF n
  <2>2. files' = Added(files, n)
    BY <1>0 DEF n
  <2> QED
    <3>1. /\ Added(files, n) \in SegmentMaps /\ DOMAIN Added(files, n) = DOMAIN files \cup DOMAIN n
          /\ \A q \in DOMAIN files : Added(files, n)[q] = files[q]
      BY <1>2, <2>1, AddedMap
    <3> QED
      BY <2>1, <2>2, <3>1, Zenon
<1>4. LogTyped'
  BY <1>0 DEF IInv, LogTyped
<1>5. SegmentsTyped'
  BY <1>0, <1>3 DEF IInv, SegmentsTyped
<1>6. EngineTyped' /\ JobSound'
  BY <1>0, <1>1, <1>2, <1>3 DEF IInv, EngineTyped, JobSound
<1>7. Above(next_segment_seq)
  BY <1>2, AboveUp DEF IInv
<1>8. Above(next_segment_seq)'
  <2>1. job.seq < next_segment_seq
    BY <1>2
  <2> QED
    BY <1>0, <1>3, <1>7, <2>1 DEF Above
<1>9. NumbersSound'
  BY <1>0, <1>1, <1>2, <1>8 DEF NumbersSound
<1>10. ProgressHonest'
  <2>1. ASSUME NEW s \in Subscribers, NEW m \in {registry[s].segments, progress[s].entries},
               NEW q \in DOMAIN m \cap DOMAIN files'
        PROVE  files'[q] \ m[q] \subseteq done[s]
    <3>1. q # job.seq
      <4>1. q \in DOMAIN registry[s].segments \cup DOMAIN progress[s].entries
        BY <2>1
      <4>2. q < job.seq
        BY <1>2, <4>1 DEF Above
      <4> QED
        BY <1>2, <4>2
    <3>2. q \in DOMAIN files
      BY <1>3, <3>1
    <3> QED
      BY <1>3, <3>2 DEF IInv, ProgressHonest
  <2> QED
    BY <1>0, <2>1 DEF ProgressHonest
<1> QED
  BY <1>4, <1>5, <1>6, <1>9, <1>10 DEF IInv

\* Active subscribers are told of the segment, with all its bundles unresolved.
LEMMA StepRegisterSegment == IInv /\ RegisterSegment => IInv'
<1> SUFFICES ASSUME IInv, RegisterSegment PROVE IInv'
  OBVIOUS
<1>0. /\ UNCHANGED <<disk, files, progress, phase, replay, writer, open_segment, segment_cursor>>
      /\ UNCHANGED <<next_segment_seq, dirty, offered, done>>
      /\ job.at = "purge" /\ store' = store \cup {job.seq}
      /\ registry' = [s \in Subscribers |->
           IF registry[s].active THEN AddSegment(registry[s], job.seq, files[job.seq])
           ELSE registry[s]]
      /\ job' = IF job.then = "append" THEN [Idle EXCEPT !.at = "retry", !.bundle = job.bundle]
                ELSE Idle
      /\ accepted' = IF job.then = "ingest" THEN accepted \cup {job.bundle} ELSE accepted
  BY DEF RegisterSegment, engine, on_disk
<1>1. /\ files \in SegmentMaps /\ store \subseteq DOMAIN files
      /\ \A s \in Subscribers : registry[s] \in SubscriberStates
  BY DEF IInv, SegmentsTyped
<1>2. job.seq \in DOMAIN files /\ job.seq \in Nat /\ files[job.seq] \subseteq Bundles
  BY <1>0, <1>1, MapFacts DEF IInv, JobSound
<1>3. ASSUME NEW s \in Subscribers
      PROVE  /\ registry'[s] \in SubscriberStates
             /\ DOMAIN registry'[s].segments \subseteq DOMAIN registry[s].segments \cup {job.seq}
             /\ \A q \in DOMAIN registry'[s].segments :
                  registry'[s].segments[q] =
                    IF q \in DOMAIN registry[s].segments THEN registry[s].segments[q] ELSE files[q]
  <2> DEFINE st == registry[s]
             n == Single(job.seq, files[job.seq])
             m == Added(st.segments, n)
  <2>1. st \in SubscriberStates /\ st.segments \in SegmentMaps
    BY <1>1 DEF SubscriberStates
  <2>2. registry'[s] = st \/ registry'[s] = [st EXCEPT !.segments = m]
    BY <1>0 DEF AddSegment
  <2>3. n \in SegmentMaps /\ DOMAIN n = {job.seq} /\ n[job.seq] = files[job.seq]
    BY <1>2, SingleMap
  <2> HIDE DEF n, st
  <2>4. /\ m \in SegmentMaps /\ DOMAIN m = DOMAIN st.segments \cup DOMAIN n
        /\ \A q \in DOMAIN st.segments : m[q] = st.segments[q]
        /\ \A q \in DOMAIN n \ DOMAIN st.segments : m[q] = n[q]
    BY <2>1, <2>3, AddedMap
  <2> HIDE DEF m
  <2>5. registry'[s] \in SubscriberStates
        /\ (registry'[s].segments = st.segments \/ registry'[s].segments = m)
    BY <2>1, <2>2, <2>4 DEF SubscriberStates
  <2> QED
    BY <2>3, <2>4, <2>5 DEF st
<1>4. LogTyped'
  BY <1>0 DEF IInv, LogTyped
<1>5. SegmentsTyped'
  <2>1. registry' \in [Subscribers -> SubscriberStates]
    BY <1>0, <1>3
  <2> QED
    BY <1>0, <1>2, <2>1 DEF IInv, SegmentsTyped
<1>6. phase \in {"replay", "up"} /\ (phase = "replay" => job.then \in {"none", "replay"})
      /\ (job.then \in {"append", "ingest"} => job.bundle \in Bundles)
      /\ (phase = "up" => job.bundle <= offered) /\ offered \in Nat /\ accepted \subseteq 1..offered
  BY <1>0, IdleIs DEF IInv, EngineTyped, JobSound
<1>7. /\ job' \in Jobs /\ job'.at \in {"idle", "retry"} /\ job'.then = "none"
      /\ (job'.at = "retry" => job'.bundle = job.bundle /\ phase = "up" /\ job.bundle \in Bundles)
      /\ (job'.at = "idle" => job'.bundle = 0)
  <2>1. CASE job.then = "append"
    <3> DEFINE b == job.bundle
    <3>1. b \in 0..MaxBundles
      BY Fields
    <3>2. job' = [Idle EXCEPT !.at = "retry", !.bundle = b]
      BY <1>0, <2>1
    <3> HIDE DEF b
    <3>3. job' \in Jobs /\ job'.at = "retry" /\ job'.then = "none" /\ job'.bundle = b
      BY <3>1, <3>2 DEF Idle, Jobs
    <3> QED
      BY <1>6, <2>1, <3>3 DEF b
  <2>2. CASE job.then # "append"
    BY <1>0, <2>2, IdleIs
  <2> QED
    BY <2>1, <2>2
<1>8. accepted' \subseteq 1..offered
  <2>1. job.then = "ingest" => job.bundle \in 1..offered
    BY <1>6 DEF Bundles
  <2> QED
    BY <1>0, <1>6, <2>1
<1>9. EngineTyped' /\ JobSound'
  BY <1>0, <1>6, <1>7, <1>8 DEF IInv, EngineTyped, JobSound
<1>10. Above(next_segment_seq) /\ next_segment_seq \in Nat
  BY <1>0, <1>6 DEF IInv, EngineTyped, NumbersSound
<1>11. Above(next_segment_seq)'
  BY <1>0, <1>2, <1>3, <1>10 DEF Above
<1>12. NumbersSound'
  BY <1>0, <1>7, <1>10, <1>11 DEF NumbersSound
<1>13. ProgressHonest'
  <2>1. ASSUME NEW s \in Subscribers, NEW q \in DOMAIN registry'[s].segments \cap DOMAIN files
        PROVE  files[q] \ registry'[s].segments[q] \subseteq done[s]
    <3>1. CASE q \in DOMAIN registry[s].segments
      BY <1>3, <3>1 DEF IInv, ProgressHonest
    <3>2. CASE q \notin DOMAIN registry[s].segments
      BY <1>3, <3>2
    <3> QED
      BY <3>1, <3>2
  <2>2. ASSUME NEW s \in Subscribers, NEW q \in DOMAIN progress[s].entries \cap DOMAIN files
        PROVE  files[q] \ progress[s].entries[q] \subseteq done[s]
    BY DEF IInv, ProgressHonest
  <2> QED
    BY <1>0, <2>1, <2>2 DEF ProgressHonest
<1> QED
  BY <1>4, <1>5, <1>9, <1>12, <1>13 DEF IInv

----------------------------------------------------------------------------
(* Subscribers.                                                            *)

\* A change to one subscriber that leaves its segments their numbers and gives
\* up only bundles that are done.
LEMMA SubscriberStep ==
  ASSUME IInv, NEW s \in Subscribers, NEW st \in SubscriberStates,
         registry' = [registry EXCEPT ![s] = st],
         DOMAIN st.segments = DOMAIN registry[s].segments,
         done' \in [Subscribers -> SUBSET Bundles], \A x \in Subscribers : done[x] \subseteq done'[x],
         \A q \in DOMAIN st.segments : registry[s].segments[q] \ st.segments[q] \subseteq done'[s],
         dirty' \subseteq Subscribers,
         UNCHANGED <<on_disk, phase, job, replay, engine, store, offered, accepted>>
  PROVE  IInv'
<1>0. /\ UNCHANGED <<disk, files, progress, phase, job, replay, writer, open_segment>>
      /\ UNCHANGED <<segment_cursor, next_segment_seq, store, offered, accepted>>
  BY DEF on_disk, engine
<1>1. registry \in [Subscribers -> SubscriberStates]
  BY DEF IInv, SegmentsTyped
<1>2. registry' \in [Subscribers -> SubscriberStates]
  BY <1>1
<1>3. registry'[s] = st /\ \A x \in Subscribers \ {s} : registry'[x] = registry[x]
  BY <1>1
<1>4. \A x \in Subscribers : DOMAIN registry'[x].segments = DOMAIN registry[x].segments
  BY <1>3
<1>5. \A n : Above(n) <=> Above(n)'
  BY <1>0, <1>4 DEF Above
<1>6. SegmentsTyped'
  BY <1>0, <1>2 DEF IInv, SegmentsTyped
<1>7. LogTyped' /\ EngineTyped' /\ JobSound'
  BY <1>0 DEF IInv, LogTyped, EngineTyped, JobSound
<1>8. NumbersSound'
  BY <1>0, <1>5 DEF IInv, NumbersSound
<1>9. ProgressHonest'
  <2>1. ASSUME NEW x \in Subscribers, NEW q \in DOMAIN registry'[x].segments \cap DOMAIN files
        PROVE  files[q] \ registry'[x].segments[q] \subseteq done'[x]
    <3>1. q \in DOMAIN registry[x].segments
      BY <1>4
    <3>2. files[q] \ registry[x].segments[q] \subseteq done[x] /\ done[x] \subseteq done'[x]
      BY <3>1 DEF IInv, ProgressHonest
    <3>3. registry[x].segments[q] \ registry'[x].segments[q] \subseteq done'[x]
      BY <1>3, <3>1
    <3> QED
      BY <3>2, <3>3
  <2>2. ASSUME NEW x \in Subscribers, NEW q \in DOMAIN progress[x].entries \cap DOMAIN files
        PROVE  files[q] \ progress[x].entries[q] \subseteq done'[x]
    <3>1. files[q] \ progress[x].entries[q] \subseteq done[x]
      BY DEF IInv, ProgressHonest
    <3> QED
      BY <3>1
  <2> QED
    BY <1>0, <2>1, <2>2 DEF ProgressHonest
<1> QED
  BY <1>6, <1>7, <1>8, <1>9 DEF IInv

\* A change of claims alone.
LEMMA ClaimStep ==
  ASSUME IInv, NEW s \in Subscribers, NEW c \in SUBSET (Nat \X Bundles),
         registry' = [registry EXCEPT ![s].claimed = c],
         UNCHANGED <<on_disk, phase, job, replay, engine, store, dirty, history>>
  PROVE  IInv'
<1> DEFINE st == [registry[s] EXCEPT !.claimed = c]
<1>1. registry[s] \in SubscriberStates
  BY DEF IInv, SegmentsTyped
<1>2. st \in SubscriberStates /\ st.segments = registry[s].segments
  BY <1>1 DEF SubscriberStates
<1>3. registry' = [registry EXCEPT ![s] = st]
  OBVIOUS
<1> HIDE DEF st
<1>4. /\ done' = done /\ done \in [Subscribers -> SUBSET Bundles] /\ dirty' \subseteq Subscribers
      /\ UNCHANGED <<on_disk, phase, job, replay, engine, store, offered, accepted>>
  BY DEF history, IInv, SegmentsTyped
<1>5. /\ done' \in [Subscribers -> SUBSET Bundles] /\ \A x \in Subscribers : done[x] \subseteq done'[x]
  BY <1>4
<1>6. \A q \in DOMAIN st.segments : registry[s].segments[q] \ st.segments[q] \subseteq done'[s]
  BY <1>2
<1> QED
  BY <1>2, <1>3, <1>4, <1>5, <1>6, SubscriberStep

\* poll_next_bundle claims a pending bundle.
LEMMA StepPoll == ASSUME IInv, NEW s \in Subscribers, Poll(s) PROVE IInv'
<1> DEFINE c == registry[s].claimed \cup {NextPending(registry[s])}
<1>1. registry[s] \in SubscriberStates
  BY DEF IInv, SegmentsTyped
<1>2. registry[s].claimed \subseteq Nat \X Bundles
  BY <1>1 DEF SubscriberStates
<1>3. NextPending(registry[s]) \in Nat \X Bundles
  BY <1>1, NextPendingIs DEF Poll
<1>4. c \in SUBSET (Nat \X Bundles)
  BY <1>2, <1>3
<1>5. registry' = [registry EXCEPT ![s].claimed = c]
  BY DEF Poll
<1> HIDE DEF c
<1> QED
  BY <1>4, <1>5, ClaimStep DEF Poll

\* defer gives a claim back.
LEMMA StepDefer == ASSUME IInv, NEW s \in Subscribers, NEW r, Defer(s, r) PROVE IInv'
<1> DEFINE c == registry[s].claimed \ {r}
<1>1. registry[s] \in SubscriberStates
  BY DEF IInv, SegmentsTyped
<1>2. c \in SUBSET (Nat \X Bundles)
  BY <1>1 DEF SubscriberStates
<1>3. registry' = [registry EXCEPT ![s].claimed = c]
  BY DEF Defer
<1> HIDE DEF c
<1> QED
  BY <1>2, <1>3, ClaimStep DEF Defer

\* ack and reject resolve one bundle.
LEMMA StepResolve == ASSUME IInv, NEW s \in Subscribers, NEW r, Resolve(s, r) PROVE IInv'
<1> DEFINE old == registry[s].segments
           st == RecordOutcome(registry[s], r)
           c == registry[s].claimed \ {r}
           m == [q \in DOMAIN old |-> IF q = r[1] THEN old[q] \ {r[2]} ELSE old[q]]
<1>1. registry[s] \in SubscriberStates /\ old \in SegmentMaps
      /\ registry[s].claimed \subseteq Nat \X Bundles
  BY DEF IInv, SegmentsTyped, SubscriberStates
<1>2. r \in Nat \X Bundles /\ r[2] \in Bundles
  <2>1. r \in registry[s].claimed
    BY DEF Resolve, Handles
  <2> QED
    BY <1>1, <2>1
<1>3. DOMAIN old \subseteq Nat /\ \A q \in DOMAIN old : old[q] \subseteq Bundles
  BY <1>1, MapFacts
<1>4. /\ m \in [DOMAIN old -> SUBSET Bundles] /\ DOMAIN m = DOMAIN old
      /\ \A q \in DOMAIN old : old[q] \ m[q] \subseteq {r[2]}
  BY <1>3
<1>5. m \in SegmentMaps
  <2> HIDE DEF m
  <2> QED
    BY <1>3, <1>4, MapIntro
<1>6. st = [registry[s] EXCEPT !.claimed = c, !.segments = m]
  BY DEF RecordOutcome
<1>7. registry' = [registry EXCEPT ![s] = st]
  BY DEF Resolve
<1> HIDE DEF m, c
<1>8. c \subseteq Nat \X Bundles
  BY <1>1 DEF c
<1>9. st \in SubscriberStates /\ st.segments = m
  <2> DEFINE x == registry[s]
  <2>1. x \in SubscriberStates /\ st = [x EXCEPT !.claimed = c, !.segments = m]
    BY <1>1, <1>6
  <2> HIDE DEF x, st
  <2> QED
    BY <1>5, <1>8, <2>1 DEF SubscriberStates
<1> HIDE DEF st, old
<1>10. done' = [done EXCEPT ![s] = @ \cup {r[2]}] /\ done \in [Subscribers -> SUBSET Bundles]
  BY DEF Resolve, IInv, SegmentsTyped
<1>11. /\ done' \in [Subscribers -> SUBSET Bundles] /\ r[2] \in done'[s]
       /\ \A x \in Subscribers : done[x] \subseteq done'[x]
  BY <1>2, <1>10
<1>12. dirty' \subseteq Subscribers /\ UNCHANGED <<on_disk, phase, job, replay, engine, store, offered, accepted>>
  BY DEF Resolve, IInv, SegmentsTyped
<1>13. /\ DOMAIN st.segments = DOMAIN registry[s].segments
       /\ \A q \in DOMAIN st.segments : registry[s].segments[q] \ st.segments[q] \subseteq done'[s]
  BY <1>4, <1>9, <1>11 DEF old
<1> QED
  BY <1>7, <1>9, <1>11, <1>12, <1>13, SubscriberStep

\* flush_progress writes what the subscribers have in memory.
LEMMA StepFlushProgress == IInv /\ FlushProgress => IInv'
<1> SUFFICES ASSUME IInv, FlushProgress PROVE IInv'
  OBVIOUS
<1> DEFINE P(s) == [written |-> TRUE, entries |-> registry[s].segments,
                    oldest |-> IF Incomplete(registry[s]) = {} THEN 0
                               ELSE Min(Incomplete(registry[s]))]
<1>0. /\ UNCHANGED <<disk, files, phase, replay, writer, open_segment, segment_cursor>>
      /\ UNCHANGED <<next_segment_seq, store, registry, offered, accepted, done>>
      /\ phase = "up" /\ job = Idle /\ dirty' = {} /\ job' = [Idle EXCEPT !.at = "cleanup"]
      /\ progress' = [s \in Subscribers |-> IF s \notin dirty THEN progress[s] ELSE P(s)]
  BY DEF FlushProgress, Free, engine, history
<1>1. /\ progress \in [Subscribers -> ProgressFiles]
      /\ registry \in [Subscribers -> SubscriberStates]
  BY DEF IInv, SegmentsTyped
<1>2. next_segment_seq \in Nat /\ Above(next_segment_seq)
  BY <1>0, IdleIs DEF IInv, EngineTyped, NumbersSound
<1>3. ASSUME NEW s \in Subscribers
      PROVE  /\ progress'[s] \in ProgressFiles
             /\ progress'[s].entries \in {registry[s].segments, progress[s].entries}
             /\ progress'[s].oldest # 0 => progress'[s].oldest < next_segment_seq
  <2>1. CASE s \notin dirty
    BY <1>0, <1>1, <1>2, <2>1 DEF Above
  <2>2. CASE s \in dirty
    <3> DEFINE inc == Incomplete(registry[s])
               e == registry[s].segments
               o == IF inc = {} THEN 0 ELSE Min(inc)
    <3>1. progress'[s] = [written |-> TRUE, entries |-> e, oldest |-> o]
      BY <1>0, <2>2
    <3>2. e \in SegmentMaps
      BY <1>1 DEF SubscriberStates
    <3>3. inc \subseteq DOMAIN e
      BY DEF Incomplete
    <3>4. DOMAIN e \subseteq Nat /\ \A q \in DOMAIN e : q < next_segment_seq
      BY <1>2, <3>2, MapFacts DEF Above
    <3> HIDE DEF inc
    <3>5. inc # {} => Min(inc) \in inc
      BY <3>3, <3>4, MinOf
    <3>6. o \in Nat /\ (o # 0 => o < next_segment_seq)
      BY <3>3, <3>4, <3>5
    <3> HIDE DEF e, o
    <3>7. progress'[s] \in ProgressFiles /\ progress'[s].entries = e /\ progress'[s].oldest = o
      BY <3>1, <3>2, <3>6 DEF ProgressFiles
    <3> QED
      BY <3>6, <3>7 DEF e
  <2> QED
    BY <2>1, <2>2
<1>4. SegmentsTyped'
  <2>1. progress' \in [Subscribers -> ProgressFiles]
    BY <1>0, <1>3
  <2> QED
    BY <1>0, <2>1 DEF IInv, SegmentsTyped
<1>5. job' \in Jobs /\ job'.at = "cleanup" /\ job'.then = "none" /\ job'.bundle = 0
  BY <1>0, EngineAssumption DEF Idle, Jobs
<1>6. LogTyped'
  BY <1>0 DEF IInv, LogTyped
<1>7. EngineTyped' /\ JobSound'
  BY <1>0, <1>5 DEF IInv, EngineTyped, JobSound
<1>8. Above(next_segment_seq)'
  BY <1>0, <1>2, <1>3 DEF Above
<1>9. NumbersSound'
  BY <1>0, <1>2, <1>5, <1>8 DEF NumbersSound
<1>10. ProgressHonest'
  <2>1. ASSUME NEW s \in Subscribers, NEW m \in {registry[s].segments, progress'[s].entries},
               NEW q \in DOMAIN m \cap DOMAIN files
        PROVE  files[q] \ m[q] \subseteq done[s]
    <3>1. m \in {registry[s].segments, progress[s].entries}
      BY <1>3
    <3> QED
      BY <3>1 DEF IInv, ProgressHonest
  <2> QED
    BY <1>0, <2>1 DEF ProgressHonest
<1> QED
  BY <1>4, <1>6, <1>7, <1>9, <1>10 DEF IInv

----------------------------------------------------------------------------
(* The invariant is kept.                                                  *)

\* Every step keeps the invariant.
LEMMA StepIInv == IInv /\ [Next]_vars => IInv'
<1> SUFFICES ASSUME IInv, [Next]_vars PROVE IInv'
  OBVIOUS
<1>1. CASE EngineStep
  BY <1>1, StepOpen, StepReplayOpenFile, StepReplayEntry, StepReplayDone, StepAppendToWal,
     StepWalFull, StepRotateByRename, StepRotateToNewFile, StepAppendToSegment, StepFlush,
     StepWriteSegment, StepPersistCursor, StepPurgeRotatedFile, StepRegisterSegment, StepCleanup
     DEF EngineStep
<1>2. CASE \E over \in BOOLEAN : Ingest(over)
  BY <1>2, StepIngest
<1>3. CASE RejectOverSoftCap \/ FlushProgress
  BY <1>3, StepRejectOverSoftCap, StepFlushProgress
<1>4. CASE WriteSegmentFails \/ PersistCursorFails \/ Crash
  BY <1>4, StepWriteSegmentFails, StepPersistCursorFails, StepCrash
<1>5. ASSUME NEW s \in Subscribers,
             \/ Poll(s) \/ ResolveSome(s)
             \/ \E r \in Handles(s) : Defer(s, r)
      PROVE  IInv'
  <2>1. CASE ResolveSome(s)
    BY <2>1, StepResolve DEF ResolveSome
  <2> QED
    BY <1>5, <2>1, StepPoll, StepDefer
<1>6. CASE UNCHANGED vars
  <2>0. /\ UNCHANGED <<disk, files, progress, phase, job, replay, writer, open_segment>>
        /\ UNCHANGED <<segment_cursor, next_segment_seq, store, registry, dirty, offered, accepted, done>>
    BY <1>6 DEF vars, on_disk, engine, subscriber, history
  <2>1. SegmentsTyped' /\ ProgressHonest' /\ \A n : Above(n)' <=> Above(n)
    BY <2>0, SameSegments
  <2>2. LogTyped' /\ EngineTyped' /\ JobSound'
    BY <2>0 DEF IInv, LogTyped, EngineTyped, JobSound
  <2>3. NumbersSound'
    BY <2>0, <2>1 DEF IInv, NumbersSound
  <2> QED
    BY <2>1, <2>2, <2>3 DEF IInv
<1> QED
  BY <1>1, <1>2, <1>3, <1>4, <1>5, <1>6 DEF Next

\* The invariant holds in every state, whatever crashes the instance allows.
LEMMA Invariance == Spec => []IInv
<1>1. Init => IInv
  BY InitIInv
<1>2. IInv /\ [Next]_vars => IInv'
  BY StepIInv
<1> QED
  BY <1>1, <1>2, PTL DEF Spec

\* The engine's state on disk and in memory has the shape TypeOK gives it: a
\* segment in the store has its file, the writer's list of rotated files is the
\* one on disk, and what ingest accepted was offered.
THEOREM TypeCorrect == Spec => []TypeOK
<1>1. IInv => TypeOK
  BY IInvTypeOK
<1> QED
  BY <1>1, Invariance, PTL

\* No progress file and no subscriber counts a bundle as resolved that was not,
\* in any segment that is still there: sequence numbers are never used again,
\* neither after a failed write nor after a restart that finds them only in a
\* progress file (engine.rs, open and finalize_segment_impl; registry.rs, open).
THEOREM ProgressIsHonest == Spec => []ProgressHonest
<1>1. IInv => ProgressHonest
  BY DEF IInv
<1> QED
  BY <1>1, Invariance, PTL

----------------------------------------------------------------------------
(* The cursors, when no process ends inside a rotation or a purge.         *)

\* The files of the log, as numbers.
LEMMA LogNumbers ==
  ASSUME IInv, NEW i \in 1..Len(disk.rotated)
  PROVE  /\ disk.rotated[i] \in Files /\ disk.rotated[i].start \in Nat
         /\ Len(disk.rotated[i].data) \in Nat /\ FileEnd(disk.rotated[i]) \in Nat
         /\ FileEnd(disk.rotated[i]) = disk.rotated[i].start + Len(disk.rotated[i].data)
<1>1. disk.rotated[i] \in Files
  BY Fields
<1>2. disk.rotated[i].start \in Nat /\ Len(disk.rotated[i].data) \in Nat
  BY <1>1 DEF Files
<1> QED
  BY <1>1, <1>2 DEF FileEnd

\* Every rotated file lies before the active one.
LEMMA RotatedBefore ==
  ASSUME IInv, LogSound, job.at # "reopen", NEW i \in 1..Len(disk.rotated)
  PROVE  FileEnd(disk.rotated[i]) <= disk.active.start /\ disk.rotated[i].start < disk.active.start
<1> DEFINE n == Len(disk.rotated)
           a == disk.active.start
           start == [k \in 1..n |-> disk.rotated[k].start]
           end == [k \in 1..n |-> FileEnd(disk.rotated[k])]
           U == {k \in 1..n : ~(end[k] <= a)}
<1>1. n \in Nat /\ a \in Nat /\ disk.rotated # << >>
  BY Fields
<1>2. \A k \in 1..n : start[k] \in Nat /\ end[k] \in Nat /\ start[k] < end[k]
  <2> SUFFICES ASSUME NEW k \in 1..n PROVE start[k] \in Nat /\ end[k] \in Nat /\ start[k] < end[k]
    OBVIOUS
  <2>1. Len(disk.rotated[k].data) > 0
    BY DEF LogSound
  <2> QED
    BY <2>1, LogNumbers
<1>3. \A k, l \in 1..n : l = k + 1 => start[l] = end[k]
  BY DEF LogSound
<1>4. end[n] = a /\ n \in 1..n
  <2>1. a = FileEnd(Last(disk.rotated))
    BY <1>1 DEF LogSound
  <2>2. n \in 1..n
    BY <1>1, Fields
  <2> QED
    BY <2>1, <2>2 DEF Last
<1>5. i \in 1..n /\ end[i] = FileEnd(disk.rotated[i]) /\ start[i] = disk.rotated[i].start
  OBVIOUS
<1> HIDE DEF n, a, start, end
<1>6. U = {}
  <2> SUFFICES ASSUME U # {} PROVE FALSE
    OBVIOUS
  <2> DEFINE m == Max(U)
  <2>1. m \in U /\ \A q \in U : q <= m
    <3>1. U \subseteq Nat /\ n + 1 \in Nat /\ \A q \in U : q < n + 1
      BY <1>1
    <3> HIDE DEF U
    <3> QED
      BY <3>1, MaxOf
  <2> HIDE DEF m
  <2>2. m \in 1..n /\ m # n /\ ~(end[m] <= a)
    BY <1>1, <1>4, <2>1
  <2>3. m + 1 \in 1..n /\ m + 1 \notin U
    BY <1>1, <2>1, <2>2
  <2>4. end[m + 1] <= a
    BY <2>3
  <2>5. start[m + 1] = end[m]
    BY <1>3, <2>2, <2>3
  <2>6. start[m + 1] \in Nat /\ end[m + 1] \in Nat /\ start[m + 1] < end[m + 1]
    BY <1>2, <2>3
  <2> QED
    BY ONLY <1>1, <2>2, <2>4, <2>5, <2>6
<1>7. end[i] <= a /\ start[i] \in Nat /\ end[i] \in Nat /\ start[i] < end[i]
  BY <1>2, <1>5, <1>6
<1>8. end[i] <= a /\ start[i] < a
  BY ONLY <1>1, <1>7
<1> QED
  BY <1>5, <1>8 DEF a

\* So the active file is read last and the log ends where it does.
LEMMA WalEnds ==
  ASSUME IInv, LogSound, job.at # "reopen"
  PROVE  WalEndPosition(disk) = disk.active.start + Len(disk.active.data)
<1> DEFINE n == Len(disk.rotated) + 1
<1>0. disk \in Disks
  BY DEF IInv, LogTyped
<1>1. n \in Nat /\ n > 0 /\ Len(Found(disk)) = n /\ Found(disk)[n] = disk.active
      /\ Len(disk.rotated) \in Nat
      /\ \A i \in 1..Len(disk.rotated) : Found(disk)[i] = disk.rotated[i]
  BY <1>0, FoundIs
<1>2. PICK i \in 1..n : ReadOrder(disk)[n] = Found(disk)[i] /\ Cardinality(ReadBefore(disk, i)) = n - 1
  <2>1. n \in 1..n
    BY <1>1
  <2> QED
    BY <1>0, <2>1, ReadOrderIs
<1>3. i = n
  <2> SUFFICES ASSUME i # n PROVE FALSE
    OBVIOUS
  <2>1. i \in 1..Len(disk.rotated) /\ n \in 1..n
    BY <1>1
  <2>2. disk.rotated[i].start < disk.active.start /\ disk.rotated[i].start \in Nat
        /\ disk.active.start \in Nat
    BY <2>1, RotatedBefore, LogNumbers, Fields
  <2>3. Found(disk)[i].start < Found(disk)[n].start /\ Found(disk)[i].start \in Nat
        /\ Found(disk)[n].start \in Nat
    BY <1>1, <2>1, <2>2
  <2>4. n \notin ReadBefore(disk, i) /\ i \notin ReadBefore(disk, i)
    BY <2>3 DEF ReadBefore
  <2>5. ReadBefore(disk, i) \subseteq (1..n) \ {n, i}
    BY <1>1, <2>4 DEF ReadBefore
  <2> DEFINE S == 1..n
             T == ReadBefore(disk, i)
  <2>6. IsFiniteSet(S) /\ Cardinality(S) = n /\ n \in S /\ T \subseteq S \ {n} /\ T # S \ {n}
    <3>1. IsFiniteSet(1..n) /\ Cardinality(1..n) = n
      <4> HIDE DEF n
      <4>1. 1 \in Int /\ n \in Int /\ n >= 1
        BY <1>1
      <4> QED
        BY <4>1, FS_Interval
    <3>2. i \in 1..n /\ i # n /\ n \in 1..n
      BY <2>1
    <3> HIDE DEF n
    <3> QED
      BY <2>5, <3>1, <3>2
  <2> HIDE DEF n, S, T
  <2>7. IsFiniteSet(S \ {n}) /\ Cardinality(S \ {n}) = n - 1
    BY <2>6, FS_RemoveElement
  <2>8. Cardinality(T) <= n - 1 /\ Cardinality(T) # n - 1
    BY <2>6, <2>7, FS_Subset
  <2> QED
    BY <1>2, <2>8 DEF T
<1>4. Last(ReadOrder(disk)) = disk.active
  <2>1. Len(ReadOrder(disk)) = n
    BY <1>0, ReadOrderIs
  <2> QED
    BY <1>1, <1>2, <1>3, <2>1 DEF Last
<1> QED
  BY <1>4 DEF WalEndPosition, FileEnd

\* Steps that touch neither the log nor a cursor.
LEMMA CSame ==
  ASSUME CInv, UNCHANGED <<disk, writer, open_segment, segment_cursor, replay, phase>>,
         job.at # "reopen", job'.at \in {"idle", "append", "retry", "purge", "cleanup"}
  PROVE  CInv'
<1>1. LogSound'
  BY DEF CInv, LogSound, PartlyPurged
<1>2. PositionsSound'
  BY DEF CInv, PositionsSound
<1>3. CursorsSound'
  BY DEF CInv, CursorsSound, LogEnd
<1> QED
  BY <1>1, <1>2, <1>3 DEF CInv

\* The first state has an empty log and no process.
LEMMA InitCInv == Init => CInv
<1> SUFFICES ASSUME Init PROVE CInv
  OBVIOUS
<1>1. disk.rotated = << >> /\ phase = "down" /\ job.at = "idle"
  BY IdleIs DEF Init, EmptyDisk
<1> QED
  BY <1>1 DEF Init, CInv, LogSound, PositionsSound, CursorsSound, PartlyPurged

\* A process may end only with the whole log in place.
LEMMA CForgotten ==
  ASSUME CInv, WholeLog, MayEnd, Forget, disk' = disk PROVE CInv'
<1>1. phase' = "down" /\ job'.at = "idle" /\ job.at # "reopen" /\ ~PartlyPurged
  BY IdleIs DEF WholeLog, MayEnd, Forget
<1>2. LogSound'
  BY <1>1 DEF CInv, LogSound, PartlyPurged
<1> QED
  BY <1>1, <1>2 DEF CInv, PositionsSound, CursorsSound, Forget

\* open() finds the positions that are in the headers.
LEMMA COpen == IInv /\ CInv /\ Open => CInv'
<1> SUFFICES ASSUME IInv, CInv, Open PROVE CInv'
  OBVIOUS
<1> DEFINE n == Len(disk.rotated)
           e == ReloadRotatedFiles(disk.rotated)
           end == [k \in 1..n |-> FileEnd(disk.rotated[k])]
           size == [k \in 1..n |-> Len(disk.rotated[k].data)]
           L == Len(disk.active.data)
<1>0. /\ UNCHANGED <<disk, job, open_segment, segment_cursor>> /\ phase = "down"
      /\ phase' = "replay" /\ writer' = OpenWriter(disk) /\ job = Idle /\ disk \in Disks
      /\ replay' = [files |-> FilesFrom(disk, ReplayFrom(disk)), pos |-> ReplayFrom(disk),
                    entries |-> << >>]
      /\ LogSound /\ ~PartlyPurged /\ job.at = "idle"
  BY IdleIs DEF Open, on_disk, IInv, JobSound, LogTyped, CInv, LogSound
<1>1. /\ e \in Seq(Nat) /\ Len(e) = n /\ (n > 0 => e[1] = size[1])
      /\ \A i, j \in 1..n : j = i + 1 => e[j] = e[i] + size[j]
  <2>1. /\ e \in Seq(Nat) /\ Len(e) = n /\ (n > 0 => e[1] = Len(disk.rotated[1].data))
        /\ \A i, j \in 1..n : j = i + 1 => e[j] = e[i] + Len(disk.rotated[j].data)
    BY Fields, ReloadIs
  <2>2. n > 0 => 1 \in 1..n
    BY Fields
  <2> HIDE DEF e
  <2> QED
    BY <2>1, <2>2
<1>2. n \in Nat /\ \A k \in 1..n : end[k] \in Nat /\ size[k] \in Nat
  BY Fields, LogNumbers
<1>3. n > 0 => end[1] = size[1]
  <2> SUFFICES ASSUME n > 0 PROVE end[1] = size[1]
    OBVIOUS
  <2>1. 1 \in 1..n /\ disk.rotated # << >>
    BY <1>2
  <2>2. disk.rotated[1].start = 0
    BY <1>0, <2>1 DEF PartlyPurged
  <2> QED
    BY <2>1, <2>2, LogNumbers
<1>4. \A i, j \in 1..n : j = i + 1 => end[j] = end[i] + size[j]
  <2> SUFFICES ASSUME NEW i \in 1..n, NEW j \in 1..n, j = i + 1 PROVE end[j] = end[i] + size[j]
    OBVIOUS
  <2>1. disk.rotated[j].start = FileEnd(disk.rotated[i])
    BY <1>0 DEF LogSound
  <2> QED
    BY <2>1, LogNumbers
<1> HIDE DEF e, end, size
<1>5. \A k \in 1..n : e[k] = end[k]
  <2> DEFINE U == {k \in 1..n : e[k] # end[k]}
  <2> HIDE DEF n
  <2> SUFFICES ASSUME U # {} PROVE FALSE
    OBVIOUS
  <2> DEFINE m == Min(U)
  <2>1. m \in U /\ \A k \in U : m <= k
    <3>1. U \subseteq Nat
      BY <1>2
    <3> HIDE DEF U
    <3> QED
      BY <3>1, MinOf
  <2> HIDE DEF m
  <2>2. m \in 1..n /\ m # 1 /\ e[m] # end[m]
    BY <1>1, <1>2, <1>3, <2>1
  <2>3. m - 1 \in 1..n /\ m - 1 \notin U /\ m = (m - 1) + 1
    BY <1>2, <2>1, <2>2
  <2>4. e[m - 1] = end[m - 1]
    BY <2>3
  <2>5. e[m] = e[m - 1] + size[m] /\ end[m] = end[m - 1] + size[m]
    BY <1>1, <1>4, <2>2, <2>3
  <2> QED
    BY <2>2, <2>4, <2>5
<1>6. LogSound'
  BY <1>0, IdleIs DEF LogSound, PartlyPurged
<1>7. L \in Nat /\ disk.active.start \in Nat
  BY Fields
<1> DEFINE r == IF e = << >> THEN 0 ELSE Last(e)
<1>8. /\ writer' \in Writers /\ writer'.ends = e /\ writer'.start = disk.active.start /\ r \in Nat
      /\ writer'.cursor <= disk.sidecar /\ writer'.cursor <= r + L
  BY <1>0, OpenWriterIs DEF e
<1>9. e # << >> => disk.active.start = Last(e)
  <2> SUFFICES ASSUME e # << >> PROVE disk.active.start = Last(e)
    OBVIOUS
  <2>1. n > 0 /\ n \in 1..n
    BY <1>1, <1>2
  <2>2. disk.rotated # << >>
    BY <2>1
  <2>3. disk.active.start = FileEnd(Last(disk.rotated)) /\ Last(disk.rotated) = disk.rotated[n]
    BY <1>0, <2>2 DEF LogSound, Last
  <2>4. FileEnd(disk.rotated[n]) = e[n]
    BY <1>5, <2>1 DEF end
  <2> QED
    BY <1>1, <2>3, <2>4 DEF Last
<1>10. PositionsSound'
  <2>1. \A i \in 1..n : e[i] = FileEnd(disk.rotated[i])
    BY <1>5 DEF end
  <2> QED
    BY <1>0, <1>8, <1>9, <2>1 DEF PositionsSound
<1>11. r <= disk.active.start
  BY <1>7, <1>9
<1>12. LogEnd' = disk.active.start + L
  BY <1>0, <1>8 DEF LogEnd
<1>13. writer'.cursor \in Nat /\ writer'.cursor <= disk.active.start + L
  <2>1. writer'.cursor \in Nat
    BY <1>8 DEF Writers
  <2> HIDE DEF r, L
  <2> QED
    BY <2>1, <1>7, <1>8, <1>11
<1>14. writer'.cursor <= replay'.pos
  <2> DEFINE x == ReplayFrom(disk)
             y == FilesFrom(disk, ReplayFrom(disk))
  <2>1. x \in {disk.sidecar, disk.active.start + L}
    BY <1>0, ReplayFromIs, WalEnds
  <2>2. replay' = [files |-> y, pos |-> x, entries |-> << >>]
    BY <1>0
  <2> HIDE DEF x, y
  <2>3. replay'.pos = x
    BY <2>2
  <2> QED
    BY <1>8, <1>13, <2>1, <2>3
<1>15. replay'.entries = << >> /\ open_segment = {}
  BY <1>0 DEF CInv, CursorsSound
<1>16. CursorsSound'
  BY <1>0, <1>12, <1>13, <1>14, <1>15 DEF CursorsSound
<1> QED
  BY <1>6, <1>10, <1>16 DEF CInv

\* The entries read from a file that is there lie between replay.pos and the end of the log.
LEMMA CReplayOpenFile == IInv /\ CInv /\ ReplayOpenFile => CInv'
<1> SUFFICES ASSUME IInv, CInv, ReplayOpenFile PROVE CInv'
  OBVIOUS
<1> DEFINE f == Head(replay.files)
           there == f \in Range(disk.rotated) \cup {disk.active}
           x == IF there THEN EntriesFrom(f, replay.pos) ELSE << >>
           y == Tail(replay.files)
<1>0. /\ UNCHANGED <<disk, phase, job, writer, open_segment, segment_cursor>>
      /\ phase = "replay" /\ job.at = "idle"
  BY IdleIs DEF ReplayOpenFile, on_disk, engine
<1>1. replay' = [replay EXCEPT !.files = Tail(@), !.entries = x]
  BY Zenon DEF ReplayOpenFile
<1>2. replay = [files |-> replay.files, pos |-> replay.pos, entries |-> replay.entries]
      /\ replay.pos \in Nat
  BY DEF IInv, LogTyped
<1>3. there => f \in Files /\ FileEnd(f) \in Nat /\ FileEnd(f) <= LogEnd
  <2>1. /\ writer.start = disk.active.start /\ disk.active.start \in Nat
        /\ Len(disk.active.data) \in Nat /\ disk.active \in Files
        /\ LogEnd = writer.start + Len(disk.active.data)
    BY <1>0, Fields DEF CInv, PositionsSound, LogEnd
  <2>2. CASE f \in Range(disk.rotated)
    <3>1. PICK i \in 1..Len(disk.rotated) : f = disk.rotated[i]
      <4> DEFINE z == disk.rotated
      <4> HIDE DEF f
      <4>1. z \in Seq(Files) /\ f \in Range(z)
        BY <2>2, Fields
      <4> HIDE DEF z
      <4>2. DOMAIN z = 1..Len(z)
        BY <4>1
      <4>3. \E i \in 1..Len(z) : f = z[i]
        BY <4>1, <4>2 DEF Range
      <4> QED
        BY <4>3 DEF z
    <3>2. FileEnd(f) <= disk.active.start /\ f \in Files /\ FileEnd(f) \in Nat
      BY <1>0, <3>1, RotatedBefore, LogNumbers DEF CInv
    <3> QED
      BY ONLY <2>1, <3>2
  <2>3. CASE f = disk.active
    BY <2>1, <2>3 DEF FileEnd
  <2> QED
    BY <2>2, <2>3
<1>4. \A k \in 1..Len(x) : /\ replay.pos <= x[k].next /\ x[k].next <= LogEnd
                           /\ \A l \in 1..k : x[l].next <= x[k].next
  <2>1. CASE there
    <3>1. x = EntriesFrom(f, replay.pos)
      BY <2>1
    <3> HIDE DEF f, x, there
    <3>2. /\ x \in Seq(ReadAhead)
          /\ \A k \in 1..Len(x) : /\ replay.pos <= x[k].next /\ x[k].next <= FileEnd(f)
                                  /\ \A l \in 1..k : x[l].next <= x[k].next
      BY <1>2, <1>3, <2>1, <3>1, EntriesFromIs
    <3>3. LogEnd \in Nat
      BY Fields DEF LogEnd
    <3>4. \A k \in 1..Len(x) : x[k].next \in Nat
      <4>1. \A k \in 1..Len(x) : x[k] \in ReadAhead
        BY <3>2
      <4>2. \A v \in ReadAhead : v.next \in Nat
        BY DEF ReadAhead
      <4> QED
        BY <4>1, <4>2
    <3>5. FileEnd(f) \in Nat /\ FileEnd(f) <= LogEnd
      BY <1>3, <2>1
    <3> QED
      BY ONLY <3>2, <3>3, <3>4, <3>5
  <2>2. CASE ~there
    BY <2>2
  <2> QED
    BY <2>1, <2>2
<1> HIDE DEF x, y
<1>5. replay' = [files |-> y, pos |-> replay.pos, entries |-> x]
  BY <1>1, <1>2 DEF y
<1>6. replay'.pos = replay.pos /\ replay'.entries = x
  BY ONLY <1>5
<1>7. LogSound' /\ PositionsSound' /\ LogEnd' = LogEnd
  BY <1>0 DEF CInv, LogSound, PositionsSound, PartlyPurged, LogEnd
<1>8. CursorsSound'
  BY <1>0, <1>4, <1>6, <1>7 DEF CInv, CursorsSound
<1> QED
  BY <1>7, <1>8 DEF CInv

\* Replay goes forward.
LEMMA CReplayEntry == IInv /\ CInv /\ ReplayEntry => CInv'
<1> SUFFICES ASSUME IInv, CInv, ReplayEntry PROVE CInv'
  OBVIOUS
<1> DEFINE z == replay.entries
           c == Head(replay.entries).next
           b == Head(replay.entries).bundle
           x == Tail(replay.entries)
<1>0. /\ UNCHANGED <<disk, phase, writer, open_segment, segment_cursor>>
      /\ phase = "replay" /\ job.at = "idle" /\ z # << >> /\ z \in Seq(ReadAhead)
      /\ replay = [files |-> replay.files, pos |-> replay.pos, entries |-> replay.entries]
  BY IdleIs DEF ReplayEntry, on_disk, engine, IInv, LogTyped
<1>1. /\ replay' = [replay EXCEPT !.entries = x, !.pos = c]
      /\ job' = [Idle EXCEPT !.at = "segment", !.bundle = b, !.cursor = c]
  BY DEF ReplayEntry
<1>2. /\ Len(z) \in Nat /\ Len(z) > 0 /\ Len(x) = Len(z) - 1 /\ z[1] = Head(z)
      /\ \A k \in 1..Len(x) : x[k] = z[k + 1]
  BY <1>0
<1>3. /\ writer.cursor <= replay.pos
      /\ \A k \in 1..Len(z) :
            /\ replay.pos <= z[k].next /\ z[k].next <= LogEnd
            /\ \A l \in 1..k : z[l].next <= z[k].next
  BY <1>0 DEF CInv, CursorsSound
<1>4. /\ LogEnd \in Nat /\ writer.cursor \in Nat /\ replay.pos \in Nat
      /\ \A k \in 1..Len(z) : z[k].next \in Nat
  <2>1. \A k \in 1..Len(z) : z[k] \in ReadAhead
    BY <1>0
  <2>2. \A v \in ReadAhead : v.next \in Nat
    BY DEF ReadAhead
  <2>3. LogEnd \in Nat /\ writer.cursor \in Nat /\ replay.pos \in Nat
    <3>1. writer.start \in Nat /\ Len(disk.active.data) \in Nat /\ writer.cursor \in Nat
      BY Fields
    <3>2. replay.pos \in Nat
      BY DEF IInv, LogTyped
    <3> QED
      BY <3>1, <3>2 DEF LogEnd
  <2> HIDE DEF z
  <2> QED
    BY <2>1, <2>2, <2>3
<1>5. c = z[1].next /\ 1 \in 1..Len(z)
  BY <1>2
<1> HIDE DEF b, c, x, z
<1>6. writer.cursor <= c /\ c <= LogEnd /\ c \in Nat
  BY <1>3, <1>4, <1>5
<1>7. \A k \in 1..Len(x) : /\ c <= x[k].next /\ x[k].next <= LogEnd
                           /\ \A l \in 1..k : x[l].next <= x[k].next
  <2> SUFFICES ASSUME NEW k \in 1..Len(x)
               PROVE  /\ c <= x[k].next /\ x[k].next <= LogEnd
                      /\ \A l \in 1..k : x[l].next <= x[k].next
    OBVIOUS
  <2>1. k + 1 \in 1..Len(z) /\ x[k] = z[k + 1] /\ 1 \in 1..(k + 1)
    BY <1>2
  <2>2. c <= x[k].next /\ x[k].next <= LogEnd
    BY <1>3, <1>5, <2>1
  <2>3. ASSUME NEW l \in 1..k PROVE x[l].next <= x[k].next
    <3>1. l + 1 \in 1..(k + 1) /\ x[l] = z[l + 1]
      BY <1>2
    <3> QED
      BY <1>3, <2>1, <3>1
  <2> QED
    BY <2>2, <2>3
<1>8. replay' = [files |-> replay.files, pos |-> c, entries |-> x]
  BY <1>0, <1>1
<1>9. replay'.pos = c /\ replay'.entries = x
  BY ONLY <1>8
<1>10. job'.at = "segment" /\ job'.cursor = c
  BY <1>1 DEF Idle
<1>11. LogSound' /\ PositionsSound' /\ LogEnd' = LogEnd
  BY <1>0, <1>10 DEF CInv, LogSound, PositionsSound, PartlyPurged, LogEnd
<1>12. c <= c
  BY <1>6
<1>13. CursorsSound'
  BY <1>0, <1>6, <1>7, <1>9, <1>10, <1>11, <1>12 DEF CInv, CursorsSound
<1> QED
  BY <1>11, <1>13 DEF CInv

\* The end of replay.
LEMMA CReplayDone == IInv /\ CInv /\ ReplayDone => CInv'
<1> SUFFICES ASSUME IInv, CInv, ReplayDone PROVE CInv'
  OBVIOUS
<1>0. /\ UNCHANGED <<disk, job, writer, open_segment, segment_cursor>>
      /\ phase = "replay" /\ phase' = "up" /\ job.at = "idle"
  BY IdleIs DEF ReplayDone, on_disk, engine
<1> QED
  BY <1>0 DEF CInv, LogSound, PositionsSound, CursorsSound, PartlyPurged, LogEnd

\* Where the writer takes the active file to start.
LEMMA ActiveStartIs ==
  ASSUME IInv, CInv, phase # "down" PROVE ActiveWalPositionStart(writer) = writer.start
BY DEF CInv, PositionsSound, ActiveWalPositionStart

\* The new entry ends the log.
LEMMA CAppendToWal == IInv /\ CInv /\ AppendToWal => CInv'
<1> SUFFICES ASSUME IInv, CInv, AppendToWal PROVE CInv'
  OBVIOUS
<1> DEFINE a == IF MustRotate(disk') THEN "rename" ELSE "segment"
           c == ToWalPosition(disk', writer)
           x == Append(disk.active.data, job.bundle)
<1>0. /\ UNCHANGED <<phase, replay, writer, open_segment, segment_cursor>>
      /\ phase = "up" /\ job.at \in {"append", "retry"}
  BY DEF AppendToWal, engine
<1>1. disk' = [rotated |-> disk.rotated, sidecar |-> disk.sidecar,
               active |-> [start |-> disk.active.start, data |-> x]]
  <2>1. disk \in Disks /\ disk.active \in Files
    BY Fields DEF IInv, LogTyped
  <2>2. disk' = AppendEntry(disk, job.bundle)
    BY DEF AppendToWal
  <2> QED
    BY <2>1, <2>2 DEF AppendEntry, Disks, Files
<1>2. Len(x) = Len(disk.active.data) + 1 /\ Len(disk.active.data) \in Nat
  <2>1. job.bundle \in Bundles
    BY <1>0 DEF IInv, JobSound
  <2> QED
    BY <2>1, Fields
<1> HIDE DEF x
<1>3. disk'.rotated = disk.rotated /\ disk'.active.start = disk.active.start /\ disk'.active.data = x
  BY <1>1
<1>4. job' = [job EXCEPT !.at = a, !.cursor = c] /\ a \in {"rename", "segment"}
  BY DEF AppendToWal
<1> HIDE DEF a
<1>5. /\ writer.start \in Nat /\ writer.cursor \in Nat
      /\ LogEnd = writer.start + Len(disk.active.data) /\ LogEnd' = writer.start + Len(x)
      /\ c = writer.start + Len(x)
  BY <1>0, <1>3, ActiveStartIs, Fields DEF LogEnd, ToWalPosition
<1> HIDE DEF c
<1>6. job'.at = a /\ job'.cursor = c
  BY <1>4 DEF IInv, EngineTyped, Jobs
<1>7. writer.cursor <= LogEnd /\ (open_segment # {} => writer.cursor <= segment_cursor /\ segment_cursor <= LogEnd)
      /\ segment_cursor \in Nat
  BY <1>0 DEF CInv, CursorsSound, IInv, EngineTyped
<1>8. /\ LogEnd <= LogEnd' /\ c <= LogEnd' /\ writer.cursor <= c /\ writer.cursor <= LogEnd'
      /\ (open_segment # {} => segment_cursor <= LogEnd')
  <2> DEFINE d == Len(disk.active.data)
             y == Len(x)
             w == writer.start
  <2>1. y = d + 1 /\ d \in Nat /\ w \in Nat /\ LogEnd = w + d /\ LogEnd' = w + y /\ c = w + y
    BY <1>2, <1>5
  <2>2. writer.cursor \in Nat /\ segment_cursor \in Nat
    BY <1>5, <1>7
  <2> HIDE DEF d, y, w
  <2> QED
    BY ONLY <1>7, <2>1, <2>2
<1>9. CursorsSound'
  BY <1>0, <1>4, <1>6, <1>7, <1>8 DEF CursorsSound
<1>10. PositionsSound'
  BY <1>0, <1>3, <1>4, <1>6 DEF CInv, PositionsSound
<1>11. LogSound'
  <2>1. Len(x) > 0
    BY <1>2
  <2> QED
    BY <1>0, <1>3, <1>4, <1>6, <2>1 DEF CInv, LogSound
<1> QED
  BY <1>9, <1>10, <1>11 DEF CInv

\* finalize_segment_impl takes a cursor that is in order.
LEMMA CTaken ==
  ASSUME IInv, CInv, phase # "down", job.at \notin {"rename", "reopen"},
         UNCHANGED <<disk, phase, replay, writer>>,
         open_segment' = {}, job'.at = "write",
         writer.cursor <= job'.cursor, job'.cursor <= LogEnd,
         phase = "replay" => job'.cursor <= replay.pos
  PROVE  CInv'
<1>1. LogEnd' = LogEnd
  BY DEF LogEnd
<1>2. LogSound'
  BY DEF CInv, LogSound, PartlyPurged
<1>3. PositionsSound'
  BY DEF CInv, PositionsSound
<1>4. CursorsSound'
  BY <1>1 DEF CInv, CursorsSound
<1> QED
  BY <1>2, <1>3, <1>4 DEF CInv

\* WalAtCapacity.
LEMMA CWalFull == IInv /\ CInv /\ WalFull => CInv'
<1> SUFFICES ASSUME IInv, CInv, WalFull PROVE CInv'
  OBVIOUS
<1>0. /\ UNCHANGED <<disk, phase, replay, writer>> /\ phase = "up"
      /\ job.at \in {"append", "retry"} /\ job \in Jobs
  BY DEF WalFull, on_disk, engine, IInv, EngineTyped
<1>1. CASE job.at = "append" /\ open_segment # {}
  <2>1. TakeSegment(job, open_segment, segment_cursor, "append")
    BY <1>1 DEF WalFull
  <2>2. open_segment' = {} /\ job'.at = "write" /\ job'.cursor = segment_cursor
    BY <1>0, <2>1 DEF TakeSegment, Jobs
  <2>3. writer.cursor <= segment_cursor /\ segment_cursor <= LogEnd
    BY <1>0, <1>1 DEF CInv, CursorsSound
  <2> QED
    BY <1>0, <2>2, <2>3, CTaken
<1>2. CASE ~(job.at = "append" /\ open_segment # {})
  <2>1. job' = Idle /\ UNCHANGED <<open_segment, segment_cursor>>
    BY <1>2 DEF WalFull, engine
  <2> QED
    BY <1>0, <2>1, IdleIs, CSame
<1> QED
  BY <1>1, <1>2

\* flush.
LEMMA CFlush == IInv /\ CInv /\ Flush => CInv'
<1> SUFFICES ASSUME IInv, CInv, Flush PROVE CInv'
  OBVIOUS
<1>0. /\ UNCHANGED <<disk, phase, replay, writer>> /\ phase = "up" /\ job.at = "idle"
      /\ open_segment # {} /\ TakeSegment(Idle, open_segment, segment_cursor, "flush")
  BY IdleIs DEF Flush, on_disk
<1>1. open_segment' = {} /\ job'.at = "write" /\ job'.cursor = segment_cursor
  BY <1>0 DEF TakeSegment, Idle
<1>2. writer.cursor <= segment_cursor /\ segment_cursor <= LogEnd
  BY <1>0 DEF CInv, CursorsSound
<1> QED
  BY <1>0, <1>1, <1>2, CTaken

\* The open segment has the cursor of its last bundle.
LEMMA CAppendToSegment ==
  ASSUME IInv, CInv, NEW full \in BOOLEAN, AppendToSegment(full) PROVE CInv'
<1>0. /\ UNCHANGED <<disk, phase, replay, writer>> /\ job.at = "segment" /\ phase # "down"
      /\ job \in Jobs
  BY IdleIs DEF AppendToSegment, on_disk, IInv, JobSound, EngineTyped
<1>1. /\ writer.cursor <= job.cursor /\ job.cursor <= LogEnd
      /\ (phase = "replay" => job.cursor <= replay.pos)
  BY <1>0 DEF CInv, CursorsSound
<1>2. CASE full
  <2> DEFINE seg == open_segment \cup {job.bundle}
             then == IF phase = "replay" THEN "replay" ELSE "ingest"
  <2>1. TakeSegment(job, seg, job.cursor, then)
    BY <1>2 DEF AppendToSegment
  <2> HIDE DEF seg, then
  <2>2. open_segment' = {} /\ job'.at = "write" /\ job'.cursor = job.cursor
    BY <1>0, <2>1 DEF TakeSegment, Jobs
  <2> QED
    BY <1>0, <1>1, <2>2, CTaken
<1>3. CASE ~full
  <2>1. segment_cursor' = job.cursor /\ job'.at = "idle"
    BY <1>3, IdleIs DEF AppendToSegment
  <2>2. LogEnd' = LogEnd
    BY <1>0 DEF LogEnd
  <2>3. CursorsSound'
    BY <1>0, <1>1, <2>1, <2>2 DEF CInv, CursorsSound
  <2> QED
    BY <1>0, <2>1, <2>3 DEF CInv, LogSound, PositionsSound, PartlyPurged
<1> QED
  BY <1>2, <1>3

\* What Append adds.
LEMMA AppendIs ==
  ASSUME NEW S, NEW z \in Seq(S), NEW v \in S
  PROVE  /\ Len(Append(z, v)) = Len(z) + 1 /\ Append(z, v)[Len(z) + 1] = v
         /\ \A i \in 1..Len(z) : Append(z, v)[i] = z[i]
OBVIOUS

\* The renamed file ends where the log ends.
LEMMA CRotateByRename == IInv /\ CInv /\ RotateByRename => CInv'
<1> SUFFICES ASSUME IInv, CInv, RotateByRename PROVE CInv'
  OBVIOUS
<1> DEFINE n == Len(disk.rotated)
           x == Append(disk.rotated, disk.active)
           end == writer.start + Len(disk.active.data)
           y == Append(writer.ends, end)
<1>0. /\ UNCHANGED <<phase, replay, open_segment, segment_cursor>>
      /\ job.at = "rename" /\ phase = "up" /\ job'.at = "reopen" /\ job'.cursor = job.cursor
  <2>1. job.at = "rename" /\ job' = [job EXCEPT !.at = "reopen"]
        /\ UNCHANGED <<phase, replay, open_segment, segment_cursor>>
    BY DEF RotateByRename
  <2>2. phase = "up"
    BY <2>1, IdleIs DEF IInv, JobSound, EngineTyped, CInv, CursorsSound
  <2> QED
    BY <2>1, <2>2, JobMoves DEF IInv, EngineTyped
<1>1. /\ Len(writer.ends) = n /\ n \in Nat /\ writer.start \in Nat /\ writer.start = disk.active.start
      /\ Len(disk.active.data) \in Nat /\ Len(disk.active.data) > 0
      /\ disk.active \in Files /\ disk.rotated \in Seq(Files) /\ writer.ends \in Seq(Nat)
  BY <1>0, Fields DEF IInv, LogTyped, CInv, PositionsSound, LogSound
<1>2. end \in Nat /\ end = FileEnd(disk.active)
  BY <1>1 DEF FileEnd
<1>3. disk' = [rotated |-> x, active |-> NewFile(0), sidecar |-> disk.sidecar]
  BY DEF RotateByRename, RotateRename, IInv, LogTyped, Disks
<1>4. writer' = [ends |-> y, start |-> end, cursor |-> writer.cursor]
  BY <1>0, ActiveStartIs DEF RotateByRename, RotatedWriter, ToWalPosition, IInv, LogTyped, Writers
<1> HIDE DEF end
<1>5. /\ Len(x) = n + 1 /\ x[n + 1] = disk.active /\ \A i \in 1..n : x[i] = disk.rotated[i]
      /\ Len(y) = n + 1 /\ y[n + 1] = end /\ \A i \in 1..n : y[i] = writer.ends[i]
  BY <1>1, <1>2, AppendIs
<1>6. x # << >> /\ y # << >>
  BY <1>1, <1>5
<1> HIDE DEF x, y
<1>7. disk'.rotated = x /\ disk'.active = NewFile(0) /\ disk'.active.data = << >>
  BY <1>3 DEF NewFile
<1>8. writer'.ends = y /\ writer'.start = end /\ writer'.cursor = writer.cursor
  BY <1>4
<1>9. LogEnd' = LogEnd
  <2>1. LogEnd = end
    BY DEF LogEnd, end
  <2>2. Len(disk'.active.data) = 0
    BY <1>7
  <2> QED
    BY <1>2, <1>8, <2>1, <2>2 DEF LogEnd
<1>10. CursorsSound'
  BY <1>0, <1>8, <1>9 DEF CInv, CursorsSound
<1> HIDE DEF n
<1>11. PositionsSound'
  <2>1. \A i \in 1..n : writer.ends[i] = FileEnd(disk.rotated[i])
    BY <1>0 DEF CInv, PositionsSound, n
  <2>2. \A i \in 1..(n + 1) : y[i] = FileEnd(x[i])
    <3> SUFFICES ASSUME NEW i \in 1..(n + 1) PROVE y[i] = FileEnd(x[i])
      OBVIOUS
    <3>1. i \in 1..n \/ i = n + 1
      BY <1>1
    <3> QED
      BY <1>2, <1>5, <2>1, <3>1
  <2>3. Last(y) = end
    BY <1>5 DEF Last
  <2> QED
    BY <1>0, <1>5, <1>7, <1>8, <2>2, <2>3 DEF PositionsSound
<1>12. LogSound'
  <2>1. /\ \A i \in 1..n : Len(disk.rotated[i].data) > 0
        /\ \A i, j \in 1..n : j = i + 1 => disk.rotated[j].start = FileEnd(disk.rotated[i])
        /\ n > 0 => disk.active.start = FileEnd(disk.rotated[n])
    <3>1. n > 0 => disk.rotated # << >> /\ Last(disk.rotated) = disk.rotated[n]
      BY <1>1 DEF n, Last
    <3> QED
      BY <1>0, <3>1 DEF CInv, LogSound, n
  <2>2. \A i \in 1..(n + 1) : Len(x[i].data) > 0
    <3> SUFFICES ASSUME NEW i \in 1..(n + 1) PROVE Len(x[i].data) > 0
      OBVIOUS
    <3>1. i \in 1..n \/ i = n + 1
      BY <1>1
    <3> QED
      BY <1>1, <1>5, <2>1, <3>1
  <2>3. ASSUME NEW i \in 1..(n + 1), NEW j \in 1..(n + 1), j = i + 1 PROVE x[j].start = FileEnd(x[i])
    <3>1. i \in 1..n /\ (j \in 1..n \/ (j = n + 1 /\ i = n /\ n > 0))
      BY <1>1, <2>3
    <3>2. CASE j \in 1..n
      BY <1>5, <2>1, <2>3, <3>1, <3>2
    <3>3. CASE j = n + 1 /\ i = n /\ n > 0
      BY <1>5, <2>1, <3>1, <3>3
    <3> QED
      BY <3>1, <3>2, <3>3
  <2> QED
    BY <1>0, <1>5, <1>7, <2>2, <2>3 DEF LogSound
<1> QED
  BY <1>10, <1>11, <1>12 DEF CInv

\* The new file starts where the last rotated one ends.
LEMMA CRotateToNewFile == IInv /\ CInv /\ RotateToNewFile => CInv'
<1> SUFFICES ASSUME IInv, CInv, RotateToNewFile PROVE CInv'
  OBVIOUS
<1> DEFINE n == Len(disk.rotated)
<1>0. /\ UNCHANGED <<phase, replay, open_segment, segment_cursor, writer>>
      /\ job.at = "reopen" /\ phase # "down" /\ job'.at = "segment" /\ job'.cursor = job.cursor
      /\ phase # "replay"
  <2>1. job.at = "reopen" /\ job' = [job EXCEPT !.at = "segment"]
        /\ UNCHANGED <<phase, replay, open_segment, segment_cursor, writer>>
    BY DEF RotateToNewFile, engine
  <2>2. phase # "down" /\ phase # "replay"
    BY <2>1, IdleIs DEF IInv, JobSound, CInv, CursorsSound
  <2> QED
    BY <2>1, <2>2, JobMoves DEF IInv, EngineTyped
<1>1. disk' = [rotated |-> disk.rotated, active |-> NewFile(writer.start), sidecar |-> writer.cursor]
  BY DEF RotateToNewFile, RotateReopen, IInv, LogTyped, Disks
<1>2. /\ disk'.rotated = disk.rotated /\ disk'.active.start = writer.start
      /\ disk'.active.data = << >> /\ disk.active.data = << >>
  BY <1>0, <1>1 DEF NewFile, CInv, LogSound
<1>3. LogEnd' = LogEnd
  BY <1>0, <1>2 DEF LogEnd
<1>4. CursorsSound'
  BY <1>0, <1>3 DEF CInv, CursorsSound
<1>5. PositionsSound'
  BY <1>0, <1>2 DEF CInv, PositionsSound
<1>6. disk.rotated # << >> => writer.start = FileEnd(Last(disk.rotated))
  <2> SUFFICES ASSUME disk.rotated # << >> PROVE writer.start = FileEnd(Last(disk.rotated))
    OBVIOUS
  <2>1. n \in 1..n /\ Len(writer.ends) = n /\ writer.ends # << >>
    <3>1. Len(writer.ends) = n
      BY <1>0 DEF IInv, LogTyped
    <3> QED
      BY <3>1, Fields
  <2>2. writer.start = writer.ends[n] /\ writer.ends[n] = FileEnd(disk.rotated[n])
    BY <1>0, <2>1 DEF CInv, PositionsSound, Last
  <2> QED
    BY <2>2 DEF Last
<1>7. LogSound'
  BY <1>0, <1>2, <1>6 DEF CInv, LogSound
<1> QED
  BY <1>4, <1>5, <1>7 DEF CInv

\* The segment file is written; its cursor is still to be persisted.
LEMMA CWriteSegment == IInv /\ CInv /\ WriteSegment => CInv'
<1> SUFFICES ASSUME IInv, CInv, WriteSegment PROVE CInv'
  OBVIOUS
<1>0. /\ UNCHANGED <<disk, phase, replay, writer, open_segment, segment_cursor>>
      /\ job.at = "write" /\ job' = [job EXCEPT !.at = "persist"]
  BY DEF WriteSegment, engine
<1>1. job'.at = "persist" /\ job'.cursor = job.cursor
  BY <1>0, JobMoves DEF IInv, EngineTyped
<1> QED
  BY <1>0, <1>1 DEF CInv, LogSound, PositionsSound, CursorsSound, PartlyPurged, LogEnd

\* The writer's cursor moves up to the segment's; no open segment is behind it.
LEMMA CPersistCursor == IInv /\ CInv /\ PersistCursor => CInv'
<1> SUFFICES ASSUME IInv, CInv, PersistCursor PROVE CInv'
  OBVIOUS
<1>0. /\ UNCHANGED <<phase, replay, open_segment, segment_cursor>>
      /\ job.at = "persist" /\ job' = [job EXCEPT !.at = "purge"] /\ phase # "down"
  BY IdleIs DEF PersistCursor, IInv, JobSound
<1>1. disk' = [rotated |-> disk.rotated, active |-> disk.active, sidecar |-> job.cursor]
  BY DEF PersistCursor, IInv, LogTyped, Disks
<1>2. writer' = [ends |-> writer.ends, start |-> writer.start, cursor |-> job.cursor]
  BY DEF PersistCursor, IInv, LogTyped, Writers
<1>3. /\ disk'.rotated = disk.rotated /\ disk'.active = disk.active
      /\ writer'.ends = writer.ends /\ writer'.start = writer.start /\ writer'.cursor = job.cursor
      /\ job'.at = "purge"
  BY <1>0, <1>1, <1>2, JobMoves DEF IInv, EngineTyped
<1>4. LogEnd' = LogEnd
  BY <1>3 DEF LogEnd
<1>5. /\ open_segment = {} /\ job.cursor <= LogEnd
      /\ (phase = "replay" => job.cursor <= replay.pos)
  BY <1>0 DEF CInv, CursorsSound
<1>6. CursorsSound'
  BY <1>0, <1>3, <1>4, <1>5 DEF CInv, CursorsSound
<1>7. LogSound' /\ PositionsSound'
  BY <1>0, <1>3 DEF CInv, LogSound, PositionsSound
<1> QED
  BY <1>6, <1>7 DEF CInv

\* Purging takes the first file and its end away.
LEMMA CPurgeRotatedFile == IInv /\ CInv /\ PurgeRotatedFile => CInv'
<1> SUFFICES ASSUME IInv, CInv, PurgeRotatedFile PROVE CInv'
  OBVIOUS
<1> DEFINE n == Len(disk.rotated)
           old == disk.rotated
           ends == writer.ends
           x == Tail(disk.rotated)
           y == Tail(writer.ends)
<1>0. /\ UNCHANGED <<phase, replay, open_segment, segment_cursor, job>>
      /\ job.at = "purge" /\ phase # "down" /\ ends # << >>
  BY IdleIs DEF PurgeRotatedFile, CanPurge, IInv, JobSound
<1>1. /\ Len(ends) = n /\ n \in Nat /\ n > 0 /\ old \in Seq(Files) /\ ends \in Seq(Nat)
      /\ old # << >>
  <2>1. Len(ends) = n
    BY <1>0 DEF IInv, LogTyped
  <2> QED
    BY <1>0, <2>1, Fields
<1>2. disk' = [rotated |-> x, active |-> disk.active, sidecar |-> disk.sidecar]
  BY DEF PurgeRotatedFile, PurgeFront, IInv, LogTyped, Disks
<1>3. writer' = [ends |-> y, start |-> writer.start, cursor |-> writer.cursor]
  BY DEF PurgeRotatedFile, IInv, LogTyped, Writers
<1>4. /\ Len(x) = n - 1 /\ \A i \in 1..(n - 1) : x[i] = old[i + 1]
      /\ Len(y) = n - 1 /\ \A i \in 1..(n - 1) : y[i] = ends[i + 1]
  <2> HIDE DEF old, ends
  <2>1. x = Tail(old) /\ y = Tail(ends) /\ n = Len(old)
    BY DEF old, ends
  <2> HIDE DEF x, y, n
  <2> QED
    BY <1>1, <2>1
<1>5. (x # << >> => n - 1 > 0 /\ Last(x) = old[n]) /\ (y # << >> => n - 1 > 0 /\ Last(y) = ends[n])
  <2>1. x \in Seq(Files) /\ y \in Seq(Nat)
    BY <1>1
  <2> HIDE DEF x, y, n, old, ends
  <2>2. (x # << >> => Len(x) > 0) /\ (y # << >> => Len(y) > 0)
    BY <2>1
  <2>3. n - 1 > 0 => n - 1 \in 1..(n - 1) /\ (n - 1) + 1 = n
    BY <1>1
  <2> QED
    BY <1>1, <1>4, <2>2, <2>3 DEF Last
<1> HIDE DEF x, y
<1>6. /\ disk'.rotated = x /\ disk'.active = disk.active
      /\ writer'.ends = y /\ writer'.start = writer.start /\ writer'.cursor = writer.cursor
  BY <1>2, <1>3
<1>7. LogEnd' = LogEnd
  BY <1>6 DEF LogEnd
<1>8. CursorsSound'
  BY <1>0, <1>6, <1>7 DEF CInv, CursorsSound
<1>9. /\ \A i \in 1..n : Len(old[i].data) > 0
      /\ \A i, j \in 1..n : j = i + 1 => old[j].start = FileEnd(old[i])
      /\ disk.active.start = FileEnd(old[n])
      /\ \A i \in 1..n : ends[i] = FileEnd(old[i])
      /\ writer.start = ends[n] /\ writer.start = disk.active.start
  BY <1>0, <1>1 DEF CInv, LogSound, PositionsSound, Last
<1> HIDE DEF n, old, ends
<1>10. \A i \in 1..(n - 1) : i + 1 \in 1..n
  BY <1>1
<1>11. \A i, j \in 1..(n - 1) : j = i + 1 => x[j].start = FileEnd(x[i])
  <2> SUFFICES ASSUME NEW i \in 1..(n - 1), NEW j \in 1..(n - 1), j = i + 1
               PROVE  x[j].start = FileEnd(x[i])
    OBVIOUS
  <2>1. i + 1 \in 1..n /\ j + 1 \in 1..n /\ j + 1 = (i + 1) + 1
    BY <1>10
  <2>2. old[j + 1].start = FileEnd(old[i + 1])
    BY <1>9, <2>1
  <2> QED
    BY <1>4, <2>2
<1>12. PositionsSound'
  BY <1>0, <1>4, <1>5, <1>6, <1>9, <1>10 DEF PositionsSound
<1>13. LogSound'
  BY <1>0, <1>4, <1>5, <1>6, <1>9, <1>10, <1>11 DEF LogSound
<1> QED
  BY <1>8, <1>12, <1>13 DEF CInv

\* finalize_segment_impl fails with the writer's own cursor where it was or moved up.
LEMMA CFailed ==
  ASSUME IInv, CInv, WholeLog, job.at \in {"write", "persist"}, NEW risked, NEW c \in {job.cursor, writer.cursor},
         FinalizeFails(risked, [writer EXCEPT !.cursor = c]), disk' = disk
  PROVE  CInv'
<1>1. CASE MayEnd /\ Forget
  BY <1>1, CForgotten
<1>2. CASE /\ phase = "up" /\ job' = Idle /\ writer' = [writer EXCEPT !.cursor = c]
           /\ UNCHANGED <<phase, replay, open_segment, segment_cursor>>
  <2>1. writer'.ends = writer.ends /\ writer'.start = writer.start /\ writer'.cursor = c
    BY <1>2 DEF IInv, LogTyped, Writers
  <2>2. LogEnd' = LogEnd /\ job'.at = "idle"
    BY <1>2, <2>1, IdleIs DEF LogEnd
  <2>3. open_segment = {} /\ job.cursor <= LogEnd /\ writer.cursor <= LogEnd
    BY <1>2 DEF CInv, CursorsSound
  <2>4. CursorsSound'
    BY <1>2, <2>1, <2>2, <2>3 DEF CursorsSound
  <2>5. LogSound'
    BY <1>2, <2>2 DEF CInv, LogSound
  <2>6. PositionsSound'
    BY <1>2, <2>1, <2>2 DEF CInv, PositionsSound
  <2> QED
    BY <2>4, <2>5, <2>6 DEF CInv
<1> QED
  BY <1>1, <1>2 DEF FinalizeFails

\* The segment could not be written.
LEMMA CWriteSegmentFails == IInv /\ CInv /\ WholeLog /\ WriteSegmentFails => CInv'
<1> SUFFICES ASSUME IInv, CInv, WholeLog, WriteSegmentFails PROVE CInv'
  OBVIOUS
<1>1. job.at = "write" /\ FinalizeFails(job.seg, writer) /\ disk' = disk
  BY DEF WriteSegmentFails, on_disk
<1>2. writer = [writer EXCEPT !.cursor = writer.cursor]
  BY DEF IInv, LogTyped, Writers
<1> DEFINE c == writer.cursor
<1>3. c \in {job.cursor, writer.cursor} /\ FinalizeFails(job.seg, [writer EXCEPT !.cursor = c])
  BY <1>1, <1>2, Zenon
<1> HIDE DEF c
<1> QED
  BY <1>1, <1>3, CFailed

\* The cursor could not be written.
LEMMA CPersistCursorFails == IInv /\ CInv /\ WholeLog /\ PersistCursorFails => CInv'
<1> SUFFICES ASSUME IInv, CInv, WholeLog, PersistCursorFails PROVE CInv'
  OBVIOUS
<1> DEFINE own == IF ValidCursor(disk, writer, job.cursor) THEN job.cursor ELSE writer.cursor
<1>1. job.at = "persist" /\ FinalizeFails({}, [writer EXCEPT !.cursor = own]) /\ disk' = disk
  BY DEF PersistCursorFails, on_disk
<1>2. own \in {job.cursor, writer.cursor}
  OBVIOUS
<1> HIDE DEF own
<1> QED
  BY <1>1, <1>2, CFailed

\* A crash.
LEMMA CCrash == CInv /\ WholeLog /\ Crash => CInv'
BY CForgotten DEF Crash, on_disk

\* Steps of the subscribers, ingest and maintain leave the log alone.
LEMMA COthers ==
  ASSUME IInv, CInv,
         \/ \E over \in BOOLEAN : Ingest(over)
         \/ RejectOverSoftCap \/ FlushProgress \/ Cleanup \/ RegisterSegment
         \/ \E s \in Subscribers :
              \/ Poll(s) \/ ResolveSome(s)
              \/ \E r \in Handles(s) : Defer(s, r)
  PROVE  CInv'
<1>1. CASE \E over \in BOOLEAN : Ingest(over)
  <2>1. job'.at = "append" /\ job = Idle
    BY <1>1 DEF Ingest, Idle
  <2> QED
    BY <1>1, <2>1, IdleIs, CSame DEF Ingest, engine
<1>2. CASE RejectOverSoftCap
  BY <1>2, IdleIs, CSame DEF RejectOverSoftCap, engine
<1>3. CASE FlushProgress
  <2>1. job'.at = "cleanup" /\ job = Idle
    BY <1>3 DEF FlushProgress, Free, Idle
  <2> QED
    BY <1>3, <2>1, IdleIs, CSame DEF FlushProgress, engine
<1>4. CASE Cleanup
  BY <1>4, IdleIs, CSame DEF Cleanup, engine
<1>5. CASE RegisterSegment
  <2>1. job'.at \in {"idle", "retry"} /\ job.at = "purge"
    BY <1>5, IdleIs DEF RegisterSegment, Idle
  <2> QED
    BY <1>5, <2>1, CSame DEF RegisterSegment, on_disk, engine
<1>6. ASSUME NEW s \in Subscribers,
             \/ Poll(s) \/ ResolveSome(s)
             \/ \E r \in Handles(s) : Defer(s, r)
      PROVE  CInv'
  <2>1. /\ UNCHANGED <<disk, writer, open_segment, segment_cursor, replay, phase, job>> /\ job = Idle
    BY <1>6 DEF Poll, ResolveSome, Resolve, Defer, Free, on_disk, engine
  <2> QED
    BY <2>1, IdleIs, CSame
<1> QED
  BY <1>1, <1>2, <1>3, <1>4, <1>5, <1>6

\* Every step keeps the cursors in order.
LEMMA StepCInv == IInv /\ CInv /\ WholeLog /\ [Next]_vars => CInv'
<1> SUFFICES ASSUME IInv, CInv, WholeLog, [Next]_vars PROVE CInv'
  OBVIOUS
<1>1. CASE EngineStep
  BY <1>1, COpen, CReplayOpenFile, CReplayEntry, CReplayDone, CAppendToWal, CWalFull,
     CRotateByRename, CRotateToNewFile, CAppendToSegment, CFlush, CWriteSegment,
     CPersistCursor, CPurgeRotatedFile, COthers DEF EngineStep
<1>2. CASE WriteSegmentFails \/ PersistCursorFails \/ Crash
  BY <1>2, CWriteSegmentFails, CPersistCursorFails, CCrash
<1>3. CASE UNCHANGED vars
  <2>1. UNCHANGED <<disk, writer, open_segment, segment_cursor, replay, phase, job>>
    BY <1>3 DEF vars, on_disk, engine
  <2> QED
    BY <2>1 DEF CInv, LogSound, PositionsSound, CursorsSound, PartlyPurged, LogEnd
<1> QED
  BY <1>1, <1>2, <1>3, COthers DEF Next

\* A cursor in order is one the writer accepts.
LEMMA CInvAccepted == IInv /\ CInv => CursorAccepted
<1> SUFFICES ASSUME IInv, CInv, job.at = "persist"
             PROVE  ValidCursor(disk, writer, job.cursor)
  BY DEF CursorAccepted
<1>1. phase # "down"
  BY IdleIs DEF IInv, JobSound
<1>2. /\ writer.cursor <= job.cursor /\ job.cursor <= LogEnd
      /\ ActiveWalPositionStart(writer) = writer.start
  BY <1>1, ActiveStartIs DEF CInv, CursorsSound
<1>3. /\ writer.cursor \in Nat /\ job.cursor \in Nat /\ writer.start \in Nat
      /\ Len(disk.active.data) \in Nat /\ LogEnd = writer.start + Len(disk.active.data)
  BY Fields DEF LogEnd
<1>4. /\ job.cursor >= writer.cursor
      /\ job.cursor <= writer.start \/ job.cursor - writer.start <= Len(disk.active.data)
  BY <1>2, <1>3
<1> QED
  BY <1>2, <1>4 DEF ValidCursor

\* persist_cursor never refuses the cursor of a segment that was written, and
\* open() never fails on a log the engine left: over rotations, purges, replays,
\* failed writes and any crash but the two that WholeLog leaves out, the
\* positions the writer adds up are the ones in the files' headers.
THEOREM CursorsAreAccepted == WholeLog => (Spec => []CursorAccepted)
<1> SUFFICES ASSUME WholeLog PROVE Spec => []CursorAccepted
  OBVIOUS
<1>1. Init => CInv
  BY InitCInv
<1>2. IInv /\ CInv /\ [Next]_vars => CInv'
  BY StepCInv
<1>3. IInv /\ CInv => CursorAccepted
  BY CInvAccepted
<1> QED
  BY <1>1, <1>2, <1>3, Invariance, PTL DEF Spec

============================================================================
