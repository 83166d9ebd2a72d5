---------------------------- MODULE QuiverEngine ----------------------------
(***************************************************************************)
(* The Quiver persistence engine (quiver/src/engine.rs) with its segment   *)
(* store, subscriber registry and progress files, driven the way the       *)
(* durable buffer drives it: one task opens it, ingests, flushes, and in   *)
(* between polls, resolves and maintains for its subscribers.              *)
(*                                                                         *)
(* A step ends wherever a crash leaves another disk behind.  A crash keeps *)
(* the files and forgets the rest; every write reached the disk before the *)
(* call that made it returned (FlushPolicy Immediate), and the segment     *)
(* file and the sidecar appear at once.  Bundles are numbered in the order *)
(* in which they are offered; a segment is the set of its bundles.         *)
(***************************************************************************)
EXTENDS QuiverWal

CONSTANTS Subscribers,
          MaxInFlight,       \* the durable buffer's max_in_flight
          MaxBundles,        \* bound: ingest calls
          MaxEvents,         \* bound: ingest calls, and crashes and failures before them
          MaxCrashes,        \* bound: crashes
          MaxFailures,       \* bound: failed segment or cursor writes
          CrashMidRotation,  \* may a crash split the rename and the new file
          CrashPartlyPurged, \* may a crash leave a log without its first file
          SegmentWriteMayFail \* may the write of a segment file fail once open

ASSUME EngineAssumption ==
  /\ MaxInFlight \in Nat \ {0} /\ MaxBundles \in Nat /\ MaxEvents \in Nat
  /\ MaxCrashes \in Nat /\ MaxFailures \in Nat
  /\ CrashMidRotation \in BOOLEAN /\ CrashPartlyPurged \in BOOLEAN
  /\ SegmentWriteMayFail \in BOOLEAN

Bundles == 1..MaxBundles

VARIABLES
  \* On disk.
  disk,        \* the write-ahead log and its sidecar, see QuiverWal
  files,       \* segment files: sequence number -> set of bundles
  progress,    \* progress[s]: the progress file's header and entries
  \* In memory.
  phase,       \* "down" | "replay" (inside open) | "up"
  job,         \* what the engine's task is doing
  replay,      \* MultiFileWalIter: files to open, start_position, entries read ahead
  writer,      \* the WAL writer, see QuiverWal
  open_segment, segment_cursor, next_segment_seq,
  store,       \* sequence numbers registered in the segment store
  registry,    \* registry[s]: active, segments (number -> unresolved), claimed
  dirty,       \* dirty_subscribers
  \* History and bounds.
  offered,     \* number of the last bundle passed to ingest
  accepted,    \* bundles whose ingest returned Ok
  done,        \* done[s]: bundles s has ever resolved
  at_risk,     \* bundles of a segment write that failed in this process, or lost by it
  crashes, failures

on_disk == <<disk, files, progress>>
engine == <<writer, open_segment, segment_cursor, next_segment_seq>>
subscriber == <<registry, dirty>>
history == <<offered, accepted, done, at_risk, crashes, failures>>
vars == <<on_disk, phase, job, replay, engine, store, subscriber, history>>

\* job.at: "append", "retry" (WAL append of job.bundle), "rename", "reopen"
\* (rotation), "segment" (append to the open segment), "write", "persist",
\* "purge" (finalize_segment_impl), "cleanup" (maintain); job.then: who called
\* finalize_segment_impl.
Idle == [at |-> "idle", bundle |-> 0, then |-> "none", seq |-> 0, seg |-> {}, cursor |-> 0]
NoReplay == [files |-> << >>, pos |-> 0, entries |-> << >>]
ClosedWriter == [ends |-> << >>, start |-> 0, cursor |-> 0]
NewSubscriber == [active |-> FALSE, segments |-> << >>, claimed |-> {}]
NoProgress == [written |-> FALSE, oldest |-> 0, entries |-> << >>]

Resolved == {b \in Bundles : \A s \in Subscribers : b \in done[s]}

\* Accepted bundles that somebody still waits for and a restart would not find,
\* neither in a segment file nor among the WAL entries it replays.
Lost ==
  LET unresolved == (accepted \ Resolved) \ UNION Range(files)
  IN  IF unresolved = {} THEN {} ELSE unresolved \ Replayable(disk)

\* Everything a restart would find.
Kept == (UNION Range(files)) \cup Replayable(disk)

\* What a process that ends, by a crash or by open() failing, leaves in memory.
Forget ==
  /\ phase' = "down" /\ job' = Idle /\ replay' = NoReplay /\ writer' = ClosedWriter
  /\ open_segment' = {} /\ segment_cursor' = 0 /\ next_segment_seq' = 0
  /\ store' = {} /\ registry' = [s \in Subscribers |-> NewSubscriber] /\ dirty' = {}
  /\ at_risk' = at_risk \cap Lost

Init ==
  /\ disk = EmptyDisk /\ files = << >> /\ progress = [s \in Subscribers |-> NoProgress]
  /\ phase = "down" /\ job = Idle /\ replay = NoReplay /\ writer = ClosedWriter
  /\ open_segment = {} /\ segment_cursor = 0 /\ next_segment_seq = 0
  /\ store = {} /\ registry = [s \in Subscribers |-> NewSubscriber] /\ dirty = {}
  /\ offered = 0 /\ accepted = {} /\ done = [s \in Subscribers |-> {}] /\ at_risk = {}
  /\ crashes = 0 /\ failures = 0

-----------------------------------------------------------------------------
(* Subscriber state (subscriber/state.rs) *)

\* The segments of m, and those of n that m does not have.
Added(m, n) ==
  [q \in DOMAIN m \cup DOMAIN n |-> IF q \in DOMAIN m THEN m[q] ELSE n[q]]
Single(seq, bundles) == [q \in {seq} |-> bundles]

\* Mutant: subscribers are not told of a new segment.
AddSegmentNever(st, seq, bundles) == st

AddSegment(st, seq, bundles) ==
  IF seq \in DOMAIN st.segments THEN st
  ELSE [st EXCEPT !.segments = Added(@, Single(seq, bundles))]

Incomplete(st) == {q \in DOMAIN st.segments : st.segments[q] # {}}

\* Bundles neither resolved nor claimed, as references (segment, bundle).
Pending(st) ==
  {r \in UNION {{q} \X st.segments[q] : q \in DOMAIN st.segments} : r \notin st.claimed}

\* next_pending: the oldest segment, in it the first bundle.
NextPending(st) ==
  CHOOSE r \in Pending(st) :
    \A o \in Pending(st) : r[1] < o[1] \/ (r[1] = o[1] /\ r[2] <= o[2])

RecordOutcome(st, r) ==
  [st EXCEPT !.claimed = @ \ {r},
             !.segments = [q \in DOMAIN @ |-> IF q = r[1] THEN @[q] \ {r[2]} ELSE @[q]]]

RemoveCompletedSegmentsBefore(st, seq) ==
  [st EXCEPT !.segments = Restrict(@, {q \in DOMAIN @ : q >= seq \/ @[q] # {}})]

-----------------------------------------------------------------------------
(* open: WAL writer, segment scan, registry, then replay_wal *)

HighestPersisted(p) == Max(DOMAIN p.entries \cup {0})

\* SubscriberRegistry::open: the entries of the progress file, and as unresolved
\* the segments its snapshot does not cover.  Header 0 says nothing.
RestoredSubscriber(p) ==
  LET covered == {q \in DOMAIN files :
                    IF p.oldest = 0 THEN p.entries # << >> /\ q <= HighestPersisted(p)
                    ELSE q < p.oldest}
      added == DOMAIN files \ (covered \cup DOMAIN p.entries)
  IN  IF p.written
      THEN [NewSubscriber EXCEPT !.segments = Added(p.entries, Restrict(files, added))]
      ELSE NewSubscriber

\* Mutant: numbers that only a progress file refers to are used again.
FirstFreeSegmentOfFiles == IF files = << >> THEN 0 ELSE Max(DOMAIN files) + 1

\* Above every segment file and every segment a progress file refers to.
FirstFreeSegment ==
  LET referred == UNION {DOMAIN progress[s].entries
                           \cup ({progress[s].oldest} \ {0}) : s \in Subscribers}
      used == DOMAIN files \cup referred
  IN  IF used = {} THEN 0 ELSE Max(used) + 1

Open ==
  /\ phase = "down"
  /\ phase' = "replay"
  /\ writer' = OpenWriter(disk)
  /\ store' = DOMAIN files
  /\ registry' = [s \in Subscribers |-> RestoredSubscriber(progress[s])]
  /\ next_segment_seq' = FirstFreeSegment
  /\ replay' = [files |-> FilesFrom(disk, ReplayFrom(disk)), pos |-> ReplayFrom(disk),
                entries |-> << >>]
  /\ UNCHANGED <<on_disk, job, open_segment, segment_cursor, dirty, history>>

\* MultiFileWalIter::next opens the next file when it gets there; a file that
\* is gone by then is skipped.
ReplayOpenFile ==
  /\ phase = "replay" /\ job = Idle /\ replay.entries = << >> /\ replay.files # << >>
  /\ LET f == Head(replay.files)
         found == f \in Range(disk.rotated) \cup {disk.active}
     IN  replay' = [replay EXCEPT
           !.files = Tail(@),
           !.entries = IF found THEN EntriesFrom(f, replay.pos) ELSE << >>]
  /\ UNCHANGED <<on_disk, phase, job, engine, store, subscriber, history>>

\* One replayed entry goes down the ingest path, without the WAL append.
ReplayEntry ==
  /\ phase = "replay" /\ job = Idle /\ replay.entries # << >>
  /\ LET e == Head(replay.entries)
     IN  /\ replay' = [replay EXCEPT !.entries = Tail(@), !.pos = e.next]
         /\ job' = [Idle EXCEPT !.at = "segment", !.bundle = e.bundle, !.cursor = e.next]
  /\ UNCHANGED <<on_disk, phase, engine, store, subscriber, history>>

\* Mutant: activate only marks the subscriber.
ActivatedOnly(st) == [st EXCEPT !.active = TRUE]

\* activate: every available segment is tracked.
Activated(st) == [st EXCEPT !.active = TRUE, !.segments = Added(@, Restrict(files, store))]

\* Replay ends and open() returns; init_engine then registers and activates the
\* subscribers before anything else happens.
ReplayDone ==
  /\ phase = "replay" /\ job = Idle /\ replay.entries = << >> /\ replay.files = << >>
  /\ phase' = "up" /\ replay' = NoReplay
  /\ registry' = [s \in Subscribers |-> Activated(registry[s])]
  /\ UNCHANGED <<on_disk, job, engine, store, dirty, history>>

-----------------------------------------------------------------------------
(* Reclaiming segments *)

\* cleanup_completed_segments: everything before the oldest segment some
\* subscriber has not completed; if all is complete, everything up to the
\* highest segment every active subscriber tracks.
DeleteBoundary ==
  LET incomplete == UNION {Incomplete(registry[s]) : s \in Subscribers}
      tracking == {s \in Subscribers : registry[s].active /\ registry[s].segments # << >>}
  IN  IF incomplete # {} THEN Min(incomplete)
      ELSE IF tracking = {} THEN 0
      ELSE Min({Max(DOMAIN registry[s].segments) : s \in tracking}) + 1

CleanupCompletedSegments ==
  LET kept == {q \in store : q >= DeleteBoundary}
  IN  /\ store' = kept
      /\ files' = Restrict(files, DOMAIN files \ (store \ kept))
      /\ registry' = [s \in Subscribers |->
                        RemoveCompletedSegmentsBefore(registry[s], DeleteBoundary)]

-----------------------------------------------------------------------------
(* ingest *)

\* over: the disk budget is above its soft cap when ingest is called, and the
\* completed segments it reclaims bring it below.
Ingest(over) ==
  /\ phase = "up" /\ job = Idle
  /\ offered < MaxBundles /\ offered + crashes + failures < MaxEvents
  /\ offered' = offered + 1
  /\ job' = [Idle EXCEPT !.at = "append", !.bundle = offered + 1]
  /\ IF over THEN CleanupCompletedSegments ELSE UNCHANGED <<store, files, registry>>
  /\ UNCHANGED <<disk, progress, phase, replay, engine, dirty, accepted, done, at_risk,
                 crashes, failures>>

\* The budget stays above the soft cap: StorageAtCapacity.
RejectOverSoftCap ==
  /\ phase = "up" /\ job = Idle
  /\ CleanupCompletedSegments
  /\ UNCHANGED <<disk, progress, phase, job, replay, engine, dirty, history>>

\* finalize_segment_impl up to the segment write: take the open segment and the
\* cursor.  An empty open segment is Ok with nothing done.
TakeSegment(j, seg, cursor, then) ==
  /\ job' = [j EXCEPT !.at = "write", !.then = then, !.seq = next_segment_seq,
                      !.seg = seg, !.cursor = cursor]
  /\ open_segment' = {} /\ segment_cursor' = 0
  /\ next_segment_seq' = next_segment_seq + 1

AppendToWal ==
  /\ phase = "up" /\ job.at \in {"append", "retry"} /\ ~WalAtCapacity(disk, writer)
  /\ disk' = AppendEntry(disk, job.bundle)
  /\ job' = [job EXCEPT !.at = IF MustRotate(disk') THEN "rename" ELSE "segment",
                        !.cursor = ToWalPosition(disk', writer)]
  /\ UNCHANGED <<files, progress, phase, replay, engine, store, subscriber, history>>

\* append_to_wal_with_capacity_handling: the first WalAtCapacity finalizes the
\* open segment and tries again, the second is returned.
WalFull ==
  /\ phase = "up" /\ job.at \in {"append", "retry"} /\ WalAtCapacity(disk, writer)
  /\ IF job.at = "append" /\ open_segment # {}
     THEN TakeSegment(job, open_segment, segment_cursor, "append") /\ UNCHANGED writer
     ELSE job' = Idle /\ UNCHANGED engine
  /\ UNCHANGED <<on_disk, phase, replay, store, subscriber, history>>

RotateByRename ==
  /\ job.at = "rename"
  /\ disk' = RotateRename(disk) /\ writer' = RotatedWriter(disk, writer)
  /\ job' = [job EXCEPT !.at = "reopen"]
  /\ UNCHANGED <<files, progress, phase, replay, open_segment, segment_cursor,
                 next_segment_seq, store, subscriber, history>>

RotateToNewFile ==
  /\ job.at = "reopen"
  /\ disk' = RotateReopen(disk, writer)
  /\ job' = [job EXCEPT !.at = "segment"]
  /\ UNCHANGED <<files, progress, phase, replay, engine, store, subscriber, history>>

\* append_to_segment_and_maybe_finalize.  Whether a size, age or stream limit is
\* reached (full) is left open.
AppendToSegment(full) ==
  /\ job.at = "segment"
  /\ LET seg == open_segment \cup {job.bundle}
         then == IF phase = "replay" THEN "replay" ELSE "ingest"
     IN  IF full
         THEN TakeSegment(job, seg, job.cursor, then) /\ UNCHANGED accepted
         ELSE /\ open_segment' = seg /\ segment_cursor' = job.cursor
              /\ job' = Idle
              /\ accepted' = IF phase = "up" THEN accepted \cup {job.bundle} ELSE accepted
              /\ UNCHANGED next_segment_seq
  /\ UNCHANGED <<on_disk, phase, replay, writer, store, subscriber, offered, done, at_risk,
                 crashes, failures>>

\* flush (the timer tick) and shutdown.
Flush ==
  /\ phase = "up" /\ job = Idle /\ open_segment # {}
  /\ TakeSegment(Idle, open_segment, segment_cursor, "flush")
  /\ UNCHANGED <<on_disk, phase, replay, writer, store, subscriber, history>>
-----------------------------------------------------------------------------
(* finalize_segment_impl, from the segment write on *)

\* A log whose first files were purged, but not all rotated ones.
PartlyPurged == disk.rotated # << >> /\ Head(disk.rotated).start # 0

\* Whether this instance lets a process end here.
MayEnd ==
  /\ CrashMidRotation \/ job.at # "reopen"
  /\ CrashPartlyPurged \/ ~PartlyPurged

\* finalize_segment_impl returns an error: so does the ingest or flush that
\* called it, and during replay open() itself.
FinalizeFails(risked, w) ==
  /\ failures < MaxFailures /\ failures' = failures + 1
  /\ UNCHANGED crashes
  /\ \/ /\ phase = "up"
        /\ job' = Idle /\ writer' = w /\ at_risk' = at_risk \cup risked
        /\ UNCHANGED <<phase, replay, open_segment, segment_cursor, next_segment_seq, store,
                       subscriber>>
     \/ phase = "replay" /\ MayEnd /\ Forget

WriteSegment ==
  /\ job.at = "write"
  /\ files' = Added(files, Single(job.seq, job.seg))
  /\ job' = [job EXCEPT !.at = "persist"]
  /\ UNCHANGED <<disk, progress, phase, replay, engine, store, subscriber, history>>

\* The bundles of the segment are gone from memory; their WAL entries remain, until
\* a later finalization moves the cursor past them.
WriteSegmentFails ==
  /\ job.at = "write" /\ (SegmentWriteMayFail \/ phase = "replay")
  /\ FinalizeFails(job.seg, writer)
  /\ UNCHANGED <<on_disk, offered, accepted, done>>

\* WalWriter::persist_cursor up to the purge of consumed files.
PersistCursor ==
  /\ job.at = "persist" /\ ValidCursor(disk, writer, job.cursor)
  /\ disk' = [disk EXCEPT !.sidecar = job.cursor]
  /\ writer' = [writer EXCEPT !.cursor = job.cursor]
  /\ job' = [job EXCEPT !.at = "purge"]
  /\ UNCHANGED <<files, progress, phase, replay, open_segment, segment_cursor,
                 next_segment_seq, store, subscriber, history>>

\* The cursor is refused, or the sidecar cannot be written, after the writer
\* has set its own copy.  The segment file stays, unregistered.
PersistCursorFails ==
  /\ job.at = "persist"
  /\ LET own == IF ValidCursor(disk, writer, job.cursor) THEN job.cursor ELSE writer.cursor
     IN  FinalizeFails({}, [writer EXCEPT !.cursor = own])
  /\ UNCHANGED <<on_disk, offered, accepted, done>>

PurgeRotatedFile ==
  /\ job.at = "purge" /\ CanPurge(writer)
  /\ disk' = PurgeFront(disk) /\ writer' = [writer EXCEPT !.ends = Tail(@)]
  /\ UNCHANGED <<files, progress, phase, job, replay, open_segment, segment_cursor,
                 next_segment_seq, store, subscriber, history>>

\* register_new_segment tells the active subscribers; then the caller goes on.
RegisterSegment ==
  /\ job.at = "purge" /\ ~CanPurge(writer)
  /\ store' = store \cup {job.seq}
  /\ registry' = [s \in Subscribers |->
       IF registry[s].active THEN AddSegment(registry[s], job.seq, files[job.seq])
       ELSE registry[s]]
  /\ job' = IF job.then = "append" THEN [Idle EXCEPT !.at = "retry", !.bundle = job.bundle]
            ELSE Idle
  /\ accepted' = IF job.then = "ingest" THEN accepted \cup {job.bundle} ELSE accepted
  /\ UNCHANGED <<on_disk, phase, replay, engine, dirty, offered, done, at_risk, crashes,
                 failures>>

-----------------------------------------------------------------------------
(* Subscribers.  The durable buffer polls, resolves and maintains from the *)
(* task that ingests and flushes, between two of those calls.              *)

Free == phase = "up" /\ job = Idle

\* The bundle handles s holds.
Handles(s) == {r \in registry[s].claimed : r[1] \in store}

\* poll_next_bundle claims before it reads; the claim on a bundle whose segment
\* is not in the store is never released.
Poll(s) ==
  /\ Free /\ registry[s].active /\ Pending(registry[s]) # {}
  /\ Cardinality(Handles(s)) < MaxInFlight
  /\ registry' = [registry EXCEPT ![s].claimed = @ \cup {NextPending(registry[s])}]
  /\ UNCHANGED <<on_disk, phase, job, replay, engine, store, dirty, history>>

\* ack or reject.
Resolve(s, r) ==
  /\ Free /\ r \in Handles(s)
  /\ registry' = [registry EXCEPT ![s] = RecordOutcome(@, r)]
  /\ dirty' = dirty \cup {s}
  /\ done' = [done EXCEPT ![s] = @ \cup {r[2]}]
  /\ UNCHANGED <<on_disk, phase, job, replay, engine, store, offered, accepted, at_risk,
                 crashes, failures>>

\* defer, or dropping the handle.
Defer(s, r) ==
  /\ Free /\ r \in Handles(s)
  /\ registry' = [registry EXCEPT ![s].claimed = @ \ {r}]
  /\ UNCHANGED <<on_disk, phase, job, replay, engine, store, dirty, history>>

\* maintain: flush_progress writes the progress files of the dirty subscribers,
\* then the completed segments are reclaimed.  With neither to do it does nothing.
FlushProgress ==
  /\ Free /\ (dirty # {} \/ \E q \in store : q < DeleteBoundary)
  /\ progress' = [s \in Subscribers |->
       IF s \notin dirty THEN progress[s]
       ELSE LET incomplete == Incomplete(registry[s])
            IN  [written |-> TRUE, entries |-> registry[s].segments,
                 oldest |-> IF incomplete = {} THEN 0 ELSE Min(incomplete)]]
  /\ dirty' = {}
  /\ job' = [Idle EXCEPT !.at = "cleanup"]
  /\ UNCHANGED <<disk, files, phase, replay, engine, store, registry, history>>

Cleanup ==
  /\ job.at = "cleanup" /\ job' = Idle
  /\ CleanupCompletedSegments
  /\ UNCHANGED <<disk, progress, phase, replay, engine, dirty, history>>

-----------------------------------------------------------------------------
Crash ==
  /\ phase # "down" /\ crashes < MaxCrashes /\ MayEnd
  /\ crashes' = crashes + 1
  /\ Forget
  /\ UNCHANGED <<on_disk, offered, accepted, done, failures>>

\* The steps the engine's task takes by itself.
EngineStep ==
  \/ Open \/ ReplayOpenFile \/ ReplayEntry \/ ReplayDone
  \/ AppendToWal \/ WalFull \/ RotateByRename \/ RotateToNewFile
  \/ \E full \in BOOLEAN : AppendToSegment(full)
  \/ Flush \/ WriteSegment \/ PersistCursor \/ PurgeRotatedFile \/ RegisterSegment
  \/ Cleanup

ResolveSome(s) == \E r \in Handles(s) : Resolve(s, r)

Next ==
  \/ EngineStep
  \/ \E over \in BOOLEAN : Ingest(over)
  \/ RejectOverSoftCap \/ FlushProgress
  \/ WriteSegmentFails \/ PersistCursorFails \/ Crash
  \/ \E s \in Subscribers :
       \/ Poll(s) \/ ResolveSome(s)
       \/ \E r \in Handles(s) : Defer(s, r)

Spec == Init /\ [][Next]_vars

\* The engine's task keeps running, subscribers keep polling, and a bundle that
\* is deferred again and again is resolved in the end.
Fairness ==
  /\ WF_vars(EngineStep)
  /\ \A s \in Subscribers :
       WF_vars(Poll(s)) /\ SF_vars(ResolveSome(s))

FairSpec == Spec /\ Fairness

-----------------------------------------------------------------------------
(* Properties *)

IsSegmentMap(m) ==
  DOMAIN m \subseteq Nat /\ \A q \in DOMAIN m : m[q] \subseteq Bundles
IsFile(f) == f.start \in Nat /\ f.data \in Seq(Bundles)

\* The shape of the engine's state on disk and in memory.
TypeOK ==
  /\ \A f \in Range(disk.rotated) \cup {disk.active} : IsFile(f)
  /\ disk.sidecar \in Nat /\ IsSegmentMap(files)
  /\ \A s \in Subscribers :
       /\ progress[s].oldest \in Nat /\ IsSegmentMap(progress[s].entries)
       /\ IsSegmentMap(registry[s].segments)
       /\ registry[s].claimed \subseteq Nat \X Bundles
  /\ phase \in {"down", "replay", "up"}
  /\ job.at \in {"idle", "append", "retry", "rename", "reopen", "segment", "write",
                 "persist", "purge", "cleanup"}
  /\ job.then \in {"none", "append", "ingest", "flush", "replay"}
  /\ job.bundle \in 0..MaxBundles /\ job.seg \subseteq Bundles
  /\ Len(writer.ends) = (IF phase = "down" THEN 0 ELSE Len(disk.rotated))
  /\ writer.start \in Nat /\ writer.cursor \in Nat
  /\ open_segment \subseteq Bundles /\ segment_cursor \in Nat
  /\ store \subseteq DOMAIN files /\ dirty \subseteq Subscribers
  /\ offered \in 0..MaxBundles /\ accepted \subseteq 1..offered

DL == INSTANCE DurableLog WITH kept <- Kept

\* The engine keeps the promise of DurableLog: a bundle whose ingest returned Ok
\* is durable by then and stays durable until every subscriber has resolved it,
\* over crashes between the disk writes of ingest, finalize_segment_impl,
\* replay_wal, flush_progress and cleanup_completed_segments, and over failed
\* cursor writes.  Three things break it and are left out where it is checked: a
\* crash between the rename and the new file of a rotation (CrashMidRotation), one
\* that leaves a partly purged log (CrashPartlyPurged), and a segment write that
\* fails in a running engine (SegmentWriteMayFail).  TruncationSafe is what they
\* break.
ImplementsDurableLog == DL!Spec

\* No segment counts a bundle as resolved that the subscriber has not resolved:
\* neither a progress file restored after a restart nor a reused sequence number
\* hides a bundle of a segment that is still there.
ProgressHonest ==
  \A s \in Subscribers : \A m \in {registry[s].segments, progress[s].entries} :
    \A q \in DOMAIN m \cap DOMAIN files : files[q] \ m[q] \subseteq done[s]

\* persist_cursor never refuses the cursor of a segment that has just been
\* written: in-memory positions agree with the log's after every restart, so
\* open() cannot fail over and over on a log it wrote itself.
CursorAccepted == job.at = "persist" => ValidCursor(disk, writer, job.cursor)

\* Segment files whose cursor could not be persisted: nobody is told of them
\* before the next restart.
Stranded == UNION {files[q] : q \in DOMAIN files \ store}

\* Nothing is skipped: an accepted bundle that a subscriber of a running engine has
\* not resolved will be claimed by next_pending or is in its hands, unless it is
\* still on its way into a segment file, or in the hands of nobody because a
\* segment or cursor write has failed.  It takes register_new_segment, the
\* restored progress, activate, replay and the reclaiming to agree on what each
\* of them leaves to the others.
Offered(s) == {r[2] : r \in {p \in Pending(registry[s]) \cup Handles(s) : p[1] \in store}}
InMemory == open_segment \cup (IF job.at = "write" THEN job.seg ELSE {})
NothingSkipped ==
  phase = "up" =>
    \A s \in Subscribers :
      accepted \subseteq done[s] \cup Offered(s) \cup InMemory \cup Stranded \cup at_risk

\* Every accepted bundle is in the end resolved by every subscriber, through
\* crashes and replays: the backlog drains whenever ingest pauses.  Left over are
\* the bundles of a failed segment or cursor write, which wait for the next
\* restart or are lost by it (what is lost stays at risk).
BacklogDrains == []<>(accepted \subseteq Resolved \cup at_risk \cup Stranded)

\* Truncation never removes WAL entries of a segment whose durability has not been
\* confirmed (ARCHITECTURE.md): at no moment is a bundle that was accepted and is
\* still needed out of a restart's reach, behind the cursor that persist_cursor
\* has written or in a file that purge_rotated_files has deleted.
TruncationSafe == Lost = {}
=============================================================================
