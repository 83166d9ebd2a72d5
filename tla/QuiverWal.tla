----------------------------- MODULE QuiverWal ------------------------------
(***************************************************************************)
(* The write-ahead log of the Quiver engine: the files on disk             *)
(* (quiver/src/wal/writer.rs, reader.rs, cursor_sidecar.rs), the writer's  *)
(* in-memory positions, and what reading the files back yields.            *)
(*                                                                         *)
(* Every entry has size 1 and a header has size 0, so a WAL position is a  *)
(* number of entries.  A file is its header's wal_position_start and its   *)
(* entries; a file that does not exist reads like the one open() would     *)
(* create, empty and starting at 0.                                        *)
(*                                                                         *)
(* disk   = [rotated, active, sidecar]: wal.1, wal.2, ... oldest first,    *)
(*          the active file, and the cursor sidecar's wal_position (0 when *)
(*          the sidecar is missing).                                       *)
(* writer = [ends, start, cursor]: RotatedWalFile::wal_position_end of     *)
(*          each rotated file, wal_position_start, cursor_state.           *)
(***************************************************************************)
EXTENDS Naturals, Sequences, SequencesExt, FiniteSetsExt

CONSTANTS RotationTarget,   \* rotation_target_bytes
          MaxRotatedFiles   \* max_rotated_files

ASSUME WalAssumption == RotationTarget \in Nat \ {0} /\ MaxRotatedFiles \in Nat \ {0}

NewFile(start) == [start |-> start, data |-> << >>]
FileEnd(f) == f.start + Len(f.data)
EmptyDisk == [rotated |-> << >>, active |-> NewFile(0), sidecar |-> 0]

-----------------------------------------------------------------------------
(* The writer *)

\* The writer recomputes the positions of the rotated files it finds by adding
\* up their sizes from zero; it does not use their headers' wal_position_start.
ReloadRotatedFiles(rotated) ==
  LET wal_position[i \in 0..Len(rotated)] ==
        IF i = 0 THEN 0 ELSE wal_position[i - 1] + Len(rotated[i].data)
  IN  [i \in 1..Len(rotated) |-> wal_position[i]]

ActiveWalPositionStart(w) == IF w.ends = << >> THEN w.start ELSE Last(w.ends)

\* Mutant: the active file's wal_position_start is not read.
OpenWriterAtZero(disk) ==
  LET ends == ReloadRotatedFiles(disk.rotated)
      rotated_end == IF ends = << >> THEN 0 ELSE Last(ends)
  IN  [ends |-> ends, start |-> 0,
       cursor |-> Min({disk.sidecar, rotated_end + Len(disk.active.data)})]

\* WalWriter::open: the header of the active file, the sidecar, the rotated
\* files; restore_cursor_offsets lowers a cursor beyond what is on disk, and
\* counts only the active file's data when no rotated file is left.
OpenWriter(disk) ==
  LET ends == ReloadRotatedFiles(disk.rotated)
      rotated_end == IF ends = << >> THEN 0 ELSE Last(ends)
  IN  [ends |-> ends, start |-> disk.active.start,
       cursor |-> Min({disk.sidecar, rotated_end + Len(disk.active.data)})]

\* preflight_append: the entry would rotate the file and no more may exist.
WalAtCapacity(disk, w) ==
  /\ Len(disk.active.data) + 1 > RotationTarget
  /\ Len(w.ends) >= MaxRotatedFiles

AppendEntry(disk, b) == [disk EXCEPT !.active.data = Append(@, b)]

\* WalOffset::next_offset of the entry that was just appended.
ToWalPosition(disk, w) == ActiveWalPositionStart(w) + Len(disk.active.data)

MustRotate(disk) == Len(disk.active.data) > RotationTarget

\* rotate_active_file, first half: rename the active file.
RotateRename(disk) ==
  [disk EXCEPT !.rotated = Append(@, disk.active), !.active = NewFile(0)]

RotatedWriter(disk, w) ==
  LET end == ToWalPosition(disk, w)
  IN  [w EXCEPT !.ends = Append(@, end), !.start = end]

\* Mutant: the sidecar is rewritten with the position of the new file.
RotateReopenConsumed(disk, w) ==
  [disk EXCEPT !.active = NewFile(w.start), !.sidecar = w.start]

\* Second half: create the new active file, then rewrite the sidecar from memory.
RotateReopen(disk, w) ==
  [disk EXCEPT !.active = NewFile(w.start), !.sidecar = w.cursor]

\* validate_cursor.  Sequence numbers are left out: they regress only with the
\* offset.  With entries of one size every offset is an entry boundary.
ValidCursor(disk, w, c) ==
  LET active_start == ActiveWalPositionStart(w)
  IN  /\ c >= w.cursor
      /\ c <= active_start \/ c - active_start <= Len(disk.active.data)

\* purge_rotated_files removes the front file if the cursor is past its end.
CanPurge(w) == w.ends # << >> /\ Head(w.ends) <= w.cursor
\* Mutant: a purged file is forgotten but not removed.
PurgeFrontInMemory(disk) == disk

PurgeFront(disk) == [disk EXCEPT !.rotated = Tail(@)]

-----------------------------------------------------------------------------
(* The reader: MultiFileWalReader takes every position from the headers. *)

\* All files in the order of their wal_position_start; equal ones keep the
\* order in which they were found, rotated files first.
ReadOrder(disk) ==
  LET found == Append(disk.rotated, disk.active)
      Before(i) == {j \in 1..Len(found) :
                      \/ found[j].start < found[i].start
                      \/ found[j].start = found[i].start /\ j < i}
  IN  [k \in 1..Len(found) |->
         found[CHOOSE i \in 1..Len(found) : Cardinality(Before(i)) = k - 1]]

WalEndPosition(disk) == FileEnd(Last(ReadOrder(disk)))

\* replay_wal clamps the sidecar's position to the end of what is there.
ReplayFrom(disk) ==
  LET end == WalEndPosition(disk)
  IN  IF disk.sidecar <= end THEN disk.sidecar ELSE end

\* iter_from starts at the first file that ends after pos.
FilesFrom(disk, pos) ==
  LET files == ReadOrder(disk)
      after == {i \in 1..Len(files) : FileEnd(files[i]) > pos}
  IN  IF after = {} THEN << >> ELSE SubSeq(files, Min(after), Len(files))

\* The entries a reader positioned at pos finds in f, each with its next_offset.
EntriesFrom(f, pos) ==
  LET first == IF pos > f.start THEN pos - f.start ELSE 0
  IN  [i \in 1..(IF first < Len(f.data) THEN Len(f.data) - first ELSE 0) |->
         [bundle |-> f.data[first + i], next |-> f.start + first + i]]

\* The bundles a restart would read back: every entry at or after the cursor
\* and after the ends of the files read before its own.
Replayable(disk) ==
  LET files == ReadOrder(disk)
      from == ReplayFrom(disk)
      Read(i, p) ==
        p >= from /\ \A j \in 1..(i - 1) : p >= FileEnd(files[j])
  IN  UNION {{files[i].data[k] : k \in {k \in DOMAIN files[i].data :
                Read(i, files[i].start + k - 1)}} : i \in DOMAIN files}
=============================================================================
