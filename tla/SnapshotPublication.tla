------------------------ MODULE SnapshotPublication ------------------------
(***************************************************************************)
(* SnapshotPublisher (engine/state/snapshot): a writer publishes the state *)
(* of an asset in one of two slots and flips active_index; readers copy    *)
(* the active slot.  read() copies after it let go of buffers_mutex_,      *)
(* read_many() and read_depth_many() while they hold it.                   *)
(*                                                                         *)
(* A snapshot is many words; it is modelled by two, each the version that  *)
(* wrote it, which the writer writes and the readers copy one at a time.   *)
(* Version 0 is the empty snapshot of a new buffer.                        *)
(***************************************************************************)
EXTENDS Naturals, Sequences

CONSTANTS
  Readers, BatchReaders,   \* threads in read(), threads in read_many()
  InputVersions,           \* versions a snapshot may come with
  MaxPublications,         \* bound on publications
  MaxReads                 \* bound on the reads of a reader

ASSUME ReadersAssumption ==
  /\ "free" \notin Readers \cup BatchReaders
  /\ Readers \cap BatchReaders = {}
  /\ InputVersions \subseteq Nat

VARIABLES
  published, active, slots,   \* SnapshotBuffer
  mutex,                      \* the holder of buffers_mutex_, "free" if there is none
  writer,                     \* [pc, slot, version]
  reader,                     \* per reader [pc, slot, low, overlap]
  versions,                   \* history: the versions published, in order of publication
  reads,                      \* history: per reader the last read [result, low, high, overlap]
  count                       \* history: per reader the number of reads

bufferVars == << published, active, slots >>
pubVars == << published, active, slots, mutex, writer, reader, versions, reads, count >>

AllReaders == Readers \cup BatchReaders
Empty == [low |-> 0, high |-> 0]

PubInit ==
  /\ published = FALSE
  /\ active = 0
  /\ slots = [i \in 0 .. 1 |-> Empty]
  /\ mutex = "free"
  /\ writer = [pc |-> "idle", slot |-> 0, version |-> 0]
  /\ reader = [r \in AllReaders |-> [pc |-> "idle", slot |-> 0, low |-> 0, overlap |-> 0]]
  /\ versions = << >>
  /\ reads = [r \in AllReaders |-> [result |-> "none", low |-> 0, high |-> 0, overlap |-> 0]]
  /\ count = [r \in AllReaders |-> 0]

-----------------------------------------------------------------------------
(* publish.                                                                 *)

\* Faulty variant: the slot that is being read is written.
TargetActive(a) == a

\* The slot a publication writes.
Target(a) == 1 - a

\* The version a publication gets: at least one more than the active slot's.
NextVersion(given, current) == IF given < current + 1 THEN current + 1 ELSE given

\* A publication that begins is one more that overlaps each read in progress.
Overlapped ==
  [r \in AllReaders |->
     IF reader[r].pc = "idle" THEN reader[r] ELSE [reader[r] EXCEPT !.overlap = @ + 1]]

\* get_or_create_buffer takes the mutex and lets go of it; then the active index is read.
PublishBegin(given) ==
  /\ writer.pc = "idle"
  /\ mutex = "free"
  /\ Len(versions) < MaxPublications
  /\ writer' = [pc |-> "writeLow", slot |-> Target(active),
                version |-> NextVersion(given, slots[active].low)]
  /\ reader' = Overlapped
  /\ UNCHANGED << bufferVars, mutex, versions, reads, count >>

PublishLow ==
  /\ writer.pc = "writeLow"
  /\ slots' = [slots EXCEPT ![writer.slot].low = writer.version]
  /\ writer' = [writer EXCEPT !.pc = "writeHigh"]
  /\ UNCHANGED << published, active, mutex, reader, versions, reads, count >>

PublishHigh ==
  /\ writer.pc = "writeHigh"
  /\ slots' = [slots EXCEPT ![writer.slot].high = writer.version]
  /\ writer' = [writer EXCEPT !.pc = "flag"]
  /\ UNCHANGED << published, active, mutex, reader, versions, reads, count >>

PublishFlag ==
  /\ writer.pc = "flag"
  /\ published' = TRUE
  /\ writer' = [writer EXCEPT !.pc = "flip"]
  /\ UNCHANGED << active, slots, mutex, reader, versions, reads, count >>

PublishFlip ==
  /\ writer.pc = "flip"
  /\ active' = writer.slot
  /\ writer' = [writer EXCEPT !.pc = "idle"]
  /\ versions' = Append(versions, writer.version)
  /\ UNCHANGED << published, slots, mutex, reader, reads, count >>

-----------------------------------------------------------------------------
(* read, read_many and read_depth_many.                                     *)

At(r, pc) == reader[r].pc = pc

\* A batch read waits for the mutex; read() has let go of it when it looks at the flag.
MayEnter(r) == r \in BatchReaders => mutex = "free"

\* find_buffer, then the published flag: the asset is missing.
ReadMissing(r) ==
  /\ At(r, "idle") /\ MayEnter(r) /\ ~ published /\ count[r] < MaxReads
  /\ reads' = [reads EXCEPT ![r].result = "missing"]
  /\ count' = [count EXCEPT ![r] = @ + 1]
  /\ UNCHANGED << bufferVars, mutex, writer, reader, versions >>

\* Faulty variant: a batch read lets go of the mutex once it has found the buffer.
HolderNone(r) == mutex

\* Who holds the mutex while a reader copies.
Holder(r) == IF r \in BatchReaders THEN r ELSE mutex

\* The flag is seen set and the active index is read.
ReadBegin(r) ==
  /\ At(r, "idle") /\ MayEnter(r) /\ published /\ count[r] < MaxReads
  /\ mutex' = Holder(r)
  /\ reader' = [reader EXCEPT ![r] = [pc |-> "copyLow", slot |-> active, low |-> 0,
                                       overlap |-> IF writer.pc = "idle" THEN 0 ELSE 1]]
  /\ count' = [count EXCEPT ![r] = @ + 1]
  /\ UNCHANGED << bufferVars, writer, versions, reads >>

ReadLow(r) ==
  /\ At(r, "copyLow")
  /\ reader' = [reader EXCEPT ![r].pc = "copyHigh", ![r].low = slots[reader[r].slot].low]
  /\ UNCHANGED << bufferVars, mutex, writer, versions, reads, count >>

\* The lock_guard of a batch read ends with it.
Released(r) == IF mutex = r THEN "free" ELSE mutex

ReadHigh(r) ==
  /\ At(r, "copyHigh")
  /\ reader' = [reader EXCEPT ![r].pc = "idle"]
  /\ reads' = [reads EXCEPT ![r] = [result |-> "ok", low |-> reader[r].low,
                                    high |-> slots[reader[r].slot].high,
                                    overlap |-> reader[r].overlap]]
  /\ mutex' = Released(r)
  /\ UNCHANGED << bufferVars, writer, versions, count >>

PubNext ==
  \/ \E v \in InputVersions : PublishBegin(v)
  \/ PublishLow \/ PublishHigh \/ PublishFlag \/ PublishFlip
  \/ \E r \in AllReaders : ReadMissing(r) \/ ReadBegin(r) \/ ReadLow(r) \/ ReadHigh(r)

PubSpec == PubInit /\ [][PubNext]_pubVars

-----------------------------------------------------------------------------
(* Properties.                                                              *)

\* A read that succeeded and copied one publication's words.
Whole(r) == reads[r].low = reads[r].high

\* The state has its types, and the mutex is held by nobody but a batch reader that copies.
PubTypeOK ==
  /\ published \in BOOLEAN /\ active \in 0 .. 1
  /\ mutex # "free" => mutex \in BatchReaders /\ ~ At(mutex, "idle")

\* Two slots are enough for one publication: a read that no more than one publication
\* overlapped copies one snapshot (publish writes the inactive slot only).
ValidDuringOnePublish ==
  \A r \in AllReaders : reads[r].result = "ok" /\ reads[r].overlap <= 1 => Whole(r)

\* read_many and read_depth_many never tear: no publication begins while they hold the
\* mutex, since publish takes it first, and one that is in progress writes the other slot.
BatchReadsWhole ==
  \A r \in BatchReaders : reads[r].result = "ok" => Whole(r)

=============================================================================
