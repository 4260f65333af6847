--------------------------------- MODULE DB ---------------------------------
(***************************************************************************)
(* The storage engine: class DB with its writer, its background flush and  *)
(* compaction worker, a client that calls Compact, clients that read and   *)
(* take snapshots, Open and Close, I/O errors, and crashes.                *)
(*                                                                         *)
(* Grain of atomicity.  All shared state is read and written under         *)
(* version_mu_, so a critical section is one step, except where it does    *)
(* I/O whose failure or interruption matters: then the section is cut at   *)
(* the sync, the variable mu says who holds the lock meanwhile, and only   *)
(* steps that need no version_mu_ interleave.                              *)
(***************************************************************************)
EXTENDS MVCC, WAL, VersionEdit

CONSTANTS
  Keys,           \* user keys, ordered as the numbers they are
  Batches,        \* the batches clients write: sequences of [key, deleted]
  Snaps,          \* snapshot handles
  Readers,        \* client threads that call Get
  MemTableLimit,  \* Options::memtable_entries_limit
  Level0Limit,    \* Options::level0_sstable_limit
  Level1Limit,    \* Options::level1_size_limit_bytes, counted in versions
  AppendFailures, \* what a failed WAL append may leave: see AppendLeaves
  SaveFailures,   \* what a failed manifest append may leave: see SaveLeaves
  MaxSeq,         \* bound: sequence numbers handed out
  MaxFaults,      \* bound: I/O operations that fail
  MaxCrashes,     \* bound: crashes
  MaxOpens,       \* bound: calls of Open
  MaxCompacts     \* bound: calls of Compact by clients

ASSUME KeysAreNumbers == Keys \subseteq Nat \ {0}
ASSUME BatchesAreNonEmpty ==
  \A b \in Batches : /\ b \in Seq([key : Keys, deleted : BOOLEAN])
                     /\ Len(b) > 0
ASSUME LimitsArePositive ==
  /\ MemTableLimit \in Nat \ {0} /\ Level0Limit \in Nat \ {0}
  /\ Level1Limit \in Nat \ {0}
ASSUME FailuresAreKnown ==
  AppendFailures \cup SaveFailures \subseteq {"none", "torn", "full"}
ASSUME BoundsAreNumbers ==
  /\ MaxSeq \in Nat /\ MaxFaults \in Nat /\ MaxCrashes \in Nat
  /\ MaxOpens \in Nat /\ MaxCompacts \in Nat

VARIABLES
  \* On disk.
  wals,       \* WAL files by number
  ssts,       \* complete SSTable files by number
  mbase,      \* the version the synced, intact prefix of MANIFEST replays to
  mtail,      \* the records after that prefix
  msynced,    \* how many of them are synced
  \* In memory.
  closed, bgError,
  active,     \* the active MemTable
  activeWal,  \* active_wal_file_number_
  oldestWal,  \* active_memtable_oldest_wal_file_number_
  imm,        \* immutable_memtables_
  tables,     \* sstables_: an open table stays readable after its file is gone
  edit,       \* Manifest::edit_
  persisted,  \* Manifest::persisted_edit_
  snaps,      \* sequence number of each active snapshot, or Inactive
  \* Threads.
  mu,         \* who holds version_mu_ across a sync
  pending,    \* the version being saved, while mu names a manifest save
  work, stop, \* background_work_pending_, background_stop_
  worker, comp, closer, reader,
  \* Bounds.
  faults, crashes, opens, compacts

disk == <<wals, ssts, mbase, mtail, msynced>>
memory == <<closed, bgError, active, activeWal, oldestWal, imm, tables, edit,
            persisted, snaps>>
bounds == <<faults, crashes, opens, compacts>>
vars == <<disk, memory, mu, pending, work, stop, worker, comp, closer, reader,
          bounds>>

Version == Versions(Keys)
Inactive == -1

NoEdit == [next |-> 0, wal |-> 0, last |-> 0, files |-> {}]
IdleWorker == [pc |-> "off", num |-> 0, wal |-> 0, ents |-> {}]
NoCompaction == [by |-> "none", stage |-> "idle", inputs |-> {}, ents |-> {},
                 level |-> 0, min |-> 0, num |-> 0, attempts |-> 0]
IdleCloser == [pc |-> "idle", moved |-> FALSE]
IdleReader == [pc |-> "idle", key |-> 0, seq |-> 0, active |-> {},
               shared |-> FALSE, imms |-> <<>>, tabs |-> {}, want |-> 0,
               got |-> 0]

VersionSets == FiniteSubsets(Version)

\* Files of type T by number.
IsDirectory(f, T) == DOMAIN f \in FiniteSubsets(Nat) /\ f \in [DOMAIN f -> T]

DiskTypeOK ==
  /\ IsDirectory(wals, WALFiles(Version)) /\ IsDirectory(ssts, VersionSets)
  /\ mbase \in Edits /\ mtail \in Seq(Records) /\ msynced \in Nat

Immutables == [ents : VersionSets, wal : Nat]

MemoryTypeOK ==
  /\ closed \in BOOLEAN /\ bgError \in BOOLEAN
  /\ active \in VersionSets /\ activeWal \in Nat /\ oldestWal \in Nat
  /\ imm \in Seq(Immutables)
  /\ IsDirectory(tables, VersionSets)
  /\ edit \in Edits /\ persisted \in Edits
  /\ snaps \in [Snaps -> Nat \cup {Inactive}]

Workers == [pc : {"off", "wait", "loop", "build", "publish", "compact", "purge",
                  "exit"},
            num : Nat, wal : Nat, ents : VersionSets]

Compactions == [by : {"none", "user", "worker"},
                stage : {"idle", "check", "build", "publish", "remove"},
                inputs : SUBSET Nat, ents : VersionSets, level : 0..2,
                min : Nat, num : Nat, attempts : 0..4]

Closers == [pc : {"idle", "join"}, moved : BOOLEAN]

Gets == [pc : {"idle", "pinned", "tables", "done"}, key : Nat, seq : Nat,
         active : VersionSets, shared : BOOLEAN, imms : Seq(VersionSets),
         tabs : VersionSets, want : Nat, got : Nat]

ThreadsTypeOK ==
  /\ mu \in {"free", "write", "rotate", "flush", "compact", "close", "purge"}
  /\ pending \in Edits
  /\ work \in BOOLEAN /\ stop \in BOOLEAN
  /\ worker \in Workers /\ comp \in Compactions /\ closer \in Closers

ReadersTypeOK == reader \in [Readers -> Gets]

BoundsTypeOK ==
  faults \in Nat /\ crashes \in Nat /\ opens \in Nat /\ compacts \in Nat

TypeOK ==
  DiskTypeOK /\ MemoryTypeOK /\ ThreadsTypeOK /\ ReadersTypeOK /\ BoundsTypeOK

\* A directory that an Open has initialised: the first manifest record is
\* durable and the database is closed.
FirstEdit == [next |-> 2, wal |-> 1, last |-> 0, files |-> {}]

\* The in-memory fields of a closed database.  Open assigns every one of them
\* before anything reads it.
ResetMemory ==
  /\ closed' = TRUE /\ bgError' = FALSE
  /\ active' = {} /\ activeWal' = 0 /\ oldestWal' = 0 /\ imm' = <<>>
  /\ tables' = <<>> /\ edit' = NoEdit /\ persisted' = NoEdit
  /\ snaps' = [i \in Snaps |-> Inactive]
  /\ mu' = "free" /\ pending' = NoEdit /\ work' = FALSE /\ stop' = FALSE
  /\ worker' = IdleWorker /\ comp' = NoCompaction /\ closer' = IdleCloser

Init ==
  /\ wals = <<>> /\ ssts = <<>>
  /\ mbase = FirstEdit /\ mtail = <<>> /\ msynced = 0
  /\ closed = TRUE /\ bgError = FALSE
  /\ active = {} /\ activeWal = 0 /\ oldestWal = 0 /\ imm = <<>>
  /\ tables = <<>> /\ edit = NoEdit /\ persisted = NoEdit
  /\ snaps = [i \in Snaps |-> Inactive]
  /\ mu = "free" /\ pending = NoEdit /\ work = FALSE /\ stop = FALSE
  /\ worker = IdleWorker /\ comp = NoCompaction /\ closer = IdleCloser
  /\ reader = [r \in Readers |-> IdleReader]
  /\ faults = 0 /\ crashes = 0 /\ opens = 0 /\ compacts = 0

-----------------------------------------------------------------------------
(***************************************************************************)
(* Parts shared by the actions.                                            *)
(***************************************************************************)
\* An I/O operation fails.
OneFault ==
  /\ faults < MaxFaults /\ faults' = faults + 1
  /\ UNCHANGED <<crashes, opens, compacts>>

\* (variant: the pinned MemTable is replaced too)
ReadersFollow == UNCHANGED reader

\* A reader that pinned the active MemTable keeps it when another replaces it.
FreezeReaders ==
  reader' = [r \in Readers |->
               IF reader[r].shared
               THEN [reader[r] EXCEPT !.active = active, !.shared = FALSE]
               ELSE reader[r]]

\* Manifest::Save appends the record of the difference, then syncs the file.
SaveAppends(new) ==
  /\ mtail' = Append(mtail, BuildEditPayload(persisted, new))
  /\ pending' = new
  /\ UNCHANGED <<mbase, msynced>>

SaveSucceeds ==
  /\ mbase' = Replay(mbase, IntactPrefix(mtail))
  /\ mtail' = TornRest(mtail)
  /\ msynced' = Len(TornRest(mtail))
  /\ edit' = pending /\ persisted' = pending /\ pending' = NoEdit

\* What a failed save leaves of its record: nothing, a part of it, or all of it,
\* not known to be durable.  The caller restores the edit it started from, and
\* SaveManifest sets the background error.
SaveLeaves(how) ==
  LET n == Len(mtail)
  IN  CASE how = "none" -> SubSeq(mtail, 1, n - 1)
        [] how = "torn" -> [mtail EXCEPT ![n] = Tear(mtail[n])]
        [] how = "full" -> mtail

SaveFails ==
  /\ OneFault
  /\ \E how \in SaveFailures : mtail' = SaveLeaves(how)
  /\ pending' = NoEdit /\ bgError' = TRUE /\ mu' = "free"
  /\ UNCHANGED <<mbase, msynced, edit, persisted>>

\* A file created or replaced, a file opened for append, and files removed.
Created(f, n, x) == [m \in DOMAIN f \cup {n} |-> IF m = n THEN x ELSE f[m]]
OpenedForAppend(f, n) == IF n \in DOMAIN f THEN f ELSE Created(f, n, EmptyWAL)
Restricted(f, S) == [n \in DOMAIN f \cap S |-> f[n]]

\* Every way a loop that removes the files S of f may stop early.
PartlyRemoved(f, S) == {Restricted(f, DOMAIN f \ R) : R \in SUBSET S}

MetaOf(num, level, ents) ==
  [num |-> num, level |-> level,
   lo |-> IF ents = {} THEN 0 ELSE Min({e.key : e \in ents}),
   hi |-> IF ents = {} THEN 0 ELSE Max({e.key : e \in ents})]

-----------------------------------------------------------------------------
(***************************************************************************)
(* Open and recovery.                                                      *)
(***************************************************************************)
LiveWALs(e) == {n \in DOMAIN wals : n >= e.wal}

Recoverable(e) ==
  /\ Nums(e.files) \subseteq DOMAIN ssts
  /\ ReplaysInOrder(wals, LiveWALs(e))

ReplayedVersions(files, e) ==
  UNION {RecordedVersions(files[n]) : n \in {m \in DOMAIN files : m >= e.wal}}

RecoveredLast(files, e) ==
  Max({e.last} \cup {v.seq : v \in ReplayedVersions(files, e)})

\* (variant: only WAL files count)
MaxSeenFileNumberLive == Max({0} \cup DOMAIN wals)
\* Files that no version names, orphans of interrupted builds, count as well.
MaxSeenFileNumber == Max({0} \cup DOMAIN ssts \cup DOMAIN wals)

\* The version Load replays.
LoadedEdit == Replay(mbase, IntactPrefix(mtail))

\* Load cuts a torn tail off and syncs the file.
LoadManifest ==
  IF TornRest(mtail) = <<>>
  THEN UNCHANGED <<mbase, mtail, msynced>>
  ELSE mbase' = LoadedEdit /\ mtail' = <<>> /\ msynced' = 0

\* The WAL that Open goes on writing to.
NewestWAL == LET live == LiveWALs(LoadedEdit)
             IN  IF live = {} THEN LoadedEdit.wal ELSE Max(live)

\* The WAL files once the replay has passed those in S.
Truncated(S) ==
  [n \in DOMAIN wals |-> IF n \in S THEN TruncateTornTail(wals[n]) ELSE wals[n]]

Open ==
  LET e == LoadedEdit
      live == LiveWALs(e)
  IN  /\ closed /\ opens < MaxOpens
      /\ Recoverable(e)
      /\ LoadManifest
      /\ wals' = OpenedForAppend(Truncated(live), NewestWAL)
      /\ closed' = FALSE /\ bgError' = FALSE
      /\ active' = ReplayedVersions(wals, e) /\ imm' = <<>>
      /\ FreezeReaders
      /\ activeWal' = NewestWAL
      /\ oldestWal' = IF live = {} THEN e.wal ELSE Min(live)
      /\ tables' = [n \in Nums(e.files) |-> ssts[n]]
      /\ persisted' = e
      /\ edit' = [e EXCEPT !.next = Max({e.next, MaxSeenFileNumber + 1}),
                           !.last = RecoveredLast(wals, e)]
      /\ stop' = FALSE /\ work' = FALSE
      /\ worker' = [IdleWorker EXCEPT !.pc = "wait"]
      /\ opens' = opens + 1
      /\ UNCHANGED <<ssts, snaps, mu, pending, comp, closer, faults, crashes,
                     compacts>>

\* Open returns an I/O error: before it has cut the manifest's torn tail off, in
\* the middle of the replay, or as it opens the active WAL.
OpenFails ==
  LET live == LiveWALs(LoadedEdit)
  IN  /\ closed /\ opens < MaxOpens /\ faults < MaxFaults
      /\ \/ UNCHANGED <<wals, mbase, mtail, msynced>>
         \/ /\ LoadManifest
            /\ \E S \in SUBSET live : /\ \A n \in S, m \in live : m < n => m \in S
                                      /\ wals' = Truncated(S)
         \/ LoadManifest /\ wals' = OpenedForAppend(Truncated(live), NewestWAL)
      /\ opens' = opens + 1 /\ faults' = faults + 1
      /\ UNCHANGED <<ssts, memory, mu, pending, work, stop, worker, comp, closer,
                     reader, crashes, compacts>>

-----------------------------------------------------------------------------
(***************************************************************************)
(* Write, and the switch to a new MemTable and WAL.                        *)
(***************************************************************************)
BatchVersions(b, first) ==
  {[key |-> b[i].key, seq |-> first + i - 1, deleted |-> b[i].deleted] :
     i \in DOMAIN b}

Write(b) ==
  /\ mu = "free" /\ closer.pc = "idle"
  /\ ~bgError /\ ~closed
  /\ edit.last + Len(b) <= MaxSeq
  /\ wals' = [wals EXCEPT ![activeWal] =
                AppendRecord(@, BatchVersions(b, edit.last + 1))]
  /\ mu' = "write"
  /\ UNCHANGED <<ssts, mbase, mtail, msynced, memory, pending, work, stop,
                 worker, comp, closer, reader, bounds>>

\* (variant: no error is recorded)
WriteFailsQuietly ==
  /\ mu = "write" /\ OneFault
  /\ \E how \in AppendFailures : wals' = [wals EXCEPT ![activeWal] = AppendLeaves(@, how)]
  /\ mu' = "free"
  /\ UNCHANGED <<ssts, mbase, mtail, msynced, memory, pending, work, stop,
                 worker, comp, closer, reader>>

\* The record is durable or may be there in part: its sequence numbers are not
\* used again before the next Open.
WriteFails ==
  /\ mu = "write" /\ OneFault
  /\ \E how \in AppendFailures : wals' = [wals EXCEPT ![activeWal] = AppendLeaves(@, how)]
  /\ bgError' = TRUE /\ mu' = "free"
  /\ UNCHANGED <<ssts, mbase, mtail, msynced, closed, active, activeWal,
                 oldestWal, imm, tables, edit, persisted, snaps, pending, work,
                 stop, worker, comp, closer, reader>>

\* The batch just synced, and the state once it is applied.
Appended == LET f == wals[activeWal] IN f.recs[Len(f.recs)]
SyncedWALs == [wals EXCEPT ![activeWal] = SyncFile(@)]

\* (variant: one number for the whole batch)
AppliedEditOnce == [edit EXCEPT !.last = @ + 1]
AppliedEdit == [edit EXCEPT !.last = LastSeq(Appended)]
Full(m) == Cardinality(m) >= MemTableLimit

WriteApplies ==
  /\ mu = "write" /\ ~Full(active \cup Appended)
  /\ wals' = SyncedWALs
  /\ active' = active \cup Appended
  /\ edit' = AppliedEdit
  /\ mu' = "free"
  /\ UNCHANGED <<ssts, mbase, mtail, msynced, closed, bgError, activeWal,
                 oldestWal, imm, tables, persisted, snaps, pending, work, stop,
                 worker, comp, closer, reader, bounds>>

\* MaybeFlushMemTable opens a new WAL and saves the manifest before it switches.
WriteSwitches ==
  /\ mu = "write" /\ Full(active \cup Appended)
  /\ wals' = OpenedForAppend(SyncedWALs, edit.next)
  /\ active' = active \cup Appended
  /\ edit' = AppliedEdit
  /\ SaveAppends([AppliedEdit EXCEPT !.next = @ + 1])
  /\ mu' = "rotate"
  /\ UNCHANGED <<ssts, closed, bgError, activeWal, oldestWal, imm, tables,
                 persisted, snaps, work, stop, worker, comp, closer, reader,
                 bounds>>

\* The new WAL cannot be opened: the write returns an error, applied all the
\* same, and the next write tries the switch again.
SwitchFails ==
  /\ mu = "write" /\ Full(active \cup Appended) /\ OneFault
  /\ wals' \in {SyncedWALs, OpenedForAppend(SyncedWALs, edit.next)}
  /\ active' = active \cup Appended
  /\ edit' = AppliedEdit
  /\ mu' = "free"
  /\ UNCHANGED <<ssts, mbase, mtail, msynced, closed, bgError, activeWal,
                 oldestWal, imm, tables, persisted, snaps, pending, work, stop,
                 worker, comp, closer, reader>>

\* (variant: queued at the wrong end)
RotateSucceedsInFront ==
  /\ mu = "rotate" /\ SaveSucceeds /\ mu' = "free"
  /\ imm' = <<[ents |-> active, wal |-> oldestWal]>> \o imm
  /\ active' = {} /\ FreezeReaders
  /\ activeWal' = pending.next - 1 /\ oldestWal' = pending.next - 1
  /\ work' = TRUE
  /\ UNCHANGED <<wals, ssts, closed, bgError, tables, snaps, stop, worker, comp,
                 closer, bounds>>

\* (variant: the worker is not woken)
RotateSucceedsSilently ==
  /\ mu = "rotate" /\ SaveSucceeds /\ mu' = "free"
  /\ imm' = Append(imm, [ents |-> active, wal |-> oldestWal])
  /\ active' = {} /\ FreezeReaders
  /\ activeWal' = pending.next - 1 /\ oldestWal' = pending.next - 1
  /\ UNCHANGED <<wals, ssts, closed, bgError, tables, snaps, work, stop, worker,
                 comp, closer, bounds>>

RotateSucceeds ==
  /\ mu = "rotate" /\ SaveSucceeds /\ mu' = "free"
  /\ imm' = Append(imm, [ents |-> active, wal |-> oldestWal])
  /\ active' = {} /\ FreezeReaders
  /\ activeWal' = pending.next - 1 /\ oldestWal' = pending.next - 1
  /\ work' = TRUE
  /\ UNCHANGED <<wals, ssts, closed, bgError, tables, snaps, stop, worker, comp,
                 closer, bounds>>

RotateFails ==
  /\ mu = "rotate" /\ SaveFails
  /\ UNCHANGED <<wals, ssts, closed, active, activeWal, oldestWal, imm, tables,
                 snaps, work, stop, worker, comp, closer, reader>>

-----------------------------------------------------------------------------
(***************************************************************************)
(* The background worker: BackgroundWorkerLoop.                            *)
(***************************************************************************)
WorkerWakes ==
  /\ worker.pc = "wait" /\ (stop \/ work)
  /\ work' = FALSE
  /\ worker' = [worker EXCEPT !.pc = "loop"]
  /\ UNCHANGED <<disk, memory, mu, pending, stop, comp, closer, reader, bounds>>

\* (variant: stops without looking at the queue)
WorkerStopsEarly ==
  /\ worker.pc = "loop" /\ mu = "free" /\ (imm = <<>> \/ stop)
  /\ worker' = [IdleWorker EXCEPT !.pc = IF stop THEN "exit" ELSE "wait"]
  /\ UNCHANGED <<disk, memory, mu, pending, work, stop, comp, closer, reader,
                 bounds>>

WorkerFindsNothing ==
  /\ worker.pc = "loop" /\ mu = "free" /\ imm = <<>>
  /\ worker' = [IdleWorker EXCEPT !.pc = IF stop THEN "exit" ELSE "wait"]
  /\ UNCHANGED <<disk, memory, mu, pending, work, stop, comp, closer, reader,
                 bounds>>

\* (variant: the worker does not give up after an error)
WorkerRetries ==
  /\ worker.pc = "loop" /\ mu = "free" /\ imm # <<>> /\ bgError
  /\ worker' = [IdleWorker EXCEPT !.pc = "wait"]
  /\ UNCHANGED <<disk, memory, mu, pending, work, stop, comp, closer, reader,
                 bounds>>

WorkerGivesUp ==
  /\ worker.pc = "loop" /\ mu = "free" /\ imm # <<>> /\ bgError
  /\ worker' = [IdleWorker EXCEPT !.pc = "exit"]
  /\ UNCHANGED <<disk, memory, mu, pending, work, stop, comp, closer, reader,
                 bounds>>

WorkerPicks ==
  /\ worker.pc = "loop" /\ mu = "free" /\ imm # <<>> /\ ~bgError
  /\ worker' = [pc |-> "build", num |-> edit.next, wal |-> imm[1].wal,
                ents |-> imm[1].ents]
  /\ edit' = [edit EXCEPT !.next = @ + 1]
  /\ UNCHANGED <<disk, closed, bgError, active, activeWal, oldestWal, imm,
                 tables, persisted, snaps, mu, pending, work, stop, comp,
                 closer, reader, bounds>>

FlushBuilds ==
  /\ worker.pc = "build"
  /\ ssts' = Created(ssts, worker.num, worker.ents)
  /\ worker' = [worker EXCEPT !.pc = "publish"]
  /\ UNCHANGED <<wals, mbase, mtail, msynced, memory, mu, pending, work, stop,
                 comp, closer, reader, bounds>>

\* The table is renamed into place as the last step of building it, so a failure
\* leaves a whole file or none.
FlushBuildFails ==
  /\ worker.pc = "build" /\ mu = "free" /\ OneFault
  /\ ssts' \in {ssts, Created(ssts, worker.num, worker.ents)}
  /\ bgError' = TRUE
  /\ worker' = [IdleWorker EXCEPT !.pc = "loop"]
  /\ UNCHANGED <<wals, mbase, mtail, msynced, closed, active, activeWal,
                 oldestWal, imm, tables, edit, persisted, snaps, mu, pending,
                 work, stop, comp, closer, reader>>

\* The worker's check that its MemTable still heads the queue.
QueueUnchanged == imm # <<>> /\ imm[1].wal = worker.wal

\* (variant: the newest WAL, whatever is queued)
NextLiveWALNewest == oldestWal
NextLiveWAL == IF Len(imm) > 1 THEN imm[2].wal ELSE oldestWal

FlushPublishes ==
  /\ worker.pc = "publish" /\ mu = "free" /\ QueueUnchanged
  /\ SaveAppends([edit EXCEPT !.files = @ \cup {MetaOf(worker.num, 0, worker.ents)},
                              !.wal = NextLiveWAL])
  /\ mu' = "flush"
  /\ UNCHANGED <<wals, ssts, memory, work, stop, worker, comp, closer, reader,
                 bounds>>

FlushSucceeds ==
  /\ mu = "flush" /\ SaveSucceeds /\ mu' = "free"
  /\ tables' = Created(tables, worker.num, worker.ents)
  /\ imm' = Tail(imm)
  /\ worker' = [IdleWorker EXCEPT !.pc = "compact", !.wal = pending.wal]
  /\ UNCHANGED <<wals, ssts, closed, bgError, active, activeWal, oldestWal,
                 snaps, work, stop, comp, closer, reader, bounds>>

FlushFails ==
  /\ mu = "flush" /\ SaveFails
  /\ worker' = [IdleWorker EXCEPT !.pc = "loop"]
  /\ UNCHANGED <<wals, ssts, closed, active, activeWal, oldestWal, imm, tables,
                 snaps, work, stop, comp, closer, reader>>

\* RemoveObsoleteWALFiles, which runs even if the compaction before it failed.
WorkerPurges ==
  /\ worker.pc = "purge"
  /\ wals' = Restricted(wals, {n \in DOMAIN wals : n >= worker.wal})
  /\ worker' = [IdleWorker EXCEPT !.pc = "loop"]
  /\ UNCHANGED <<ssts, mbase, mtail, msynced, memory, mu, pending, work, stop,
                 comp, closer, reader, bounds>>

WorkerPurgeFails ==
  /\ worker.pc = "purge" /\ mu = "free" /\ OneFault
  /\ wals' \in PartlyRemoved(wals, {n \in DOMAIN wals : n < worker.wal})
  /\ bgError' = TRUE
  /\ worker' = [IdleWorker EXCEPT !.pc = "loop"]
  /\ UNCHANGED <<ssts, mbase, mtail, msynced, closed, active, activeWal,
                 oldestWal, imm, tables, edit, persisted, snaps, mu, pending,
                 work, stop, comp, closer, reader>>

-----------------------------------------------------------------------------
(***************************************************************************)
(* Compaction: MaybeCompact by the worker, Compact by a client.  comp.by   *)
(* is the holder of compaction_mu_.                                        *)
(***************************************************************************)
AtLevel(l) == {m \in edit.files : m.level = l}

NeedsCompaction ==
  \/ Cardinality(AtLevel(0)) > Level0Limit
  \/ MapThenSumSet(LAMBDA m : Cardinality(ssts[m.num]), AtLevel(1)) > Level1Limit

\* (variant: ranges that share one key do not overlap)
RangesOverlapStrictly(m, lo, hi) ==
  m.lo = 0 \/ lo = 0 \/ (m.lo < hi /\ lo < m.hi)

\* RangesOverlap: a file with an empty range is taken to overlap everything.
RangesOverlap(m, lo, hi) ==
  m.lo = 0 \/ lo = 0 \/ (m.lo <= hi /\ lo <= m.hi)

SmallestKey(files) == LET s == {m.lo : m \in files} \ {0}
                      IN  IF s = {} THEN 0 ELSE Min(s)
LargestKey(files) == Max({m.hi : m \in files})

\* All of level 0 and what it overlaps of level 1; without level 0, all of level
\* 1 and what it overlaps of level 2.
SourceLevel == IF AtLevel(0) # {} THEN 0 ELSE 1

CompactionInputs ==
  LET base == AtLevel(SourceLevel)
  IN  IF base = {} THEN {}
      ELSE base \cup {m \in AtLevel(SourceLevel + 1) :
                        RangesOverlap(m, SmallestKey(base), LargestKey(base))}

\* (variant: inactive handles count)
MinSnapshotSequence ==
  LET s == {snaps[i] : i \in Snaps} \ {0}
  IN  IF s = {} THEN 0 ELSE Min(s)

\* Snapshots are created in order of sequence number, so a snapshot at 0, which
\* the code cannot tell from none, never hides a later one.
MinActiveSnapshotSequence ==
  LET s == {snaps[i] : i \in Snaps} \ {Inactive, 0}
  IN  IF s = {} THEN 0 ELSE Min(s)

Selects(by, attempts) ==
  LET ins == Nums(CompactionInputs)
  IN  /\ mu = "free" /\ ~closed /\ ~bgError /\ ins # {}
      /\ comp' = [by |-> by, stage |-> "build", inputs |-> ins,
                  ents |-> UNION {tables[n] : n \in ins},
                  level |-> SourceLevel + 1, min |-> MinActiveSnapshotSequence,
                  num |-> edit.next, attempts |-> attempts]
      /\ edit' = [edit EXCEPT !.next = @ + 1]
      /\ UNCHANGED <<disk, closed, bgError, active, activeWal, oldestWal, imm,
                     tables, persisted, snaps, mu, pending, work, stop, worker,
                     closer, reader, faults, crashes, opens>>

UserCompacts ==
  /\ comp.by = "none" /\ Selects("user", 0)
  /\ compacts < MaxCompacts /\ compacts' = compacts + 1

MaybeCompactStarts ==
  /\ worker.pc = "compact" /\ comp.by = "none"
  /\ comp' = [NoCompaction EXCEPT !.by = "worker", !.stage = "check"]
  /\ UNCHANGED <<disk, memory, mu, pending, work, stop, worker, closer, reader,
                 bounds>>

MaybeCompactSelects ==
  /\ comp.by = "worker" /\ comp.stage = "check"
  /\ comp.attempts < 4 /\ NeedsCompaction
  /\ Selects("worker", comp.attempts) /\ UNCHANGED compacts

\* The end of a compaction for its caller: a client's call returns; the worker's
\* loop in MaybeCompact goes on after a success and ends otherwise.
CompactionEnds ==
  /\ comp' = NoCompaction
  /\ worker' = IF comp.by = "worker" THEN [worker EXCEPT !.pc = "purge"] ELSE worker

MaybeCompactEnds ==
  /\ comp.by = "worker" /\ comp.stage = "check" /\ mu = "free"
  /\ comp.attempts = 4 \/ ~NeedsCompaction \/ bgError
  /\ CompactionEnds
  /\ UNCHANGED <<disk, memory, mu, pending, work, stop, closer, reader, bounds>>

CompactionOutput == Retained(comp.ents, comp.min, comp.level)

\* (variant: removes the inputs when the table is built)
CompactionBuildsInPlace ==
  /\ comp.stage = "build"
  /\ ssts' = Created(Restricted(ssts, DOMAIN ssts \ comp.inputs), comp.num,
                     CompactionOutput)
  /\ comp' = [comp EXCEPT !.stage = "publish"]
  /\ UNCHANGED <<wals, mbase, mtail, msynced, memory, mu, pending, work, stop,
                 worker, closer, reader, bounds>>

CompactionBuilds ==
  /\ comp.stage = "build"
  /\ ssts' = Created(ssts, comp.num, CompactionOutput)
  /\ comp' = [comp EXCEPT !.stage = "publish"]
  /\ UNCHANGED <<wals, mbase, mtail, msynced, memory, mu, pending, work, stop,
                 worker, closer, reader, bounds>>

\* An unreadable input or a failed build: the new file is removed again, and the
\* worker, but not a client's call, sets the background error.
CompactionBuildFails ==
  /\ comp.stage = "build" /\ mu = "free" /\ OneFault
  /\ bgError' = (bgError \/ comp.by = "worker")
  /\ CompactionEnds
  /\ UNCHANGED <<disk, closed, active, activeWal, oldestWal, imm, tables, edit,
                 persisted, snaps, mu, pending, work, stop, closer, reader>>

\* The checks before publishing: the database is still open and every input is
\* still live.
InputsUnchanged == ~closed /\ comp.inputs \subseteq Nums(edit.files)

CompactionPublishes ==
  /\ comp.stage = "publish" /\ mu = "free" /\ InputsUnchanged
  /\ SaveAppends([edit EXCEPT
       !.files = {m \in @ : m.num \notin comp.inputs}
                 \cup {MetaOf(comp.num, comp.level, CompactionOutput)}])
  /\ mu' = "compact"
  /\ UNCHANGED <<wals, ssts, memory, work, stop, worker, comp, closer, reader,
                 bounds>>

CompactionSucceeds ==
  /\ mu = "compact" /\ SaveSucceeds /\ mu' = "free"
  /\ tables' = Created(Restricted(tables, DOMAIN tables \ comp.inputs), comp.num,
                       CompactionOutput)
  /\ comp' = [comp EXCEPT !.stage = "remove"]
  /\ UNCHANGED <<wals, ssts, closed, bgError, active, activeWal, oldestWal, imm,
                 snaps, work, stop, worker, closer, reader, bounds>>

\* The output's file stays: its record may be durable.
CompactionFails ==
  /\ mu = "compact" /\ SaveFails
  /\ CompactionEnds
  /\ UNCHANGED <<wals, ssts, closed, active, activeWal, oldestWal, imm, tables,
                 snaps, work, stop, closer, reader>>

CompactionRemoves ==
  /\ comp.stage = "remove"
  /\ ssts' = Restricted(ssts, DOMAIN ssts \ comp.inputs)
  /\ comp' = IF comp.by = "user" THEN NoCompaction
             ELSE [NoCompaction EXCEPT !.by = "worker", !.stage = "check",
                                       !.attempts = comp.attempts + 1]
  /\ UNCHANGED <<wals, mbase, mtail, msynced, memory, mu, pending, work, stop,
                 worker, closer, reader, bounds>>

CompactionRemoveFails ==
  /\ comp.stage = "remove" /\ mu = "free" /\ OneFault
  /\ ssts' \in PartlyRemoved(ssts, comp.inputs)
  /\ bgError' = (bgError \/ comp.by = "worker")
  /\ CompactionEnds
  /\ UNCHANGED <<wals, mbase, mtail, msynced, closed, active, activeWal,
                 oldestWal, imm, tables, edit, persisted, snaps, mu, pending,
                 work, stop, closer, reader>>

-----------------------------------------------------------------------------
(***************************************************************************)
(* Reads and snapshots.                                                    *)
(***************************************************************************)
GetSnapshot(i) ==
  /\ mu = "free" /\ ~closed /\ snaps[i] = Inactive
  /\ snaps' = [snaps EXCEPT ![i] = edit.last]
  /\ UNCHANGED <<disk, closed, bgError, active, activeWal, oldestWal, imm,
                 tables, edit, persisted, mu, pending, work, stop, worker, comp,
                 closer, reader, bounds>>

ReleaseSnapshot(i) ==
  /\ mu = "free" /\ snaps[i] # Inactive
  /\ snaps' = [snaps EXCEPT ![i] = Inactive]
  /\ UNCHANGED <<disk, closed, bgError, active, activeWal, oldestWal, imm,
                 tables, edit, persisted, mu, pending, work, stop, worker, comp,
                 closer, reader, bounds>>

\* Everything a read can find now, and what key k is at sequence number s in it.
TableVersions == UNION {tables[n] : n \in DOMAIN tables}
MemoryVersions ==
  active \cup TableVersions \cup UNION {imm[i].ents : i \in DOMAIN imm}

\* Get pins the version under the lock...
ReadPoints == {edit.last} \cup ({snaps[i] : i \in Snaps} \ {Inactive})

GetPins(r, k) ==
  /\ reader[r].pc = "idle" /\ mu = "free" /\ ~closed
  /\ \E s \in ReadPoints :
       reader' = [reader EXCEPT ![r] =
         [pc |-> "pinned", key |-> k, seq |-> s, active |-> {}, shared |-> TRUE,
          imms |-> [i \in DOMAIN imm |-> imm[Len(imm) + 1 - i].ents],
          tabs |-> TableVersions, want |-> Lookup(MemoryVersions, k, s),
          got |-> NotFound]]
  /\ UNCHANGED <<disk, memory, mu, pending, work, stop, worker, comp, closer,
                 bounds>>

\* ... then searches the MemTables without it, newest first, and returns at the
\* first that has the key.  A writer keeps memtable_mu_ while it switches.
PinnedMemTables(r) ==
  <<IF reader[r].shared THEN active ELSE reader[r].active>> \o reader[r].imms

GetReadsMemTables(r) ==
  LET p == reader[r]
      hit == \E i \in DOMAIN PinnedMemTables(r) :
               VisibleAt(PinnedMemTables(r)[i], p.key, p.seq) # {}
  IN  /\ p.pc = "pinned" /\ mu # "rotate"
      /\ reader' = [reader EXCEPT ![r] =
           [p EXCEPT !.pc = IF hit THEN "done" ELSE "tables",
                     !.got = FirstHit(PinnedMemTables(r), p.key, p.seq),
                     !.active = {}, !.shared = FALSE, !.imms = <<>>]]
      /\ UNCHANGED <<disk, memory, mu, pending, work, stop, worker, comp, closer,
                     bounds>>

GetReadsTables(r) ==
  /\ reader[r].pc = "tables"
  /\ LET p == reader[r]
     IN  reader' = [reader EXCEPT ![r] =
           [p EXCEPT !.pc = "done", !.tabs = {}, !.got = Lookup(p.tabs, p.key, p.seq)]]
  /\ UNCHANGED <<disk, memory, mu, pending, work, stop, worker, comp, closer,
                 bounds>>

GetReturns(r) ==
  /\ reader[r].pc = "done"
  /\ reader' = [reader EXCEPT ![r] = IdleReader]
  /\ UNCHANGED <<disk, memory, mu, pending, work, stop, worker, comp, closer,
                 bounds>>

-----------------------------------------------------------------------------
(***************************************************************************)
(* Close and crashes.                                                      *)
(***************************************************************************)
CloseBegins ==
  /\ mu = "free" /\ ~closed /\ closer.pc = "idle"
  /\ imm' = IF active = {} THEN imm
            ELSE Append(imm, [ents |-> active, wal |-> oldestWal])
  /\ active' = {} /\ FreezeReaders
  /\ closer' = [pc |-> "join", moved |-> active # {}]
  /\ stop' = TRUE /\ work' = TRUE
  /\ UNCHANGED <<disk, closed, bgError, activeWal, oldestWal, tables, edit,
                 persisted, snaps, mu, pending, worker, comp, bounds>>

\* The worker is joined and compaction_mu_ is held.
Joined ==
  /\ closer.pc = "join" /\ mu = "free"
  /\ worker.pc = "exit" /\ comp.by = "none"

CloseEnds ==
  /\ Joined /\ (bgError \/ imm # <<>> \/ ~closer.moved)
  /\ ResetMemory
  /\ UNCHANGED <<disk, reader, bounds>>

CloseSaves ==
  /\ Joined /\ ~bgError /\ imm = <<>> /\ closer.moved
  /\ SaveAppends([edit EXCEPT !.next = @ + 1, !.wal = edit.next])
  /\ mu' = "close"
  /\ UNCHANGED <<wals, ssts, memory, work, stop, worker, comp, closer, reader,
                 bounds>>

CloseSaved ==
  /\ mu = "close" /\ SaveSucceeds /\ mu' = "purge"
  /\ UNCHANGED <<wals, ssts, closed, bgError, active, activeWal, oldestWal, imm,
                 tables, snaps, work, stop, worker, comp, closer, reader, bounds>>

CloseSaveFails ==
  /\ mu = "close" /\ OneFault
  /\ \E how \in SaveFailures : mtail' = SaveLeaves(how)
  /\ ResetMemory
  /\ UNCHANGED <<wals, ssts, mbase, msynced, reader>>

ObsoleteWALs == {n \in DOMAIN wals : n < edit.wal}

ClosePurges ==
  /\ mu = "purge"
  /\ wals' = Restricted(wals, DOMAIN wals \ ObsoleteWALs)
  /\ ResetMemory
  /\ UNCHANGED <<ssts, mbase, mtail, msynced, reader, bounds>>

ClosePurgeFails ==
  /\ mu = "purge" /\ OneFault
  /\ wals' \in PartlyRemoved(wals, ObsoleteWALs)
  /\ ResetMemory
  /\ UNCHANGED <<ssts, mbase, mtail, msynced, reader>>

\* Power failure.  Of what is not synced each file keeps a prefix, the last
\* record of it possibly torn; everything that survives is on stable storage.
Crash ==
  LET dirty == {n \in DOMAIN wals : Dirty(wals[n])}
  IN  /\ crashes < MaxCrashes /\ crashes' = crashes + 1
      /\ \E img \in [dirty -> UNION {AfterPowerFailure(wals[n]) : n \in dirty}] :
           /\ \A n \in dirty : img[n] \in AfterPowerFailure(wals[n])
           /\ wals' = [n \in DOMAIN wals |-> IF n \in dirty THEN img[n] ELSE wals[n]]
      /\ \E n \in msynced..Len(mtail), torn \in BOOLEAN :
           LET log == SubSeq(mtail, 1, n)
                      \o IF torn THEN <<Tear(mtail[n + 1])>> ELSE <<>>
           IN  /\ torn => n < Len(mtail)
               /\ mbase' = Replay(mbase, IntactPrefix(log))
               /\ mtail' = TornRest(log)
               /\ msynced' = Len(TornRest(log))
      /\ ResetMemory
      /\ reader' = [r \in Readers |-> IdleReader]
      /\ UNCHANGED <<ssts, faults, opens, compacts>>

-----------------------------------------------------------------------------
WorkerSteps ==
  \/ WorkerWakes \/ WorkerFindsNothing \/ WorkerGivesUp \/ WorkerPicks
  \/ FlushBuilds \/ FlushBuildFails \/ FlushPublishes \/ FlushSucceeds
  \/ FlushFails \/ WorkerPurges \/ WorkerPurgeFails

CompactionSteps ==
  \/ MaybeCompactStarts \/ MaybeCompactSelects \/ MaybeCompactEnds
  \/ CompactionBuilds \/ CompactionBuildFails \/ CompactionPublishes
  \/ CompactionSucceeds \/ CompactionFails \/ CompactionRemoves
  \/ CompactionRemoveFails

WriteSteps ==
  \/ WriteFails \/ WriteApplies \/ WriteSwitches \/ SwitchFails
  \/ RotateSucceeds \/ RotateFails

CloseSteps ==
  \/ CloseEnds \/ CloseSaves \/ CloseSaved \/ CloseSaveFails
  \/ ClosePurges \/ ClosePurgeFails

GetSteps(r) == GetReadsMemTables(r) \/ GetReadsTables(r) \/ GetReturns(r)

Next ==
  \/ Open \/ OpenFails \/ CloseBegins \/ CloseSteps
  \/ (\E b \in Batches : Write(b)) \/ WriteSteps
  \/ WorkerSteps \/ UserCompacts \/ CompactionSteps
  \/ \E i \in Snaps : GetSnapshot(i) \/ ReleaseSnapshot(i)
  \/ \E r \in Readers : GetSteps(r) \/ \E k \in Keys : GetPins(r, k)
  \/ Crash

Spec == Init /\ [][Next]_vars

\* Every thread that has started something goes on with it: the worker, the
\* holder of compaction_mu_, a writer inside Write, and Close.  No client is
\* obliged to call anything, and nothing obliges I/O to fail or machines to crash.
FairSpec ==
  /\ Spec
  /\ WF_vars(WorkerSteps) /\ WF_vars(CompactionSteps)
  /\ WF_vars(WriteSteps) /\ WF_vars(CloseSteps)
=============================================================================
