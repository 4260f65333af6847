------------------------------ MODULE DBCorrect -----------------------------
(***************************************************************************)
(* What the storage engine of module DB guarantees.                        *)
(***************************************************************************)
EXTENDS DB

-----------------------------------------------------------------------------
(***************************************************************************)
(* Safety.                                                                 *)
(***************************************************************************)

\* Every version of the manifest that a crash could leave can be opened: its
\* SSTables exist, and the WAL files it keeps alive replay in order.  (Inputs are
\* removed, and WALs purged, only after the record that drops them is durable.)
CrashImages ==
  {Replay(mbase, IntactPrefix(SubSeq(mtail, 1, n))) : n \in msynced..Len(mtail)}

EveryCrashRecovers == \A e \in CrashImages : Recoverable(e) /\ e.wal < e.next

\* A table is never built under a number that an SSTable file, another build or
\* the current version already uses, orphans of failed or interrupted builds
\* included (Recover: "never overwrite an orphan").
BuildNumbers ==
  (IF worker.pc = "build" THEN {worker.num} ELSE {})
  \cup (IF comp.stage = "build" THEN {comp.num} ELSE {})

FileNumbersAreFresh ==
  /\ BuildNumbers \cap (DOMAIN ssts \cup Nums(edit.files)) = {}
  /\ worker.pc \in {"build", "publish"} /\ comp.stage \in {"build", "publish"}
       => worker.num # comp.num
  /\ \A n \in BuildNumbers : n < edit.next

\* The key ranges of two files of level 1, or of level 2, do not meet, whatever
\* was flushed or compacted meanwhile (README: non-overlapping ranges).
LevelsAreDisjoint ==
  \A m1, m2 \in edit.files :
    m1.level = m2.level /\ m1.level > 0 /\ m1 # m2 =>
      m1.hi < m2.lo \/ m2.hi < m1.lo

\* The checks the worker, a compaction and Close make after waiting without the
\* lock never fail: only the worker takes MemTables off the queue, only the holder
\* of compaction_mu_ removes tables, and Close waits for both.
PublishChecksHold ==
  /\ worker.pc = "publish" => QueueUnchanged
  /\ comp.stage = "publish" => InputsUnchanged
  /\ Joined /\ ~bgError => imm = <<>>

\* A Get returns the value its key had when it pinned the version, although the
\* MemTable it pinned was written to, switched, flushed, compacted, or the
\* database closed, before it searched.
ReadsAreStable == \A r \in Readers : reader[r].pc = "done" => reader[r].got = reader[r].want

\* Get may stop at the first MemTable that has the key: at no point where a read
\* could start does another source hold a newer visible version of it.
MemTablesNewestFirst ==
  <<active>> \o [i \in DOMAIN imm |-> imm[Len(imm) + 1 - i].ents]

FirstHitIsNewest ==
  ~closed => \A s \in ReadPoints, k \in Keys :
    FirstHit(MemTablesNewestFirst \o <<TableVersions>>, k, s)
      = Lookup(MemoryVersions, k, s)

\* Two versions with the same sequence number are the same write, wherever copies
\* of it are: recovery never lets a new write reuse a number that a table or a
\* live WAL still holds.
AllVersions ==
  MemoryVersions \cup ReplayedVersions(wals, LoadedEdit)
  \cup UNION {ssts[n] : n \in Nums(LoadedEdit.files) \cap DOMAIN ssts}

SequencesIdentifyWrites == SeqIdentifies(AllVersions)

-----------------------------------------------------------------------------
(***************************************************************************)
(* Liveness, under FairSpec.                                               *)
(***************************************************************************)

\* A MemTable handed to the worker is flushed, unless an error stops the worker
\* or the process dies: no wake-up is lost between the queue and the worker.
FlushesComplete == imm # <<>> ~> (imm = <<>> \/ bgError \/ closed)

\* Close returns: it never waits for ever for the worker, for a client's
\* compaction or for the worker's compactions.
CloseTerminates == closer.pc = "join" ~> closed

-----------------------------------------------------------------------------
(***************************************************************************)
(* What the documentation says and the engine does not guarantee.          *)
(***************************************************************************)

\* README, write path: after a manifest error the database can be closed and
\* reopened.  So damage in MANIFEST would have to be at its end.
ReopensAfterError == closed => ~TornInside(mtail)
=============================================================================
