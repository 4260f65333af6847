----------------------------- MODULE DBFileSteps -----------------------------
(***************************************************************************)
(* The numbers, the tables and the key ranges of the versions: what is     *)
(* added to the invariant of DBInvariant to show that no table is ever     *)
(* built under a number that is in use, that the tables of every version a *)
(* crash can bring back are on disk, and that no two files of level 1 or 2 *)
(* of such a version, or of the one in memory, have keys in common; and    *)
(* that every step keeps it.                                               *)
(***************************************************************************)
EXTENDS DBInvariant

\* The numbers of all tables, of those on disk, in the version and being built, were
\* handed out, and a table that is built has a number of its own until the version
\* names it.
NumbersInv ==
  /\ ~closed => \A n \in DOMAIN ssts \cup Nums(edit.files) : n < edit.next
  /\ worker.pc \in {"build", "publish"} =>
       worker.num < edit.next /\ worker.num \notin Nums(edit.files)
  /\ worker.pc = "build" => worker.num \notin DOMAIN ssts
  /\ comp.stage \in {"build", "publish"} =>
       comp.num < edit.next /\ comp.num \notin Nums(edit.files)
  /\ comp.stage = "build" => comp.num \notin DOMAIN ssts
  /\ worker.pc \in {"build", "publish"} /\ comp.stage \in {"build", "publish"} =>
       worker.num # comp.num

\* The numbers that the invariant compares are numbers.
LEMMA NumberTypes ==
  ASSUME IInv
  PROVE  /\ edit \in Edits /\ pending \in Edits /\ worker \in Workers /\ comp \in Compactions
         /\ edit.next \in Nat /\ pending.next \in Nat
         /\ worker.num \in Nat /\ comp.num \in Nat
         /\ DOMAIN ssts \in SUBSET Nat /\ IsFiniteSet(DOMAIN ssts)
         /\ Nums(edit.files) \in SUBSET Nat
<1> USE Zenon
<1>1. edit \in Edits /\ pending \in Edits /\ worker \in Workers /\ comp \in Compactions
  BY DEF IInv, TypeOK, MemoryTypeOK, ThreadsTypeOK
<1>2. DOMAIN ssts \in SUBSET Nat /\ IsFiniteSet(DOMAIN ssts)
  BY DEF IInv, TypeOK, DiskTypeOK, IsDirectory, FiniteSubsets
<1>3. edit.next \in Nat /\ pending.next \in Nat /\ worker.num \in Nat /\ comp.num \in Nat
  BY <1>1 DEF Edits, Workers, Compactions
<1>4. \A m \in edit.files : m.num \in Nat
  BY <1>1 DEF Edits, FileSets, Metas
<1> QED BY <1>1, <1>2, <1>3, <1>4 DEF Nums

-----------------------------------------------------------------------------
(***************************************************************************)
(* The steps keep the numbers below the next one.                          *)
(***************************************************************************)

\* What a successful save makes of the version: its files are those of the version
\* saved, and no number is given back.
LEMMA SavedVersion ==
  ASSUME IInv, Saving, SaveSucceeds
  PROVE  /\ edit' = pending /\ edit'.next \in Nat /\ edit.next <= edit'.next
<1>1. pending.next \in Nat
  BY NumberTypes, Zenon
<1> QED BY <1>1, Zenon DEF SaveSucceeds, IInv, ManifestInv

-----------------------------------------------------------------------------
(***************************************************************************)
(* The other steps, and all of them together.                              *)
(***************************************************************************)

\* The end of a compaction for its caller starts no build.
LEMMA CompactionEndsBuildsNothing ==
  ASSUME IInv, CompactionEnds
  PROVE  /\ worker'.pc \in {"build", "publish"} => worker' = worker
         /\ comp'.stage \in {"build", "publish"} => comp' = comp
<1>1. worker \in Workers
  BY NumberTypes, Zenon
<1> QED BY <1>1, Zenon DEF CompactionEnds, NoCompaction, Workers

\* Every step keeps the numbers apart.
LEMMA NextNumbers ==
  ASSUME WellOrdered PROVE IInv /\ NumbersInv /\ [Next]_vars => NumbersInv'
\* A step that starts no build, creates no table and adds none to the version keeps
\* the numbers apart; it may hand out others.
<1>KeepsNumbers.
  ASSUME IInv, NumbersInv, ~closed' => ~closed,
         DOMAIN ssts' \subseteq DOMAIN ssts,
         Nums(edit'.files) \subseteq Nums(edit.files),
         edit'.next \in Nat, edit.next <= edit'.next,
         worker'.pc \in {"build", "publish"} => worker' = worker,
         comp'.stage \in {"build", "publish"} => comp' = comp
  PROVE  NumbersInv'
  <2> USE <1>KeepsNumbers
  <2> USE Zenon
  <2>1. /\ edit.next \in Nat /\ worker.num \in Nat /\ comp.num \in Nat
        /\ DOMAIN ssts \in SUBSET Nat /\ Nums(edit.files) \in SUBSET Nat
    BY NumberTypes
  <2>2. (~closed => \A n \in DOMAIN ssts \cup Nums(edit.files) : n < edit.next)'
    BY <2>1, SMT DEF NumbersInv
  <2>3. (worker.pc \in {"build", "publish"} =>
           worker.num < edit.next /\ worker.num \notin Nums(edit.files))'
    BY <2>1, SMT DEF NumbersInv
  <2>4. (comp.stage \in {"build", "publish"} =>
           comp.num < edit.next /\ comp.num \notin Nums(edit.files))'
    BY <2>1, SMT DEF NumbersInv
  <2>5. /\ (worker.pc = "build" => worker.num \notin DOMAIN ssts)'
        /\ (comp.stage = "build" => comp.num \notin DOMAIN ssts)'
        /\ (worker.pc \in {"build", "publish"} /\ comp.stage \in {"build", "publish"}
              => worker.num # comp.num)'
    BY DEF NumbersInv
  <2> QED BY <2>2, <2>3, <2>4, <2>5 DEF NumbersInv
\* A step that leaves alone all that the numbers are about.
<1>LeavesNumbers.
  ASSUME IInv, NumbersInv, UNCHANGED <<closed, ssts, edit>>,
         worker'.pc \in {"build", "publish"} => worker' = worker,
         comp'.stage \in {"build", "publish"} => comp' = comp
  PROVE  NumbersInv'
  <2> USE <1>LeavesNumbers
  <2>1. edit.next \in Nat
    BY NumberTypes, Zenon
  <2> QED BY <2>1, <1>KeepsNumbers
\* In a closed database nothing is built.
<1>ResetNumbers. ASSUME ResetMemory PROVE NumbersInv'
  BY <1>ResetNumbers, Zenon DEF ResetMemory, NumbersInv, IdleWorker, NoCompaction
\* Open starts above every file it finds, orphans included.
<1>OpenNumbers. ASSUME WellOrdered, IInv, Open PROVE NumbersInv'
  <2> USE <1>OpenNumbers
  <2> USE Zenon
  <2> DEFINE S == {0} \cup DOMAIN ssts \cup DOMAIN wals
             e == LoadedEdit
             p == {e.next, MaxSeenFileNumber + 1}
  <2>1. DOMAIN ssts \in SUBSET Nat /\ IsFiniteSet(DOMAIN ssts)
    BY NumberTypes
  <2>2. DOMAIN wals \in SUBSET Nat /\ IsFiniteSet(DOMAIN wals)
    BY DEF IInv, TypeOK, DiskTypeOK, IsDirectory, FiniteSubsets
  <2>3. S \in SUBSET Nat /\ S # {} /\ IsFiniteSet(S)
    <3>1. IsFiniteSet({0} \cup DOMAIN ssts)
      BY <2>1, FiniteSmall, FiniteUnion
    <3>2. IsFiniteSet({0} \cup DOMAIN ssts \cup DOMAIN wals)
      BY <2>2, <3>1, FiniteUnion
    <3> QED BY <2>1, <2>2, <3>2, SMT
  <2>4. MaxSeenFileNumber \in Nat /\ \A n \in DOMAIN ssts : n <= MaxSeenFileNumber
    <3>1. Max(S) \in S /\ \A n \in S : n <= Max(S)
      <4> HIDE DEF S
      <4> QED BY <2>3, MaxProperties
    <3> QED BY <2>1, <2>3, <3>1 DEF MaxSeenFileNumber
  <2>5. e \in Edits /\ e.next \in Nat
    <3>1. /\ mbase \in Edits /\ mtail \in Seq(Records)
          /\ mbase.wal < mbase.next /\ \A i \in DOMAIN mtail : mtail[i].wal < mtail[i].next
      BY DEF IInv, TypeOK, DiskTypeOK, ManifestInv
    <3>2. e \in Edits
      BY <3>1, ReplayFacts DEF LoadedEdit
    <3> QED BY <3>2 DEF Edits
  <2>6. Max(p) \in Nat /\ MaxSeenFileNumber + 1 <= Max(p)
    <3>1. p \in SUBSET Nat /\ p # {} /\ MaxSeenFileNumber + 1 \in p
      BY <2>4, <2>5, SMT
    <3>2. IsFiniteSet(p)
      <4>1. p = {e.next} \cup {MaxSeenFileNumber + 1}
        BY SMT
      <4>2. IsFiniteSet({e.next})
        BY FiniteSmall
      <4> HIDE DEF p
      <4> QED BY <4>1, <4>2, FiniteSmall, FiniteUnion
    <3> HIDE DEF p
    <3> QED BY <3>1, <3>2, MaxProperties
  <2> HIDE DEF e, p
  <2>7. /\ edit'.next = Max(p) /\ edit'.files = e.files /\ Nums(e.files) \subseteq DOMAIN ssts
        /\ ssts' = ssts /\ comp' = comp /\ comp = NoCompaction /\ worker'.pc = "wait"
    <3>1. comp = NoCompaction
      BY DEF Open, IInv, ControlInv
    <3>2. edit' = [e EXCEPT !.next = Max(p), !.last = RecoveredLast(wals, e)]
      BY DEF Open, e, p
    <3>3. edit'.next = Max(p) /\ edit'.files = e.files
      BY <2>5, <3>2 DEF Edits
    <3>4. Nums(e.files) \subseteq DOMAIN ssts
      BY DEF Open, Recoverable, e
    <3>5. ssts' = ssts /\ comp' = comp /\ worker'.pc = "wait"
      BY DEF Open, IdleWorker
    <3> QED BY <3>1, <3>3, <3>4, <3>5
  <2>8. \A n \in DOMAIN ssts' \cup Nums(edit'.files) : n < edit'.next
    BY <2>1, <2>4, <2>6, <2>7, SMT
  <2> QED BY <2>7, <2>8 DEF NumbersInv, NoCompaction
\* The worker takes the next number for the table it will build.
<1>WorkerPicksNumbers. ASSUME IInv, NumbersInv, WorkerPicks PROVE NumbersInv'
  <2> USE <1>WorkerPicksNumbers
  <2> USE Zenon
  <2>1. /\ edit \in Edits /\ edit.next \in Nat /\ comp.num \in Nat
        /\ DOMAIN ssts \in SUBSET Nat /\ Nums(edit.files) \in SUBSET Nat
    BY NumberTypes
  <2>2. /\ edit'.next = edit.next + 1 /\ edit'.files = edit.files
        /\ worker'.num = edit.next /\ worker'.pc = "build"
        /\ UNCHANGED <<ssts, closed, comp>>
    BY <2>1, NumberTaken DEF WorkerPicks, disk
  <2>3. ~closed
    BY DEF WorkerPicks, IInv, ControlInv
  <2> QED BY <2>1, <2>2, <2>3, SMT DEF NumbersInv
\* A compaction takes the next number for the table it will build.
<1>SelectsNumbers.
  ASSUME IInv, NumbersInv, NEW by, NEW attempts, Selects(by, attempts)
  PROVE  NumbersInv'
  <2> USE <1>SelectsNumbers
  <2>1. /\ edit \in Edits /\ edit.next \in Nat /\ worker.num \in Nat
        /\ DOMAIN ssts \in SUBSET Nat /\ Nums(edit.files) \in SUBSET Nat
    BY NumberTypes, Zenon
  <2>2. /\ edit'.next = edit.next + 1 /\ edit'.files = edit.files
        /\ comp'.num = edit.next /\ comp'.stage = "build"
        /\ UNCHANGED <<ssts, closed, worker>> /\ ~closed
    BY <2>1, NumberTaken, Zenon DEF Selects, disk
  <2> QED BY <2>1, <2>2 DEF NumbersInv
\* The worker's table is on disk.
<1>FlushBuildsNumbers. ASSUME IInv, NumbersInv, FlushBuilds PROVE NumbersInv'
  <2> USE <1>FlushBuildsNumbers
  <2> USE Zenon
  <2>1. /\ worker \in Workers /\ edit.next \in Nat /\ worker.num \in Nat
    BY NumberTypes
  <2>2. /\ worker.pc = "build" /\ worker'.pc = "publish" /\ worker'.num = worker.num
        /\ UNCHANGED <<closed, edit, comp>>
    BY <2>1 DEF FlushBuilds, memory, Workers
  <2>3. DOMAIN ssts' = DOMAIN ssts \cup {worker.num}
    BY DEF FlushBuilds, Created
  <2> QED BY <2>1, <2>2, <2>3 DEF NumbersInv
\* The worker failed to build its table, which may be on disk all the same.
<1>FlushBuildFailsNumbers. ASSUME IInv, NumbersInv, FlushBuildFails PROVE NumbersInv'
  <2> USE <1>FlushBuildFailsNumbers
  <2> USE Zenon
  <2>1. edit.next \in Nat /\ worker.num \in Nat
    BY NumberTypes
  <2>2. /\ worker.pc = "build" /\ worker'.pc = "loop"
        /\ UNCHANGED <<closed, edit, comp>>
    BY DEF FlushBuildFails, IdleWorker
  <2>3. DOMAIN ssts' \subseteq DOMAIN ssts \cup {worker.num}
    BY DEF FlushBuildFails, Created
  <2> QED BY <2>1, <2>2, <2>3 DEF NumbersInv
\* The compaction's table is on disk.
<1>CompactionBuildsNumbers.
  ASSUME IInv, NumbersInv, CompactionBuilds PROVE NumbersInv'
  <2> USE <1>CompactionBuildsNumbers
  <2> USE Zenon
  <2>1. comp \in Compactions /\ edit.next \in Nat /\ comp.num \in Nat
    BY NumberTypes
  <2>2. /\ comp.stage = "build" /\ comp'.stage = "publish" /\ comp'.num = comp.num
        /\ UNCHANGED <<closed, edit, worker>>
    BY <2>1 DEF CompactionBuilds, memory, Compactions
  <2>3. DOMAIN ssts' = DOMAIN ssts \cup {comp.num}
    BY DEF CompactionBuilds, Created
  <2> QED BY <2>1, <2>2, <2>3 DEF NumbersInv
\* A switch of MemTables, and Close, save a version with the same files.
<1>SavedFilesNumbers.
  ASSUME IInv, NumbersInv, RotateSucceeds \/ CloseSaved PROVE NumbersInv'
  <2> USE <1>SavedFilesNumbers
  <2> USE Zenon
  <2>1. mu \in {"rotate", "close"} /\ SaveSucceeds /\ UNCHANGED <<ssts, closed, worker, comp>>
    BY DEF RotateSucceeds, CloseSaved
  <2>2. edit' = pending /\ edit'.next \in Nat /\ edit.next <= edit'.next
    BY <2>1, SavedVersion DEF Saving
  <2>3. Nums(edit'.files) = Nums(edit.files)
    BY <2>1, <2>2 DEF IInv, FilesInv
  <2> QED BY <2>1, <2>2, <2>3, <1>KeepsNumbers
\* The version names the worker's table.
<1>FlushSucceedsNumbers. ASSUME IInv, NumbersInv, FlushSucceeds PROVE NumbersInv'
  <2> USE <1>FlushSucceedsNumbers
  <2> USE Zenon
  <2>1. /\ mu = "flush" /\ SaveSucceeds /\ UNCHANGED <<ssts, closed, comp>>
        /\ worker'.pc = "compact"
    BY DEF FlushSucceeds, IdleWorker
  <2>2. edit' = pending /\ edit'.next \in Nat /\ edit.next <= edit'.next
    BY <2>1, SavedVersion DEF Saving
  <2>3. Nums(edit'.files) = Nums(edit.files) \cup {worker.num} /\ worker.pc = "publish"
    BY <2>1, <2>2 DEF IInv, FilesInv, ControlInv
  <2>4. /\ edit.next \in Nat /\ worker.num \in Nat /\ comp.num \in Nat
        /\ DOMAIN ssts \in SUBSET Nat /\ Nums(edit.files) \in SUBSET Nat
    BY NumberTypes
  <2>5. (~closed => \A n \in DOMAIN ssts \cup Nums(edit.files) : n < edit.next)'
    BY <2>1, <2>2, <2>3, <2>4, SMT DEF NumbersInv
  <2>6. (comp.stage \in {"build", "publish"} =>
           comp.num < edit.next /\ comp.num \notin Nums(edit.files))'
    BY <2>1, <2>2, <2>3, <2>4, SMT DEF NumbersInv
  <2> QED BY <2>1, <2>5, <2>6 DEF NumbersInv
\* The version names the compaction's table instead of its inputs.
<1>CompactionSucceedsNumbers.
  ASSUME IInv, NumbersInv, CompactionSucceeds PROVE NumbersInv'
  <2> USE <1>CompactionSucceedsNumbers
  <2> USE Zenon
  <2>1. /\ mu = "compact" /\ SaveSucceeds /\ UNCHANGED <<ssts, closed, worker>>
        /\ comp' = [comp EXCEPT !.stage = "remove"]
    BY DEF CompactionSucceeds
  <2>2. edit' = pending /\ edit'.next \in Nat /\ edit.next <= edit'.next
    BY <2>1, SavedVersion DEF Saving
  <2>3. /\ Nums(edit'.files) = (Nums(edit.files) \ comp.inputs) \cup {comp.num}
        /\ comp.stage = "publish"
    BY <2>1, <2>2 DEF IInv, FilesInv, ControlInv
  <2>4. /\ edit.next \in Nat /\ worker.num \in Nat /\ comp.num \in Nat
        /\ DOMAIN ssts \in SUBSET Nat /\ Nums(edit.files) \in SUBSET Nat
        /\ comp \in Compactions
    BY NumberTypes
  <2>5. comp'.stage = "remove"
    BY <2>1, <2>4 DEF Compactions
  <2>6. (~closed => \A n \in DOMAIN ssts \cup Nums(edit.files) : n < edit.next)'
    BY <2>1, <2>2, <2>3, <2>4, SMT DEF NumbersInv
  <2>7. (worker.pc \in {"build", "publish"} =>
           worker.num < edit.next /\ worker.num \notin Nums(edit.files))'
    BY <2>1, <2>2, <2>3, <2>4, SMT DEF NumbersInv
  <2> QED BY <2>1, <2>5, <2>6, <2>7 DEF NumbersInv
\* Writes change the version's last sequence number only.
<1>WriteNumbers.
  ASSUME IInv, NumbersInv,
         (\E b \in Batches : Write(b)) \/ WriteFails \/ WriteApplies \/ WriteSwitches
           \/ SwitchFails \/ RotateFails
  PROVE  NumbersInv'
  <2> USE <1>WriteNumbers
  <2> USE Zenon
  <2>1. UNCHANGED <<closed, ssts, worker, comp>> /\ edit' \in {edit, AppliedEdit}
    BY DEF Write, WriteFails, WriteApplies, WriteSwitches, SwitchFails, RotateFails, SaveFails,
         memory
  <2>2. edit \in Edits /\ edit.next \in Nat
    BY NumberTypes
  <2>3. AppliedEdit.next = edit.next /\ AppliedEdit.files = edit.files
    BY <2>2 DEF AppliedEdit, Edits
  <2>4. edit'.next = edit.next /\ edit'.files = edit.files
    BY <2>1, <2>3
  <2>5. edit'.next \in Nat /\ edit.next <= edit'.next
    BY <2>2, <2>4, SMT
  <2>6. Nums(edit'.files) \subseteq Nums(edit.files)
    BY <2>4
  <2> QED BY <2>1, <2>5, <2>6, <1>KeepsNumbers
\* The worker's steps that build nothing.
<1>WorkerNumbers.
  ASSUME IInv, NumbersInv,
         WorkerWakes \/ WorkerFindsNothing \/ WorkerGivesUp \/ FlushPublishes
           \/ FlushFails \/ WorkerPurges \/ WorkerPurgeFails
  PROVE  NumbersInv'
  <2> USE <1>WorkerNumbers
  <2> USE Zenon
  <2>1. UNCHANGED <<closed, ssts, edit, comp>>
    BY DEF WorkerWakes, WorkerFindsNothing, WorkerGivesUp, FlushPublishes, FlushFails, SaveFails,
         WorkerPurges, WorkerPurgeFails, memory, disk
  <2>2. worker'.pc \in {"build", "publish"} => worker' = worker
    <3>1. worker \in Workers
      BY NumberTypes
    <3> QED BY <3>1 DEF WorkerWakes, WorkerFindsNothing, WorkerGivesUp, FlushPublishes,
         FlushFails, WorkerPurges, WorkerPurgeFails, IdleWorker, Workers
  <2> QED BY <2>1, <2>2, <1>LeavesNumbers
\* The compaction's steps that build nothing.
<1>CompactionNumbers.
  ASSUME IInv, NumbersInv,
         MaybeCompactStarts \/ MaybeCompactEnds \/ CompactionBuildFails
           \/ CompactionPublishes \/ CompactionFails \/ CompactionRemoves
           \/ CompactionRemoveFails
  PROVE  NumbersInv'
  <2> USE <1>CompactionNumbers
  <2> USE Zenon
  <2>1. UNCHANGED <<closed, edit>>
    BY DEF MaybeCompactStarts, MaybeCompactEnds, CompactionBuildFails, CompactionPublishes,
         CompactionFails, SaveFails, CompactionRemoves, CompactionRemoveFails, memory
  <2>2. DOMAIN ssts' \subseteq DOMAIN ssts
    BY DEF MaybeCompactStarts, MaybeCompactEnds, CompactionBuildFails, CompactionPublishes,
         CompactionFails, CompactionRemoves, CompactionRemoveFails, disk, Restricted,
         PartlyRemoved
  <2>3. /\ worker'.pc \in {"build", "publish"} => worker' = worker
        /\ comp'.stage \in {"build", "publish"} => comp' = comp
    <3>1. CASE CompactionEnds
      BY <3>1, CompactionEndsBuildsNothing
    <3>2. CASE MaybeCompactStarts \/ CompactionPublishes \/ CompactionRemoves
      <4>1. worker' = worker
        BY <3>2 DEF MaybeCompactStarts, CompactionPublishes, CompactionRemoves
      <4>2. comp' = comp \/ comp'.stage \in {"idle", "check"}
        <5>1. CASE MaybeCompactStarts
          BY <5>1 DEF MaybeCompactStarts, NoCompaction
        <5>2. CASE CompactionPublishes
          BY <5>2 DEF CompactionPublishes
        <5>3. CASE CompactionRemoves
          <6>1. CASE comp.by = "user"
            BY <5>3, <6>1 DEF CompactionRemoves, NoCompaction
          <6>2. CASE comp.by # "user"
            <7> DEFINE c == [NoCompaction EXCEPT !.by = "worker", !.stage = "check",
                                                 !.attempts = comp.attempts + 1]
            <7>1. comp' = c
              BY <5>3, <6>2 DEF CompactionRemoves
            <7>2. c.stage = "check"
              BY DEF NoCompaction
            <7> QED BY <7>1, <7>2
          <6> QED BY <6>1, <6>2
        <5> QED BY <3>2, <5>1, <5>2, <5>3
      <4> QED BY <4>1, <4>2
    <3> QED BY <3>1, <3>2 DEF MaybeCompactEnds, CompactionBuildFails, CompactionFails,
         CompactionRemoveFails
  <2>4. edit.next \in Nat
    BY NumberTypes
  <2> QED BY <2>1, <2>2, <2>3, <2>4, <1>KeepsNumbers, SMT
\* Reads, snapshots, the beginning of Close and its save, and an Open that fails.
<1>OtherNumbers.
  ASSUME IInv, NumbersInv,
         \/ \E i \in Snaps : GetSnapshot(i) \/ ReleaseSnapshot(i)
         \/ \E r \in Readers : GetSteps(r) \/ \E k \in Keys : GetPins(r, k)
         \/ CloseBegins \/ CloseSaves \/ OpenFails \/ UNCHANGED vars
  PROVE  NumbersInv'
  <2> USE <1>OtherNumbers
  <2>1. UNCHANGED <<closed, ssts, edit, worker, comp>>
    BY Zenon DEF GetSnapshot, ReleaseSnapshot, GetSteps, GetReadsMemTables,
      GetReadsTables,
      GetReturns, GetPins, CloseBegins, CloseSaves, OpenFails, vars, disk, memory
  <2> QED BY <2>1, <1>LeavesNumbers, Zenon
<1> USE Zenon
<1> SUFFICES ASSUME IInv, NumbersInv, [Next]_vars PROVE NumbersInv'
  BY SMT
<1>1. CASE Open \/ UserCompacts \/ Crash
  BY <1>1, <1>OpenNumbers, <1>SelectsNumbers, <1>ResetNumbers DEF UserCompacts, Crash
<1>2. CASE CloseSteps
  BY <1>2, <1>ResetNumbers, <1>SavedFilesNumbers, <1>OtherNumbers DEF CloseSteps, CloseEnds,
       CloseSaveFails, ClosePurges, ClosePurgeFails
<1>3. CASE WriteSteps \/ \E b \in Batches : Write(b)
  BY <1>3, <1>WriteNumbers, <1>SavedFilesNumbers DEF WriteSteps
<1>4. CASE WorkerSteps
  BY <1>4, <1>WorkerNumbers, <1>WorkerPicksNumbers, <1>FlushBuildsNumbers, <1>FlushBuildFailsNumbers,
       <1>FlushSucceedsNumbers DEF WorkerSteps
<1>5. CASE CompactionSteps
  BY <1>5, <1>CompactionNumbers, <1>SelectsNumbers, <1>CompactionBuildsNumbers,
       <1>CompactionSucceedsNumbers DEF CompactionSteps, MaybeCompactSelects
<1>6. CASE \/ \E i \in Snaps : GetSnapshot(i) \/ ReleaseSnapshot(i)
           \/ \E r \in Readers : GetSteps(r) \/ \E k \in Keys : GetPins(r, k)
           \/ CloseBegins \/ OpenFails \/ UNCHANGED vars
  BY <1>6, <1>OtherNumbers
<1> QED BY <1>1, <1>2, <1>3, <1>4, <1>5, <1>6 DEF Next

-----------------------------------------------------------------------------
(***************************************************************************)
(* The tables that the manifest names.                                     *)
(***************************************************************************)

\* The numbers in the versions that a log with this base may replay to.
Named(base, log) ==
  {n \in Nat : n \in Nums(base.files) \/ \E i \in DOMAIN log : n \in Nums(log[i].add)}

NoneTorn(log) == \A i \in DOMAIN log : ~log[i].torn

\* All tables that a version on disk may name exist; what a compaction has replaced
\* and may remove, no such version names.
TablesInv ==
  /\ Named(mbase, mtail) \subseteq DOMAIN ssts
  /\ ~closed => Nums(persisted.files) = Nums(edit.files) /\ NoneTorn(mtail)
  /\ worker.pc = "publish" => worker.num \in DOMAIN ssts
  /\ comp.stage = "publish" => comp.num \in DOMAIN ssts
  /\ worker.pc \in {"build", "publish"} => worker.num \notin comp.inputs
  /\ \A n \in comp.inputs : n < edit.next
  /\ comp.stage = "remove" => comp.inputs \cap Named(mbase, mtail) = {}
  /\ mu = "compact" => /\ comp.inputs \subseteq mtail[Len(mtail)].del
                       /\ Nums(mtail[Len(mtail)].add) = {comp.num}

\* The numbers of a version's files, and of a record's, are numbers.
LEMMA NumsAreNumbers ==
  /\ \A F \in FileSets : Nums(F) \subseteq Nat
  /\ \A e \in Edits : Nums(e.files) \subseteq Nat
  /\ \A r \in Records : Nums(r.add) \subseteq Nat
<1> USE Zenon
<1>1. \A F \in FileSets : Nums(F) \subseteq Nat
  BY DEF FileSets, Metas, Nums
<1>2. \A e \in Edits : e.files \in FileSets
  BY DEF Edits
<1>3. \A r \in Records : r.add \in FileSets
  BY DEF Records
<1> QED BY <1>1, <1>2, <1>3

\* A replay names only what the log named.  Its last record decides about the files
\* that record drops.
LEMMA ReplayNames ==
  ASSUME NEW base \in Edits, NEW log \in Seq(Records)
  PROVE  /\ Nums(Replay(base, log).files) \subseteq Named(base, log)
         /\ Len(log) > 0 => Nums(Replay(base, log).files) \cap log[Len(log)].del
                              \subseteq Nums(log[Len(log)].add)
<1> USE Zenon
<1> DEFINE n == Len(log)
           S(m, i) == \A j \in (i+1)..n : m.num \notin Dropped(log[j])
<1>1. n \in Nat /\ DOMAIN log = 1..n
  BY SMT
<1>2. ASSUME NEW m \in Replay(base, log).files
      PROVE  \/ m \in base.files /\ S(m, 0)
             \/ \E i \in 1..n : m \in log[i].add /\ S(m, i)
  BY DEF Replay
<1>3. ASSUME NEW m \in Replay(base, log).files
      PROVE  m.num \in Named(base, log)
  <2>1. CASE m \in base.files
    BY <2>1, NumsAreNumbers DEF Named, Nums
  <2>2. CASE \E i \in 1..n : m \in log[i].add
    <3>1. PICK i \in 1..n : m \in log[i].add
      BY <2>2
    <3>2. m.num \in Nums(log[i].add) /\ log[i] \in Records
      BY <1>1, <3>1, SMT DEF Nums
    <3>3. m.num \in Nat
      BY <3>2, NumsAreNumbers
    <3> QED BY <1>1, <3>1, <3>2, <3>3 DEF Named
  <2> QED BY <1>2, <2>1, <2>2
<1>4. ASSUME n > 0, NEW m \in Replay(base, log).files, m.num \in log[n].del
      PROVE  m.num \in Nums(log[n].add)
  <2>1. m.num \in Dropped(log[n])
    BY <1>4 DEF Dropped
  <2>2. ~S(m, 0)
    BY <1>1, <1>4, <2>1, SMT
  <2>3. PICK i \in 1..n : m \in log[i].add /\ S(m, i)
    BY <1>2, <2>2
  <2>4. i = n
    <3> SUFFICES ASSUME i # n PROVE FALSE
      BY SMT
    <3> HIDE DEF n
    <3>1. n \in (i+1)..n
      BY <1>1, SMT
    <3> QED BY <2>1, <2>3, <3>1
  <2> QED BY <2>3, <2>4 DEF Nums
<1>5. Nums(Replay(base, log).files) \subseteq Named(base, log)
  BY <1>3 DEF Nums
<1>6. ASSUME n > 0
      PROVE  Nums(Replay(base, log).files) \cap log[n].del \subseteq Nums(log[n].add)
  <2> SUFFICES ASSUME NEW x \in Nums(Replay(base, log).files), x \in log[n].del
               PROVE  x \in Nums(log[n].add)
    BY SMT
  <2>1. PICK m \in Replay(base, log).files : x = m.num
    BY DEF Nums
  <2> QED BY <1>4, <1>6, <2>1
<1> QED BY <1>5, <1>6

\* A log is intact exactly when nothing of it is left over.
LEMMA IntactLogs ==
  ASSUME WellOrdered, NEW log \in Seq(Records)
  PROVE  /\ NoneTorn(log) => IntactPrefix(log) = log /\ TornRest(log) = <<>>
         /\ TornRest(log) = <<>> => NoneTorn(log)
<1> USE Zenon
<1> DEFINE n == Len(IntactPrefix(log))
           L == Len(log)
<1>1. L \in Nat /\ DOMAIN log = 1..L
  BY SMT
<1>2. /\ n \in 0..L /\ IntactPrefix(log) = SubSeq(log, 1, n)
      /\ TornRest(log) = SubSeq(log, n + 1, L) /\ Len(TornRest(log)) = L - n
      /\ \A i \in 1..n : ~log[i].torn
      /\ n < L => log[n + 1].torn
  BY LogParts, SMT
<1> HIDE DEF n
<1>3. ASSUME NoneTorn(log)
      PROVE  IntactPrefix(log) = log /\ TornRest(log) = <<>>
  <2>1. n = L
    <3> SUFFICES ASSUME n # L PROVE FALSE
      BY SMT
    <3>1. n < L /\ n + 1 \in 1..L
      <4>1. n \in 0..L
        BY <1>2
      <4> HIDE DEF L
      <4> QED BY <1>1, <4>1, SMT
    <3> QED BY <1>1, <1>2, <1>3, <3>1 DEF NoneTorn
  <2>2. SubSeq(log, 1, L) = log
    BY <1>1, SMT
  <2>3. SubSeq(log, L + 1, L) = <<>>
    BY <1>1, SMT
  <2> QED BY <1>2, <2>1, <2>2, <2>3
<1>4. ASSUME TornRest(log) = <<>>
      PROVE  NoneTorn(log)
  <2>1. Len(TornRest(log)) = 0
    BY <1>4, SMT
  <2>2. n = L
    <3> HIDE DEF L
    <3> QED BY <1>1, <1>2, <2>1, SMT
  <2> QED BY <1>1, <1>2, <2>2 DEF NoneTorn
<1> QED BY <1>3, <1>4

\* Reading a log back names nothing new.
LEMMA ReadBackNames ==
  ASSUME WellOrdered, NEW base \in Edits, NEW log \in Seq(Records)
  PROVE  /\ Nums(Replay(base, IntactPrefix(log)).files) \subseteq Named(base, log)
         /\ Named(Replay(base, IntactPrefix(log)), TornRest(log)) \subseteq Named(base, log)
         /\ Named(Replay(base, IntactPrefix(log)), <<>>) \subseteq Named(base, log)
<1> USE Zenon
<1> DEFINE p == IntactPrefix(log)
           t == TornRest(log)
           e == Replay(base, p)
<1>1. p \in Seq(Records) /\ \A i \in DOMAIN p : i \in DOMAIN log /\ p[i] = log[i]
  BY LogPartTypes
<1>2. \A i \in DOMAIN t : \E j \in DOMAIN log : t[i] = log[j]
  BY LogPartTypes
<1> HIDE DEF p, t
<1>3. Nums(e.files) \subseteq Named(base, p)
  BY <1>1, ReplayNames
<1>4. Named(base, p) \subseteq Named(base, log)
  BY <1>1 DEF Named
<1> HIDE DEF e
<1>5. Nums(e.files) \subseteq Named(base, log)
  BY <1>3, <1>4
<1>6. Named(e, t) \subseteq Named(base, log)
  BY <1>2, <1>5 DEF Named
<1>7. Named(e, <<>>) \subseteq Named(base, log)
  BY <1>5, SMT DEF Named
<1> QED BY <1>5, <1>6, <1>7 DEF e, p, t

\* A power failure leaves a part of the log, the end of it perhaps torn.
LEMMA CrashNames ==
  ASSUME NEW base \in Edits, NEW log \in Seq(Records), NEW n \in 0..Len(log),
         NEW torn \in BOOLEAN, torn => n < Len(log)
  PROVE  LET l == SubSeq(log, 1, n) \o IF torn THEN <<Tear(log[n + 1])>> ELSE <<>>
         IN  l \in Seq(Records) /\ Named(base, l) \subseteq Named(base, log)
<1> USE Zenon
<1> DEFINE s == SubSeq(log, 1, n)
           x == Tear(log[n + 1])
<1>1. Len(log) \in Nat /\ DOMAIN log = 1..Len(log) /\ \A i \in 1..Len(log) : log[i] \in Records
  BY SMT
<1>2. \A i \in 1..n : log[i] \in Records /\ i \in DOMAIN log
  BY <1>1, SMT
<1>3. n \in Int /\ n - 1 + 1 = n /\ (1 <= n \/ n = 0)
  BY <1>1, SMT
<1>4. s \in Seq(Records) /\ Len(s) = n /\ \A i \in 1..n : s[i] = log[i]
  BY <1>2, <1>3, SMT
<1>5. DOMAIN s = 1..n
  BY <1>4, SMT
<1> HIDE DEF s
<1>6. Named(base, s) \subseteq Named(base, log)
  BY <1>2, <1>4, <1>5 DEF Named
<1>7. CASE ~torn
  <2>1. s \o <<>> = s
    BY <1>4, SMT
  <2> QED BY <1>4, <1>6, <1>7, <2>1 DEF s
<1>8. CASE torn
  <2>1. n + 1 \in DOMAIN log /\ log[n + 1] \in Records
    BY <1>1, <1>3, <1>8, SMT
  <2>2. x \in Records /\ x.add = log[n + 1].add
    BY <2>1, TearType DEF Tear, Records
  <2> HIDE DEF x
  <2>3. s \o <<x>> = Append(s, x)
    BY <1>4, <2>2, SMT
  <2>4. /\ Append(s, x) \in Seq(Records) /\ Len(Append(s, x)) = n + 1
        /\ \A i \in 1..n : Append(s, x)[i] = s[i] /\ Append(s, x)[n + 1] = x
    BY <1>4, <2>2, SMT
  <2>5. DOMAIN Append(s, x) = 1..(n + 1) /\ Append(s, x)[n + 1] = x
    BY <1>4, <2>2, <2>4, SMT
  <2>6. \A i \in 1..(n + 1) : i \in 1..n \/ i = n + 1
    BY <1>3, SMT
  <2> DEFINE l == Append(s, x)
  <2> HIDE DEF l
  <2>7. \A i \in DOMAIN l : \E j \in DOMAIN log : l[i].add = log[j].add
    BY <1>2, <1>4, <2>1, <2>2, <2>4, <2>5, <2>6 DEF l
  <2>8. Named(base, l) \subseteq Named(base, log)
    BY <2>7 DEF Named
  <2> QED BY <1>8, <2>3, <2>4, <2>8 DEF l, s, x
<1> QED BY <1>7, <1>8

-----------------------------------------------------------------------------
(***************************************************************************)
(* The steps keep the tables that the manifest names.                      *)
(***************************************************************************)

\* Every step keeps the tables that the manifest names.
LEMMA NextTables ==
  ASSUME WellOrdered, "torn" \notin SaveFailures
  PROVE  IInv /\ IInv' /\ NumbersInv /\ TablesInv /\ [Next]_vars => TablesInv'
\* The record of a save adds the tables that are new in the version.
<1>SaveNames.
  ASSUME IInv, NEW new \in Edits, SaveAppends(new)
  PROVE  /\ Named(mbase', mtail')
              = Named(mbase, mtail) \cup (Nums(new.files) \ Nums(persisted.files))
         /\ NoneTorn(mtail) => NoneTorn(mtail')
         /\ mtail'[Len(mtail')].del = Nums(persisted.files) \ Nums(new.files)
         /\ Nums(mtail'[Len(mtail')].add) = Nums(new.files) \ Nums(persisted.files)
  <2> USE <1>SaveNames
  <2> USE Zenon
  <2> DEFINE r == BuildEditPayload(persisted, new)
             n == Len(mtail)
  <2>1. mtail \in Seq(Records) /\ persisted \in Edits
    BY DEF IInv, TypeOK, DiskTypeOK, MemoryTypeOK
  <2>2. mtail' = Append(mtail, r) /\ mbase' = mbase
    BY DEF SaveAppends
  <2>3. r \in Records
    BY <2>1, BuildEditPayloadType
  <2>4. /\ r.del = Nums(persisted.files) \ Nums(new.files) /\ ~r.torn
        /\ Nums(r.add) = Nums(new.files) \ Nums(persisted.files)
    BY DEF BuildEditPayload, Nums
  <2> HIDE DEF r
  <2>5. n \in Nat /\ DOMAIN mtail = 1..n
    BY <2>1, SMT
  <2>6. /\ Append(mtail, r) \in Seq(Records) /\ Len(Append(mtail, r)) = n + 1
        /\ \A i \in 1..n : Append(mtail, r)[i] = mtail[i]
        /\ Append(mtail, r)[n + 1] = r
    BY <2>1, <2>3, SMT
  <2>7. DOMAIN Append(mtail, r) = 1..(n + 1)
    BY <2>6, SMT
  <2> DEFINE a == Append(mtail, r)
  <2> HIDE DEF n, a
  <2>8. \A i \in 1..(n + 1) : i \in 1..n \/ i = n + 1
    BY <2>5, SMT
  <2>9. n + 1 \in 1..(n + 1) /\ \A i \in 1..n : i \in 1..(n + 1)
    BY <2>5, SMT
  <2>10. Nums(r.add) \subseteq Nat
    BY <2>3, NumsAreNumbers
  <2>11. /\ DOMAIN a = 1..(n + 1) /\ a[n + 1] = r /\ Len(a) = n + 1
         /\ \A i \in 1..n : a[i] = mtail[i]
    BY <2>6, <2>7 DEF a
  <2>12. Named(mbase, a) = Named(mbase, mtail) \cup Nums(r.add)
    <3>1. ASSUME NEW x \in Named(mbase, a)
          PROVE  x \in Named(mbase, mtail) \/ x \in Nums(r.add)
      BY <2>5, <2>8, <2>11, <3>1 DEF Named
    <3>2. ASSUME NEW x \in Named(mbase, mtail)
          PROVE  x \in Named(mbase, a)
      BY <2>5, <2>9, <2>11, <3>2 DEF Named
    <3>3. ASSUME NEW x \in Nums(r.add)
          PROVE  x \in Named(mbase, a)
      BY <2>9, <2>10, <2>11, <3>3 DEF Named
    <3> QED BY <3>1, <3>2, <3>3
  <2>13. NoneTorn(mtail) => NoneTorn(a)
    BY <2>4, <2>5, <2>8, <2>11 DEF NoneTorn
  <2>14. mtail' = a
    BY <2>2 DEF a
  <2> QED BY <2>2, <2>4, <2>11, <2>12, <2>13, <2>14
\* What a failed save leaves names nothing new, and nothing is torn unless its
\* record is.
<1>SaveLeavesNames.
  ASSUME IInv, Saving, NEW how \in SaveFailures, "torn" \notin SaveFailures
  PROVE  /\ Named(mbase, SaveLeaves(how)) \subseteq Named(mbase, mtail)
         /\ NoneTorn(mtail) => NoneTorn(SaveLeaves(how))
  <2> USE <1>SaveLeavesNames
  <2> USE Zenon
  <2> DEFINE n == Len(mtail)
  <2>1. mtail \in Seq(Records) /\ Len(mtail) > 0
    BY DEF IInv, TypeOK, DiskTypeOK, ManifestInv
  <2>2. n \in Nat /\ DOMAIN mtail = 1..n /\ \A i \in 1..n : mtail[i] \in Records
    BY <2>1, SMT
  <2>3. how = "none" \/ how = "full"
    BY FailuresAreKnown
  <2>4. CASE how = "none"
    <3>1. SaveLeaves(how) = SubSeq(mtail, 1, n - 1)
      BY <2>4 DEF SaveLeaves
    <3> DEFINE t == SubSeq(mtail, 1, n - 1)
    <3>2. \A i \in 1..(n - 1) : mtail[i] \in Records
      BY <2>2, SMT
    <3>3. /\ t \in Seq(Records) /\ Len(t) = n - 1
          /\ \A i \in 1..(n - 1) : t[i] = mtail[i]
      BY <2>1, <2>2, <3>2, SMT
    <3>4. DOMAIN t = 1..(n - 1)
      BY <3>3, SMT
    <3> HIDE DEF n, t
    <3>5. \A i \in 1..(n - 1) : i \in 1..n
      BY <2>2, SMT
    <3>6. Named(mbase, t) \subseteq Named(mbase, mtail)
      BY <2>2, <3>3, <3>4, <3>5 DEF Named
    <3>7. NoneTorn(mtail) => NoneTorn(t)
      BY <2>2, <3>3, <3>4, <3>5 DEF NoneTorn
    <3> QED BY <3>1, <3>6, <3>7 DEF t
  <2>5. CASE how = "full"
    BY <2>5 DEF SaveLeaves
  <2> QED BY <2>3, <2>4, <2>5
\* A step that names no other tables, removes none, starts no build and no
\* compaction.
<1>KeepsTables.
  ASSUME IInv, TablesInv,
         Named(mbase', mtail') \subseteq Named(mbase, mtail),
         DOMAIN ssts \subseteq DOMAIN ssts',
         ~closed' => Nums(persisted'.files) = Nums(edit'.files) /\ NoneTorn(mtail'),
         edit'.next \in Nat, edit.next <= edit'.next,
         worker'.pc \in {"build", "publish"} => worker' = worker,
         comp' = comp \/ (comp'.inputs = {} /\ comp'.stage \in {"idle", "check"}),
         mu' = "compact" => mu = "compact" /\ mtail' = mtail /\ comp' = comp
  PROVE  TablesInv'
  <2> USE <1>KeepsTables
  <2> USE Zenon
  <2>1. comp.inputs \subseteq Nat /\ edit.next \in Nat
    BY NumberTypes DEF Compactions
  <2>i. comp'.inputs \subseteq comp.inputs /\ \A n \in comp.inputs : n < edit.next
    BY DEF TablesInv
  <2>2. (\A n \in comp.inputs : n < edit.next)'
    BY <2>1, <2>i, SMT
  <2>3. (Named(mbase, mtail) \subseteq DOMAIN ssts)'
    BY DEF TablesInv
  <2>4. /\ (worker.pc = "publish" => worker.num \in DOMAIN ssts)'
        /\ (comp.stage = "publish" => comp.num \in DOMAIN ssts)'
    BY DEF TablesInv
  <2>5. (worker.pc \in {"build", "publish"} => worker.num \notin comp.inputs)'
    BY DEF TablesInv
  <2>6. (comp.stage = "remove" => comp.inputs \cap Named(mbase, mtail) = {})'
    BY DEF TablesInv
  <2>7. (mu = "compact" => /\ comp.inputs \subseteq mtail[Len(mtail)].del
                           /\ Nums(mtail[Len(mtail)].add) = {comp.num})'
    BY DEF TablesInv
  <2> QED BY <2>2, <2>3, <2>4, <2>5, <2>6, <2>7 DEF TablesInv
\* A step that leaves the manifest and the version alone, and removes no table.
<1>LeavesTables.
  ASSUME IInv, TablesInv, UNCHANGED <<mbase, mtail, closed, edit, persisted>>,
         DOMAIN ssts \subseteq DOMAIN ssts',
         worker'.pc \in {"build", "publish"} => worker' = worker,
         comp' = comp \/ (comp'.inputs = {} /\ comp'.stage \in {"idle", "check"}),
         mu' = "compact" => mu = "compact" /\ comp' = comp
  PROVE  TablesInv'
  <2> USE <1>LeavesTables
  <2>1. edit.next \in Nat
    BY NumberTypes, Zenon
  <2>2. ~closed' => Nums(persisted'.files) = Nums(edit'.files) /\ NoneTorn(mtail')
    BY Zenon DEF TablesInv
  <2> QED BY <2>1, <2>2, <1>KeepsTables
\* In a closed database only the manifest names tables.
<1>ResetTables.
  ASSUME TablesInv, ResetMemory, ssts' = ssts,
         Named(mbase', mtail') \subseteq Named(mbase, mtail)
  PROVE  TablesInv'
  BY <1>ResetTables, Zenon DEF TablesInv, ResetMemory, IdleWorker, NoCompaction
\* Reading the manifest back, as Open does.
<1>LoadNames.
  ASSUME WellOrdered, IInv, LoadManifest
  PROVE  /\ Named(mbase', mtail') \subseteq Named(mbase, mtail)
         /\ NoneTorn(mtail')
  <2> USE <1>LoadNames
  <2> USE Zenon
  <2>1. mbase \in Edits /\ mtail \in Seq(Records)
    BY DEF IInv, TypeOK, DiskTypeOK
  <2>2. CASE TornRest(mtail) = <<>>
    BY <2>1, <2>2, IntactLogs DEF LoadManifest
  <2>3. CASE TornRest(mtail) # <<>>
    <3>1. mbase' = Replay(mbase, IntactPrefix(mtail)) /\ mtail' = <<>>
      BY <2>3 DEF LoadManifest, LoadedEdit
    <3>2. NoneTorn(mtail')
      BY <3>1, SMT DEF NoneTorn
    <3> QED BY <2>1, <3>1, <3>2, ReadBackNames
  <2> QED BY <2>2, <2>3
\* Open starts with the version that the manifest replays to.
<1>OpenTables. ASSUME WellOrdered, IInv, TablesInv, Open PROVE TablesInv'
  <2> USE <1>OpenTables
  <2> USE Zenon
  <2>1. Named(mbase', mtail') \subseteq Named(mbase, mtail) /\ NoneTorn(mtail')
    BY <1>LoadNames DEF Open
  <2>2. /\ comp = NoCompaction /\ comp' = comp /\ ssts' = ssts /\ worker'.pc = "wait"
        /\ mu' = "free"
    BY DEF Open, IInv, ControlInv, IdleWorker
  <2>3. Nums(persisted'.files) = Nums(edit'.files)
    <3> DEFINE e == LoadedEdit
               a == Max({e.next, MaxSeenFileNumber + 1})
               b == RecoveredLast(wals, e)
    <3>1. /\ mbase \in Edits /\ mtail \in Seq(Records)
          /\ mbase.wal < mbase.next /\ \A i \in DOMAIN mtail : mtail[i].wal < mtail[i].next
      BY DEF IInv, TypeOK, DiskTypeOK, ManifestInv
    <3>2. e \in Edits
      BY <3>1, ReplayFacts DEF LoadedEdit
    <3>3. persisted' = e /\ edit' = [e EXCEPT !.next = a, !.last = b]
      BY DEF Open
    <3> HIDE DEF e, a, b
    <3>4. [e EXCEPT !.next = a, !.last = b].files = e.files
      BY <3>2 DEF Edits
    <3> QED BY <3>3, <3>4
  <2> QED BY <2>1, <2>2, <2>3 DEF TablesInv, NoCompaction
\* An Open that fails may have cut a torn record off.
<1>OpenFailsTables. ASSUME WellOrdered, IInv, TablesInv, OpenFails PROVE TablesInv'
  <2> USE <1>OpenFailsTables
  <2> USE Zenon
  <2>1. Named(mbase', mtail') \subseteq Named(mbase, mtail)
    BY <1>LoadNames DEF OpenFails
  <2>2. closed' /\ UNCHANGED <<ssts, edit, worker, comp, mu>> /\ mu = "free"
    BY DEF OpenFails, memory, IInv, ControlInv
  <2>3. edit.next \in Nat
    BY NumberTypes
  <2> QED BY <2>1, <2>2, <2>3, <1>KeepsTables, SMT
\* A power failure.
<1>CrashTables. ASSUME WellOrdered, IInv, TablesInv, Crash PROVE TablesInv'
  <2> USE <1>CrashTables
  <2> USE Zenon
  <2>1. mbase \in Edits /\ mtail \in Seq(Records) /\ msynced \in Nat
    BY DEF IInv, TypeOK, DiskTypeOK
  <2>2. PICK n \in msynced..Len(mtail), torn \in BOOLEAN :
          LET log == SubSeq(mtail, 1, n) \o IF torn THEN <<Tear(mtail[n + 1])>> ELSE <<>>
          IN  /\ torn => n < Len(mtail)
              /\ mbase' = Replay(mbase, IntactPrefix(log))
              /\ mtail' = TornRest(log)
    BY DEF Crash
  <2> DEFINE log == SubSeq(mtail, 1, n) \o IF torn THEN <<Tear(mtail[n + 1])>> ELSE <<>>
  <2>3. n \in 0..Len(mtail)
    BY <2>1, SMT
  <2>4. log \in Seq(Records) /\ Named(mbase, log) \subseteq Named(mbase, mtail)
    BY <2>1, <2>2, <2>3, CrashNames
  <2>5. mbase' = Replay(mbase, IntactPrefix(log)) /\ mtail' = TornRest(log)
    BY <2>2
  <2> HIDE DEF log
  <2>6. Named(mbase', mtail') \subseteq Named(mbase, log)
    BY <2>1, <2>4, <2>5, ReadBackNames
  <2>7. ResetMemory /\ ssts' = ssts
    BY DEF Crash
  <2> QED BY <2>4, <2>6, <2>7, <1>ResetTables
\* A successful save names nothing new; its record decides about what it drops.
<1>SavedNames.
  ASSUME WellOrdered, IInv, TablesInv, Saving, SaveSucceeds
  PROVE  /\ Named(mbase', mtail') \subseteq Named(mbase, mtail)
         /\ NoneTorn(mtail')
         /\ Nums(persisted'.files) = Nums(edit'.files)
         /\ Named(mbase', mtail') \cap mtail[Len(mtail)].del
              \subseteq Nums(mtail[Len(mtail)].add)
  <2> USE <1>SavedNames
  <2> USE Zenon
  <2>1. mbase \in Edits /\ mtail \in Seq(Records) /\ Len(mtail) > 0
    BY DEF IInv, TypeOK, DiskTypeOK, ManifestInv
  <2>2. ~closed
    BY DEF Saving, IInv, ControlInv
  <2>3. NoneTorn(mtail)
    BY <2>2 DEF TablesInv
  <2>4. IntactPrefix(mtail) = mtail /\ TornRest(mtail) = <<>>
    BY <2>1, <2>3, IntactLogs
  <2>5. mbase' = Replay(mbase, mtail) /\ mtail' = <<>> /\ persisted' = edit'
    BY <2>4 DEF SaveSucceeds
  <2>6. Named(mbase', <<>>) = Nums(mbase'.files) \cap Nat
    BY SMT DEF Named
  <2>7. /\ Nums(mbase'.files) \subseteq Named(mbase, mtail)
        /\ Nums(mbase'.files) \cap mtail[Len(mtail)].del \subseteq Nums(mtail[Len(mtail)].add)
    BY <2>1, <2>5, ReplayNames
  <2>8. NoneTorn(<<>>)
    BY SMT DEF NoneTorn
  <2> QED BY <2>5, <2>6, <2>7, <2>8
\* A switch of MemTables, Close, or a flush has saved its version.
<1>SavedTables.
  ASSUME WellOrdered, IInv, TablesInv, RotateSucceeds \/ CloseSaved \/ FlushSucceeds
  PROVE  TablesInv'
  <2> USE <1>SavedTables
  <2> USE Zenon
  <2>1. /\ Saving /\ SaveSucceeds /\ UNCHANGED <<ssts, closed, comp>>
        /\ mu' \in {"free", "purge"}
    BY DEF RotateSucceeds, CloseSaved, FlushSucceeds, Saving
  <2>2. worker'.pc \in {"build", "publish"} => worker' = worker
    BY DEF RotateSucceeds, CloseSaved, FlushSucceeds, IdleWorker
  <2>3. edit' = pending /\ edit'.next \in Nat /\ edit.next <= edit'.next
    BY <2>1, SavedVersion
  <2>4. /\ Named(mbase', mtail') \subseteq Named(mbase, mtail) /\ NoneTorn(mtail')
        /\ Nums(persisted'.files) = Nums(edit'.files)
    BY <2>1, <1>SavedNames
  <2> QED BY <2>1, <2>2, <2>3, <2>4, <1>KeepsTables
\* The version that replaced the compaction's inputs is durable: no version on disk
\* names them any more.
<1>CompactionSucceedsTables.
  ASSUME WellOrdered, IInv, NumbersInv, TablesInv, CompactionSucceeds PROVE TablesInv'
  <2> USE <1>CompactionSucceedsTables
  <2> USE Zenon
  <2>1. /\ mu = "compact" /\ SaveSucceeds /\ UNCHANGED <<ssts, closed, worker>>
        /\ comp' = [comp EXCEPT !.stage = "remove"] /\ mu' = "free"
    BY DEF CompactionSucceeds
  <2>2. comp \in Compactions /\ edit.next \in Nat
    BY NumberTypes
  <2>3. comp'.stage = "remove" /\ comp'.inputs = comp.inputs
    BY <2>1, <2>2 DEF Compactions
  <2>4. edit' = pending /\ edit'.next \in Nat /\ edit.next <= edit'.next
    BY <2>1, SavedVersion DEF Saving
  <2>5. /\ Named(mbase', mtail') \subseteq Named(mbase, mtail) /\ NoneTorn(mtail')
        /\ Nums(persisted'.files) = Nums(edit'.files)
        /\ Named(mbase', mtail') \cap mtail[Len(mtail)].del \subseteq Nums(mtail[Len(mtail)].add)
    BY <2>1, <1>SavedNames DEF Saving
  <2>6. /\ comp.inputs \subseteq mtail[Len(mtail)].del
        /\ Nums(mtail[Len(mtail)].add) = {comp.num}
    BY <2>1 DEF TablesInv
  <2>7. comp.num \notin comp.inputs
    <3>1. comp.stage = "publish"
      BY <2>1 DEF IInv, ControlInv
    <3> QED BY <3>1 DEF NumbersInv, IInv, ChecksInv, InputsUnchanged
  <2>8. comp'.inputs \cap Named(mbase', mtail') = {}
    BY <2>3, <2>5, <2>6, <2>7
  <2>9. \A n \in comp'.inputs : n < edit'.next
    BY <2>2, <2>3, <2>4, SMT DEF TablesInv, Compactions
  <2> QED BY <2>1, <2>3, <2>5, <2>8, <2>9 DEF TablesInv
\* A failed save of a database that goes on.
<1>SaveFailsNames.
  ASSUME IInv, TablesInv, Saving, SaveFails, "torn" \notin SaveFailures
  PROVE  /\ Named(mbase', mtail') \subseteq Named(mbase, mtail) /\ NoneTorn(mtail')
         /\ UNCHANGED <<edit, persisted>> /\ mu' = "free"
  <2> USE <1>SaveFailsNames
  <2> USE Zenon
  <2>1. NoneTorn(mtail)
    BY DEF Saving, IInv, ControlInv, TablesInv
  <2>2. PICK how \in SaveFailures : mtail' = SaveLeaves(how)
    BY DEF SaveFails
  <2>3. mbase' = mbase /\ UNCHANGED <<edit, persisted>> /\ mu' = "free"
    BY DEF SaveFails
  <2> QED BY <2>1, <2>2, <2>3, <1>SaveLeavesNames
\* Its record may be there or not.
<1>SaveFailsTables.
  ASSUME IInv, TablesInv, "torn" \notin SaveFailures,
         RotateFails \/ FlushFails \/ CompactionFails
  PROVE  TablesInv'
  <2> USE <1>SaveFailsTables
  <2> USE Zenon
  <2>1. Saving /\ SaveFails /\ UNCHANGED <<ssts, closed>>
    BY DEF RotateFails, FlushFails, CompactionFails, Saving
  <2>2. /\ Named(mbase', mtail') \subseteq Named(mbase, mtail) /\ NoneTorn(mtail')
        /\ UNCHANGED <<edit, persisted>> /\ mu' = "free"
    BY <2>1, <1>SaveFailsNames
  <2>3. worker'.pc \in {"build", "publish"} => worker' = worker
    BY CompactionEndsBuildsNothing DEF RotateFails, FlushFails, CompactionFails, IdleWorker
  <2>4. comp' = comp \/ (comp'.inputs = {} /\ comp'.stage \in {"idle", "check"})
    BY SMT DEF RotateFails, FlushFails, CompactionFails, CompactionEnds, NoCompaction
  <2>5. edit.next \in Nat
    BY NumberTypes
  <2>6. ~closed' => Nums(persisted'.files) = Nums(edit'.files) /\ NoneTorn(mtail')
    BY <2>1, <2>2 DEF TablesInv
  <2> QED BY <2>1, <2>2, <2>3, <2>4, <2>5, <2>6, <1>KeepsTables, SMT
\* Close ends: without a save, with one that failed, or after it removed WAL files.
<1>CloseTables.
  ASSUME IInv, TablesInv, "torn" \notin SaveFailures,
         CloseEnds \/ CloseSaveFails \/ ClosePurges \/ ClosePurgeFails
  PROVE  TablesInv'
  <2> USE <1>CloseTables
  <2> USE Zenon
  <2>1. ResetMemory /\ ssts' = ssts /\ mbase' = mbase
    BY DEF CloseEnds, CloseSaveFails, ClosePurges, ClosePurgeFails, disk
  <2>2. CASE mtail' = mtail
    BY <2>1, <2>2, <1>ResetTables
  <2>3. CASE CloseSaveFails
    <3>1. PICK how \in SaveFailures : mtail' = SaveLeaves(how)
      BY <2>3 DEF CloseSaveFails
    <3>2. Saving
      BY <2>3 DEF CloseSaveFails, Saving
    <3>3. Named(mbase', mtail') \subseteq Named(mbase, mtail)
      BY <2>1, <3>1, <3>2, <1>SaveLeavesNames
    <3> QED BY <2>1, <3>3, <1>ResetTables
  <2> QED BY <2>2, <2>3 DEF CloseEnds, ClosePurges, ClosePurgeFails, disk
\* A save begins: its record adds what the version being saved has and the current
\* one has not.
<1>SaveBeginsNames.
  ASSUME IInv, IInv', TablesInv, ~closed, NEW new, SaveAppends(new)
  PROVE  /\ Named(mbase', mtail')
              = Named(mbase, mtail) \cup (Nums(pending'.files) \ Nums(edit.files))
         /\ NoneTorn(mtail')
         /\ mtail'[Len(mtail')].del = Nums(edit.files) \ Nums(pending'.files)
         /\ Nums(mtail'[Len(mtail')].add) = Nums(pending'.files) \ Nums(edit.files)
  <2> USE <1>SaveBeginsNames
  <2> USE Zenon
  <2>1. pending' = new
    BY DEF SaveAppends
  <2>2. new \in Edits
    BY <2>1 DEF IInv, TypeOK, ThreadsTypeOK
  <2>3. Nums(persisted.files) = Nums(edit.files) /\ NoneTorn(mtail)
    BY DEF TablesInv
  <2> QED BY <2>1, <2>2, <2>3, <1>SaveNames
\* A switch of MemTables, and Close, save a version with the same tables.
<1>SaveBeginsTables.
  ASSUME IInv, IInv', TablesInv, WriteSwitches \/ CloseSaves PROVE TablesInv'
  <2> USE <1>SaveBeginsTables
  <2> USE Zenon
  <2>1. /\ ~closed /\ mu' \in {"rotate", "close"}
        /\ UNCHANGED <<ssts, closed, persisted, worker, comp>>
        /\ edit' \in {edit, AppliedEdit}
    BY DEF WriteSwitches, CloseSaves, Joined, memory, IInv, ControlInv
  <2>2. edit \in Edits /\ edit.next \in Nat
    BY NumberTypes
  <2>3. AppliedEdit.next = edit.next /\ AppliedEdit.files = edit.files
    BY <2>2 DEF AppliedEdit, Edits
  <2>4. edit'.next = edit.next /\ edit'.files = edit.files
    BY <2>1, <2>3
  <2>5. Nums(pending'.files) = Nums(edit.files)
    BY <2>1, <2>4 DEF IInv, FilesInv
  <2>6. PICK new : SaveAppends(new)
    BY DEF WriteSwitches, CloseSaves
  <2>7. Named(mbase', mtail') = Named(mbase, mtail) /\ NoneTorn(mtail')
    BY <2>1, <2>5, <2>6, <1>SaveBeginsNames
  <2>8. Nums(persisted'.files) = Nums(edit'.files)
    BY <2>1, <2>4 DEF TablesInv
  <2>9. edit'.next \in Nat /\ edit.next <= edit'.next
    BY <2>2, <2>4, SMT
  <2> QED BY <2>1, <2>7, <2>8, <2>9, <1>KeepsTables
\* The worker saves a version with its table, which is on disk.
<1>FlushPublishesTables.
  ASSUME IInv, IInv', NumbersInv, TablesInv, FlushPublishes PROVE TablesInv'
  <2> USE <1>FlushPublishesTables
  <2> USE Zenon
  <2>1. /\ worker.pc = "publish" /\ mu' = "flush"
        /\ UNCHANGED <<ssts, closed, edit, persisted, worker, comp>> /\ ~closed
    BY DEF FlushPublishes, memory, IInv, ControlInv
  <2>2. Nums(pending'.files) = Nums(edit.files) \cup {worker.num}
    BY <2>1 DEF IInv, FilesInv
  <2>3. PICK new : SaveAppends(new)
    BY DEF FlushPublishes
  <2>4. /\ Named(mbase', mtail') \subseteq Named(mbase, mtail) \cup {worker.num}
        /\ NoneTorn(mtail')
    BY <2>1, <2>2, <2>3, <1>SaveBeginsNames
  <2> QED BY <2>1, <2>4 DEF TablesInv
\* A compaction saves a version with its table, which is on disk, instead of its
\* inputs.
<1>CompactionPublishesTables.
  ASSUME IInv, IInv', NumbersInv, TablesInv, CompactionPublishes PROVE TablesInv'
  <2> USE <1>CompactionPublishesTables
  <2> USE Zenon
  <2>1. /\ comp.stage = "publish" /\ mu' = "compact" /\ InputsUnchanged
        /\ UNCHANGED <<ssts, closed, edit, persisted, worker, comp>> /\ ~closed
    BY DEF CompactionPublishes, memory, IInv, InputsUnchanged
  <2>2. Nums(pending'.files) = (Nums(edit.files) \ comp.inputs) \cup {comp.num}
    BY <2>1 DEF IInv, FilesInv
  <2>3. PICK new : SaveAppends(new)
    BY DEF CompactionPublishes
  <2>4. /\ Named(mbase', mtail')
             = Named(mbase, mtail) \cup (Nums(pending'.files) \ Nums(edit.files))
        /\ NoneTorn(mtail')
        /\ mtail'[Len(mtail')].del = Nums(edit.files) \ Nums(pending'.files)
        /\ Nums(mtail'[Len(mtail')].add) = Nums(pending'.files) \ Nums(edit.files)
    BY <2>1, <2>3, <1>SaveBeginsNames
  <2>5. comp.num \notin Nums(edit.files) /\ comp.inputs \subseteq Nums(edit.files)
    BY <2>1 DEF NumbersInv, InputsUnchanged
  <2>6. /\ Nums(pending'.files) \ Nums(edit.files) = {comp.num}
        /\ Nums(edit.files) \ Nums(pending'.files) = comp.inputs
    BY <2>2, <2>5
  <2>7. /\ comp'.inputs \subseteq mtail'[Len(mtail')].del
        /\ Nums(mtail'[Len(mtail')].add) = {comp'.num}
    BY <2>1, <2>4, <2>6
  <2>8. Named(mbase', mtail') \subseteq DOMAIN ssts'
    BY <2>1, <2>4, <2>6 DEF TablesInv
  <2> QED BY <2>1, <2>4, <2>7, <2>8 DEF TablesInv
\* The worker's table gets a number above those of a compaction's inputs.
<1>WorkerPicksTables. ASSUME IInv, TablesInv, WorkerPicks PROVE TablesInv'
  <2> USE <1>WorkerPicksTables
  <2> USE Zenon
  <2>1. edit \in Edits /\ edit.next \in Nat /\ comp.inputs \subseteq Nat
    BY NumberTypes DEF Compactions
  <2>2. /\ edit'.next = edit.next + 1 /\ edit'.files = edit.files
        /\ worker'.num = edit.next /\ worker'.pc = "build"
        /\ UNCHANGED <<ssts, mbase, mtail, closed, persisted, comp, mu>>
    BY <2>1, NumberTaken DEF WorkerPicks, disk
  <2>3. worker'.num \notin comp.inputs /\ \A n \in comp.inputs : n < edit'.next
    BY <2>1, <2>2, SMT DEF TablesInv
  <2> QED BY <2>2, <2>3 DEF TablesInv
\* The inputs of a compaction are tables of the version.
<1>SelectsTables.
  ASSUME IInv, NumbersInv, TablesInv, NEW by, NEW attempts, Selects(by, attempts)
  PROVE  TablesInv'
  <2> USE <1>SelectsTables
  <2> USE Zenon
  <2>1. edit \in Edits /\ edit.next \in Nat /\ Nums(edit.files) \subseteq Nat
    BY NumberTypes
  <2>2. /\ edit'.next = edit.next + 1 /\ edit'.files = edit.files
        /\ comp'.inputs = Nums(CompactionInputs) /\ comp'.stage = "build"
        /\ UNCHANGED <<ssts, mbase, mtail, closed, persisted, worker, mu>>
        /\ ~closed /\ mu = "free"
    BY <2>1, NumberTaken DEF Selects, disk
  <2>3. CompactionInputs \subseteq edit.files
    BY DEF CompactionInputs, AtLevel
  <2>4. comp'.inputs \subseteq Nums(edit.files)
    BY <2>2, <2>3 DEF Nums
  <2>5. \A n \in comp'.inputs : n < edit'.next
    BY <2>1, <2>2, <2>4, SMT DEF NumbersInv
  <2>6. worker.pc \in {"build", "publish"} => worker.num \notin comp'.inputs
    BY <2>4 DEF NumbersInv
  <2> QED BY <2>2, <2>5, <2>6 DEF TablesInv
\* A table is built.
<1>BuildsTables.
  ASSUME IInv, TablesInv, FlushBuilds \/ CompactionBuilds PROVE TablesInv'
  <2> USE <1>BuildsTables
  <2> USE Zenon
  <2>1. /\ UNCHANGED <<mbase, mtail, closed, edit, persisted, mu>>
        /\ DOMAIN ssts \subseteq DOMAIN ssts'
    BY DEF FlushBuilds, CompactionBuilds, memory, Created
  <2>2. worker \in Workers /\ comp \in Compactions
    BY NumberTypes
  <2>3. CASE FlushBuilds
    <3>1. /\ comp' = comp /\ worker.pc = "build" /\ worker'.num = worker.num
          /\ worker'.num \in DOMAIN ssts'
      BY <2>2, <2>3 DEF FlushBuilds, Created, Workers
    <3> QED BY <2>1, <3>1 DEF TablesInv
  <2>4. CASE CompactionBuilds
    <3>1. /\ worker' = worker /\ comp.stage = "build" /\ comp'.inputs = comp.inputs
          /\ comp'.stage = "publish" /\ comp'.num \in DOMAIN ssts' /\ mu # "compact"
      BY <2>2, <2>4 DEF CompactionBuilds, Created, Compactions, IInv, ControlInv
    <3> QED BY <2>1, <3>1 DEF TablesInv
  <2> QED BY <2>3, <2>4
\* A compaction removes some or all of its inputs.
<1>RemovesTables.
  ASSUME IInv, TablesInv, CompactionRemoves \/ CompactionRemoveFails PROVE TablesInv'
  <2> USE <1>RemovesTables
  <2> USE Zenon
  <2>1. /\ UNCHANGED <<mbase, mtail, closed, edit, persisted, mu>>
        /\ comp.stage = "remove" /\ mu # "compact"
    BY DEF CompactionRemoves, CompactionRemoveFails, memory, IInv, ControlInv
  <2>2. DOMAIN ssts \ comp.inputs \subseteq DOMAIN ssts'
    BY DEF CompactionRemoves, CompactionRemoveFails, Restricted, PartlyRemoved
  <2>3. worker'.pc \in {"build", "publish"} => worker' = worker
    BY CompactionEndsBuildsNothing DEF CompactionRemoves, CompactionRemoveFails
  <2>4. comp'.inputs = {} /\ comp'.stage \in {"idle", "check"}
    <3>1. CASE comp' = NoCompaction
      BY <3>1 DEF NoCompaction
    <3>2. CASE comp' # NoCompaction
      <4> DEFINE c == [NoCompaction EXCEPT !.by = "worker", !.stage = "check",
                                           !.attempts = comp.attempts + 1]
      <4>1. comp' = c
        BY <3>2 DEF CompactionRemoves, CompactionRemoveFails, CompactionEnds
      <4>2. c.stage = "check" /\ c.inputs = {}
        BY DEF NoCompaction
      <4> QED BY <4>1, <4>2
    <3> QED BY <3>1, <3>2
  <2>5. Named(mbase, mtail) \subseteq DOMAIN ssts'
    BY <2>1, <2>2 DEF TablesInv
  <2>6. worker.pc = "publish" => worker.num \in DOMAIN ssts'
    BY <2>2 DEF TablesInv
  <2> QED BY <2>1, <2>3, <2>4, <2>5, <2>6 DEF TablesInv
\* The writer's steps that save nothing.
<1>WriteTables.
  ASSUME IInv, TablesInv,
         (\E b \in Batches : Write(b)) \/ WriteFails \/ WriteApplies \/ SwitchFails
  PROVE  TablesInv'
  <2> USE <1>WriteTables
  <2> USE Zenon
  <2>1. /\ UNCHANGED <<ssts, mbase, mtail, closed, persisted, worker, comp>>
        /\ edit' \in {edit, AppliedEdit} /\ mu' \in {"write", "free"}
    BY DEF Write, WriteFails, WriteApplies, SwitchFails, memory
  <2>2. edit \in Edits /\ edit.next \in Nat
    BY NumberTypes
  <2>3. AppliedEdit.next = edit.next /\ AppliedEdit.files = edit.files
    BY <2>2 DEF AppliedEdit, Edits
  <2>4. edit'.next = edit.next /\ edit'.files = edit.files
    BY <2>1, <2>3
  <2>5. edit'.next \in Nat /\ edit.next <= edit'.next
    BY <2>2, <2>4, SMT
  <2>6. ~closed' => Nums(persisted'.files) = Nums(edit'.files) /\ NoneTorn(mtail')
    BY <2>1, <2>4 DEF TablesInv
  <2> QED BY <2>1, <2>5, <2>6, <1>KeepsTables
\* The worker's steps that leave the manifest alone and pick and build nothing.
<1>WorkerTables.
  ASSUME IInv, TablesInv,
         WorkerWakes \/ WorkerFindsNothing \/ WorkerGivesUp \/ FlushBuildFails
           \/ WorkerPurges \/ WorkerPurgeFails
  PROVE  TablesInv'
  <2> USE <1>WorkerTables
  <2> USE Zenon
  <2>1. /\ UNCHANGED <<mbase, mtail, closed, edit, persisted, comp, mu>>
        /\ DOMAIN ssts \subseteq DOMAIN ssts'
    BY DEF WorkerWakes, WorkerFindsNothing, WorkerGivesUp, FlushBuildFails, WorkerPurges,
         WorkerPurgeFails, memory, disk, Created
  <2>2. worker'.pc \in {"build", "publish"} => worker' = worker
    <3>1. worker \in Workers
      BY NumberTypes
    <3> QED BY <3>1 DEF WorkerWakes, WorkerFindsNothing, WorkerGivesUp, FlushBuildFails,
         WorkerPurges, WorkerPurgeFails, IdleWorker, Workers
  <2> QED BY <2>1, <2>2, <1>LeavesTables
\* The compaction's steps that leave the manifest and the tables alone.
<1>CompactionTables.
  ASSUME IInv, TablesInv, MaybeCompactStarts \/ MaybeCompactEnds \/ CompactionBuildFails
  PROVE  TablesInv'
  <2> USE <1>CompactionTables
  <2> USE Zenon
  <2>1. /\ UNCHANGED <<mbase, mtail, closed, edit, persisted, mu>>
        /\ DOMAIN ssts \subseteq DOMAIN ssts' /\ mu # "compact"
    BY DEF MaybeCompactStarts, MaybeCompactEnds, CompactionBuildFails, memory, disk, Created,
         IInv, ControlInv
  <2>2. worker'.pc \in {"build", "publish"} => worker' = worker
    BY CompactionEndsBuildsNothing DEF MaybeCompactStarts, MaybeCompactEnds, CompactionBuildFails
  <2>3. comp'.inputs = {} /\ comp'.stage \in {"idle", "check"}
    <3>1. CASE comp' = NoCompaction
      BY <3>1 DEF NoCompaction
    <3>2. CASE comp' # NoCompaction
      <4> DEFINE c == [NoCompaction EXCEPT !.by = "worker", !.stage = "check"]
      <4>1. comp' = c
        BY <3>2 DEF MaybeCompactStarts, MaybeCompactEnds, CompactionBuildFails, CompactionEnds
      <4>2. c.stage = "check" /\ c.inputs = {}
        BY DEF NoCompaction
      <4> QED BY <4>1, <4>2
    <3> QED BY <3>1, <3>2
  <2> QED BY <2>1, <2>2, <2>3, <1>LeavesTables
\* Reads, snapshots and the beginning of Close.
<1>OtherTables.
  ASSUME IInv, TablesInv,
         \/ \E i \in Snaps : GetSnapshot(i) \/ ReleaseSnapshot(i)
         \/ \E r \in Readers : GetSteps(r) \/ \E k \in Keys : GetPins(r, k)
         \/ CloseBegins \/ UNCHANGED vars
  PROVE  TablesInv'
  <2> USE <1>OtherTables
  <2>1. UNCHANGED <<mbase, mtail, closed, edit, persisted, ssts, worker, comp, mu>>
    BY Zenon DEF GetSnapshot, ReleaseSnapshot, GetSteps, GetReadsMemTables,
      GetReadsTables,
      GetReturns, GetPins, CloseBegins, vars, disk, memory
  <2> QED BY <2>1, <1>LeavesTables, Zenon
<1> USE Zenon
<1> SUFFICES ASSUME IInv, IInv', NumbersInv, TablesInv, [Next]_vars PROVE TablesInv'
  BY SMT
<1>1. CASE Open \/ OpenFails \/ UserCompacts \/ Crash
  BY <1>1, <1>OpenTables, <1>OpenFailsTables, <1>SelectsTables, <1>CrashTables DEF UserCompacts
<1>2. CASE CloseSteps
  BY <1>2, <1>CloseTables, <1>SaveBeginsTables, <1>SavedTables DEF CloseSteps
<1>3. CASE WriteSteps \/ \E b \in Batches : Write(b)
  BY <1>3, <1>WriteTables, <1>SaveBeginsTables, <1>SavedTables, <1>SaveFailsTables DEF WriteSteps
<1>4. CASE WorkerSteps
  BY <1>4, <1>WorkerTables, <1>WorkerPicksTables, <1>BuildsTables, <1>FlushPublishesTables, <1>SavedTables,
       <1>SaveFailsTables DEF WorkerSteps
<1>5. CASE CompactionSteps
  BY <1>5, <1>CompactionTables, <1>SelectsTables, <1>BuildsTables, <1>CompactionPublishesTables,
       <1>CompactionSucceedsTables, <1>SaveFailsTables, <1>RemovesTables DEF CompactionSteps,
       MaybeCompactSelects
<1>6. CASE \/ \E i \in Snaps : GetSnapshot(i) \/ ReleaseSnapshot(i)
           \/ \E r \in Readers : GetSteps(r) \/ \E k \in Keys : GetPins(r, k)
           \/ CloseBegins \/ UNCHANGED vars
  BY <1>6, <1>OtherTables
<1> QED BY <1>1, <1>2, <1>3, <1>4, <1>5, <1>6 DEF Next

-----------------------------------------------------------------------------
(***************************************************************************)
(* The key ranges of the versions.                                         *)
(***************************************************************************)

\* The files of a version that are not of level 0, where ranges may meet.
Upper(files) == {m \in files : m.level > 0}

\* No two files of the same upper level meet.
Apart(files) ==
  \A m1, m2 \in Upper(files) :
    m1.level = m2.level /\ m1 # m2 => m1.hi < m2.lo \/ m2.hi < m1.lo

\* A file's range has all keys of its table.
Spans(m, ents) ==
  m.lo <= m.hi /\ \A e \in ents : 0 < m.lo /\ m.lo <= e.key /\ e.key <= m.hi

\* The files of a version whose tables are in dir have their ranges.
Ranged(files, dir) == Apart(files) /\ \A m \in files : Spans(m, dir[m.num])

\* All keys of ents are on one side of the file.
Beside(m, ents) ==
  0 < m.lo /\ ((\A e \in ents : e.key < m.lo) \/ (\A e \in ents : m.hi < e.key))

\* The files of the versions that a log with this base may be read back to.
Replays(base, log) ==
  {Replay(base, SubSeq(log, 1, n)).files : n \in 0..Len(IntactPrefix(log))}

\* The files as the log has them without its last record.
FilesBefore == Replay(mbase, SubSeq(mtail, 1, Len(mtail) - 1)).files

\* A compaction reads its inputs, or has its output.
Compacting == comp.stage \in {"build", "publish"}

\* The versions that a crash can bring back, and the one in memory, have their
\* ranges; tables are what their builders made.
RangedInv ==
  /\ \A F \in Replays(mbase, mtail) : Ranged(F, ssts)
  /\ ~closed => Ranged(edit.files, tables)
  /\ worker.pc = "publish" => ssts[worker.num] = worker.ents
  /\ comp.stage = "publish" => ssts[comp.num] = CompactionOutput

\* Which files a save is about.
PendingInv ==
  /\ ~closed => persisted.files = edit.files
  /\ mu \in {"rotate", "close"} => pending.files = edit.files
  /\ mu = "flush" => pending.files = edit.files \cup {MetaOf(worker.num, 0, worker.ents)}
  /\ mu = "compact" =>
       pending.files = {m \in edit.files : m.num \notin comp.inputs}
                         \cup {MetaOf(comp.num, comp.level, CompactionOutput)}

\* The upper levels on disk are those in memory, with or without the record that is
\* being saved, unless a compaction's save has failed and no other can follow.
UpperInv ==
  ~closed /\ (Compacting \/ ~bgError) =>
    /\ Upper(LoadedEdit.files) = Upper(IF mu = "compact" THEN pending.files ELSE edit.files)
    /\ mu \in {"rotate", "flush", "close"} => Upper(FilesBefore) = Upper(edit.files)

\* What a compaction does not replace of its output's level is beside its inputs.
BesideInv ==
  Compacting =>
    /\ comp.level > 0
    /\ \A m \in edit.files : m.level = comp.level /\ m.num \notin comp.inputs
                               => Beside(m, comp.ents)

RangesInv == RangedInv /\ PendingInv /\ UpperInv /\ BesideInv

-----------------------------------------------------------------------------
(***************************************************************************)
(* The versions of a log.                                                  *)
(***************************************************************************)

\* Without records the base is left.
LEMMA ReplayNothing ==
  ASSUME NEW base PROVE Replay(base, <<>>).files = base.files
<1>1. Len(<<>>) = 0 /\ 1..0 = {} /\ (0 + 1)..0 = {}
  OBVIOUS
<1>2. Replay(base, <<>>).files
        = {m \in base.files : \A j \in (0 + 1)..0 : m.num \notin Dropped(<<>>[j])}
          \cup UNION {{m \in <<>>[i].add : \A j \in (i + 1)..0 : m.num \notin Dropped(<<>>[j])} : i \in 1..0}
  BY <1>1 DEF Replay
<1> QED BY <1>1, <1>2, Zenon

-----------------------------------------------------------------------------
(***************************************************************************)
(* The steps keep the ranges.                                              *)
(***************************************************************************)

\* What the invariant is about.
LEMMA RangeTypes ==
  ASSUME IInv
  PROVE  /\ mbase \in Edits /\ mtail \in Seq(Records) /\ Len(mtail) \in Nat
         /\ edit \in Edits /\ edit.files \in FileSets /\ edit.files \in SUBSET Metas
         /\ persisted \in Edits /\ pending \in Edits
         /\ worker \in Workers /\ worker.ents \in VersionSets /\ worker.num \in Nat
         /\ comp \in Compactions /\ comp.num \in Nat /\ comp.level \in 0..2
         /\ comp.ents \in VersionSets
<1> USE Zenon
<1>1. /\ mbase \in Edits /\ mtail \in Seq(Records) /\ edit \in Edits /\ persisted \in Edits
      /\ pending \in Edits /\ worker \in Workers /\ comp \in Compactions
  BY DEF IInv, TypeOK, DiskTypeOK, MemoryTypeOK, ThreadsTypeOK
<1>2. Len(mtail) \in Nat
  BY <1>1, SMT
<1>3. edit.files \in FileSets /\ edit.files \in SUBSET Metas
  BY <1>1 DEF Edits, FileSets
<1>4. /\ worker.ents \in VersionSets /\ worker.num \in Nat /\ comp.num \in Nat
      /\ comp.level \in 0..2 /\ comp.ents \in VersionSets
  BY <1>1 DEF Workers, Compactions
<1> QED BY <1>1, <1>2, <1>3, <1>4

\* Every step keeps the ranges of the versions.
LEMMA NextRanges ==
  ASSUME WellOrdered, "torn" \notin SaveFailures
  PROVE  IInv /\ IInv' /\ NumbersInv /\ TablesInv /\ TablesInv' /\ RangesInv /\ [Next]_vars
           => RangesInv'
\* A record drops files and adds its own.
<1>ReplayAppend.
  ASSUME NEW base \in Edits, NEW log \in Seq(Records), NEW r \in Records
  PROVE  Replay(base, Append(log, r)).files
           = {m \in Replay(base, log).files : m.num \notin Dropped(r)} \cup r.add
  <2> USE <1>ReplayAppend
  <2> USE Zenon
  <2> DEFINE n == Len(log)
             a == Append(log, r)
             S(m, i) == \A j \in (i+1)..n : m.num \notin Dropped(log[j])
             T(m, i) == \A j \in (i+1)..(n+1) : m.num \notin Dropped(a[j])
             F == Replay(base, log).files
             G == Replay(base, a).files
  <2>1. /\ n \in Nat /\ Len(a) = n + 1 /\ a[n + 1] = r
        /\ \A i \in 1..n : a[i] = log[i]
    BY SMT
  <2>2. \A m : m \in F <=> (m \in base.files /\ S(m, 0)) \/ \E i \in 1..n : m \in log[i].add /\ S(m, i)
    <3>1. F = {m \in base.files : S(m, 0)} \cup UNION {{m \in log[i].add : S(m, i)} : i \in 1..n}
      BY SMT DEF Replay
    <3> DEFINE A == {m \in base.files : S(m, 0)}
               B(i) == {m \in log[i].add : S(m, i)}
    <3>2. \A m : m \in A <=> m \in base.files /\ S(m, 0)
      BY SMT
    <3>3. \A m, i : m \in B(i) <=> m \in log[i].add /\ S(m, i)
      BY SMT
    <3>4. F = A \cup UNION {B(i) : i \in 1..n}
      BY <3>1
    <3> HIDE DEF F, S, n, A, B
    <3>5. \A m : m \in F <=> m \in A \/ \E i \in 1..n : m \in B(i)
      BY <3>4
    <3> QED BY <3>2, <3>3, <3>5
  <2>3. \A m : m \in G <=> (m \in base.files /\ T(m, 0)) \/ \E i \in 1..(n+1) : m \in a[i].add /\ T(m, i)
    <3>1. G = {m \in base.files : T(m, 0)} \cup UNION {{m \in a[i].add : T(m, i)} : i \in 1..(n+1)}
      <4>1. G = Replay(base, a).files /\ Len(a) = n + 1
        BY <2>1
      <4> HIDE DEF a, n, G
      <4> QED BY <4>1, SMT DEF Replay
    <3> DEFINE A == {m \in base.files : T(m, 0)}
               B(i) == {m \in a[i].add : T(m, i)}
    <3>2. \A m : m \in A <=> m \in base.files /\ T(m, 0)
      BY SMT
    <3>3. \A m, i : m \in B(i) <=> m \in a[i].add /\ T(m, i)
      OBVIOUS
    <3>4. G = A \cup UNION {B(i) : i \in 1..(n+1)}
      BY <3>1
    <3> HIDE DEF G, T, n, a, A, B
    <3>5. \A m : m \in G <=> m \in A \/ \E i \in 1..(n+1) : m \in B(i)
      BY <3>4
    <3> QED BY <3>2, <3>3, <3>5
  <2> HIDE DEF F, G, a, n
  <2>4. \A m : \A i \in 0..n : T(m, i) <=> S(m, i) /\ m.num \notin Dropped(r)
    <3> SUFFICES ASSUME NEW m, NEW i \in 0..n
                 PROVE  T(m, i) <=> S(m, i) /\ m.num \notin Dropped(r)
      OBVIOUS
    <3>1. \A j : j \in (i+1)..(n+1) <=> j \in (i+1)..n \/ j = n + 1
      BY <2>1, SMT
    <3>2. \A j \in (i+1)..n : j \in 1..n
      BY <2>1, SMT
    <3> QED BY <2>1, <3>1, <3>2
  <2>5. \A m : T(m, n + 1)
    <3>1. \A j \in (n+1+1)..(n+1) : FALSE
      BY <2>1, SMT
    <3> QED BY <3>1
  <2>6. /\ \A i : i \in 1..(n+1) <=> i \in 1..n \/ i = n + 1
        /\ 0 \in 0..n /\ \A i \in 1..n : i \in 0..n
    BY <2>1, SMT
  <2> HIDE DEF S, T
  <2>7. \A m : m \in G <=> (m \in F /\ m.num \notin Dropped(r)) \/ m \in r.add
    <3> TAKE m
    <3>1. (m \in base.files /\ T(m, 0)) <=> (m \in base.files /\ S(m, 0)) /\ m.num \notin Dropped(r)
      BY <2>4, <2>6
    <3>2. (\E i \in 1..(n+1) : m \in a[i].add /\ T(m, i))
            <=> \/ (\E i \in 1..n : m \in log[i].add /\ S(m, i)) /\ m.num \notin Dropped(r)
                \/ m \in r.add
      BY <2>1, <2>4, <2>5, <2>6
    <3> QED BY <2>2, <2>3, <3>1, <3>2
  <2> QED BY <2>7 DEF F, G, a
\* The first records of a log.
<1>FirstRecords.
  ASSUME NEW log \in Seq(Records), NEW n \in 0..Len(log)
  PROVE  LET s == SubSeq(log, 1, n)
         IN  /\ s \in Seq(Records) /\ Len(s) = n /\ DOMAIN s = 1..n
             /\ \A i \in 1..n : i \in DOMAIN log /\ s[i] = log[i]
  <2> USE <1>FirstRecords
  <2> DEFINE s == SubSeq(log, 1, n)
  <2>1. \A i \in 1..n : log[i] \in Records /\ i \in DOMAIN log
    OBVIOUS
  <2>2. n \in Int /\ n - 1 + 1 = n /\ (1 <= n \/ n = 0)
    OBVIOUS
  <2>3. s \in Seq(Records) /\ Len(s) = n /\ \A i \in 1..n : s[i] = log[i]
    BY <2>1, <2>2
  <2>4. DOMAIN s = 1..n
    BY <2>3
  <2> QED BY <2>1, <2>3, <2>4, Zenon
\* Logs with the same first records.
<1>SameFirstRecords.
  ASSUME NEW a \in Seq(Records), NEW b \in Seq(Records), NEW n \in Nat,
         n <= Len(a), n <= Len(b), \A i \in 1..n : a[i] = b[i]
  PROVE  SubSeq(a, 1, n) = SubSeq(b, 1, n)
  <2> USE <1>SameFirstRecords
  <2> DEFINE s == SubSeq(a, 1, n)
             t == SubSeq(b, 1, n)
  <2>1. n \in 0..Len(a) /\ n \in 0..Len(b)
    OBVIOUS
  <2>2. s \in Seq(Records) /\ Len(s) = n /\ \A i \in 1..n : s[i] = a[i]
    BY <2>1, <1>FirstRecords, Zenon
  <2>3. t \in Seq(Records) /\ Len(t) = n /\ \A i \in 1..n : t[i] = b[i]
    BY <2>1, <1>FirstRecords, Zenon
  <2> HIDE DEF s, t
  <2>4. s = t
    BY <2>2, <2>3
  <2> QED BY <2>4 DEF s, t
\* The intact prefix is as long as it can be.
<1>IntactLength.
  ASSUME WellOrdered, NEW log \in Seq(Records), NEW n \in 0..Len(log),
         \A i \in 1..n : ~log[i].torn
  PROVE  n <= Len(IntactPrefix(log))
  <2> USE <1>IntactLength
  <2> DEFINE k == Len(IntactPrefix(log))
  <2>1. k \in 0..Len(log) /\ Len(log) \in Nat /\ (k < Len(log) => log[k + 1].torn)
    BY LogParts, SMT
  <2> HIDE DEF k
  <2> SUFFICES ASSUME k < n PROVE FALSE
    BY <2>1 DEF k
  <2>2. k + 1 \in 1..n /\ k < Len(log)
    BY <2>1
  <2> QED BY <2>1, <2>2, Zenon
\* The whole intact prefix gives one of the versions of a log; and what is left when
\* it has been read has no other.
<1>ReadBackReplays.
  ASSUME WellOrdered, NEW base \in Edits, NEW log \in Seq(Records)
  PROVE  LET e == Replay(base, IntactPrefix(log))
         IN  /\ e.files \in Replays(base, log)
             /\ Replays(e, TornRest(log)) = {e.files}
             /\ Replays(e, <<>>) = {e.files}
  <2> USE <1>ReadBackReplays
  <2> USE Zenon
  <2> DEFINE k == Len(IntactPrefix(log))
             t == TornRest(log)
             j == Len(IntactPrefix(t))
             e == Replay(base, IntactPrefix(log))
  <2>1. /\ k \in 0..Len(log) /\ Len(log) \in Nat /\ IntactPrefix(log) = SubSeq(log, 1, k)
        /\ t \in Seq(Records) /\ Len(t) = Len(log) - k
        /\ \A i \in 1..(Len(log) - k) : t[i] = log[k + i]
        /\ k < Len(log) => log[k + 1].torn
    BY LogParts, SMT
  <2>2. k \in 0..k
    BY <2>1, SMT
  <2>3. e.files \in Replays(base, log)
    BY <2>1, <2>2 DEF Replays
  <2>4. \A s : SubSeq(s, 1, 0) = <<>>
    BY SMT
  <2>5. ASSUME NEW s, Len(IntactPrefix(s)) = 0
        PROVE  Replays(e, s) = {e.files}
    <3>1. \A n : n \in 0..Len(IntactPrefix(s)) <=> n = 0
      BY <2>5, SMT
    <3>2. Replay(e, SubSeq(s, 1, 0)).files = e.files
      BY <2>4, ReplayNothing
    <3> QED BY <3>1, <3>2 DEF Replays
  <2>6. Len(IntactPrefix(<<>>)) = 0
    <3>1. <<>> \in Seq(Records) /\ Len(<<>>) = 0
      BY SMT
    <3>2. Len(IntactPrefix(<<>>)) \in 0..Len(<<>>)
      BY <3>1, LogParts
    <3> QED BY <3>1, <3>2, SMT
  <2>7. j = 0
    <3> HIDE DEF t, k
    <3>1. j \in 0..Len(t) /\ Len(t) \in Nat /\ \A i \in 1..j : ~t[i].torn
      BY <2>1, LogParts, SMT
    <3> HIDE DEF j
    <3> SUFFICES ASSUME j > 0 PROVE FALSE
      BY <3>1, SMT
    <3>2. 1 \in 1..j /\ 1 \in 1..(Len(log) - k) /\ k < Len(log)
      BY <2>1, <3>1, SMT
    <3> QED BY <2>1, <3>1, <3>2
  <2> QED BY <2>3, <2>5, <2>6, <2>7
\* A log whose intact records are the first ones of another has fewer versions.
<1>FewerReplays.
  ASSUME WellOrdered, NEW base, NEW a \in Seq(Records), NEW b \in Seq(Records),
         Len(IntactPrefix(a)) <= Len(b), \A i \in 1..Len(IntactPrefix(a)) : a[i] = b[i]
  PROVE  Replays(base, a) \subseteq Replays(base, b)
  <2> USE <1>FewerReplays
  <2> USE Zenon
  <2> DEFINE k == Len(IntactPrefix(a))
             q == Len(IntactPrefix(b))
  <2>1. k \in 0..Len(a) /\ Len(a) \in Nat /\ \A i \in 1..k : ~a[i].torn
    BY LogParts, SMT
  <2>2. q \in 0..Len(b) /\ Len(b) \in Nat
    BY LogParts, SMT
  <2> HIDE DEF k, q
  <2>3. k <= Len(b) /\ \A i \in 1..k : a[i] = b[i]
    BY DEF k
  <2> SUFFICES ASSUME NEW n \in 0..k
               PROVE  Replay(base, SubSeq(a, 1, n)).files \in Replays(base, b)
    BY DEF Replays, k
  <2>4. n \in Nat /\ n <= Len(a) /\ n <= Len(b) /\ n \in 0..Len(b) /\ \A i \in 1..n : i \in 1..k
    BY <2>1, <2>2, <2>3, SMT
  <2>5. SubSeq(a, 1, n) = SubSeq(b, 1, n)
    BY <2>3, <2>4, <1>SameFirstRecords, SMT
  <2>6. \A i \in 1..n : ~b[i].torn
    BY <2>1, <2>3, <2>4
  <2>7. n <= q
    BY <2>4, <2>6, <1>IntactLength DEF q
  <2>8. n \in 0..q
    BY <2>2, <2>4, <2>7, SMT
  <2> QED BY <2>5, <2>8 DEF Replays, q
\* A record more makes a version more.
<1>AppendReplays.
  ASSUME WellOrdered, NEW base \in Edits, NEW log \in Seq(Records), NEW r \in Records
  PROVE  LET a == Append(log, r)
         IN  Replays(base, a) \subseteq Replays(base, log) \cup {Replay(base, a).files}
  <2> USE <1>AppendReplays
  <2> USE Zenon
  <2> DEFINE a == Append(log, r)
             L == Len(log)
             k == Len(IntactPrefix(a))
             q == Len(IntactPrefix(log))
  <2>1. L \in Nat /\ a \in Seq(Records) /\ Len(a) = L + 1 /\ \A i \in 1..L : a[i] = log[i]
    BY SMT
  <2>2. SubSeq(a, 1, L + 1) = a
    BY <2>1, SMT
  <2> HIDE DEF a
  <2>3. k \in 0..(L + 1) /\ \A i \in 1..k : ~a[i].torn
    BY <2>1, LogParts, SMT
  <2>4. q \in 0..L
    BY LogParts, SMT
  <2> HIDE DEF k, q, L
  <2> SUFFICES ASSUME NEW n \in 0..k
               PROVE  Replay(base, SubSeq(a, 1, n)).files
                        \in Replays(base, log) \cup {Replay(base, a).files}
    BY DEF Replays, k, a
  <2>5. CASE n = L + 1
    BY <2>2, <2>5
  <2>6. CASE n # L + 1
    <3>1. n \in Nat /\ n <= L /\ n <= Len(a) /\ n \in 0..L /\ \A i \in 1..n : i \in 1..k /\ i \in 1..L
      BY <2>1, <2>3, <2>6, SMT
    <3>2. \A i \in 1..n : a[i] = log[i] /\ ~log[i].torn
      BY <2>1, <2>3, <3>1
    <3>3. n <= Len(log) /\ n \in 0..Len(log)
      BY <3>1, SMT DEF L
    <3>4. SubSeq(a, 1, n) = SubSeq(log, 1, n)
      BY <2>1, <3>1, <3>2, <3>3, <1>SameFirstRecords
    <3>5. n <= q
      BY <3>2, <3>3, <1>IntactLength DEF q
    <3>6. n \in 0..q
      BY <2>4, <3>1, <3>5, SMT
    <3> QED BY <3>4, <3>6 DEF Replays, q
  <2> QED BY <2>5, <2>6
\* A crash, which may tear the first record it loses, makes no version.
<1>CrashReplays.
  ASSUME WellOrdered, NEW base, NEW log \in Seq(Records), NEW n \in 0..Len(log),
         NEW torn \in BOOLEAN, torn => n < Len(log)
  PROVE  LET l == SubSeq(log, 1, n) \o IF torn THEN <<Tear(log[n + 1])>> ELSE <<>>
         IN  l \in Seq(Records) /\ Replays(base, l) \subseteq Replays(base, log)
  <2> USE <1>CrashReplays
  <2> USE Zenon
  <2> DEFINE s == SubSeq(log, 1, n)
             x == Tear(log[n + 1])
             l == s \o IF torn THEN <<x>> ELSE <<>>
  <2>1. s \in Seq(Records) /\ Len(s) = n /\ \A i \in 1..n : s[i] = log[i]
    BY <1>FirstRecords
  <2>2. n \in Nat /\ Len(log) \in Nat /\ n <= Len(log)
    BY SMT
  <2> HIDE DEF s
  <2>3. /\ l \in Seq(Records) /\ \A i \in 1..n : l[i] = log[i]
        /\ Len(IntactPrefix(l)) \in 0..n
    <3>1. CASE ~torn
      <4>1. s \o <<>> = s
        BY <2>1, SMT
      <4>2. l = s
        BY <3>1, <4>1
      <4>3. Len(IntactPrefix(s)) \in 0..Len(s)
        BY <2>1, LogParts
      <4> QED BY <2>1, <4>2, <4>3
    <3>2. CASE torn
      <4>1. log[n + 1] \in Records
        BY <3>2, SMT
      <4>2. x \in Records /\ x.torn
        BY <4>1, TearType DEF Tear, Records
      <4> HIDE DEF x
      <4>3. s \o <<x>> = Append(s, x)
        BY <2>1, <4>2, SMT
      <4>4. l = Append(s, x)
        BY <3>2, <4>3
      <4>5. /\ Append(s, x) \in Seq(Records) /\ Len(Append(s, x)) = n + 1
            /\ Append(s, x)[n + 1] = x
            /\ \A i \in 1..n : Append(s, x)[i] = s[i]
        BY <2>1, <2>2, <4>2, SMT
      <4> HIDE DEF l
      <4>6. l \in Seq(Records) /\ Len(l) = n + 1 /\ l[n + 1].torn /\ \A i \in 1..n : l[i] = s[i]
        BY <4>2, <4>4, <4>5
      <4> DEFINE k == Len(IntactPrefix(l))
      <4>7. k \in 0..(n + 1) /\ \A i \in 1..k : ~l[i].torn
        BY <4>6, LogParts, SMT
      <4> HIDE DEF k
      <4>8. k \in 0..n
        BY <2>2, <4>6, <4>7, SMT
      <4> QED BY <2>1, <4>6, <4>8 DEF k
    <3> QED BY <3>1, <3>2
  <2> HIDE DEF l
  <2> DEFINE k == Len(IntactPrefix(l))
  <2> HIDE DEF k
  <2>4. k <= Len(log) /\ \A i \in 1..k : i \in 1..n
    BY <2>2, <2>3, SMT DEF k
  <2>5. \A i \in 1..k : l[i] = log[i]
    BY <2>3, <2>4
  <2>6. Replays(base, l) \subseteq Replays(base, log)
    BY <2>3, <2>4, <2>5, <1>FewerReplays DEF k
  <2> QED BY <2>3, <2>6 DEF l, s
\* A file's metadata has the smallest and the largest key of its table.
<1>MetaBounds.
  ASSUME WellOrdered, NEW num \in Nat, NEW level \in 0..2, NEW ents \in VersionSets
  PROVE  LET m == MetaOf(num, level, ents)
         IN  /\ m \in Metas /\ m.num = num /\ m.level = level
             /\ ents = {} => m.lo = 0 /\ m.hi = 0
             /\ ents # {} => /\ \E e \in ents : m.lo = e.key
                             /\ \E e \in ents : m.hi = e.key
             /\ Spans(m, ents)
  <2> USE <1>MetaBounds
  <2> USE Zenon
  <2> DEFINE f == [e \in ents |-> e.key]
             K == {f[e] : e \in ents}
             m == MetaOf(num, level, ents)
  <2>1. IsFiniteSet(ents) /\ \A e \in ents : e.key \in Nat /\ e.key # 0
    BY KeysAreNumbers DEF VersionSets, FiniteSubsets, Version, Versions
  <2>2. K = {e.key : e \in ents} /\ K \in SUBSET Nat /\ (ents # {} => K # {})
    BY <2>1
  <2>3. IsFiniteSet(K)
    <3> HIDE DEF f
    <3> QED BY <2>1, FiniteImage
  <2>4. /\ m.lo = IF ents = {} THEN 0 ELSE Min(K)
        /\ m.hi = IF ents = {} THEN 0 ELSE Max(K)
        /\ m.level = level
    BY <2>2 DEF MetaOf
  <2>5. m \in Metas /\ m.num = num
    BY MetaOfType
  <2>6. \A x : x \in K <=> \E e \in ents : x = e.key
    BY <2>2
  <2> HIDE DEF K, m
  <2>7. CASE ents = {}
    <3>1. m.lo = 0 /\ m.hi = 0
      BY <2>4, <2>7
    <3>2. Spans(m, ents)
      BY <2>7, <3>1, SMT DEF Spans
    <3> QED BY <2>4, <2>5, <2>7, <3>1, <3>2 DEF m
  <2>8. CASE ents # {}
    <3>1. /\ Min(K) \in K /\ \A y \in K : Min(K) <= y
          /\ Max(K) \in K /\ \A y \in K : y <= Max(K)
      BY <2>2, <2>3, <2>8, MinProperties, MaxProperties
    <3>2. m.lo \in K /\ m.hi \in K /\ \A y \in K : m.lo <= y /\ y <= m.hi
      BY <2>4, <2>8, <3>1
    <3>3. m.lo <= m.hi
      BY <3>2
    <3>4. m.lo \in Nat /\ m.lo # 0
      BY <2>1, <2>6, <3>2
    <3>5. 0 < m.lo
      BY <3>4, SMT
    <3>6. Spans(m, ents)
      BY <2>6, <3>2, <3>3, <3>5 DEF Spans
    <3> QED BY <2>4, <2>5, <2>6, <2>8, <3>2, <3>6 DEF m
  <2> QED BY <2>7, <2>8
\* Files that are among other files, as far as the upper levels go, are apart if
\* these are.
<1>FewerApart.
  ASSUME NEW F, NEW G, Apart(F), Upper(G) \subseteq Upper(F)
  PROVE  Apart(G)
  BY <1>FewerApart, Zenon DEF Apart
\* An output that is made of entries beside all other files of its level is apart
\* from them.
<1>OutputApart.
  ASSUME WellOrdered, NEW F \in SUBSET Metas, Apart(F), NEW num \in Nat, NEW level \in 0..2,
         NEW E, NEW R \in VersionSets, R \subseteq E, NEW ins,
         \A m \in F : m.level = level /\ m.num \notin ins => Beside(m, E)
  PROVE  Apart({m \in F : m.num \notin ins} \cup {MetaOf(num, level, R)})
  <2> USE <1>OutputApart
  <2> USE Zenon
  <2> DEFINE o == MetaOf(num, level, R)
             G == {m \in F : m.num \notin ins}
  <2>1. /\ o \in Metas /\ o.level = level /\ (R = {} => o.lo = 0 /\ o.hi = 0)
        /\ R # {} => (\E e \in R : o.lo = e.key) /\ (\E e \in R : o.hi = e.key)
    <3> DEFINE m == MetaOf(num, level, R)
    <3>1. /\ m \in Metas /\ m.level = level /\ (R = {} => m.lo = 0 /\ m.hi = 0)
          /\ R # {} => (\E e \in R : m.lo = e.key) /\ (\E e \in R : m.hi = e.key)
      BY <1>MetaBounds, SMT
    <3> QED BY <3>1
  <2> HIDE DEF o
  <2>2. ASSUME NEW m \in G, m.level = level
        PROVE  m.hi < o.lo \/ o.hi < m.lo
    <3>1. 0 < m.lo /\ ((\A e \in E : e.key < m.lo) \/ (\A e \in E : m.hi < e.key))
      BY <2>2 DEF Beside
    <3>2. CASE R = {}
      BY <2>1, <3>1, <3>2, SMT
    <3>3. CASE R # {}
      BY <2>1, <3>1, <3>3
    <3> QED BY <3>2, <3>3
  <2>3. \A m : m \in Upper(G \cup {o}) => m = o \/ (m \in G /\ m \in Upper(F))
    BY SMT DEF Upper
  <2> SUFFICES ASSUME NEW m1 \in Upper(G \cup {o}), NEW m2 \in Upper(G \cup {o}),
                      m1.level = m2.level, m1 # m2
               PROVE  m1.hi < m2.lo \/ m2.hi < m1.lo
    BY DEF Apart, o
  <2> HIDE DEF G
  <2>4. CASE m1 = o
    BY <2>1, <2>2, <2>3, <2>4
  <2>5. CASE m2 = o
    BY <2>1, <2>2, <2>3, <2>5
  <2>6. CASE m1 # o /\ m2 # o
    BY <2>3, <2>6 DEF Apart
  <2> QED BY <2>4, <2>5, <2>6
\* The smallest and the largest key of a set of files, as CompactUnlocked takes them:
\* files with an empty range do not count for the smallest.
<1>KeyBounds.
  ASSUME WellOrdered, NEW F \in FileSets, F # {}
  PROVE  /\ SmallestKey(F) \in Nat /\ LargestKey(F) \in Nat
         /\ \A m \in F : m.hi <= LargestKey(F)
         /\ \A m \in F : m.lo # 0 => SmallestKey(F) <= m.lo
  <2> USE <1>KeyBounds
  <2> USE Zenon
  <2> DEFINE f == [m \in F |-> m.hi]
             H == {f[m] : m \in F}
             S == {m.lo : m \in F} \ {0}
  <2>1. IsFiniteSet(F) /\ \A m \in F : m.lo \in Nat /\ m.hi \in Nat
    BY DEF FileSets, Metas
  <2>2. H = {m.hi : m \in F} /\ H \in SUBSET Nat /\ H # {} /\ \A m \in F : m.hi \in H
    BY <2>1
  <2>3. IsFiniteSet(H)
    <3> HIDE DEF f
    <3> QED BY <2>1, FiniteImage
  <2>4. S \in SUBSET Nat /\ \A m \in F : m.lo # 0 => m.lo \in S
    BY <2>1
  <2>5. LargestKey(F) = Max(H) /\ SmallestKey(F) = IF S = {} THEN 0 ELSE Min(S)
    BY <2>2 DEF LargestKey, SmallestKey
  <2> HIDE DEF H, S
  <2>6. Max(H) \in H /\ \A y \in H : y <= Max(H)
    BY <2>2, <2>3, MaxProperties
  <2>7. CASE S = {}
    <3>1. SmallestKey(F) = 0
      BY <2>5, <2>7
    <3>2. 0 \in Nat /\ \A m \in F : ~(m.lo # 0)
      BY <2>4, <2>7, SMT
    <3> QED BY <2>2, <2>5, <2>6, <3>1, <3>2
  <2>8. CASE S # {}
    <3>1. Min(S) \in S /\ \A y \in S : Min(S) <= y
      BY <2>4, <2>8, MinProperties
    <3> QED BY <2>2, <2>4, <2>5, <2>6, <2>8, <3>1
  <2> QED BY <2>7, <2>8
\* The versions of a log name only what the log names.
<1>ReplaysNamed.
  ASSUME WellOrdered, NEW base \in Edits, NEW log \in Seq(Records),
         NEW F \in Replays(base, log), NEW m \in F
  PROVE  m.num \in Named(base, log)
  <2> USE <1>ReplaysNamed
  <2> USE Zenon
  <2>1. Len(IntactPrefix(log)) \in 0..Len(log)
    BY LogParts
  <2>2. PICK n \in 0..Len(IntactPrefix(log)) : F = Replay(base, SubSeq(log, 1, n)).files
    BY DEF Replays
  <2>3. n \in 0..Len(log)
    BY <2>1, SMT
  <2> DEFINE s == SubSeq(log, 1, n)
  <2>4. s \in Seq(Records) /\ DOMAIN s = 1..n /\ \A i \in 1..n : i \in DOMAIN log /\ s[i] = log[i]
    BY <2>3, <1>FirstRecords
  <2>5. m \in Replay(base, s).files
    BY <2>2
  <2> HIDE DEF s
  <2>6. m.num \in Named(base, s)
    BY <2>4, <2>5, ReplayNames DEF Nums
  <2> QED BY <2>4, <2>6 DEF Named
\* A file of the output's level that a compaction leaves out is beside what it reads:
\* it does not meet the range of the source level, and an input of its own level
\* that meets that range is on the same side of it.
<1>InputsBeside.
  ASSUME WellOrdered, IInv, ~closed, Ranged(edit.files, tables),
         CompactionInputs # {}, NEW m \in edit.files, m.level = SourceLevel + 1,
         m.num \notin Nums(CompactionInputs)
  PROVE  Beside(m, UNION {tables[n] : n \in Nums(CompactionInputs)})
  <2> USE <1>InputsBeside
  <2> USE Zenon
  <2> DEFINE base == AtLevel(SourceLevel)
             S == SmallestKey(base)
             G == LargestKey(base)
             E == UNION {tables[n] : n \in Nums(CompactionInputs)}
  <2>1. SourceLevel \in {0, 1}
    BY DEF SourceLevel
  <2>2. base # {} /\ base \subseteq edit.files
    BY DEF CompactionInputs, AtLevel
  <2>3. base \in FileSets
    <3>1. edit.files \in FileSets
      BY NumberTypes DEF Edits
    <3> QED BY <2>2, <3>1, FiniteSubset DEF FileSets
  <2>4. \A x : x \in CompactionInputs <=>
                \/ x \in base
                \/ x \in AtLevel(SourceLevel + 1) /\ RangesOverlap(x, S, G)
    BY <2>2 DEF CompactionInputs
  <2>5. /\ S \in Nat /\ G \in Nat /\ \A x \in base : x.hi <= G
        /\ \A x \in base : x.lo # 0 => S <= x.lo
    <3> HIDE DEF base
    <3> QED BY <2>2, <2>3, <1>KeyBounds
  <2>6. m \notin CompactionInputs
    BY DEF Nums
  <2>7. m \in AtLevel(SourceLevel + 1)
    BY DEF AtLevel
  <2>8. ~RangesOverlap(m, S, G)
    BY <2>4, <2>6, <2>7
  <2>9. \A x \in edit.files : x.lo \in Nat /\ x.hi \in Nat /\ Spans(x, tables[x.num])
    <3>1. edit.files \in FileSets
      BY NumberTypes DEF Edits
    <3> QED BY <3>1 DEF FileSets, Metas, Ranged
  <2> HIDE DEF base, S, G
  <2>10. m.lo # 0 /\ S # 0 /\ (G < m.lo \/ m.hi < S) /\ m.lo <= m.hi
    BY <2>5, <2>8, <2>9, SMT DEF RangesOverlap, Spans
  <2>11. ASSUME NEW e \in E
         PROVE  /\ e.key \in Nat
                /\ \E x \in CompactionInputs :
                     x \in edit.files /\ 0 < x.lo /\ x.lo <= e.key /\ e.key <= x.hi
    <3>1. PICK n \in Nums(CompactionInputs) : e \in tables[n]
      OBVIOUS
    <3>2. PICK x \in CompactionInputs : n = x.num
      BY <3>1 DEF Nums
    <3>3. x \in edit.files
      BY <2>2, <2>4, <3>2 DEF AtLevel
    <3>4. n \in DOMAIN tables
      BY <3>2, <3>3 DEF IInv, FilesInv, Nums
    <3>5. tables[n] \in VersionSets
      BY <3>4 DEF IInv, TypeOK, MemoryTypeOK, IsDirectory
    <3>6. e.key \in Nat
      BY <3>1, <3>5, KeysAreNumbers DEF VersionSets, FiniteSubsets, Version, Versions
    <3> QED BY <2>9, <3>1, <3>2, <3>3, <3>6 DEF Spans
  <2>12. ASSUME NEW x \in CompactionInputs, x \in edit.files, 0 < x.lo, x \notin base
         PROVE  /\ x.lo <= G /\ S <= x.hi
                /\ x.hi < m.lo \/ m.hi < x.lo
    <3>1. x \in AtLevel(SourceLevel + 1) /\ RangesOverlap(x, S, G)
      BY <2>4, <2>12
    <3>2. x.lo <= G /\ S <= x.hi
      BY <2>9, <2>10, <2>12, <3>1, SMT DEF RangesOverlap
    <3>3. x.level = m.level /\ x # m
      BY <2>6, <2>12, <3>1 DEF AtLevel
    <3>4. m.level > 0
      BY <2>1, SMT
    <3>5. x \in Upper(edit.files) /\ m \in Upper(edit.files)
      BY <2>12, <3>3, <3>4 DEF Upper
    <3> QED BY <3>2, <3>3, <3>5 DEF Ranged, Apart
  <2> HIDE DEF E
  <2>14. CASE G < m.lo
    <3>1. ASSUME NEW x \in CompactionInputs, x \in edit.files, 0 < x.lo
          PROVE  x.hi < m.lo
      <4>1. CASE x \in base
        BY <2>5, <2>9, <2>14, <3>1, <4>1, SMT
      <4>2. CASE x \notin base
        <5>1. x.lo <= G /\ (x.hi < m.lo \/ m.hi < x.lo)
          BY <2>12, <3>1, <4>2
        <5> QED BY <2>5, <2>9, <2>10, <2>14, <3>1, <5>1, SMT
      <4> QED BY <4>1, <4>2
    <3>2. ASSUME NEW e \in E PROVE e.key < m.lo
      BY <2>9, <2>11, <3>1, <3>2, SMT
    <3> QED BY <2>9, <2>10, <3>2, SMT DEF Beside, E
  <2>15. CASE m.hi < S
    <3>1. ASSUME NEW x \in CompactionInputs, x \in edit.files, 0 < x.lo
          PROVE  m.hi < x.lo
      <4>1. CASE x \in base
        BY <2>5, <2>9, <2>15, <3>1, <4>1, SMT
      <4>2. CASE x \notin base
        <5>1. S <= x.hi /\ (x.hi < m.lo \/ m.hi < x.lo)
          BY <2>12, <3>1, <4>2
        <5> QED BY <2>5, <2>9, <2>10, <2>15, <3>1, <5>1, SMT
      <4> QED BY <4>1, <4>2
    <3>2. ASSUME NEW e \in E PROVE m.hi < e.key
      BY <2>9, <2>11, <3>1, <3>2, SMT
    <3> QED BY <2>9, <2>10, <3>2, SMT DEF Beside, E
  <2> QED BY <2>10, <2>14, <2>15
\* The log of an open database is intact.
<1>OpenLog.
  WellOrdered /\ IInv /\ TablesInv /\ ~closed =>
    /\ IntactPrefix(mtail) = mtail /\ TornRest(mtail) = <<>>
    /\ LoadedEdit = Replay(mbase, mtail)
  <2> SUFFICES ASSUME WellOrdered, IInv, TablesInv, ~closed
               PROVE  /\ IntactPrefix(mtail) = mtail /\ TornRest(mtail) = <<>>
                      /\ LoadedEdit = Replay(mbase, mtail)
    OBVIOUS
  <2>1. mtail \in Seq(Records) /\ NoneTorn(mtail)
    BY RangeTypes, Zenon DEF TablesInv
  <2> QED BY <2>1, IntactLogs, Zenon DEF LoadedEdit
\* The version that Load replays is one of those that a crash can bring back.
<1>LoadedReplays.
  ASSUME WellOrdered, IInv PROVE LoadedEdit.files \in Replays(mbase, mtail)
  <2> USE <1>LoadedReplays
  <2>1. mbase \in Edits /\ mtail \in Seq(Records)
    BY RangeTypes, Zenon
  <2> QED BY <2>1, <1>ReadBackReplays, Zenon DEF LoadedEdit
\* A save begins: its record drops the files that the version being saved has not,
\* and adds those that it has more than the current one.
<1>SaveRanges.
  ASSUME WellOrdered, IInv, IInv', TablesInv, TablesInv', PendingInv, ~closed, ~closed',
         NEW new, SaveAppends(new)
  PROVE  LET A == {m \in pending'.files : m.num \notin Nums(edit.files)}
             D == (Nums(edit.files) \ Nums(pending'.files)) \cup Nums(A)
         IN  /\ LoadedEdit'.files = {m \in LoadedEdit.files : m.num \notin D} \cup A
             /\ FilesBefore' = LoadedEdit.files
             /\ Replays(mbase', mtail') \subseteq Replays(mbase, mtail) \cup {LoadedEdit'.files}
  <2> USE <1>SaveRanges
  <2> USE Zenon
  <2> DEFINE r == BuildEditPayload(persisted, new)
             a == Append(mtail, r)
             n == Len(mtail)
  <2>1. pending' = new /\ mtail' = a /\ mbase' = mbase
    BY DEF SaveAppends
  <2>2. new \in Edits /\ persisted \in Edits /\ mbase \in Edits /\ mtail \in Seq(Records) /\ n \in Nat
    <3>1. pending' \in Edits
      BY DEF IInv, TypeOK, ThreadsTypeOK
    <3> QED BY <2>1, <3>1, RangeTypes
  <2>3. r \in Records
    BY <2>2, BuildEditPayloadType
  <2>4. persisted.files = edit.files
    BY DEF PendingInv
  <2>5. /\ r.add = {m \in pending'.files : m.num \notin Nums(edit.files)}
        /\ r.del = Nums(edit.files) \ Nums(pending'.files)
    BY <2>1, <2>4 DEF BuildEditPayload
  <2> HIDE DEF r
  <2>6. LoadedEdit = Replay(mbase, mtail)
    BY <1>OpenLog
  <2>7. LoadedEdit' = Replay(mbase', mtail')
    <3>1. (WellOrdered /\ IInv /\ TablesInv /\ ~closed)'
      BY DEF WellOrdered
    <3>2. (WellOrdered /\ IInv /\ TablesInv /\ ~closed => LoadedEdit = Replay(mbase, mtail))'
      BY <1>OpenLog, PTL
    <3> QED BY <3>1, <3>2
  <2>8. LoadedEdit'.files = {m \in LoadedEdit.files : m.num \notin Dropped(r)} \cup r.add
    BY <2>1, <2>2, <2>3, <2>6, <2>7, <1>ReplayAppend
  <2>9. FilesBefore' = LoadedEdit.files
    <3>1. Len(a) - 1 = n /\ SubSeq(a, 1, n) = mtail
      BY <2>2, <2>3, SMT
    <3>2. FilesBefore' = Replay(mbase', SubSeq(mtail', 1, Len(mtail') - 1)).files
      BY DEF FilesBefore
    <3> QED BY <2>1, <2>6, <3>1, <3>2
  <2>10. Replays(mbase, a) \subseteq Replays(mbase, mtail) \cup {Replay(mbase, a).files}
    BY <2>2, <2>3, <1>AppendReplays
  <2>11. Replays(mbase', mtail') \subseteq Replays(mbase, mtail) \cup {LoadedEdit'.files}
    BY <2>1, <2>7, <2>10
  <2> QED BY <2>5, <2>8, <2>9, <2>11 DEF Dropped
\* A switch of MemTables, and Close, save a version with the same files.
<1>SaveBeginsRanges.
  ASSUME WellOrdered, IInv, IInv', TablesInv, TablesInv', RangesInv,
         WriteSwitches \/ CloseSaves
  PROVE  RangesInv'
  <2> USE <1>SaveBeginsRanges
  <2> USE Zenon
  <2>1. /\ ~closed /\ ~closed' /\ mu' \in {"rotate", "close"} /\ mu \notin {"compact", "flush"}
        /\ UNCHANGED <<ssts, tables, bgError, persisted, worker, comp>>
        /\ edit' \in {edit, AppliedEdit}
    BY DEF WriteSwitches, CloseSaves, Joined, memory, IInv, ControlInv
  <2>2. edit \in Edits /\ edit'.files = edit.files
    <3>1. edit \in Edits
      BY RangeTypes
    <3>2. AppliedEdit.files = edit.files
      BY <3>1 DEF AppliedEdit, Edits
    <3> QED BY <2>1, <3>1, <3>2
  <2>3. PICK new : SaveAppends(new) /\ new.files = edit.files
    <3>1. CASE WriteSwitches
      <4> DEFINE a == AppliedEdit
                 new == [a EXCEPT !.next = @ + 1]
      <4>1. new.files = edit.files
        BY <2>2 DEF AppliedEdit, Edits
      <4> QED BY <3>1, <4>1 DEF WriteSwitches
    <3>2. CASE CloseSaves
      <4>1. [edit EXCEPT !.next = @ + 1, !.wal = edit.next].files = edit.files
        BY <2>2 DEF Edits
      <4> QED BY <3>2, <4>1 DEF CloseSaves
    <3> QED BY <3>1, <3>2
  <2>4. pending'.files = edit.files
    BY <2>3 DEF SaveAppends
  <2>5. /\ LoadedEdit'.files = LoadedEdit.files /\ FilesBefore' = LoadedEdit.files
        /\ Replays(mbase', mtail') \subseteq Replays(mbase, mtail) \cup {LoadedEdit'.files}
    <3> DEFINE A == {m \in pending'.files : m.num \notin Nums(edit.files)}
               D == (Nums(edit.files) \ Nums(pending'.files)) \cup Nums(A)
    <3>1. A = {} /\ D = {}
      BY <2>4 DEF Nums
    <3>2. /\ LoadedEdit'.files = {m \in LoadedEdit.files : m.num \notin D} \cup A
          /\ FilesBefore' = LoadedEdit.files
          /\ Replays(mbase', mtail') \subseteq Replays(mbase, mtail) \cup {LoadedEdit'.files}
      BY <2>1, <2>3, <1>SaveRanges DEF RangesInv
    <3> HIDE DEF A, D
    <3> QED BY <3>1, <3>2
  <2>6. Replays(mbase', mtail') \subseteq Replays(mbase, mtail)
    BY <2>5, <1>LoadedReplays
  <2>7. RangedInv'
    BY <2>1, <2>2, <2>6 DEF RangesInv, RangedInv, CompactionOutput
  <2>8. PendingInv'
    BY <2>1, <2>2, <2>4 DEF RangesInv, PendingInv
  <2>9. UpperInv'
    BY <2>1, <2>2, <2>5 DEF RangesInv, UpperInv, Compacting
  <2>10. BesideInv'
    BY <2>1, <2>2 DEF RangesInv, BesideInv, Compacting
  <2> QED BY <2>7, <2>8, <2>9, <2>10 DEF RangesInv
\* The worker saves a version with its table, which goes to level 0.
<1>FlushPublishesRanges.
  ASSUME WellOrdered, IInv, IInv', NumbersInv, TablesInv, TablesInv', RangesInv,
         FlushPublishes
  PROVE  RangesInv'
  <2> USE <1>FlushPublishesRanges
  <2> USE Zenon
  <2> DEFINE o == MetaOf(worker.num, 0, worker.ents)
  <2>1. /\ worker.pc = "publish" /\ mu = "free" /\ mu' = "flush" /\ ~closed /\ ~closed'
        /\ UNCHANGED <<ssts, tables, bgError, edit, persisted, worker, comp>>
    BY DEF FlushPublishes, memory, IInv, ControlInv
  <2>2. worker.num \in Nat /\ worker.ents \in VersionSets /\ edit \in Edits
    BY RangeTypes
  <2>3. PICK new : SaveAppends(new) /\ new.files = edit.files \cup {o}
    <3> DEFINE f == edit.files \cup {o}
               e == [edit EXCEPT !.files = f, !.wal = NextLiveWAL]
    <3>1. SaveAppends(e)
      BY DEF FlushPublishes
    <3> HIDE DEF f
    <3>2. e.files = f
      BY <2>2 DEF Edits
    <3> QED BY <3>1, <3>2 DEF f
  <2>4. o.num = worker.num /\ o.level = 0 /\ Spans(o, worker.ents)
    <3>1. 0 \in 0..2
      BY SMT
    <3> QED BY <2>2, <3>1, <1>MetaBounds, SMT
  <2> HIDE DEF o
  <2>5. pending'.files = edit.files \cup {o}
    BY <2>3 DEF SaveAppends
  <2>6. worker.num \notin Nums(edit.files) /\ ssts[worker.num] = worker.ents
    BY <2>1 DEF NumbersInv, RangesInv, RangedInv
  <2>7. /\ LoadedEdit'.files = {m \in LoadedEdit.files : m.num # worker.num} \cup {o}
        /\ FilesBefore' = LoadedEdit.files
        /\ Replays(mbase', mtail') \subseteq Replays(mbase, mtail) \cup {LoadedEdit'.files}
    <3> DEFINE A == {m \in pending'.files : m.num \notin Nums(edit.files)}
               D == (Nums(edit.files) \ Nums(pending'.files)) \cup Nums(A)
    <3>1. A = {o}
      BY <2>4, <2>5, <2>6 DEF Nums
    <3>2. D = {worker.num}
      BY <2>4, <2>5, <3>1 DEF Nums
    <3>3. /\ LoadedEdit'.files = {m \in LoadedEdit.files : m.num \notin D} \cup A
          /\ FilesBefore' = LoadedEdit.files
          /\ Replays(mbase', mtail') \subseteq Replays(mbase, mtail) \cup {LoadedEdit'.files}
      BY <2>1, <2>3, <1>SaveRanges DEF RangesInv
    <3> HIDE DEF A, D
    <3>4. {m \in LoadedEdit.files : m.num \notin D} = {m \in LoadedEdit.files : m.num # worker.num}
      BY <3>2
    <3> QED BY <3>1, <3>3, <3>4
  <2>8. \A m : m \in Upper(LoadedEdit'.files) <=> m \in Upper(LoadedEdit.files) /\ m.num # worker.num
    BY <2>4, <2>7, SMT DEF Upper
  <2>9. Ranged(LoadedEdit.files, ssts)
    BY <1>LoadedReplays DEF RangesInv, RangedInv
  <2>10. Ranged(LoadedEdit'.files, ssts)
    <3>1. Apart(LoadedEdit'.files)
      BY <2>8, <2>9, <1>FewerApart DEF Ranged
    <3>2. ASSUME NEW m \in LoadedEdit'.files PROVE Spans(m, ssts[m.num])
      BY <2>4, <2>6, <2>7, <2>9, <3>2 DEF Ranged
    <3> QED BY <3>1, <3>2 DEF Ranged
  <2>11. RangedInv'
    BY <2>1, <2>7, <2>10 DEF RangesInv, RangedInv, CompactionOutput
  <2>12. PendingInv'
    BY <2>1, <2>5 DEF RangesInv, PendingInv, o
  <2>13. UpperInv'
    <3> SUFFICES ASSUME Compacting' \/ ~bgError'
                 PROVE  /\ Upper(LoadedEdit'.files) = Upper(edit.files)
                        /\ Upper(FilesBefore') = Upper(edit.files)
      BY <2>1 DEF UpperInv
    <3>1. Upper(LoadedEdit.files) = Upper(edit.files)
      BY <2>1 DEF RangesInv, UpperInv, Compacting
    <3>2. \A m \in Upper(edit.files) : m.num # worker.num
      BY <2>6 DEF Nums, Upper
    <3> QED BY <2>7, <2>8, <3>1, <3>2
  <2>14. BesideInv'
    BY <2>1 DEF RangesInv, BesideInv, Compacting
  <2> QED BY <2>11, <2>12, <2>13, <2>14 DEF RangesInv
\* The output of a compaction is a part of what it reads.
<1>OutputFacts.
  ASSUME IInv PROVE CompactionOutput \in VersionSets /\ CompactionOutput \subseteq comp.ents
  <2> USE <1>OutputFacts
  <2> USE Zenon
  <2>1. CompactionOutput \in VersionSets
    BY RangeTypes, RetainedType DEF CompactionOutput
  <2>2. CompactionOutput \subseteq comp.ents
    BY DEF CompactionOutput, Retained, KeepLatest, KeepForSnapshots
  <2> QED BY <2>1, <2>2
\* The files of the version that a compaction publishes are apart, and its output has
\* the range that its metadata says.
<1>CompactedRanges.
  ASSUME WellOrdered, IInv, NumbersInv, RangesInv, comp.stage = "publish"
  PROVE  LET o == MetaOf(comp.num, comp.level, CompactionOutput)
         IN  /\ o.num = comp.num /\ o.level = comp.level /\ Spans(o, CompactionOutput)
             /\ comp.num \notin Nums(edit.files) /\ comp.inputs \subseteq Nums(edit.files)
             /\ comp.level > 0
             /\ ~closed
             /\ Apart({m \in edit.files : m.num \notin comp.inputs} \cup {o})
  <2> USE <1>CompactedRanges
  <2> USE Zenon
  <2>1. /\ comp.num \in Nat /\ comp.level \in 0..2 /\ edit.files \in SUBSET Metas
        /\ CompactionOutput \in VersionSets /\ CompactionOutput \subseteq comp.ents
    BY RangeTypes, <1>OutputFacts
  <2>2. /\ comp.num \notin Nums(edit.files) /\ comp.inputs \subseteq Nums(edit.files)
        /\ ~closed
    BY DEF NumbersInv, IInv, ChecksInv, InputsUnchanged
  <2>3. /\ comp.level > 0
        /\ \A m \in edit.files : m.level = comp.level /\ m.num \notin comp.inputs
                                   => Beside(m, comp.ents)
    BY DEF RangesInv, BesideInv, Compacting
  <2>4. Apart(edit.files)
    BY <2>2 DEF RangesInv, RangedInv, Ranged
  <2>5. Apart({m \in edit.files : m.num \notin comp.inputs}
                \cup {MetaOf(comp.num, comp.level, CompactionOutput)})
    BY <2>1, <2>3, <2>4, <1>OutputApart
  <2> DEFINE o == MetaOf(comp.num, comp.level, CompactionOutput)
  <2>6. o.num = comp.num /\ o.level = comp.level /\ Spans(o, CompactionOutput)
    <3> HIDE DEF o
    <3>1. LET m == MetaOf(comp.num, comp.level, CompactionOutput)
          IN  m.num = comp.num /\ m.level = comp.level /\ Spans(m, CompactionOutput)
      BY <2>1, <1>MetaBounds, SMT
    <3> QED BY <3>1 DEF o
  <2> QED BY <2>2, <2>3, <2>5, <2>6
\* A compaction saves a version with its output instead of its inputs.
<1>CompactionPublishesRanges.
  ASSUME WellOrdered, IInv, IInv', NumbersInv, TablesInv, TablesInv', RangesInv,
         CompactionPublishes
  PROVE  RangesInv'
  <2> USE <1>CompactionPublishesRanges
  <2> USE Zenon
  <2> DEFINE o == MetaOf(comp.num, comp.level, CompactionOutput)
             P == {m \in edit.files : m.num \notin comp.inputs} \cup {o}
  <2>1. /\ comp.stage = "publish" /\ mu = "free" /\ mu' = "compact" /\ ~closed /\ ~closed'
        /\ UNCHANGED <<ssts, tables, bgError, edit, persisted, worker, comp>>
    BY DEF CompactionPublishes, memory, InputsUnchanged
  <2>2. /\ o.num = comp.num /\ o.level = comp.level /\ Spans(o, CompactionOutput)
        /\ comp.num \notin Nums(edit.files) /\ comp.inputs \subseteq Nums(edit.files)
        /\ comp.level > 0 /\ Apart(P) /\ ssts[comp.num] = CompactionOutput
    BY <2>1, <1>CompactedRanges DEF RangesInv, RangedInv
  <2>3. PICK new : SaveAppends(new) /\ new.files = P
    <3> DEFINE e == [edit EXCEPT !.files = P]
    <3>1. SaveAppends(e)
      BY DEF CompactionPublishes
    <3>2. edit \in Edits
      BY RangeTypes
    <3> HIDE DEF P
    <3>3. e.files = P
      BY <3>2 DEF Edits
    <3> QED BY <3>1, <3>3
  <2> HIDE DEF o
  <2>4. pending'.files = P
    BY <2>3 DEF SaveAppends
  <2>5. \A x : x \in Nums(P) <=> (x \in Nums(edit.files) /\ x \notin comp.inputs) \/ x = comp.num
    BY <2>2 DEF Nums
  <2>6. /\ LoadedEdit'.files
             = {m \in LoadedEdit.files : m.num \notin comp.inputs \cup {comp.num}} \cup {o}
        /\ Replays(mbase', mtail') \subseteq Replays(mbase, mtail) \cup {LoadedEdit'.files}
    <3> DEFINE A == {m \in pending'.files : m.num \notin Nums(edit.files)}
               D == (Nums(edit.files) \ Nums(pending'.files)) \cup Nums(A)
    <3>1. A = {o}
      BY <2>2, <2>4 DEF Nums
    <3>2. D = comp.inputs \cup {comp.num}
      <4>1. Nums(A) = {comp.num}
        BY <2>2, <3>1 DEF Nums
      <4> HIDE DEF A, P
      <4> QED BY <2>2, <2>4, <2>5, <4>1
    <3>3. /\ LoadedEdit'.files = {m \in LoadedEdit.files : m.num \notin D} \cup A
          /\ Replays(mbase', mtail') \subseteq Replays(mbase, mtail) \cup {LoadedEdit'.files}
      BY <2>1, <2>3, <1>SaveRanges DEF RangesInv
    <3> HIDE DEF A, D
    <3> QED BY <3>1, <3>2, <3>3
  <2>7. Upper(LoadedEdit.files) = Upper(edit.files)
    BY <2>1 DEF RangesInv, UpperInv, Compacting
  <2>8. Upper(LoadedEdit'.files) = Upper(P)
    <3>1. \A m : m \in Upper(LoadedEdit'.files) <=>
                   \/ m \in Upper(LoadedEdit.files) /\ m.num \notin comp.inputs \cup {comp.num}
                   \/ m = o /\ o.level > 0
      BY <2>6, SMT DEF Upper
    <3>2. \A m : m \in Upper(P) <=> \/ m \in Upper(edit.files) /\ m.num \notin comp.inputs
                                    \/ m = o /\ o.level > 0
      BY SMT DEF Upper
    <3>3. \A m \in Upper(edit.files) : m.num # comp.num
      BY <2>2 DEF Nums, Upper
    <3> HIDE DEF P
    <3> QED BY <2>7, <3>1, <3>2, <3>3
  <2>9. Ranged(LoadedEdit'.files, ssts)
    <3>1. Apart(LoadedEdit'.files)
      <4> HIDE DEF P
      <4> QED BY <2>2, <2>8, <1>FewerApart
    <3>2. Ranged(LoadedEdit.files, ssts)
      BY <1>LoadedReplays DEF RangesInv, RangedInv
    <3>3. ASSUME NEW m \in LoadedEdit'.files PROVE Spans(m, ssts[m.num])
      BY <2>2, <2>6, <3>2, <3>3 DEF Ranged
    <3> QED BY <3>1, <3>3 DEF Ranged
  <2>10. RangedInv'
    BY <2>1, <2>6, <2>9 DEF RangesInv, RangedInv, CompactionOutput
  <2>11. PendingInv'
    BY <2>1, <2>4 DEF RangesInv, PendingInv, o, CompactionOutput
  <2>12. UpperInv'
    BY <2>1, <2>4, <2>8 DEF UpperInv
  <2>13. BesideInv'
    BY <2>1 DEF RangesInv, BesideInv, Compacting
  <2> QED BY <2>10, <2>11, <2>12, <2>13 DEF RangesInv
\* A save is over: the manifest replays to the version that it had with the record,
\* and that one is the current one.
<1>SavedRanges.
  ASSUME WellOrdered, IInv, TablesInv, Saving, SaveSucceeds
  PROVE  /\ LoadedEdit'.files = LoadedEdit.files
         /\ Replays(mbase', mtail') \subseteq Replays(mbase, mtail)
         /\ edit' = pending /\ persisted' = pending
  <2> USE <1>SavedRanges
  <2> USE Zenon
  <2>1. ~closed
    BY DEF Saving, IInv, ControlInv
  <2>2. /\ IntactPrefix(mtail) = mtail /\ TornRest(mtail) = <<>>
        /\ LoadedEdit = Replay(mbase, mtail)
    BY <2>1, <1>OpenLog
  <2>3. mbase' = LoadedEdit /\ mtail' = <<>> /\ edit' = pending /\ persisted' = pending
    BY <2>2 DEF SaveSucceeds
  <2>4. mbase \in Edits /\ mtail \in Seq(Records)
    BY RangeTypes
  <2>5. Replays(LoadedEdit, <<>>) = {LoadedEdit.files} /\ LoadedEdit.files \in Replays(mbase, mtail)
    BY <2>4, <1>ReadBackReplays DEF LoadedEdit
  <2>6. IntactPrefix(<<>>) = <<>>
    <3>1. <<>> \in Seq(Records) /\ NoneTorn(<<>>)
      BY SMT DEF NoneTorn
    <3> QED BY <3>1, IntactLogs
  <2>7. LoadedEdit' = Replay(mbase', IntactPrefix(mtail'))
    BY DEF LoadedEdit
  <2>8. LoadedEdit'.files = LoadedEdit.files
    BY <2>3, <2>6, <2>7, ReplayNothing
  <2> QED BY <2>3, <2>5, <2>8
\* A switch of MemTables or Close has saved its version.
<1>SameFilesSavedRanges.
  ASSUME WellOrdered, IInv, TablesInv, RangesInv, RotateSucceeds \/ CloseSaved
  PROVE  RangesInv'
  <2> USE <1>SameFilesSavedRanges
  <2> USE Zenon
  <2>1. /\ mu \in {"rotate", "close"} /\ Saving /\ SaveSucceeds /\ mu' \in {"free", "purge"}
        /\ UNCHANGED <<ssts, closed, bgError, tables, worker, comp>> /\ ~closed
    BY DEF RotateSucceeds, CloseSaved, Saving, IInv, ControlInv
  <2>2. /\ LoadedEdit'.files = LoadedEdit.files
        /\ Replays(mbase', mtail') \subseteq Replays(mbase, mtail)
        /\ edit'.files = edit.files /\ persisted'.files = edit.files
    BY <2>1, <1>SavedRanges DEF RangesInv, PendingInv
  <2>3. mu' \notin {"rotate", "flush", "compact", "close"}
    BY <2>1, SMT
  <2>4. RangedInv'
    BY <2>1, <2>2 DEF RangesInv, RangedInv, CompactionOutput
  <2>5. PendingInv'
    BY <2>2, <2>3 DEF PendingInv
  <2>6. UpperInv'
    BY <2>1, <2>2, <2>3 DEF RangesInv, UpperInv, Compacting
  <2>7. BesideInv'
    BY <2>1, <2>2 DEF RangesInv, BesideInv, Compacting
  <2> QED BY <2>4, <2>5, <2>6, <2>7 DEF RangesInv
\* A flush has saved its version: its table is in level 0.
<1>FlushSucceedsRanges.
  ASSUME WellOrdered, IInv, NumbersInv, TablesInv, RangesInv, FlushSucceeds
  PROVE  RangesInv'
  <2> USE <1>FlushSucceedsRanges
  <2> USE Zenon
  <2> DEFINE o == MetaOf(worker.num, 0, worker.ents)
  <2>1. /\ mu = "flush" /\ Saving /\ SaveSucceeds /\ mu' = "free" /\ ~closed
        /\ UNCHANGED <<ssts, closed, bgError, comp>> /\ worker'.pc = "compact"
        /\ tables' = Created(tables, worker.num, worker.ents) /\ worker.pc = "publish"
    BY DEF FlushSucceeds, Saving, IInv, ControlInv, IdleWorker
  <2>2. o.num = worker.num /\ o.level = 0 /\ Spans(o, worker.ents)
    <3>1. 0 \in 0..2 /\ worker.num \in Nat /\ worker.ents \in VersionSets
      BY RangeTypes, SMT
    <3> QED BY <3>1, <1>MetaBounds, SMT
  <2> HIDE DEF o
  <2>3. /\ LoadedEdit'.files = LoadedEdit.files
        /\ Replays(mbase', mtail') \subseteq Replays(mbase, mtail)
        /\ edit'.files = edit.files \cup {o} /\ persisted'.files = edit'.files
    BY <2>1, <1>SavedRanges DEF RangesInv, PendingInv, o
  <2>4. worker.num \notin Nums(edit.files) /\ Nums(edit.files) = DOMAIN tables
    BY <2>1 DEF NumbersInv, IInv, FilesInv
  <2>5. /\ \A m \in edit.files : tables'[m.num] = tables[m.num]
        /\ tables'[worker.num] = worker.ents
    BY <2>1, <2>4 DEF Created, Nums
  <2>6. Upper(edit'.files) = Upper(edit.files)
    BY <2>2, <2>3, SMT DEF Upper
  <2>7. Ranged(edit'.files, tables')
    <3>1. Ranged(edit.files, tables)
      BY <2>1 DEF RangesInv, RangedInv
    <3>2. Apart(edit'.files)
      BY <2>6, <3>1, <1>FewerApart DEF Ranged
    <3>3. ASSUME NEW m \in edit'.files PROVE Spans(m, tables'[m.num])
      BY <2>2, <2>3, <2>5, <3>1, <3>3 DEF Ranged
    <3> QED BY <3>2, <3>3 DEF Ranged
  <2>8. RangedInv'
    BY <2>1, <2>3, <2>7 DEF RangesInv, RangedInv, CompactionOutput
  <2>9. PendingInv'
    BY <2>1, <2>3 DEF PendingInv
  <2>10. UpperInv'
    BY <2>1, <2>3, <2>6 DEF RangesInv, UpperInv, Compacting
  <2>11. BesideInv'
    <3> SUFFICES ASSUME Compacting'
                 PROVE  /\ comp.level > 0
                        /\ \A m \in edit'.files : m.level = comp.level /\ m.num \notin comp.inputs
                                                    => Beside(m, comp.ents)
      BY <2>1 DEF BesideInv
    <3>1. /\ comp.level > 0
          /\ \A m \in edit.files : m.level = comp.level /\ m.num \notin comp.inputs
                                     => Beside(m, comp.ents)
      BY <2>1 DEF RangesInv, BesideInv, Compacting
    <3>2. o.level # comp.level
      BY <2>2, <3>1, SMT
    <3> QED BY <2>3, <3>1, <3>2
  <2> QED BY <2>8, <2>9, <2>10, <2>11 DEF RangesInv
\* A compaction has saved its version.
<1>CompactionSucceedsRanges.
  ASSUME WellOrdered, IInv, NumbersInv, TablesInv, RangesInv, CompactionSucceeds
  PROVE  RangesInv'
  <2> USE <1>CompactionSucceedsRanges
  <2> USE Zenon
  <2> DEFINE o == MetaOf(comp.num, comp.level, CompactionOutput)
             P == {m \in edit.files : m.num \notin comp.inputs} \cup {o}
  <2>1. /\ mu = "compact" /\ Saving /\ SaveSucceeds /\ mu' = "free" /\ comp.stage = "publish"
        /\ UNCHANGED <<ssts, closed, bgError, worker>>
        /\ comp' = [comp EXCEPT !.stage = "remove"]
        /\ tables' = Created(Restricted(tables, DOMAIN tables \ comp.inputs), comp.num,
                             CompactionOutput)
    BY DEF CompactionSucceeds, Saving, IInv, ControlInv
  <2>2. /\ o.num = comp.num /\ o.level = comp.level /\ Spans(o, CompactionOutput)
        /\ comp.num \notin Nums(edit.files) /\ Apart(P) /\ ~closed
    BY <2>1, <1>CompactedRanges
  <2>3. comp'.stage = "remove"
    BY <2>1, RangeTypes DEF Compactions
  <2>4. /\ LoadedEdit'.files = LoadedEdit.files
        /\ Replays(mbase', mtail') \subseteq Replays(mbase, mtail)
        /\ edit'.files = P /\ persisted'.files = P /\ pending.files = P
    BY <2>1, <1>SavedRanges DEF RangesInv, PendingInv
  <2> HIDE DEF o
  <2>5. Nums(edit.files) = DOMAIN tables
    BY <2>2 DEF IInv, FilesInv
  <2>6. /\ \A m \in edit.files : m.num \notin comp.inputs => tables'[m.num] = tables[m.num]
        /\ tables'[comp.num] = CompactionOutput
    BY <2>1, <2>2, <2>5 DEF Created, Restricted, Nums
  <2>7. Ranged(P, tables')
    <3>1. Ranged(edit.files, tables)
      BY <2>2 DEF RangesInv, RangedInv
    <3>2. ASSUME NEW m \in P PROVE Spans(m, tables'[m.num])
      BY <2>2, <2>6, <3>1, <3>2 DEF Ranged
    <3> QED BY <2>2, <3>2 DEF Ranged
  <2> HIDE DEF P
  <2>8. RangedInv'
    BY <2>1, <2>3, <2>4, <2>7 DEF RangesInv, RangedInv
  <2>9. PendingInv'
    BY <2>1, <2>4 DEF PendingInv
  <2>10. UpperInv'
    BY <2>1, <2>2, <2>4 DEF RangesInv, UpperInv, Compacting
  <2>11. BesideInv'
    BY <2>3 DEF BesideInv, Compacting
  <2> QED BY <2>8, <2>9, <2>10, <2>11 DEF RangesInv
\* What a failed save leaves: the log with or without its last record.
<1>SaveLeavesRanges.
  ASSUME WellOrdered, IInv, TablesInv, Saving, "torn" \notin SaveFailures,
         NEW how \in SaveFailures
  PROVE  LET l == SaveLeaves(how)
         IN  /\ Replays(mbase, l) \subseteq Replays(mbase, mtail)
             /\ Replay(mbase, IntactPrefix(l)).files \in {LoadedEdit.files, FilesBefore}
  <2> USE <1>SaveLeavesRanges
  <2> USE Zenon
  <2> DEFINE n == Len(mtail)
             s == SubSeq(mtail, 1, n - 1)
  <2>1. mtail \in Seq(Records) /\ n \in Nat /\ n > 0
    BY RangeTypes DEF IInv, ManifestInv
  <2>2. ~closed
    BY DEF Saving, IInv, ControlInv
  <2>3. NoneTorn(mtail)
    BY <2>2 DEF TablesInv
  <2>4. how = "none" \/ how = "full"
    BY FailuresAreKnown
  <2>5. CASE how = "none"
    <3>1. SaveLeaves(how) = s
      BY <2>5 DEF SaveLeaves
    <3>2. n - 1 \in 0..Len(mtail) /\ n - 1 <= Len(mtail) /\ n - 1 \in Nat
      BY <2>1, SMT
    <3>3. /\ s \in Seq(Records) /\ Len(s) = n - 1 /\ DOMAIN s = 1..(n - 1)
          /\ \A i \in 1..(n - 1) : i \in DOMAIN mtail /\ s[i] = mtail[i]
      BY <2>1, <3>2, <1>FirstRecords
    <3>4. NoneTorn(s)
      BY <2>3, <3>3 DEF NoneTorn
    <3> HIDE DEF s
    <3>5. IntactPrefix(s) = s
      BY <3>3, <3>4, IntactLogs
    <3>6. Replays(mbase, s) \subseteq Replays(mbase, mtail)
      BY <2>1, <3>2, <3>3, <3>5, <1>FewerReplays
    <3> QED BY <3>1, <3>5, <3>6 DEF FilesBefore, s
  <2>6. CASE how = "full"
    <3>1. SaveLeaves(how) = mtail
      BY <2>6 DEF SaveLeaves
    <3> QED BY <3>1 DEF LoadedEdit
  <2> QED BY <2>4, <2>5, <2>6
\* A save of a database that goes on has failed.
<1>SaveFailsRanges.
  ASSUME WellOrdered, IInv, TablesInv, RangesInv, "torn" \notin SaveFailures,
         RotateFails \/ FlushFails \/ CompactionFails
  PROVE  RangesInv'
  <2> USE <1>SaveFailsRanges
  <2> USE Zenon
  <2>1. /\ Saving /\ SaveFails /\ UNCHANGED <<ssts, closed, tables>> /\ ~closed
        /\ mu' = "free" /\ bgError' /\ UNCHANGED <<mbase, edit, persisted>>
    BY DEF RotateFails, FlushFails, CompactionFails, SaveFails, Saving, IInv, ControlInv
  <2>2. PICK how \in SaveFailures : mtail' = SaveLeaves(how)
    BY <2>1 DEF SaveFails
  <2>3. /\ Replays(mbase', mtail') \subseteq Replays(mbase, mtail)
        /\ LoadedEdit'.files \in {LoadedEdit.files, FilesBefore}
    <3>1. LoadedEdit' = Replay(mbase', IntactPrefix(mtail'))
      BY DEF LoadedEdit
    <3> QED BY <2>1, <2>2, <3>1, <1>SaveLeavesRanges
  <2>4. worker'.pc \in {"build", "publish"} => worker' = worker
    BY CompactionEndsBuildsNothing DEF RotateFails, FlushFails, CompactionFails, IdleWorker
  <2>5. Compacting' \/ comp'.stage = "publish" => comp' = comp /\ mu \in {"rotate", "flush"}
    <3>1. CASE RotateFails \/ FlushFails
      BY <3>1 DEF RotateFails, FlushFails
    <3>2. CASE CompactionFails
      <4>1. comp'.stage = "idle"
        BY <3>2 DEF CompactionFails, CompactionEnds, NoCompaction
      <4> QED BY <4>1 DEF Compacting
    <3> QED BY <3>1, <3>2
  <2>6. RangedInv'
    BY <2>1, <2>3, <2>4, <2>5 DEF RangesInv, RangedInv, CompactionOutput
  <2>7. PendingInv'
    BY <2>1 DEF RangesInv, PendingInv
  <2>8. UpperInv'
    <3> SUFFICES ASSUME Compacting' PROVE Upper(LoadedEdit'.files) = Upper(edit.files)
      BY <2>1 DEF UpperInv
    <3>1. /\ Upper(LoadedEdit.files) = Upper(edit.files)
          /\ Upper(FilesBefore) = Upper(edit.files)
      BY <2>1, <2>5 DEF RangesInv, UpperInv, Compacting
    <3> QED BY <2>3, <3>1
  <2>9. BesideInv'
    BY <2>1, <2>5 DEF RangesInv, BesideInv, Compacting
  <2> QED BY <2>6, <2>7, <2>8, <2>9 DEF RangesInv
\* In a closed database only the manifest says anything about files.
<1>ResetRanges.
  ASSUME RangesInv, ResetMemory, ssts' = ssts,
         Replays(mbase', mtail') \subseteq Replays(mbase, mtail)
  PROVE  RangesInv'
  <2> USE <1>ResetRanges
  <2> USE Zenon
  <2>1. closed' /\ mu' = "free" /\ worker'.pc = "off" /\ comp'.stage = "idle"
    BY DEF ResetMemory, IdleWorker, NoCompaction
  <2>2. RangedInv'
    BY <2>1 DEF RangesInv, RangedInv
  <2> QED BY <2>1, <2>2 DEF RangesInv, PendingInv, UpperInv, BesideInv, Compacting
\* Close ends: without a save, with one that failed, or after it removed WAL files.
<1>CloseRanges.
  ASSUME WellOrdered, IInv, TablesInv, RangesInv, "torn" \notin SaveFailures,
         CloseEnds \/ CloseSaveFails \/ ClosePurges \/ ClosePurgeFails
  PROVE  RangesInv'
  <2> USE <1>CloseRanges
  <2> USE Zenon
  <2>1. ResetMemory /\ ssts' = ssts /\ mbase' = mbase
    BY DEF CloseEnds, CloseSaveFails, ClosePurges, ClosePurgeFails, disk
  <2>2. CASE mtail' = mtail
    BY <2>1, <2>2, <1>ResetRanges
  <2>3. CASE CloseSaveFails
    <3>1. PICK how \in SaveFailures : mtail' = SaveLeaves(how)
      BY <2>3 DEF CloseSaveFails
    <3>2. Saving
      BY <2>3 DEF CloseSaveFails, Saving
    <3>3. Replays(mbase', mtail') \subseteq Replays(mbase, mtail)
      BY <2>1, <3>1, <3>2, <1>SaveLeavesRanges
    <3> QED BY <2>1, <3>3, <1>ResetRanges
  <2> QED BY <2>2, <2>3 DEF CloseEnds, ClosePurges, ClosePurgeFails, disk
\* A power failure.
<1>CrashRanges. ASSUME WellOrdered, IInv, RangesInv, Crash PROVE RangesInv'
  <2> USE <1>CrashRanges
  <2> USE Zenon
  <2>1. mbase \in Edits /\ mtail \in Seq(Records) /\ msynced \in Nat
    BY DEF IInv, TypeOK, DiskTypeOK
  <2>2. PICK n \in msynced..Len(mtail), torn \in BOOLEAN :
          LET log == SubSeq(mtail, 1, n) \o IF torn THEN <<Tear(mtail[n + 1])>> ELSE <<>>
          IN  /\ torn => n < Len(mtail)
              /\ mbase' = Replay(mbase, IntactPrefix(log))
              /\ mtail' = TornRest(log)
    BY DEF Crash
  <2> DEFINE log == SubSeq(mtail, 1, n) \o IF torn THEN <<Tear(mtail[n + 1])>> ELSE <<>>
  <2>3. n \in 0..Len(mtail)
    BY <2>1, SMT
  <2>4. log \in Seq(Records) /\ Replays(mbase, log) \subseteq Replays(mbase, mtail)
    BY <2>1, <2>2, <2>3, <1>CrashReplays
  <2>5. mbase' = Replay(mbase, IntactPrefix(log)) /\ mtail' = TornRest(log)
    BY <2>2
  <2> HIDE DEF log
  <2>6. Replays(mbase', mtail') \subseteq Replays(mbase, log)
    <3>1. /\ mbase'.files \in Replays(mbase, log)
          /\ Replays(mbase', mtail') = {mbase'.files}
      BY <2>1, <2>4, <2>5, <1>ReadBackReplays
    <3> QED BY <3>1
  <2>7. ResetMemory /\ ssts' = ssts
    BY DEF Crash
  <2> QED BY <2>4, <2>6, <2>7, <1>ResetRanges
\* Reading the manifest back, as Open does.
<1>LoadRanges.
  ASSUME WellOrdered, IInv, LoadManifest
  PROVE  /\ Replays(mbase', mtail') \subseteq Replays(mbase, mtail)
         /\ LoadedEdit'.files = LoadedEdit.files
  <2> USE <1>LoadRanges
  <2> USE Zenon
  <2>1. mbase \in Edits /\ mtail \in Seq(Records)
    BY RangeTypes
  <2>2. LoadedEdit' = Replay(mbase', IntactPrefix(mtail'))
    BY DEF LoadedEdit
  <2>3. CASE TornRest(mtail) = <<>>
    BY <2>2, <2>3 DEF LoadManifest, LoadedEdit
  <2>4. CASE TornRest(mtail) # <<>>
    <3>1. mbase' = LoadedEdit /\ mtail' = <<>>
      BY <2>4 DEF LoadManifest
    <3>2. Replays(LoadedEdit, <<>>) = {LoadedEdit.files} /\ LoadedEdit.files \in Replays(mbase, mtail)
      BY <2>1, <1>ReadBackReplays DEF LoadedEdit
    <3>3. IntactPrefix(<<>>) = <<>>
      <4>1. <<>> \in Seq(Records) /\ NoneTorn(<<>>)
        BY SMT DEF NoneTorn
      <4> QED BY <4>1, IntactLogs
    <3>4. LoadedEdit'.files = LoadedEdit.files
      BY <2>2, <3>1, <3>3, ReplayNothing
    <3> QED BY <3>1, <3>2, <3>4
  <2> QED BY <2>3, <2>4
\* Open starts with the version that the manifest replays to.
<1>OpenRanges. ASSUME WellOrdered, IInv, RangesInv, Open PROVE RangesInv'
  <2> USE <1>OpenRanges
  <2> USE Zenon
  <2> DEFINE e == LoadedEdit
  <2>1. /\ comp = NoCompaction /\ comp' = comp /\ ssts' = ssts /\ worker'.pc = "wait"
        /\ mu' = "free" /\ tables' = [n \in Nums(e.files) |-> ssts[n]] /\ LoadManifest
    BY DEF Open, IInv, ControlInv, IdleWorker
  <2>2. persisted'.files = e.files /\ edit'.files = e.files
    <3> DEFINE a == Max({e.next, MaxSeenFileNumber + 1})
               b == RecoveredLast(wals, e)
    <3>1. /\ mbase \in Edits /\ mtail \in Seq(Records)
          /\ mbase.wal < mbase.next /\ \A i \in DOMAIN mtail : mtail[i].wal < mtail[i].next
      BY DEF IInv, TypeOK, DiskTypeOK, ManifestInv
    <3>2. e \in Edits
      BY <3>1, ReplayFacts DEF LoadedEdit
    <3>3. persisted' = e /\ edit' = [e EXCEPT !.next = a, !.last = b]
      BY DEF Open
    <3> HIDE DEF e, a, b
    <3>4. [e EXCEPT !.next = a, !.last = b].files = e.files
      BY <3>2 DEF Edits
    <3> QED BY <3>3, <3>4
  <2>3. Replays(mbase', mtail') \subseteq Replays(mbase, mtail) /\ LoadedEdit'.files = e.files
    BY <2>1, <1>LoadRanges
  <2>4. Ranged(e.files, ssts)
    BY <1>LoadedReplays DEF RangesInv, RangedInv
  <2> HIDE DEF e
  <2>5. Ranged(e.files, tables')
    BY <2>1, <2>4 DEF Ranged, Nums
  <2>6. comp'.stage = "idle"
    BY <2>1 DEF NoCompaction
  <2>7. RangedInv'
    BY <2>1, <2>2, <2>3, <2>5, <2>6 DEF RangesInv, RangedInv
  <2>8. PendingInv' /\ UpperInv' /\ BesideInv'
    BY <2>1, <2>2, <2>3, <2>6 DEF PendingInv, UpperInv, BesideInv, Compacting
  <2> QED BY <2>7, <2>8 DEF RangesInv
\* An Open that fails may have cut a torn record off.
<1>OpenFailsRanges. ASSUME WellOrdered, IInv, RangesInv, OpenFails PROVE RangesInv'
  <2> USE <1>OpenFailsRanges
  <2> USE Zenon
  <2>1. Replays(mbase', mtail') \subseteq Replays(mbase, mtail)
    BY <1>LoadRanges DEF OpenFails
  <2>2. closed' /\ closed /\ UNCHANGED <<ssts, worker, comp, mu>>
    BY DEF OpenFails, memory
  <2>3. mu = "free" /\ worker.pc = "off" /\ comp.stage = "idle"
    <3>1. mu = "free" /\ worker.pc = "off" /\ comp = NoCompaction
      BY <2>2 DEF IInv, ControlInv
    <3> QED BY <3>1 DEF NoCompaction
  <2>4. RangedInv'
    BY <2>1, <2>2, <2>3 DEF RangesInv, RangedInv
  <2> QED BY <2>2, <2>3, <2>4 DEF RangesInv, PendingInv, UpperInv, BesideInv, Compacting
\* A step that leaves the manifest and the versions alone, changes no table that the
\* manifest names, and begins and ends no save of files.
<1>KeepsRanges.
  ASSUME WellOrdered, IInv, RangesInv,
         UNCHANGED <<mbase, mtail, closed, tables>>,
         edit'.files = edit.files, persisted'.files = persisted.files,
         \A n \in Named(mbase, mtail) : ssts'[n] = ssts[n],
         worker'.pc = "publish" => ssts'[worker'.num] = worker'.ents,
         comp'.stage = "publish" => ssts'[comp'.num] = CompactionOutput',
         Compacting' \/ ~bgError' => Compacting \/ ~bgError,
         mu' \in {"rotate", "flush", "compact", "close"} => mu' = mu /\ pending' = pending,
         mu' = "flush" => worker' = worker,
         mu' = "compact" => comp' = comp,
         mu = "compact" => mu' = "compact",
         BesideInv'
  PROVE  RangesInv'
  <2> USE <1>KeepsRanges
  <2> USE Zenon
  <2>1. mbase \in Edits /\ mtail \in Seq(Records)
    BY RangeTypes
  <2>2. \A F \in Replays(mbase, mtail) : Ranged(F, ssts')
    <3> SUFFICES ASSUME NEW F \in Replays(mbase, mtail) PROVE Ranged(F, ssts')
      BY SMT
    <3>1. Ranged(F, ssts)
      BY DEF RangesInv, RangedInv
    <3>2. \A m \in F : m.num \in Named(mbase, mtail)
      BY <2>1, <1>ReplaysNamed
    <3>3. \A m \in F : ssts'[m.num] = ssts[m.num]
      BY <3>2
    <3> QED BY <3>1, <3>3 DEF Ranged
  <2>3. RangedInv'
    BY <2>2 DEF RangesInv, RangedInv
  <2>4. PendingInv'
    <3>1. ~closed' => persisted'.files = edit'.files
      BY DEF RangesInv, PendingInv
    <3>2. mu' \in {"rotate", "close"} => pending'.files = edit'.files
      BY DEF RangesInv, PendingInv
    <3>3. mu' = "flush" =>
            pending'.files = edit'.files \cup {MetaOf(worker'.num, 0, worker'.ents)}
      BY DEF RangesInv, PendingInv
    <3>4. mu' = "compact" =>
            pending'.files = {m \in edit'.files : m.num \notin comp'.inputs}
                               \cup {MetaOf(comp'.num, comp'.level, CompactionOutput')}
      <4> SUFFICES ASSUME mu' = "compact"
                   PROVE  pending'.files = {m \in edit'.files : m.num \notin comp'.inputs}
                               \cup {MetaOf(comp'.num, comp'.level, CompactionOutput')}
        BY SMT
      <4>1. mu = "compact" /\ pending' = pending /\ comp' = comp
        OBVIOUS
      <4>2. CompactionOutput' = CompactionOutput
        BY <4>1 DEF CompactionOutput
      <4>3. pending.files = {m \in edit.files : m.num \notin comp.inputs}
                               \cup {MetaOf(comp.num, comp.level, CompactionOutput)}
        BY <4>1 DEF RangesInv, PendingInv
      <4> QED BY <4>1, <4>2, <4>3
    <3> QED BY <3>1, <3>2, <3>3, <3>4 DEF PendingInv
  <2>5. UpperInv'
    <3>1. LoadedEdit' = LoadedEdit /\ FilesBefore' = FilesBefore
      BY DEF LoadedEdit, FilesBefore
    <3> SUFFICES ASSUME ~closed', Compacting' \/ ~bgError'
                 PROVE  /\ Upper(LoadedEdit.files)
                             = Upper(IF mu' = "compact" THEN pending'.files ELSE edit.files)
                        /\ mu' \in {"rotate", "flush", "close"}
                             => Upper(FilesBefore) = Upper(edit.files)
      BY <3>1 DEF UpperInv
    <3>2. /\ Upper(LoadedEdit.files) = Upper(IF mu = "compact" THEN pending.files ELSE edit.files)
          /\ mu \in {"rotate", "flush", "close"} => Upper(FilesBefore) = Upper(edit.files)
      BY DEF RangesInv, UpperInv
    <3>3. CASE mu = "compact"
      BY <3>2, <3>3
    <3>4. CASE mu # "compact"
      <4>1. mu' # "compact"
        BY <3>4
      <4>2. Upper(LoadedEdit.files) = Upper(edit.files)
        BY <3>2, <3>4
      <4>3. mu' \in {"rotate", "flush", "close"} => Upper(FilesBefore) = Upper(edit.files)
        BY <3>2
      <4> QED BY <4>1, <4>2, <4>3
    <3> QED BY <3>3, <3>4
  <2> QED BY <2>3, <2>4, <2>5 DEF RangesInv
\* A compaction that goes on with its inputs in the same version.
<1>KeepsBeside.
  ASSUME RangesInv, edit'.files = edit.files,
         Compacting' => /\ Compacting /\ comp'.level = comp.level
                        /\ comp'.inputs = comp.inputs /\ comp'.ents = comp.ents
  PROVE  BesideInv'
  BY <1>KeepsBeside, Zenon DEF RangesInv, BesideInv
\* The same for a step that goes on with, or ends, what the worker and the compaction
\* are doing.
<1>LeavesRanges.
  ASSUME WellOrdered, IInv, RangesInv,
         UNCHANGED <<mbase, mtail, closed, tables, mu, pending>>,
         edit'.files = edit.files, persisted'.files = persisted.files,
         \A n \in Named(mbase, mtail) : ssts'[n] = ssts[n],
         worker.pc = "publish" => ssts'[worker.num] = ssts[worker.num],
         comp.stage = "publish" => ssts'[comp.num] = ssts[comp.num],
         bgError => bgError',
         worker'.pc = "publish" \/ mu = "flush" => worker' = worker,
         Compacting' \/ mu = "compact" => comp' = comp
  PROVE  RangesInv'
  <2> USE <1>LeavesRanges
  <2> USE Zenon
  <2>1. worker'.pc = "publish" => ssts'[worker'.num] = worker'.ents
    BY DEF RangesInv, RangedInv
  <2>2. comp'.stage = "publish" => ssts'[comp'.num] = CompactionOutput'
    BY DEF RangesInv, RangedInv, CompactionOutput, Compacting
  <2>3. Compacting' => /\ Compacting /\ comp'.level = comp.level
                       /\ comp'.inputs = comp.inputs /\ comp'.ents = comp.ents
    BY DEF Compacting
  <2>4. BesideInv'
    BY <2>3, <1>KeepsBeside
  <2>5. Compacting' \/ ~bgError' => Compacting \/ ~bgError
    BY <2>3
  <2> QED BY <2>1, <2>2, <2>4, <2>5, <1>KeepsRanges
\* Reads, snapshots and the beginning of Close.
<1>OtherRanges.
  ASSUME WellOrdered, IInv, RangesInv,
         \/ \E i \in Snaps : GetSnapshot(i) \/ ReleaseSnapshot(i)
         \/ \E r \in Readers : GetSteps(r) \/ \E k \in Keys : GetPins(r, k)
         \/ CloseBegins \/ UNCHANGED vars
  PROVE  RangesInv'
  <2> USE <1>OtherRanges
  <2>1. UNCHANGED <<mbase, mtail, closed, bgError, edit, persisted, tables, ssts, worker, comp,
                    mu, pending>>
    BY Zenon DEF GetSnapshot, ReleaseSnapshot, GetSteps, GetReadsMemTables,
      GetReadsTables, GetReturns, GetPins, CloseBegins, vars, disk, memory
  <2> QED BY <2>1, <1>LeavesRanges, Zenon
\* An error stays until the next Open.
<1>ErrorStays.
  ASSUME \/ bgError' = bgError \/ bgError' = TRUE
         \/ bgError' = (bgError \/ comp.by = "worker")
  PROVE  bgError => bgError'
  BY <1>ErrorStays, Zenon
\* The writer's steps that save nothing.
<1>WriteRanges.
  ASSUME WellOrdered, IInv, RangesInv,
         (\E b \in Batches : Write(b)) \/ WriteFails \/ WriteApplies \/ SwitchFails
  PROVE  RangesInv'
  <2> USE <1>WriteRanges
  <2> USE Zenon
  <2>0. /\ edit' \in {edit, AppliedEdit} /\ mu' \in {"write", "free"}
        /\ mu \in {"write", "free"} /\ (bgError => bgError')
    <3>1. /\ edit' \in {edit, AppliedEdit} /\ mu' \in {"write", "free"}
          /\ mu \in {"write", "free"}
      BY DEF Write, WriteFails, WriteApplies, SwitchFails, memory
    <3>2. bgError' = bgError \/ bgError' = TRUE
      BY DEF Write, WriteFails, WriteApplies, SwitchFails, memory
    <3> QED BY <3>1, <3>2, <1>ErrorStays
  <2>1. /\ UNCHANGED <<ssts, mbase, mtail, closed, tables, persisted, worker, comp, pending>>
        /\ edit' \in {edit, AppliedEdit} /\ mu' \in {"write", "free"}
        /\ mu \in {"write", "free"} /\ (bgError => bgError')
    BY <2>0 DEF Write, WriteFails, WriteApplies, SwitchFails, memory
  <2>2. edit \in Edits
    BY NumberTypes
  <2>3. AppliedEdit.files = edit.files
    BY <2>2 DEF AppliedEdit, Edits
  <2>4. edit'.files = edit.files /\ persisted'.files = persisted.files
    BY <2>1, <2>3
  <2>5. Compacting' <=> Compacting
    BY <2>1 DEF Compacting
  <2>6. CompactionOutput' = CompactionOutput
    BY <2>1 DEF CompactionOutput
  <2>7. /\ worker'.pc = "publish" => ssts'[worker'.num] = worker'.ents
        /\ comp'.stage = "publish" => ssts'[comp'.num] = CompactionOutput'
    BY <2>1, <2>6 DEF RangesInv, RangedInv
  <2>8. Compacting' => /\ Compacting /\ comp'.level = comp.level
                       /\ comp'.inputs = comp.inputs /\ comp'.ents = comp.ents
    BY <2>1, <2>5
  <2>b. BesideInv'
    BY <2>4, <2>8, <1>KeepsBeside
  <2>9. /\ mu' \notin {"rotate", "flush", "compact", "close"} /\ mu # "compact"
        /\ Compacting' \/ ~bgError' => Compacting \/ ~bgError
        /\ \A n \in Named(mbase, mtail) : ssts'[n] = ssts[n]
    BY <2>1, <2>5
  <2> QED BY <2>1, <2>4, <2>7, <2>b, <2>9, <1>KeepsRanges
\* The worker's steps that pick and build nothing, and those that fail to build.
<1>WorkerRanges.
  ASSUME WellOrdered, IInv, NumbersInv, TablesInv, RangesInv,
         WorkerWakes \/ WorkerFindsNothing \/ WorkerGivesUp \/ FlushBuildFails
           \/ WorkerPurges \/ WorkerPurgeFails
  PROVE  RangesInv'
  <2> USE <1>WorkerRanges
  <2> USE Zenon
  <2>1. UNCHANGED <<mbase, mtail, closed, tables, edit, persisted, comp, mu, pending>>
    BY DEF WorkerWakes, WorkerFindsNothing, WorkerGivesUp, FlushBuildFails, WorkerPurges,
         WorkerPurgeFails, memory, disk
  <2>2. worker.pc # "publish" /\ (bgError => bgError')
    <3>1. worker.pc # "publish"
      BY DEF WorkerWakes, WorkerFindsNothing, WorkerGivesUp, FlushBuildFails, WorkerPurges,
           WorkerPurgeFails
    <3>2. bgError' = bgError \/ bgError' = TRUE
      BY DEF WorkerWakes, WorkerFindsNothing, WorkerGivesUp, FlushBuildFails, WorkerPurges,
           WorkerPurgeFails, memory
    <3> QED BY <3>1, <3>2, <1>ErrorStays
  <2>3. worker'.pc # "publish"
    <3>1. worker \in Workers
      BY NumberTypes
    <3> QED BY <3>1 DEF WorkerWakes, WorkerFindsNothing, WorkerGivesUp, FlushBuildFails,
         WorkerPurges, WorkerPurgeFails, IdleWorker, Workers
  <2>4. mu # "flush"
    BY <2>2 DEF IInv, ControlInv
  <2>5. \A n \in DOMAIN ssts : ssts'[n] = ssts[n]
    <3>1. CASE ssts' = ssts
      BY <3>1
    <3>2. CASE worker.pc = "build" /\ ssts' = Created(ssts, worker.num, worker.ents)
      <4>1. worker.num \notin DOMAIN ssts
        BY <3>2 DEF NumbersInv
      <4>2. \A n \in DOMAIN ssts : n # worker.num
        BY <4>1
      <4> QED BY <3>2, <4>2 DEF Created
    <3> QED BY <3>1, <3>2 DEF WorkerWakes, WorkerFindsNothing, WorkerGivesUp, FlushBuildFails,
         WorkerPurges, WorkerPurgeFails, disk
  <2>6. /\ \A n \in Named(mbase, mtail) : ssts'[n] = ssts[n]
        /\ comp.stage = "publish" => ssts'[comp.num] = ssts[comp.num]
    BY <2>5 DEF TablesInv
  <2> QED BY <2>1, <2>2, <2>3, <2>4, <2>6, <1>LeavesRanges
\* The compaction's steps that leave the manifest and the tables alone.
<1>CompactionRanges.
  ASSUME WellOrdered, IInv, RangesInv,
         MaybeCompactStarts \/ MaybeCompactEnds \/ CompactionBuildFails
  PROVE  RangesInv'
  <2> USE <1>CompactionRanges
  <2> USE Zenon
  <2>1. /\ UNCHANGED <<mbase, mtail, closed, tables, edit, persisted, ssts, mu, pending>>
        /\ (bgError => bgError')
    <3>1. UNCHANGED <<mbase, mtail, closed, tables, edit, persisted, ssts, mu, pending>>
      BY DEF MaybeCompactStarts, MaybeCompactEnds, CompactionBuildFails, memory, disk
    <3>2. bgError' = bgError \/ bgError' = (bgError \/ comp.by = "worker")
      BY DEF MaybeCompactStarts, MaybeCompactEnds, CompactionBuildFails, memory
    <3> QED BY <3>1, <3>2, <1>ErrorStays
  <2>2. mu # "compact"
    BY DEF MaybeCompactStarts, MaybeCompactEnds, CompactionBuildFails, IInv, ControlInv
  <2>3. worker'.pc \in {"build", "publish"} => worker' = worker
    BY CompactionEndsBuildsNothing DEF MaybeCompactStarts, MaybeCompactEnds, CompactionBuildFails
  <2>4. mu = "flush" => worker' = worker
    BY DEF MaybeCompactStarts, MaybeCompactEnds, CompactionBuildFails
  <2>5. ~Compacting'
    <3>1. CASE comp' = NoCompaction
      BY <3>1 DEF NoCompaction, Compacting
    <3>2. CASE comp' # NoCompaction
      <4> DEFINE c == [NoCompaction EXCEPT !.by = "worker", !.stage = "check"]
      <4>1. comp' = c
        BY <3>2 DEF MaybeCompactStarts, MaybeCompactEnds, CompactionBuildFails, CompactionEnds
      <4>2. c.stage = "check"
        BY DEF NoCompaction
      <4> QED BY <4>1, <4>2 DEF Compacting
    <3> QED BY <3>1, <3>2
  <2> QED BY <2>1, <2>2, <2>3, <2>4, <2>5, <1>LeavesRanges
\* A compaction removes inputs that no version on disk names.
<1>RemovesRanges.
  ASSUME WellOrdered, IInv, TablesInv, RangesInv, CompactionRemoves \/ CompactionRemoveFails
  PROVE  RangesInv'
  <2> USE <1>RemovesRanges
  <2> USE Zenon
  <2>1. /\ UNCHANGED <<mbase, mtail, closed, tables, edit, persisted, mu, pending>>
        /\ comp.stage = "remove" /\ (bgError => bgError')
    <3>1. /\ UNCHANGED <<mbase, mtail, closed, tables, edit, persisted, mu, pending>>
          /\ comp.stage = "remove"
      BY DEF CompactionRemoves, CompactionRemoveFails, memory
    <3>2. bgError' = bgError \/ bgError' = (bgError \/ comp.by = "worker")
      BY DEF CompactionRemoves, CompactionRemoveFails, memory
    <3> QED BY <3>1, <3>2, <1>ErrorStays
  <2>2. \A n \in DOMAIN ssts \ comp.inputs : ssts'[n] = ssts[n]
    BY DEF CompactionRemoves, CompactionRemoveFails, Restricted, PartlyRemoved
  <2>3. worker'.pc \in {"build", "publish"} => worker' = worker
    BY CompactionEndsBuildsNothing DEF CompactionRemoves, CompactionRemoveFails
  <2>4. mu # "compact" /\ (mu = "flush" => worker' = worker)
    <3>1. mu # "compact"
      BY <2>1 DEF IInv, ControlInv
    <3>2. mu = "flush" => worker' = worker
      BY DEF CompactionRemoves, CompactionRemoveFails
    <3> QED BY <3>1, <3>2
  <2>5. ~Compacting'
    <3>1. CASE comp' = NoCompaction
      BY <3>1 DEF NoCompaction, Compacting
    <3>2. CASE comp' # NoCompaction
      <4> DEFINE c == [NoCompaction EXCEPT !.by = "worker", !.stage = "check",
                                           !.attempts = comp.attempts + 1]
      <4>1. comp' = c
        BY <3>2 DEF CompactionRemoves, CompactionRemoveFails, CompactionEnds
      <4>2. c.stage = "check"
        BY DEF NoCompaction
      <4> QED BY <4>1, <4>2 DEF Compacting
    <3> QED BY <3>1, <3>2
  <2>6. \A n \in Named(mbase, mtail) : ssts'[n] = ssts[n]
    BY <2>1, <2>2 DEF TablesInv
  <2>7. /\ worker.pc = "publish" => ssts'[worker.num] = ssts[worker.num]
        /\ comp.stage # "publish"
    BY <2>1, <2>2 DEF TablesInv
  <2> QED BY <2>1, <2>3, <2>4, <2>5, <2>6, <2>7, <1>LeavesRanges
\* The worker picks a MemTable and takes a number.
<1>WorkerPicksRanges.
  ASSUME WellOrdered, IInv, RangesInv, WorkerPicks PROVE RangesInv'
  <2> USE <1>WorkerPicksRanges
  <2> USE Zenon
  <2>1. edit \in Edits
    BY NumberTypes
  <2>2. /\ edit'.files = edit.files /\ worker'.pc = "build" /\ mu = "free"
        /\ UNCHANGED <<ssts, mbase, mtail, closed, tables, persisted, comp, mu, pending, bgError>>
    BY <2>1, NumberTaken DEF WorkerPicks, disk
  <2>3. worker.pc # "publish"
    BY DEF WorkerPicks
  <2> QED BY <2>2, <2>3, <1>LeavesRanges
\* A table is built, under a number that no version has.
<1>BuildsRanges.
  ASSUME WellOrdered, IInv, NumbersInv, TablesInv, RangesInv, FlushBuilds \/ CompactionBuilds
  PROVE  RangesInv'
  <2> USE <1>BuildsRanges
  <2> USE Zenon
  <2>1. UNCHANGED <<mbase, mtail, closed, tables, edit, persisted, mu, pending, bgError>>
    BY DEF FlushBuilds, CompactionBuilds, memory
  <2>2. worker \in Workers /\ comp \in Compactions
    BY NumberTypes
  <2>3. CASE FlushBuilds
    <3>1. /\ ssts' = Created(ssts, worker.num, worker.ents) /\ worker.pc = "build"
          /\ comp' = comp /\ worker'.num = worker.num /\ worker'.ents = worker.ents
      BY <2>2, <2>3 DEF FlushBuilds, Workers
    <3>2. worker.num \notin DOMAIN ssts /\ mu # "flush"
      BY <3>1 DEF NumbersInv, IInv, ControlInv
    <3>3. \A n \in DOMAIN ssts : ssts'[n] = ssts[n]
      BY <3>1, <3>2 DEF Created
    <3>4. ssts'[worker'.num] = worker'.ents
      BY <3>1 DEF Created
    <3>5. CompactionOutput' = CompactionOutput /\ (Compacting' <=> Compacting)
      BY <3>1 DEF CompactionOutput, Compacting
    <3>6. comp'.stage = "publish" => ssts'[comp'.num] = CompactionOutput'
      BY <3>1, <3>3, <3>5 DEF RangesInv, RangedInv, TablesInv
    <3>7. BesideInv'
      BY <2>1, <3>1, <3>5, <1>KeepsBeside
    <3>8. \A n \in Named(mbase, mtail) : ssts'[n] = ssts[n]
      BY <3>3 DEF TablesInv
    <3> QED BY <2>1, <3>1, <3>2, <3>4, <3>5, <3>6, <3>7, <3>8, <1>KeepsRanges
  <2>4. CASE CompactionBuilds
    <3>1. /\ ssts' = Created(ssts, comp.num, CompactionOutput) /\ comp.stage = "build"
          /\ worker' = worker
          /\ comp' = [comp EXCEPT !.stage = "publish"]
      BY <2>4 DEF CompactionBuilds
    <3>a. /\ comp'.num = comp.num /\ comp'.ents = comp.ents /\ comp'.level = comp.level
          /\ comp'.min = comp.min /\ comp'.inputs = comp.inputs /\ comp'.stage = "publish"
      BY <2>2, <3>1 DEF Compactions
    <3>2. comp.num \notin DOMAIN ssts /\ mu # "compact"
      BY <3>1 DEF NumbersInv, IInv, ControlInv
    <3>3. \A n \in DOMAIN ssts : ssts'[n] = ssts[n]
      BY <3>1, <3>2 DEF Created
    <3>4. CompactionOutput' = CompactionOutput /\ Compacting
      BY <3>1, <3>a DEF CompactionOutput, Compacting
    <3>5. ssts'[comp'.num] = CompactionOutput'
      BY <3>1, <3>a, <3>4 DEF Created
    <3>6. worker'.pc = "publish" => ssts'[worker'.num] = worker'.ents
      BY <3>1, <3>3 DEF RangesInv, RangedInv, TablesInv
    <3>7. BesideInv'
      BY <2>1, <3>a, <3>4, <1>KeepsBeside
    <3>8. \A n \in Named(mbase, mtail) : ssts'[n] = ssts[n]
      BY <3>3 DEF TablesInv
    <3> QED BY <2>1, <3>1, <3>2, <3>4, <3>5, <3>6, <3>7, <3>8, <1>KeepsRanges
  <2> QED BY <2>3, <2>4
\* A compaction picks its inputs: what it leaves of the next level is beside them.
<1>SelectsRanges.
  ASSUME WellOrdered, IInv, RangesInv, NEW by, NEW attempts, Selects(by, attempts)
  PROVE  RangesInv'
  <2> USE <1>SelectsRanges
  <2> USE Zenon
  <2> DEFINE ins == Nums(CompactionInputs)
  <2>1. edit \in Edits
    BY NumberTypes
  <2>2. /\ edit'.files = edit.files /\ comp'.inputs = ins /\ comp'.stage = "build"
        /\ comp'.ents = UNION {tables[n] : n \in ins} /\ comp'.level = SourceLevel + 1
        /\ UNCHANGED <<ssts, mbase, mtail, closed, tables, persisted, worker, mu, pending>>
        /\ ~closed /\ mu = "free" /\ ins # {} /\ ~bgError
    BY <2>1, NumberTaken DEF Selects, disk
  <2>3. CompactionInputs # {}
    BY <2>2 DEF Nums
  <2>4. BesideInv'
    <3>1. SourceLevel \in {0, 1}
      BY DEF SourceLevel
    <3>2. SourceLevel + 1 > 0
      BY <3>1, SMT
    <3>3. Ranged(edit.files, tables)
      BY <2>2 DEF RangesInv, RangedInv
    <3>4. \A m \in edit.files : m.level = SourceLevel + 1 /\ m.num \notin ins
            => Beside(m, UNION {tables[n] : n \in ins})
      BY <2>2, <2>3, <3>3, <1>InputsBeside
    <3> QED BY <2>2, <3>2, <3>4 DEF BesideInv
  <2>5. /\ worker'.pc = "publish" => ssts'[worker'.num] = worker'.ents
        /\ comp'.stage # "publish"
    BY <2>2 DEF RangesInv, RangedInv
  <2> QED BY <2>2, <2>4, <2>5, <1>KeepsRanges
<1> USE Zenon
<1> SUFFICES ASSUME IInv, IInv', NumbersInv, TablesInv, TablesInv', RangesInv, [Next]_vars
             PROVE  RangesInv'
  BY SMT
<1>1. CASE Open \/ OpenFails \/ UserCompacts \/ Crash
  BY <1>1, <1>OpenRanges, <1>OpenFailsRanges, <1>SelectsRanges, <1>CrashRanges DEF UserCompacts
<1>2. CASE CloseSteps
  BY <1>2, <1>CloseRanges, <1>SaveBeginsRanges, <1>SameFilesSavedRanges DEF CloseSteps
<1>3. CASE WriteSteps \/ \E b \in Batches : Write(b)
  BY <1>3, <1>WriteRanges, <1>SaveBeginsRanges, <1>SameFilesSavedRanges, <1>SaveFailsRanges DEF WriteSteps
<1>4. CASE WorkerSteps
  BY <1>4, <1>WorkerRanges, <1>WorkerPicksRanges, <1>BuildsRanges, <1>FlushPublishesRanges,
       <1>FlushSucceedsRanges, <1>SaveFailsRanges DEF WorkerSteps
<1>5. CASE CompactionSteps
  BY <1>5, <1>CompactionRanges, <1>SelectsRanges, <1>BuildsRanges, <1>CompactionPublishesRanges,
       <1>CompactionSucceedsRanges, <1>SaveFailsRanges, <1>RemovesRanges DEF CompactionSteps,
       MaybeCompactSelects
<1>6. CASE \/ \E i \in Snaps : GetSnapshot(i) \/ ReleaseSnapshot(i)
           \/ \E r \in Readers : GetSteps(r) \/ \E k \in Keys : GetPins(r, k)
           \/ CloseBegins \/ UNCHANGED vars
  BY <1>6, <1>OtherRanges
<1> QED BY <1>1, <1>2, <1>3, <1>4, <1>5, <1>6 DEF Next

\* A database that is not open has no version in memory.
LEMMA NextClosed ==
  IInv /\ (closed => edit.files = {}) /\ [Next]_vars => (closed => edit.files = {})'
<1> USE Zenon
<1> SUFFICES ASSUME IInv, closed => edit.files = {}, [Next]_vars, closed' PROVE edit'.files = {}
  BY SMT
<1>1. CASE ResetMemory
  BY <1>1 DEF ResetMemory, NoEdit
<1>2. CASE closed /\ UNCHANGED <<closed, edit>>
  BY <1>2
<1>3. closed => mu = "free" /\ worker.pc = "off" /\ comp.stage = "idle" /\ closer.pc = "idle"
  <2>1. closed => mu = "free" /\ worker.pc = "off" /\ comp = NoCompaction /\ closer.pc = "idle"
    BY DEF IInv, ControlInv
  <2>2. NoCompaction.stage = "idle"
    BY DEF NoCompaction
  <2> QED BY <2>1, <2>2
<1>4. ~Open
  BY DEF Open
<1>5. CASE OpenFails \/ UserCompacts \/ Crash
  BY <1>1, <1>2, <1>5 DEF OpenFails, UserCompacts, Selects, Crash, memory
<1>6. CASE CloseSteps
  <2>1. CASE CloseSaves \/ CloseSaved
    BY <1>3, <2>1 DEF CloseSaves, CloseSaved, Joined, memory
  <2> QED BY <1>1, <1>6, <2>1 DEF CloseSteps, CloseEnds, CloseSaveFails, ClosePurges,
       ClosePurgeFails
<1>7. CASE WriteSteps \/ \E b \in Batches : Write(b)
  BY <1>3, <1>7 DEF WriteSteps, Write, WriteFails, WriteApplies, WriteSwitches, SwitchFails,
       RotateSucceeds, RotateFails, memory
<1>8. CASE WorkerSteps
  BY <1>3, <1>8 DEF WorkerSteps, WorkerWakes, WorkerFindsNothing, WorkerGivesUp, WorkerPicks,
       FlushBuilds, FlushBuildFails, FlushPublishes, FlushSucceeds, FlushFails, WorkerPurges,
       WorkerPurgeFails, memory
<1>9. CASE CompactionSteps
  BY <1>3, <1>9 DEF CompactionSteps, MaybeCompactStarts, MaybeCompactSelects, Selects,
       MaybeCompactEnds, CompactionBuilds, CompactionBuildFails, CompactionPublishes,
       CompactionSucceeds, CompactionFails, CompactionRemoves, CompactionRemoveFails, memory
<1>10. CASE \/ \E i \in Snaps : GetSnapshot(i) \/ ReleaseSnapshot(i)
            \/ \E r \in Readers : GetSteps(r) \/ \E k \in Keys : GetPins(r, k)
            \/ CloseBegins \/ UNCHANGED vars
  <2>1. UNCHANGED <<closed, edit>>
    BY <1>10 DEF GetSnapshot, ReleaseSnapshot, GetSteps, GetReadsMemTables, GetReadsTables,
         GetReturns, GetPins, CloseBegins, vars, memory
  <2> QED BY <1>2, <2>1
<1> QED BY <1>4, <1>5, <1>6, <1>7, <1>8, <1>9, <1>10 DEF Next

\* A new directory has no tables.
LEMMA InitRanges == ASSUME WellOrdered, IInv, Init PROVE RangesInv
<1> USE Zenon
<1>1. /\ mbase = FirstEdit /\ mtail = <<>> /\ closed /\ mu = "free"
      /\ worker = IdleWorker /\ comp = NoCompaction
  BY DEF Init
<1>2. FirstEdit.files = {}
  BY DEF FirstEdit
<1>3. mbase \in Edits /\ mtail \in Seq(Records)
  BY RangeTypes
<1>4. Replays(mbase, mtail) = {mbase.files}
  <2>1. IntactPrefix(<<>>) = <<>>
    <3>1. <<>> \in Seq(Records) /\ NoneTorn(<<>>)
      BY SMT DEF NoneTorn
    <3> QED BY <3>1, IntactLogs
  <2>2. 0..Len(IntactPrefix(mtail)) = {0} /\ SubSeq(mtail, 1, 0) = <<>>
    BY <1>1, <2>1, SMT
  <2>3. Replay(mbase, <<>>).files = mbase.files
    BY ReplayNothing
  <2> QED BY <2>2, <2>3 DEF Replays
<1>5. \A F \in Replays(mbase, mtail) : Ranged(F, ssts)
  BY <1>1, <1>2, <1>4 DEF Ranged, Apart, Upper
<1>6. worker.pc = "off" /\ comp.stage = "idle"
  BY <1>1 DEF IdleWorker, NoCompaction
<1>7. RangedInv
  BY <1>1, <1>5, <1>6 DEF RangedInv
<1> QED BY <1>1, <1>6, <1>7 DEF RangesInv, PendingInv, UpperInv, BesideInv, Compacting

-----------------------------------------------------------------------------
(***************************************************************************)
(* What the three invariants say.                                          *)
(***************************************************************************)

\* A new database builds nothing.
LEMMA InitNumbers == Init => NumbersInv
BY SMT DEF Init, NumbersInv, IdleWorker, NoCompaction

\* Nothing is built under a number in use.
LEMMA NumbersFollow == NumbersInv => FileNumbersAreFresh
<1> USE Zenon
<1> SUFFICES ASSUME NumbersInv PROVE FileNumbersAreFresh
  BY SMT
<1>1. BuildNumbers \cap (DOMAIN ssts \cup Nums(edit.files)) = {}
  BY DEF NumbersInv, BuildNumbers
<1>2. \A n \in BuildNumbers : n < edit.next
  BY DEF NumbersInv, BuildNumbers
<1> QED BY <1>1, <1>2, SMT DEF NumbersInv, FileNumbersAreFresh

\* The manifest of a new database names no table, and all of it is read back.
LEMMA InitTables ==
  ASSUME WellOrdered, IInv, Init
  PROVE  TablesInv /\ LoadedEdit = Replay(mbase, mtail)
<1> USE Zenon
<1>1. /\ mbase = FirstEdit /\ mtail = <<>> /\ closed /\ mu = "free"
      /\ worker = IdleWorker /\ comp = NoCompaction
  BY DEF Init
<1>2. Named(mbase, mtail) = {}
  BY <1>1, SMT DEF Named, Nums, FirstEdit
<1>3. mtail \in Seq(Records) /\ NoneTorn(mtail)
  BY <1>1, SMT DEF IInv, TypeOK, DiskTypeOK, NoneTorn
<1>4. LoadedEdit = Replay(mbase, mtail)
  BY <1>3, IntactLogs DEF LoadedEdit
<1> QED BY <1>1, <1>2, <1>4, SMT DEF Init, TablesInv, IdleWorker, NoCompaction

\* The log of an open database has no torn record.
LEMMA WholeWhenOpen ==
  ASSUME WellOrdered, IInv, TablesInv, ~closed
  PROVE  TornRest(mtail) = <<>>
<1>1. mtail \in Seq(Records)
  BY Zenon DEF IInv, TypeOK, DiskTypeOK
<1> QED BY <1>1, IntactLogs, SMT DEF TablesInv

\* A version that a crash may leave names only tables that are on disk.
LEMMA ImagesAreThere ==
  ASSUME WellOrdered, IInv, TablesInv, NEW e \in CrashImages
  PROVE  Nums(e.files) \subseteq DOMAIN ssts /\ e.wal < e.next
<1> USE Zenon
<1>1. mbase \in Edits /\ mtail \in Seq(Records) /\ msynced \in Nat
  BY DEF IInv, TypeOK, DiskTypeOK
<1>2. PICK n \in msynced..Len(mtail) : e = Replay(mbase, IntactPrefix(SubSeq(mtail, 1, n)))
  BY DEF CrashImages
<1> DEFINE log == SubSeq(mtail, 1, n)
<1>3. n \in 0..Len(mtail)
  BY <1>1, SMT
<1>4. log \in Seq(Records) /\ Named(mbase, log) \subseteq Named(mbase, mtail)
  <2>1. LET l == log \o IF FALSE THEN <<Tear(mtail[n + 1])>> ELSE <<>>
        IN  l \in Seq(Records) /\ Named(mbase, l) \subseteq Named(mbase, mtail)
    BY <1>1, <1>3, CrashNames
  <2>2. log \in Seq(Records)
    BY <1>1, <1>3, SMT
  <2> QED BY <2>1, <2>2, SMT
<1>5. \A i \in DOMAIN log : log[i].wal < log[i].next
  BY <1>1, <1>3, SMT DEF IInv, ManifestInv
<1> HIDE DEF log
<1>6. Nums(e.files) \subseteq DOMAIN ssts
  <2>1. Nums(Replay(mbase, IntactPrefix(log)).files) \subseteq Named(mbase, log)
    BY <1>1, <1>4, ReadBackNames, SMT
  <2> QED BY <1>2, <1>4, <2>1, SMT DEF TablesInv, log
<1>7. e.wal < e.next
  <2>1. mbase.wal < mbase.next
    BY DEF IInv, ManifestInv
  <2>2. LET x == Replay(mbase, IntactPrefix(log)) IN x.wal < x.next
    BY <1>1, <1>4, <1>5, <2>1, ReplayFacts, SMT
  <2> QED BY <1>2, <2>2 DEF log
<1> QED BY <1>6, <1>7

\* A new database has no files.
LEMMA InitFiles == Init => (closed => edit.files = {})
<1>1. NoEdit.files = {}
  BY Zenon DEF NoEdit
<1> QED BY <1>1, Zenon DEF Init

\* No file of an upper level meets another.
LEMMA LevelsFollow == RangesInv /\ (closed => edit.files = {}) => LevelsAreDisjoint
<1> USE Zenon
<1> SUFFICES ASSUME RangesInv, closed => edit.files = {},
                    NEW m1 \in edit.files, NEW m2 \in edit.files,
                    m1.level = m2.level, m1.level > 0, m1 # m2
             PROVE  m1.hi < m2.lo \/ m2.hi < m1.lo
  BY DEF LevelsAreDisjoint
<1>1. Apart(edit.files)
  BY DEF RangesInv, RangedInv, Ranged
<1>2. m1 \in Upper(edit.files) /\ m2 \in Upper(edit.files)
  BY DEF Upper
<1> QED BY <1>1, <1>2 DEF Apart

=============================================================================
