# Mini LSM-KV in TLA+

A specification of the key-value store in `src/` (C++): the engine with its
crashes and background work, the data structures it is built from, and the vector
extension on top. TLC checks the modules on small instances; TLAPS proves the
theorems for every value of the constants. `PROJECT.json` lists the runs, the
source lines every definition translates, the hazards and the theorems.

## The system

A `DB` is a directory with WAL files, SSTables, `MANIFEST` and `CURRENT`.

* `Write` (under `write_mu_` and `version_mu_`) appends a batch to the active WAL,
  syncs it, applies it to the active MemTable (a skip list of versions) and
  advances the last sequence number. A full MemTable is queued, a new WAL is
  created, and the manifest is saved.
* One worker thread flushes the oldest queued MemTable to a level-0 SSTable,
  publishes it by appending a version edit to the manifest, compacts levels that
  are over their limits and removes WAL files no version needs. Tables are built
  without the lock.
* `Compact` may be called by clients; `compaction_mu_` serialises compactions.
* `Get` and iterators pin MemTables and tables under the lock, and search without
  it. Snapshots are sequence numbers that compactions respect.
* `Open` replays the manifest, cuts torn tails off, opens the tables and replays
  the live WAL files into a MemTable. `Close` queues the last MemTable, joins the
  worker and saves the manifest.
* `VectorDB` keeps vectors as values of a `DB` and indexes them in memory with a
  versioned HNSW index; two shared mutexes coordinate the two.

### Inventory

| Part | Source (`src/src`, `src/include`) | Modules | State |
|---|---|---|---|
| Engine: write, flush, compaction, recovery, close, reads | `db.cc` | `DB`, `DBCorrect`, `DBRefinement`, `KVStore`, `Manifest` | modelled |
| Visibility and version retention | `db.cc` | `MVCC` | modelled |
| WAL | `wal.cc` | `WAL` | modelled |
| Manifest: log, `CURRENT`, `LOCK`, first save, rebuild | `manifest.cpp`, `db.cc` | `VersionEdit`, `DB`, `Manifest` | modelled |
| Iterators | `db.cc`, `sstable.cpp` | `Iterator` | modelled |
| SSTables, Bloom filter | `sstable.cpp`, `bloom_filter.cc` | `SSTable`, `FlushedTable`, `BlockCache` | build, lookup, listing, block checksum; not the validation of footer and index |
| Internal keys | `format.cc` | `InternalKey` | encoding and order; not file names |
| MemTable, skip list | `skiplist.cc`, `memtable.cc` | `SkipList`, `FlushedTable` | modelled |
| Block cache | `block_cache.cc`, `sstable.cpp` | `BlockCache` | modelled |
| Vector database | `vector_db.cc` | `VectorDB` | all operations but the brute-force search |
| Index versions and index files | `hnsw_index.cc` | `HNSWIndex`, `IndexFiles` | modelled |
| HNSW graph | `hnsw_graph.cc` | `HNSWGraph` | modelled |
| Vector values, distances | `vector_value.cc` | `VectorDB` | only whether a value is a vector |
| Byte encodings, checksums, fsync wrappers, file names | `format.cc`, `write_batch.cc` | | not modelled: their effect (a record is intact or torn, a file is synced or not) is state of the modules that use them |
| Drivers, benchmarks | `bench/`, `test/` | | not modelled: no state of their own |

## The modules

### The engine

`MVCC` has the pure operators: which versions a read at a sequence number sees
(`Lookup`, `FirstHit`) and which a compaction keeps (`Retained`). `WAL` is a file
of batch records with a synced prefix and possibly a torn tail. `VersionEdit` is a
version (next file number, oldest live WAL, last sequence number, files with
levels and key ranges), the record of a difference, and the replay of records.

`DB` composes them. Its variables are the files on disk, the fields of class `DB`
under their names, and one record per thread (`worker`, `comp` for the holder of
`compaction_mu_`, `closer`, `reader`). A critical section of `version_mu_` is one
step, except where it does I/O that may fail or be interrupted: then it is cut at
the sync, and `mu` says who holds the lock meanwhile.

| Code | Actions |
|---|---|
| `Write`, `MaybeFlushMemTable`, `FlushMemTable` | `Write`, `WriteFails`, `WriteApplies`, `WriteSwitches`, `SwitchFails`, `RotateSucceeds`, `RotateFails` |
| `BackgroundWorkerLoop`, `FlushImmutableMemTable` | `WorkerWakes`, `WorkerFindsNothing`, `WorkerGivesUp`, `WorkerPicks`, `FlushBuilds`, `FlushBuildFails`, `FlushPublishes`, `FlushSucceeds`, `FlushFails`, `WorkerPurges`, `WorkerPurgeFails` |
| `Compact`, `MaybeCompact`, `CompactUnlocked` | `UserCompacts`, `MaybeCompactStarts`, `MaybeCompactSelects`, `MaybeCompactEnds`, `CompactionBuilds`, `CompactionBuildFails`, `CompactionPublishes`, `CompactionSucceeds`, `CompactionFails`, `CompactionRemoves`, `CompactionRemoveFails` |
| `Get`, `GetSnapshot`, `ReleaseSnapshot` | `GetPins`, `GetReadsMemTables`, `GetReadsTables`, `GetReturns`, `GetSnapshot`, `ReleaseSnapshot` |
| `Open`, `Recover`, `Close` | `Open`, `OpenFails`, `CloseBegins`, `CloseEnds`, `CloseSaves`, `CloseSaved`, `CloseSaveFails`, `ClosePurges`, `ClosePurgeFails` |
| power failure, process death | `Crash`: what was synced survives, of the rest any prefix, the last record possibly torn |

`KVStore` is the promise to clients: a map with snapshots, atomic batches, an
error state that stops writes, and a restart that finds every acknowledged write.
`DBRefinement` states that `DB` implements it (`ImplementsKVStore`, with a refinement
mapping that computes what reads see and what a restart would find); `DBCorrect` has
the other properties.

Decisions a reader of the code will look for:

* Values are the sequence number of the version; distinct writes are therefore
  distinct values. Sizes of files are counted in versions.
* The level check of `MaybeCompact` and the selection of inputs in
  `CompactUnlocked` are one step: between them only flushes can happen, and only
  the worker, which is the caller, makes them.
* Failed cleanups whose result the code discards are taken to succeed, and a
  removed file is gone (no fsync of the removal is modelled).
* `Init` is a directory that an `Open` has initialised; how it comes to be is
  module `Manifest`.
* A failed append leaves nothing, a torn record or the whole record, by
  `AppendFailures` (WAL) and `SaveFailures` (manifest).
* Definitions with "variant" in their comment are plausible mistakes. Nothing
  refers to them; replacing the definition after them by one shows that a
  property notices.

### The files of a directory

`Manifest` looks at `Open` and `Save` one system call at a time, with two `DB`
objects that compete for the same directory. Its state is the files `MANIFEST`,
`CURRENT` and `LOCK` as a name in the directory (absent, written or durable) and a
content with a synced prefix, the SSTables, and what each object believes.

| Code | Actions |
|---|---|
| `Open`, the lock file, `LoadOrRecoverManifest` | `OpenLocks`, `LoadSucceeds`, `LoadFails`, `TruncateFails`, `ScanSaves` (no manifest: the version is made of the tables found) |
| `Manifest::Save`, `WriteCurrentFile` | `SaveAppends`, `SaveAppendFails`, `SaveSyncs`, `SaveReturns`, `SaveSyncsDirectory`, `WriteCurrentFile`, `SaveEnds`, `SaveStepFails` |
| flush and compaction as far as they use it | `Flushes`, `Compacts`, `Publishes`, `RemovesInputs`, `Close` |
| process death, power failure | `Killed`, `PowerFails`: unsynced names and contents may go |

A directory whose first `Save` never returned may be refused for ever: an empty
`MANIFEST` exists and cannot be loaded. No client has had a database there, so
`CommittedDirectoriesOpen` speaks of directories with a completed `Save`. A record
behind a torn one makes the log unreadable (`damaged`); that case is the run
`torn_manifest`.

### The data structures

* `Iterator`: children (block by block, blocks may be unreadable), the heap of
  `MergingIterator`, and one step of `AdvanceToNextVisible` per turn of its loop.
* `InternalKey`, `SSTable`: keys are byte sequences, since prefix compression and
  the order of internal keys depend on the bytes. `SSTable` cuts blocks, shares
  prefixes, records restart points and looks keys up again; values are left out and
  the hash values of the filter are given.
* `SkipList`: forward pointers per level; `Insert` takes any level.
* `FlushedTable` composes the three: the list is a MemTable, and in every state the
  SSTable that a flush builds of its entries answers like the list
  (`FlushPreservesReads`).
* `BlockCache`: the LRU list and its map, and readers that miss, read, put and verify
  the checksum. A read may fail or deliver damaged bytes, which are cached before they
  are verified. That a cached block is the right one for its file number rests on
  `FileNumbersAreFresh`.

### The vector extension

`HNSWIndex` has the versions per key and their visibility. `VectorDB` has threads
that call `Open`, `Close`, `Write`, `RebuildIndex`, `Search` and `SearchBatch`,
take `lifecycle_mu_` and `coordination_mu_` in the code's modes, and run in steps;
the store below is `KVStore` as a client sees it. `HNSWGraph` has insertion,
selection and pruning of neighbours, and search, with squared distances between
points of a plane and any level for a new node.

`IndexFiles` has an index that is changed, saved, loaded and merged. `Save` runs in
steps under the index's lock (write, sync, rename, sync of the directory), `MergeFrom`
inserts one version at a time among other calls. Two duties of the caller are taken
from how the code and its tests use it: nothing else runs during `Load`, which
replaces the graph before it locks, and no two `Save`s go to one path.

## The runs

| Run | Bounds | Properties |
|---|---|---|
| `crashes` | two keys, batches over both, three sequence numbers, one I/O error, two crashes, three opens | `EveryCrashRecovers`: every disk image a crash can leave recovers. `FileNumbersAreFresh`: no number is reused. `FirstHitIsNewest`: a read may stop at the first MemTable with the key. `ImplementsKVStore`: nothing acknowledged is lost, no batch is split |
| `errors` | one key, two sequence numbers, one I/O error of every kind but a torn manifest record, a client compaction, a reopen, fairness | `PublishChecksHold`: the checks after an unlock. `SequencesIdentifyWrites`. `ImplementsKVStore`. `FlushesComplete`, `CloseTerminates` (liveness) |
| `reads` | one key, three sequence numbers, one reader, one snapshot, all levels | `ReadsAreStable`: a Get that pinned a version returns the value of that moment. `TypeOK`. `ImplementsKVStore`: the snapshot keeps its view |
| `levels` | two keys, four sequence numbers, both levels overflowing at once | `LevelsAreDisjoint`. `ImplementsKVStore`: tombstones stay effective |
| `open` | two objects, four file numbers, two I/O errors, two crashes, three opens | `TypeOK` (one owner). `CommittedDirectoriesOpen`, `PublishedDataSurvives`, `NothingComesBack`: a replaced table is never found again |
| `iterator` | any three versions of two keys over two children, copied, deleted, invisible, in unreadable blocks | `IteratorIsExact`: iteration shows what point reads find, in order, or an error. `AdvanceTerminates` |
| `tables` | all skip lists of four nodes, three keys that are prefixes of each other, blocks of two entries or so, restart every second entry | `LevelsAreSublists`, `InternalKeysAreOrdered`. `EntriesAreExact`: a MemTable and its table list the same versions, in order. `FlushPreservesReads`: both find the newest visible version |
| `block_cache` | two readers, four blocks, capacities 0 to 3 | `ReadsReturnTheBlock`, `EvictsLeastRecentlyUsed` |
| `vector_calls` | two threads, four calls, one fault; values are vectors, plain or malformed | `IndexMatchesStore`, `SearchesSeeTheStore`, `ResultsAreHonest`, `DirtyNeedsFault`, `TypeOK`, `CallsReturn` (liveness) |
| `graph_build` | all graphs of five nodes on two layers, degree limit 2 | `DescentSucceeds`, `SavedGraphsLoad`, `WideSearchIsExact` |
| `index_files` | two keys, two vectors, two saves, one I/O error, one power failure | `SavesAreAccepted`, `SavesSurvive`, `IdsNameVersions`, `MergeTakesAll`, `VersionsAreImmutable` (action property) |
| `torn_manifest` | one manifest append that tears its record | `ReopensAfterError` is **violated**: see below |

All but the last hold.

**torn_manifest.** The repository's README (line 92) says that a manifest error stops
writes and that the database should be closed and reopened. When the failed append
left a torn record, a flush or compaction that was being built still publishes, its
record lands behind the torn one, and every later `Open` reports corruption.

**What the runs leave out.** Each of these is a case in which a property fails, found
while the bounds were chosen:

* `SaveFailures` has no `"torn"` in passing runs, because of `torn_manifest`.
* `AppendFailures` has no `"full"` in `crashes`: a WAL record that was stored although
  its sync reported an error is replayed by `Open` without being synced again. A flush
  of the recovered MemTable can be published and the record then be lost in a power
  failure, so that the rebuilt MemTable has only the key's older version, which
  `Get` finds before the newer one in the table (`FirstHitIsNewest`). `errors` has all
  kinds of failed appends, without power failures.
* `WideSearchIsExact` speaks of graphs too small to be pruned. Pruning
  (`hnsw_graph.cc:281`) keeps the oldest of equally near nodes, so with many overwrites
  by the same vector the newest may lose its links and not be found until a rebuild.

**Why the bounds are enough.** With limits of one, every second write reaches the
switch, flush and compaction code, so two to four sequence numbers run through all
levels. One key has overwrites and deletions; two are needed for ranges and batches.
Two crashes give a crash during the recovery from a crash. One error at a time is what
the code's error state allows before it stops; the error may hit every I/O operation
(`open` has two, since a failed `Open` may be repeated). For the pure structures the
bounds are chosen so that boundary cases occur: several blocks, several restart points,
a version list across a restart point, a level above all others, a full and an empty
cache, a pruned node. All of them are constants: a run can be made larger in its `.cfg`.

**Deadlock** is checked in the runs without an end (`tables`, `iterator`,
`block_cache`). In the others the system rests when the bounded calls are used up. That
no thread waits for ever is `FlushesComplete`, `CloseTerminates`, `AdvanceTerminates`
and `CallsReturn`.

**Fairness.** `DB!FairSpec`: weak fairness of the worker, of the holder of
`compaction_mu_`, of a writer inside `Write` and of `Close`. These are running
threads that wait for nothing but mutexes held for finite sections and a condition
variable whose flag the model has. No client call, error or crash is fair.
`VectorDB!FairSpec`: weak fairness of each thread inside a call. The number of calls
is bounded, so a writer is not overtaken by readers for ever; `std::shared_mutex`
itself does not promise that. `Iterator!FairSpec`: the loop of
`AdvanceToNextVisible` goes on.

## The proofs

Nothing is assumed but the named `ASSUME`s of the modules (keys are numbers, batches are
not empty, limits are positive, bounds are natural numbers, a value that is a vector is
not malformed, the children of an iterator are sorted blocks of versions that agree) and
what a theorem states. The theorems hold for any number of keys, batches, readers,
snapshots, threads, errors, crashes and reopens.

### The storage engine

| Theorem (`DB_proofs`) | Statement |
|---|---|
| `CompactionPreservesReads` | what a compaction retains of its inputs gives the same reads at and above the oldest snapshot |
| `InvariantHolds` | `IInv` below |
| `TypeCorrect` | `TypeOK` |
| `PublishChecksAlwaysHold` | `PublishChecksHold`: the "state changed" branches after an unlock are dead |
| `FileNumbersAreAlwaysFresh` | `FileNumbersAreFresh` |
| `EveryCrashAlwaysRecovers` | `EveryCrashRecovers`, if `"torn"` is not in `SaveFailures` |
| `RangesHold` | `RangesInv` below, under the same assumption |
| `LevelsAreAlwaysDisjoint` | `LevelsAreDisjoint`, under the same assumption |
| `LayersHold` | `LayersInv` below, if also `"full"` is not in `AppendFailures` |
| `FirstHitIsAlwaysNewest` | `FirstHitIsNewest`, under the same assumptions |
| `SequencesAlwaysIdentifyWrites` | `SequencesIdentifyWrites`, under the same assumptions |
| `ReadsAreAlwaysStable` | `ReadsAreStable`, under the same assumptions |

`CompactionPreservesReads` takes the newest visible version and
shows that it is retained, or is a tombstone under which nothing is left. The others
rest on invariants that have to be stronger than the properties:

* `IInv` (`DBInvariant`). That the head of the queue has not changed needs to know who
  removes from it: only the worker, at the end of a publication (`ControlInv`,
  `ChecksInv`). That the inputs of a compaction are still live needs that the open
  tables are those of the version, also while a save is pending (`FilesInv`). Types need
  the rest: a pruned WAL file would make the active WAL's record undefined (`WALInv`),
  and a recovered version must have a WAL number that was handed out (`ManifestInv`).
* `NumbersInv` (`DBFileSteps`): every number on disk, in the version and being built is
  below the next number, and the numbers of two builds differ. Recovery counts the files
  it finds, so this survives crashes that forget the counter.
* `TablesInv` (`DBFileSteps`): every table that a version on disk may name exists. A
  crash can bring back any version between the last sync and the end of the log, so the
  invariant speaks of all numbers that the base and the records name; a compaction's
  inputs may be removed once the base itself no longer has them.
* `RangesInv` (`DBFileSteps`): in every version that a log may replay to, and in the one
  in memory, no two files of level 1 or 2 have keys in common, and the range of a file
  covers its table. A compaction selects its inputs, builds without the lock and
  publishes over a version that a flush may have changed, so the invariant says of a
  selected compaction that its entries are beside every file of the target level that it
  did not take (`BesideInv`). A failed save may leave a record that the next `Open`
  replays; `PendingInv` and `UpperInv` say what the version being saved has, and that
  levels 1 and 2 on disk are those in memory, with or without the record being saved,
  unless a compaction's save has failed and no other can follow.
* `OrderInv` (`DBOrder`): the records of all WALs are in order of their sequence numbers.
  A step that recovers and then writes keeps it only if no version on disk skips a WAL
  with sequence numbers above its own last one, and if the next `Open` makes a new
  active WAL behind every other; the rest describes the record being written, whose
  numbers memory does not know yet.
* `LayersInv` (`DBLayers`): the sources of a read are in order. Of two sources the one
  searched first has the newer versions, but for what both have (`Covers`): `Open`
  replays WAL records that are in tables already, and the MemTable it makes is searched
  first. That the order survives a recovery is the heart of the matter. It needs to know
  which versions in tables will be replayed again: one that is in a table is in a WAL,
  or is below every record that any version of the manifest would replay (`PlacedInv`).
  It needs that a power failure takes no record that a table has a copy of, so that only
  the record being written is unsynced (`SyncedInv`), and that purges and the oldest WALs
  of queue and versions stay in order (`QueueInv`). `MemoryInv` is the order itself,
  `IdentityInv` that a number names one write, `WorkInv` and `SnapInv` what the threads
  and snapshots hold. `ReadInv` says of every pinned `Get` that it would still find what
  it wanted: of the MemTable it shares with writers it sees only what is below its
  sequence number, and when that MemTable is replaced, by a switch, `Close` or `Open`, it
  keeps its own.

The assumption on `SaveFailures` is needed: behind a torn record the log ends
for the reader while memory goes on, which is what `torn_manifest` shows. It does not
restrict `AppendFailures`. The second assumption of `LayersHold` is needed as well: see
"What the runs leave out" for the record that was stored although its sync failed.

| Module | Content |
|---|---|
| `DBInvariant` | types of the operators, facts about recovery, `IInv`, and that each action keeps it |
| `DBFileSteps` | `NumbersInv`, `TablesInv` and `RangesInv`, and that each action keeps them |
| `DBOrder` | `OrderInv`, and that each action keeps it |
| `DBLayers` | `LayersInv`, what it says of reads, and that reads, crashes, the worker and the saves of a version keep it |
| `DB_proofs` | that writes, purges, `Close` and `Open` keep `LayersInv`, and the theorems |

A lemma that only one proof needs is a named step of that proof (`<1>OpenLayers`), so that
the lemmas of a module are what other proofs cite. Some need that every set of natural
numbers has a least element. They take it as a hypothesis (`WellOrdered`), which
`DB_proofs` proves from the library's theorem that `<` is well founded.

### The files of a directory

| Theorem (`Manifest_proofs`) | Statement |
|---|---|
| `Invariance` | `IInv` of that module |
| `TypeCorrect` | `TypeOK`, with mutual exclusion of the objects |
| `CommittedDirectoriesAlwaysOpen` | `CommittedDirectoriesOpen` |
| `PublishedDataAlwaysSurvives` | `PublishedDataSurvives` |
| `NothingEverComesBack` | `NothingComesBack` |

The properties speak of every directory a crash may leave. A crash may cut the log at any
record that is not synced, so the invariant says of each length of the log that `Open` may
read (`Readable`) that its version has its tables on disk, holds the acknowledged data and
nothing that was replaced (`Keeps`). That an append keeps this needs to know how the object
that appends sees the log: a record is the difference to what the object believes durable,
while records of its failed Saves are in the log too. `VersionsOK` relates the two: the
tables the object believes in have no data that the intact log does not have, and file
numbers in use are below its next one. `JobOK` says that a table that was built has the
data of the tables it will replace, and `SaveOK` that the log ends with the version being
saved once its record is appended. None of this is claimed of a damaged log, behind
whose torn record an object has appended.

### The iterator

| Theorem (`Iterator_proofs`) | Statement |
|---|---|
| `Invariance` | `IInv` of that module |
| `IteratorIsAlwaysExact` | `IteratorIsExact` |

The children may be any number of tables and MemTables with any entries, in blocks of any
length, of which any are unreadable. `ASSUME ChildrenAreTables` says what the engine
provides: entries in internal-key order, and equal entries where two children have the
same version. The invariant places every child at the first entry that is visible and
not below the keys already done (`StandsAt`). Then the top of the heap is the newest
visible version of the least key that is left (`TopIsNext`), and the keys between the
last seek and that one have no live version (`NothingLive`). That the loop ends is
`AdvanceTerminates`, which TLC checks.

### The vector database

| Theorem (`VectorDB_proofs`) | Statement |
|---|---|
| `Invariance` | `IInv` of that module |
| `TypeCorrect` | `TypeOK` |
| `IndexIsExact` | `IndexMatchesStore` |
| `SearchesAreSound` | `SearchesSeeTheStore` |
| `CommitStatesAreTrue` | `ResultsAreHonest` |
| `IndexStaysInService` | `DirtyNeedsFault` |

All of these are about what one call may rely on while others run. The invariant has four
parts. `ShapeInv` says what a thread remembers at each point of a call. `LockInv` says
which mutexes it holds there, and that an exclusive holder is alone. `StateInv` says what
holds of the index and the store whoever runs: a ready index has the vectors of the store
unless a write is between its commit and its last index update, and the versions in it
are not above the last one handed out, so that no insertion is refused. `PhaseInv` says
what each point of a call knows: a write in the middle of its batch has indexed exactly
the prefix up to its position, and has committed all of it; a search still sees a ready
index because writers need the mutex exclusively.

### The index files

| Theorem (`VectorDB_proofs`) | Statement |
|---|---|
| `IndexInvariance` | `IndexInv` |
| `SavesAreAlwaysAccepted` | `SavesAreAccepted` |
| `SavesAlwaysSurvive` | `SavesSurvive` |
| `IdsAlwaysNameVersions` | `IdsNameVersions` |
| `MergesAlwaysTakeAll` | `MergeTakesAll` |
| `VersionsStay` | `VersionsAreImmutable`, an action property |

`IndexInv` says of the index in memory, of the file being written and of every file that
the path may name that a version has one state and that the nodes are, one to one, the
versions that are not deletions (`Fits`): merging and loading give nodes other ids, and
this is what makes an id name a version all the same. `NamesInv` says that only synced
files are named and that, since the first `Save` that returned OK, they are of that `Save`
or a later one; `SaverInv` says how far the `Save` in progress is, and `MergerInv` that what
a merge has passed is in the index.

### What is only model-checked

* The refinement `ImplementsKVStore`. Its mapping computes what `Open` would serve from
  the disk; `LayersHold` and `CompactionPreservesReads` are parts of the argument, but
  that the levels hold older versions the deeper they are, which the dropping of
  tombstones relies on, is not proved.
* Everything about liveness (`FlushesComplete`, `CloseTerminates`, `AdvanceTerminates`,
  `CallsReturn`): fairness and `ENABLED` are out of the prover's reach.
* What recursive definitions compute (`SSTable`, `SkipList`, `FlushedTable`,
  `HNSWGraph`): induction over data is out of its reach, and `RECURSIVE` operators
  disable its SMT backend.
* `BlockCache`, whose list is filtered with `SelectSeq`: what that returns needs an
  induction over the list.

## Not modelled

* `BruteForceSearch` of `VectorDB`: it scans the store under a snapshot and changes
  nothing; what it ranks are float distances.
* The validation of footer and index in `LoadIndex`: a table that fails it is a failed
  `Open`.
* Byte layouts other than keys and table entries, checksums as numbers, float arithmetic
  and distance kernels: numeric code without interleavings, for unit tests.
* Parsing of file names, statistics, logging, the drivers under `bench/` and `test/`.
* The end of the 64-bit range of file numbers, which the code refuses with a plain
  guard. (`MaxSeq` is the end of the range of sequence numbers.)
* Operating systems that drop dirty pages after a failed `fsync`, so that data read
  back fine disappears later without a power failure.
* `Load` of an index that other threads use, and two `Save`s to one path (see above).
