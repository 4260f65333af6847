------------------------------ MODULE Manifest ------------------------------
(***************************************************************************)
(* The directory of a database at the level of files and system calls: the *)
(* lock, MANIFEST and CURRENT, how Open finds or makes them, how Save      *)
(* appends a record and, the first time, installs CURRENT, and what a      *)
(* power failure can leave between any two of these calls.                 *)
(*                                                                         *)
(* Module DB starts from a directory in which MANIFEST and CURRENT exist   *)
(* and are durable; this module is about how they come to be, and about    *)
(* names, which are durable only after the directory has been synced.      *)
(* The users of the manifest are one flush and one compaction per database *)
(* object, as in DB; an SSTable is the set of flushes whose data it holds. *)
(***************************************************************************)
EXTENDS VersionEdit, FiniteSetsExt

CONSTANTS Instances,    \* DB objects, of one process or of several
          FirstTables,  \* the SSTables a directory without MANIFEST may start with
          MaxFile,      \* bound: the highest file number
          MaxFaults,    \* bound: I/O errors
          MaxCrashes,   \* bound: processes killed and power failures
          MaxOpens      \* bound: calls of Open

None == 0

ASSUME ManifestParameters ==
  /\ FirstTables \in SUBSET SUBSET (1..MaxFile)
  /\ {MaxFile, MaxFaults, MaxCrashes, MaxOpens} \subseteq Nat
  /\ None \notin Instances

VARIABLES
  \* The directory.
  ssts,       \* the SSTable files: number -> the flushes whose data it holds
  manifest,   \* MANIFEST: its name, its records, how many are synced, and
              \* whether torn bytes that were cut off may still be on the disk
  current,    \* CURRENT: its name, and whether its content is there and synced
  owner,      \* who holds the flock of LOCK
  \* The DB objects.
  db,         \* pc, edit_, persisted_edit_, jobs and files to remove
  \* History.
  acked,      \* the flushes in the version of the last Save that returned OK
  obsolete,   \* the tables that a Save that returned OK has dropped
  committed,  \* some Save has returned OK
  damaged,    \* a record was appended behind a torn one
  bounds      \* opens, crashes and faults so far

vars == <<ssts, manifest, current, owner, db, acked, obsolete, committed, damaged, bounds>>
directory == <<ssts, manifest, current>>
history == <<acked, obsolete, committed, damaged>>

Jobs == [num : Nat, inputs : SUBSET Nat]   \* a flush has no inputs

\* The part of a version that this module moves: files and next file number.
Version(nums, next) ==
  [next |-> next, wal |-> 1, last |-> 0, files |-> {[num |-> n, level |-> 0] : n \in nums}]
NoVersion == Version({}, 1)

NoJob == [num |-> 0, inputs |-> {}]
Closed == [pc |-> "closed", edit |-> NoVersion, persisted |-> NoVersion,
           built |-> {}, saving |-> NoJob, garbage |-> {}, error |-> FALSE]

TypeOK ==
  /\ DOMAIN ssts \subseteq 1..MaxFile
  /\ manifest.name \in {"absent", "linked", "durable"}
  /\ manifest.synced \in 0..Len(manifest.recs)
  /\ current.name \in {"absent", "linked", "durable"}
  /\ owner \in Instances \cup {None}
  /\ \A i \in Instances : /\ db[i].built \subseteq Jobs
                          /\ db[i].pc # "closed" <=> owner = i
  /\ obsolete \subseteq 1..MaxFile
  /\ committed \in BOOLEAN /\ damaged \in BOOLEAN

NoFile == [name |-> "absent", content |-> "empty"]

Init ==
  /\ \E S \in FirstTables : ssts = [n \in S |-> {n}]
  /\ manifest = [name |-> "absent", recs |-> <<>>, synced |-> 0, stale |-> FALSE]
  /\ current = NoFile
  /\ owner = None
  /\ db = [i \in Instances |-> Closed]
  /\ acked = {} /\ obsolete = {} /\ committed = FALSE /\ damaged = FALSE
  /\ bounds = [opens |-> 0, crashes |-> 0, faults |-> 0]

Count(what) == bounds' = [bounds EXCEPT ![what] = @ + 1]
Fault == bounds.faults < MaxFaults /\ Count("faults")

-----------------------------------------------------------------------------
(***************************************************************************)
(* Open.                                                                   *)
(***************************************************************************)
Present(file) == file.name # "absent"

\* OpenUnlocked up to the lock.  A second instance is refused.
\* (variant: does not look whether it got the lock)
OpenLocksAnyway(i) ==
  /\ db[i].pc = "closed" /\ bounds.opens < MaxOpens
  /\ owner' = i
  /\ db' = [db EXCEPT ![i] = [Closed EXCEPT !.pc = "load"]]
  /\ Count("opens")
  /\ UNCHANGED <<directory, history>>
OpenLocks(i) ==
  /\ db[i].pc = "closed" /\ bounds.opens < MaxOpens
  /\ owner = None
  /\ owner' = i
  /\ db' = [db EXCEPT ![i] = [Closed EXCEPT !.pc = "load"]]
  /\ Count("opens")
  /\ UNCHANGED <<directory, history>>

\* Open fails, or Close ends: ReleaseDirectoryLock.
Releases(i) ==
  /\ db' = [db EXCEPT ![i] = Closed]
  /\ owner' = None

Exists(m, c) == Present(c) \/ Present(m)

\* What Load demands of CURRENT and MANIFEST before it replays.
CanReplay(m, c) ==
  /\ Present(c) => c.content # "empty"
  /\ Present(m)
  /\ IntactPrefix(m.recs) # <<>>

LoadedVersion(m) == Replay(NoVersion, IntactPrefix(m.recs))

FilesExist(m) == Nums(LoadedVersion(m).files) \subseteq DOMAIN ssts

\* The version Recover goes on with: numbers of orphans are not given out again.
Recovered(e) == [e EXCEPT !.next = Max({@} \cup {n + 1 : n \in DOMAIN ssts})]

Opened(i, e, persisted) ==
  db' = [db EXCEPT ![i] = [@ EXCEPT !.pc = "open", !.edit = Recovered(e), !.persisted = persisted]]

\* Every name in the directory becomes durable.
\* (variant: only the file descriptor is opened and closed)
FsyncNothing(m, c) == manifest' = m /\ current' = c
FsyncDirectory(m, c) ==
  /\ manifest' = IF Present(m) THEN [m EXCEPT !.name = "durable"] ELSE m
  /\ current' = IF Present(c) THEN [c EXCEPT !.name = "durable"] ELSE c

FsyncFile(m) == [m EXCEPT !.synced = Len(m.recs), !.stale = FALSE]

\* resize_file: until it is synced the torn bytes may come back.
Truncated(m) == [m EXCEPT !.recs = IntactPrefix(@), !.stale = TRUE,
                          !.synced = Min({@, Len(IntactPrefix(m.recs))})]

\* LoadEditLog cuts a torn tail off and syncs the file.  Records behind the torn
\* one are cut with it when they are shorter than it announced.
LoadSucceeds(i) ==
  /\ db[i].pc = "load" /\ Exists(manifest, current)
  /\ CanReplay(manifest, current) /\ FilesExist(manifest)
  /\ IF TornRest(manifest.recs) = <<>> THEN UNCHANGED <<manifest, current>>
     ELSE FsyncDirectory(FsyncFile(Truncated(manifest)), current)
  /\ Opened(i, LoadedVersion(manifest), LoadedVersion(manifest))
  /\ UNCHANGED <<ssts, owner, history, bounds>>

\* Corruption or a missing file; records behind a torn one may also be Corruption.
LoadFails(i) ==
  /\ db[i].pc = "load" /\ Exists(manifest, current)
  /\ \/ ~CanReplay(manifest, current) \/ TornInside(manifest.recs)
     \/ ~FilesExist(manifest)
  /\ Releases(i)
  /\ UNCHANGED <<directory, history, bounds>>

\* The torn tail is cut in the file but not synced, or not cut at all.
TruncateFails(i) ==
  /\ db[i].pc = "load" /\ Exists(manifest, current)
  /\ CanReplay(manifest, current) /\ TornRest(manifest.recs) # <<>>
  /\ \/ UNCHANGED manifest
     \/ manifest' = Truncated(manifest)
  /\ Releases(i) /\ Fault
  /\ UNCHANGED <<ssts, current, history>>

\* LoadOrRecoverManifest without MANIFEST and CURRENT: every SSTable of the
\* directory becomes a file of level 0 and the version is saved.
Scanned == Version(DOMAIN ssts, 1 + Max({0} \cup DOMAIN ssts))

ScanSaves(i) ==
  /\ db[i].pc = "load" /\ ~Exists(manifest, current)
  /\ db' = [db EXCEPT ![i] = [@ EXCEPT !.pc = "append", !.edit = Scanned]]
  /\ UNCHANGED <<directory, owner, history, bounds>>

-----------------------------------------------------------------------------
(***************************************************************************)
(* Save, one system call at a time.                                        *)
(***************************************************************************)
\* edit_ holds the version being saved; a failure of the first Save is a failure
\* of Open, a later one restores the version from before the job.
Bootstraps(i) == db[i].saving = NoJob

JobDone(i) == [db[i] EXCEPT !.built = @ \ {db[i].saving}, !.saving = NoJob, !.pc = "open"]

Unpublished(i) ==
  LET e == db[i].edit
      j == db[i].saving
  IN  Version((Nums(e.files) \ {j.num}) \cup j.inputs, e.next)

SaveFails(i) ==
  IF Bootstraps(i) THEN Releases(i)
  ELSE /\ db' = [db EXCEPT ![i] = [JobDone(i) EXCEPT !.edit = Unpublished(i), !.error = TRUE]]
       /\ UNCHANGED owner

At(i, pc) == db[i].pc = pc
Goes(i, pc) == db' = [db EXCEPT ![i] = [@ EXCEPT !.pc = pc]]

Append1(m, r) ==
  [m EXCEPT !.name = IF @ = "absent" THEN "linked" ELSE @, !.recs = Append(@, r)]

SaveAppends(i) ==
  /\ At(i, "append")
  /\ manifest' = Append1(manifest, BuildEditPayload(db[i].persisted, db[i].edit))
  /\ damaged' = (damaged \/ TornRest(manifest.recs) # <<>>)
  /\ Goes(i, "sync")
  /\ UNCHANGED <<ssts, current, owner, acked, obsolete, committed, bounds>>

\* The file may have been created, or part of the record written.
SaveAppendFails(i) ==
  /\ At(i, "append")
  /\ \/ UNCHANGED manifest
     \/ manifest' = [manifest EXCEPT !.name = IF @ = "absent" THEN "linked" ELSE @]
     \/ manifest' = Append1(manifest, Tear(BuildEditPayload(db[i].persisted, db[i].edit)))
  /\ SaveFails(i) /\ Fault
  /\ UNCHANGED <<ssts, current, history>>

\* (variant: the record is not synced)
SaveSyncsNothing(i) ==
  /\ At(i, "sync")
  /\ Goes(i, "dirsync")
  /\ UNCHANGED <<directory, owner, history, bounds>>
SaveSyncs(i) ==
  /\ At(i, "sync")
  /\ manifest' = FsyncFile(manifest)
  /\ Goes(i, "dirsync")
  /\ UNCHANGED <<ssts, current, owner, history, bounds>>

\* Save returns OK.
SaveReturns(i) ==
  LET e == db[i].edit
      dropped == Nums(db[i].persisted.files) \ Nums(e.files)
  IN  /\ db' = [db EXCEPT ![i] = [JobDone(i) EXCEPT !.edit = IF Bootstraps(i) THEN Recovered(e) ELSE e,
                                                    !.persisted = e, !.garbage = @ \cup dropped]]
      /\ acked' = UNION {ssts[n] : n \in Nums(e.files)}
      /\ obsolete' = obsolete \cup dropped
      /\ committed' = TRUE
      /\ UNCHANGED damaged

\* current_exists was read when Save began; only Save creates CURRENT.
SaveSyncsDirectory(i) ==
  /\ At(i, "dirsync")
  /\ FsyncDirectory(manifest, current)
  /\ IF Present(current) THEN SaveReturns(i) ELSE Goes(i, "tmp") /\ UNCHANGED history
  /\ UNCHANGED <<ssts, owner, bounds>>

\* CURRENT.tmp is written, synced and renamed: until the rename nobody reads it.
\* (variant: renamed before its content is synced)
RenamesUnsynced(i) ==
  /\ At(i, "tmp")
  /\ current' = [name |-> "linked", content |-> "written"]
  /\ Goes(i, "renamed")
  /\ UNCHANGED <<ssts, manifest, owner, history, bounds>>
WriteCurrentFile(i) ==
  /\ At(i, "tmp")
  /\ current' = [name |-> "linked", content |-> "synced"]
  /\ Goes(i, "renamed")
  /\ UNCHANGED <<ssts, manifest, owner, history, bounds>>

SaveEnds(i) ==
  /\ At(i, "renamed")
  /\ FsyncDirectory(manifest, current)
  /\ SaveReturns(i)
  /\ UNCHANGED <<ssts, owner, bounds>>

\* Syncing the file or the directory, writing, syncing or renaming CURRENT.tmp.
SaveStepFails(i) ==
  /\ db[i].pc \in {"sync", "dirsync", "tmp", "renamed"}
  /\ SaveFails(i) /\ Fault
  /\ UNCHANGED <<directory, history>>

-----------------------------------------------------------------------------
(***************************************************************************)
(* The flush and the compaction that use the manifest, as far as it sees   *)
(* them (module DB has them in full).                                      *)
(***************************************************************************)
\* A table is written, synced and linked before it is published.  After an error
\* nothing new is built, but what was being built is still published.
Builds(i, inputs) ==
  LET n == db[i].edit.next
  IN  /\ db[i].pc = "open" /\ ~db[i].error /\ n <= MaxFile
      /\ \A j \in db[i].built : (j.inputs = {}) # (inputs = {})
      /\ ssts' = [m \in DOMAIN ssts \cup {n} |->
                    IF m # n THEN ssts[m]
                    ELSE IF inputs = {} THEN {n} ELSE UNION {ssts[k] : k \in inputs}]
      /\ db' = [db EXCEPT ![i] = [@ EXCEPT !.edit = [db[i].edit EXCEPT !.next = n + 1],
                                           !.built = db[i].built \cup {[num |-> n, inputs |-> inputs]}]]
      /\ UNCHANGED <<manifest, current, owner, history, bounds>>

Flushes(i) == Builds(i, {})

Compacts(i) ==
  \E inputs \in SUBSET Nums(db[i].edit.files) : inputs # {} /\ db[i].garbage = {} /\ Builds(i, inputs)

Publishes(i) ==
  /\ db[i].pc = "open"
  /\ \E j \in db[i].built :
       LET e == db[i].edit
           published == Version((Nums(e.files) \ j.inputs) \cup {j.num}, e.next)
       IN  db' = [db EXCEPT ![i] = [@ EXCEPT !.pc = "append", !.saving = j, !.edit = published]]
  /\ UNCHANGED <<directory, owner, history, bounds>>

\* A compaction removes the files of its inputs when its Save has returned OK.
RemovesInputs(i) ==
  /\ db[i].garbage # {}
  /\ ssts' = [n \in DOMAIN ssts \ db[i].garbage |-> ssts[n]]
  /\ db' = [db EXCEPT ![i] = [@ EXCEPT !.garbage = {}]]
  /\ UNCHANGED <<manifest, current, owner, history, bounds>>

\* Close waits for the worker and for compactions.
Close(i) ==
  /\ db[i].pc = "open" /\ db[i].built = {} /\ db[i].garbage = {}
  /\ Releases(i)
  /\ UNCHANGED <<directory, history, bounds>>

-----------------------------------------------------------------------------
(***************************************************************************)
(* Crashes.                                                                *)
(***************************************************************************)
\* The process ends and the kernel drops its lock; nothing on the disk changes.
Killed(i) ==
  /\ db[i].pc # "closed" /\ bounds.crashes < MaxCrashes
  /\ Releases(i) /\ Count("crashes")
  /\ UNCHANGED <<directory, history>>

\* What a power failure leaves of a file: a name that is not durable may be gone,
\* and of the records that are not synced a prefix and part of the next one are left.
Images(m) ==
  LET cut(n, torn) == SubSeq(m.recs, 1, n)
                      \o (IF torn THEN <<Tear(IF n < Len(m.recs) THEN m.recs[n + 1] ELSE m.recs[n])>> ELSE <<>>)
      logs == {cut(n, FALSE) : n \in m.synced..Len(m.recs)}
              \cup {cut(n, TRUE) : n \in m.synced..(Len(m.recs) - 1)}
              \cup (IF m.stale THEN {cut(m.synced, TRUE)} ELSE {})
      left == {[name |-> "durable", recs |-> l, synced |-> Len(l), stale |-> FALSE] : l \in logs}
      gone == {[name |-> "absent", recs |-> <<>>, synced |-> 0, stale |-> FALSE]}
  IN  CASE m.name = "absent" -> gone [] m.name = "linked" -> left \cup gone
        [] m.name = "durable" -> left

CurrentImages(c) ==
  LET left == {[name |-> "durable", content |-> s] :
                 s \in IF c.content = "written" THEN {"synced", "empty"} ELSE {c.content}}
  IN  CASE c.name = "absent" -> {NoFile} [] c.name = "linked" -> left \cup {NoFile}
        [] c.name = "durable" -> left

PowerFails ==
  /\ bounds.crashes < MaxCrashes /\ Count("crashes")
  /\ manifest' \in Images(manifest) /\ current' \in CurrentImages(current)
  /\ owner' = None /\ db' = [i \in Instances |-> Closed]
  /\ UNCHANGED <<ssts, history>>

-----------------------------------------------------------------------------
Next ==
  \/ PowerFails
  \/ \E i \in Instances :
       \/ OpenLocks(i) \/ LoadSucceeds(i) \/ LoadFails(i) \/ TruncateFails(i) \/ ScanSaves(i)
       \/ SaveAppends(i) \/ SaveAppendFails(i) \/ SaveSyncs(i) \/ SaveSyncsDirectory(i)
       \/ WriteCurrentFile(i) \/ SaveEnds(i) \/ SaveStepFails(i)
       \/ Flushes(i) \/ Compacts(i) \/ Publishes(i) \/ RemovesInputs(i) \/ Close(i)
       \/ Killed(i)

Spec == Init /\ [][Next]_vars

-----------------------------------------------------------------------------
(***************************************************************************)
(* What every directory a crash can leave right now guarantees.            *)
(***************************************************************************)
Crashed == {<<m, c>> : m \in Images(manifest) \cup {manifest},
                       c \in CurrentImages(current) \cup {current}}

\* Once a Save has returned OK the directory can be opened after any crash, unless
\* a record was appended behind a torn one: CURRENT and MANIFEST are found, a
\* record is intact and the tables it names exist.  So the only directory that a
\* crash makes unusable is one whose first Save never returned.
CommittedDirectoriesOpen ==
  committed /\ ~damaged =>
    \A d \in Crashed : CanReplay(d[1], d[2]) /\ FilesExist(d[1])

\* The tables of the version that a crash and Open would lead to.
TablesAfter(m, c) ==
  IF Exists(m, c) THEN Nums(LoadedVersion(m).files) ELSE DOMAIN ssts

\* No flush that was published is lost: the version found after a crash holds its
\* data, although records of failed Saves are replayed as well and each record is
\* only the difference to the version the object believed durable.
PublishedDataSurvives ==
  committed /\ ~damaged =>
    \A d \in Crashed :
      acked \subseteq UNION {ssts[n] : n \in TablesAfter(d[1], d[2]) \cap DOMAIN ssts}

\* A table that a published compaction replaced never comes back, neither through
\* the log nor through the scan of the directory: what it would uncover was
\* overwritten or deleted.
NothingComesBack ==
  ~damaged => \A d \in Crashed : obsolete \cap TablesAfter(d[1], d[2]) = {}
=============================================================================
