---------------------------- MODULE DBRefinement ----------------------------
(***************************************************************************)
(* The storage engine of module DB implements the map of module KVStore.   *)
(***************************************************************************)
EXTENDS DBCorrect

\* The map that Open would serve from the WAL files and the version that log
\* replays to.  (The version is bound by a set so that TLC computes it once.)
RecoveredView(files, log) ==
  LET Recovered(e) == ReplayedVersions(files, e)
                      \cup UNION {ssts[n] : n \in Nums(e.files) \cap DOMAIN ssts}
      Views(e) == {[k \in Keys |-> Lookup(E, k, s)] :
                     E \in {Recovered(e)}, s \in {RecoveredLast(files, e)}}
  IN  CHOOSE v \in UNION {Views(e) : e \in {Replay(mbase, IntactPrefix(log))}} : TRUE

\* After a restart, and after a power failure that nothing unsynced survives.
RestartView == RecoveredView(wals, mtail)

DurableView ==
  RecoveredView([n \in DOMAIN wals |-> SyncedPart(wals[n])],
                SubSeq(mtail, 1, msynced))

\* What reads at sequence number s return now.
ViewAt(s) == [k \in Keys |-> Lookup(MemoryVersions, k, s)]

KV == INSTANCE KVStore WITH
        up      <- ~closed,
        failed  <- bgError,
        last    <- edit.last,
        view    <- IF closed THEN RestartView ELSE ViewAt(edit.last),
        restart <- RestartView,
        durable <- DurableView,
        frozen  <- [i \in Snaps |->
                      IF snaps[i] = Inactive THEN <<>> ELSE ViewAt(snaps[i])]

\* Seen from its clients the engine is the map of KVStore: a batch becomes
\* visible all at once and only when it is durable, a snapshot never changes,
\* flushes, compactions and file removals change nothing, and Close, Open and a
\* crash at any point lose no acknowledged write (README, WAL and MVCC sections).
ImplementsKVStore == KV!Spec
=============================================================================
