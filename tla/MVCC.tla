-------------------------------- MODULE MVCC --------------------------------
(***************************************************************************)
(* Versioned entries and what a read sees of a collection of them.         *)
(*                                                                         *)
(* Every write of a user key gets its own sequence number, so a value is   *)
(* identified here with the sequence number that wrote it.  A MemTable, an *)
(* SSTable, or any union of them is a set of versions.                     *)
(***************************************************************************)
EXTENDS Integers, FiniteSets, FiniteSetsExt

\* The versions over a set of keys: VersionedEntry of the source.
Versions(K) == [key : K, seq : Nat, deleted : BOOLEAN]

\* A MemTable's, a table's or a batch's worth of them.
FiniteSubsets(S) == {T \in SUBSET S : IsFiniteSet(T)}

\* The result of a read that finds no live value: Status::NotFound.
NotFound == 0

\* The versions of key k that a read at sequence s may see.
VisibleAt(E, k, s) == {e \in E : e.key = k /\ e.seq <= s}

\* e is the newest version in V.
IsNewest(e, V) == e \in V /\ \A f \in V : f.seq <= e.seq

Newest(V) == CHOOSE e \in V : IsNewest(e, V)

\* What a read of k at sequence s returns from the set E: the sequence number
\* of the newest visible version, or NotFound if there is none or it is a
\* tombstone.
Lookup(E, k, s) ==
  LET V == VisibleAt(E, k, s)
  IN  IF V = {} \/ Newest(V).deleted THEN NotFound ELSE Newest(V).seq

\* Get reads the sources in order and returns at the first one that has a
\* visible version of the key (active MemTable, then immutables, newest first);
\* only the last source, the union of the SSTables, is searched by sequence.
FirstHit(sources, k, s) ==
  LET hits == {i \in DOMAIN sources : VisibleAt(sources[i], k, s) # {}}
  IN  IF hits = {} THEN NotFound ELSE Lookup(sources[Min(hits)], k, s)

-----------------------------------------------------------------------------
(***************************************************************************)
(* The versions a compaction keeps of its inputs E.                        *)
(*                                                                         *)
(* Without an active snapshot (min = 0) only the newest version of a key   *)
(* survives, and not even that if it is a tombstone going to the lowest    *)
(* level.  With one, every version above the oldest snapshot survives, and *)
(* the newest of the others.                                               *)
(***************************************************************************)
VersionsOf(E, e) == {f \in E : f.key = e.key}

KeepLatest(E, level) ==
  {e \in E : IsNewest(e, VersionsOf(E, e)) /\ (~e.deleted \/ level < 2)}

\* (variant: not the version the snapshot itself sees)
KeepAboveSnapshots(E, min) == {e \in E : e.seq > min}
KeepForSnapshots(E, min) ==
  {e \in E : e.seq > min \/ IsNewest(e, VisibleAt(E, e.key, min))}

Retained(E, min, level) ==
  IF min = 0 THEN KeepLatest(E, level) ELSE KeepForSnapshots(E, min)

\* A sequence number names one write: no two versions of E share a number.
SeqIdentifies(E) == \A e, f \in E : e.seq = f.seq => e = f
=============================================================================
