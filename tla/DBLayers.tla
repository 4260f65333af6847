------------------------------ MODULE DBLayers ------------------------------
(***************************************************************************)
(* The order of the sources of a read: the invariant that lets a read stop *)
(* at the first MemTable that has its key, that makes a sequence number    *)
(* name one write wherever its copies are, and a Get find what it would    *)
(* have found when it pinned its version; what it says of a read; and that *)
(* the steps of the worker, those that save the version, reads and crashes *)
(* keep it.                                                                *)
(***************************************************************************)
EXTENDS DBOrder

(***************************************************************************)
(* The layers of a read.                                                   *)
(***************************************************************************)

\* The versions in the records of the files with numbers from low on.
Logged(files, low) ==
  UNION {RecordedVersions(files[n]) : n \in {m \in DOMAIN files : m >= low}}

\* The versions in tables, on disk or open.
StoredVersions == TableVersions \cup UNION {ssts[n] : n \in DOMAIN ssts}

\* Every version of the manifest knows a sequence number as large as v's, and
\* keeps alive only records with larger ones.
Settled(files, marks, v) ==
  \A p \in marks : v.seq <= p[2] /\ \A u \in Logged(files, p[1]) : v.seq < u.seq

\* A version that is in a table is still in a WAL, or below every record that some
\* version of the manifest would replay.
PlacedInv ==
  \A v \in StoredVersions :
    v \in Logged(wals, 0) \/ Settled(wals, Marks(mbase, mtail), v)

\* Only the record being written is not synced.
SyncedInv ==
  \A n \in DOMAIN wals : \A i \in DOMAIN wals[n].recs :
    \/ i <= wals[n].synced
    \/ mu = "write" /\ n = activeWal /\ i = Len(wals[n].recs)

\* A sequence number names one write.
IdentityInv == SeqIdentifies(StoredVersions \cup Logged(wals, 0))

\* The WALs of the queued MemTables are in order, none is below the oldest WAL of
\* the version, and a purge reaches only below the oldest WAL of every version of
\* the manifest.
QueueInv ==
  /\ ~closed => mbase.wal <= edit.wal
  /\ TornRest(mtail) = <<>> => \A p \in Marks(mbase, mtail) : mbase.wal <= p[1]
  /\ ~closed /\ mu # "purge" =>
       /\ edit.wal <= oldestWal
       /\ \A i \in DOMAIN imm : edit.wal <= imm[i].wal /\ imm[i].wal <= oldestWal
       /\ \A i, j \in DOMAIN imm : i < j => imm[i].wal <= imm[j].wal
  /\ worker.pc \in {"compact", "purge"} =>
       worker.wal <= edit.wal /\ \A p \in Marks(mbase, mtail) : worker.wal <= p[1]
  /\ Saving => mtail[Len(mtail)].wal = pending.wal
  /\ mu \in {"rotate", "compact"} => pending.wal = edit.wal
  /\ mu = "flush" => pending.wal = NextLiveWAL
  /\ mu = "purge" => \A p \in Marks(mbase, mtail) : edit.wal <= p[1]

\* A is newer than B, but for what both have.
Covers(A, B) == \A u \in A, v \in B : u.seq <= v.seq => v \in A

\* What is in memory the version knows and a WAL has; and of two sources of a read
\* the one that is searched first is newer.
MemoryInv ==
  ~closed =>
    /\ \A v \in MemoryVersions \cup StoredVersions : v.seq <= edit.last
    /\ active \subseteq Logged(wals, oldestWal)
    /\ \A i \in DOMAIN imm : imm[i].ents \subseteq Logged(wals, imm[i].wal)
    /\ Covers(active, TableVersions)
    /\ \A i \in DOMAIN imm : Covers(active, imm[i].ents) /\ Covers(imm[i].ents, TableVersions)
    /\ \A i, j \in DOMAIN imm : i < j => Covers(imm[j].ents, imm[i].ents)

\* What the threads work on is what they took.
WorkInv ==
  /\ worker.pc \in {"build", "publish"} => worker.ents = imm[1].ents
  /\ comp.stage \in {"build", "publish"} => comp.ents \subseteq TableVersions
  /\ closed \/ closer.pc = "join" => active = {}

\* A snapshot is of something written.
SnapInv == \A i \in Snaps : IF closed THEN snaps[i] = Inactive ELSE snaps[i] <= edit.last

\* What a Get finds in the MemTables L, or else in the tables T.
Searched(L, T, k, s) ==
  IF \E i \in DOMAIN L : VisibleAt(L[i], k, s) # {} THEN FirstHit(L, k, s) ELSE Lookup(T, k, s)

\* What a Get that has pinned its version would find now.
Found(r) ==
  LET p == reader[r] IN Searched(PinnedMemTables(r), p.tabs, p.key, p.seq)

\* A Get that has not returned finds what it would have found at once.
ReadInv ==
  \A r \in Readers :
    LET p == reader[r]
    IN  /\ p.pc = "pinned" => Found(r) = p.want
        /\ p.pc = "tables" => Lookup(p.tabs, p.key, p.seq) = p.want
        /\ p.pc = "done" => p.got = p.want
        /\ p.shared => p.pc = "pinned" /\ (~closed => p.seq <= edit.last)

LayersInv ==
  PlacedInv /\ SyncedInv /\ IdentityInv /\ QueueInv /\ MemoryInv /\ WorkInv /\ SnapInv /\ ReadInv

-----------------------------------------------------------------------------
(***************************************************************************)
(* Logs and layers.                                                        *)
(***************************************************************************)

\* What it means for a version to be in the log.
LEMMA InLog ==
  ASSUME NEW files, NEW low, NEW v
  PROVE  v \in Logged(files, low) <=>
           \E n \in DOMAIN files : n >= low /\ \E i \in DOMAIN files[n].recs : v \in files[n].recs[i]
<1> USE Zenon
<1> DEFINE S == {m \in DOMAIN files : m >= low}
<1>1. \A n : v \in RecordedVersions(files[n]) <=> \E i \in DOMAIN files[n].recs : v \in files[n].recs[i]
  BY DEF RecordedVersions
<1>2. v \in Logged(files, low) <=> \E n \in S : v \in RecordedVersions(files[n])
  BY DEF Logged
<1> QED BY <1>1, <1>2

\* Where all records were there before, the log has nothing new.
LEMMA LogKept ==
  ASSUME NEW old, NEW new, Kept(old, new), NEW low
  PROVE  Logged(new, low) \subseteq Logged(old, low)
<1> USE Zenon
<1> SUFFICES ASSUME NEW v \in Logged(new, low) PROVE v \in Logged(old, low)
  OBVIOUS
<1>1. PICK n \in DOMAIN new : n >= low /\ \E i \in DOMAIN new[n].recs : v \in new[n].recs[i]
  BY InLog
<1>2. n \in DOMAIN old /\ \E i \in DOMAIN old[n].recs : v \in old[n].recs[i]
  BY <1>1 DEF Kept
<1> QED BY <1>1, <1>2, InLog

\* Fewer files have fewer records.
LEMMA LogShrinks ==
  ASSUME IInv, NEW low \in Nat, NEW high \in Nat, low <= high
  PROVE  Logged(wals, high) \subseteq Logged(wals, low)
<1> USE Zenon
<1>1. DOMAIN wals \in SUBSET Nat
  BY OrderTypes
<1>2. \A n \in DOMAIN wals : n >= high => n >= low
  BY <1>1, SMT
<1> SUFFICES ASSUME NEW v \in Logged(wals, high) PROVE v \in Logged(wals, low)
  OBVIOUS
<1> QED BY <1>2, InLog

\* The types of what the layers are made of.
LEMMA LayerTypes ==
  ASSUME IInv
  PROVE  /\ StoredVersions \subseteq Version /\ TableVersions \subseteq Version
         /\ active \subseteq Version /\ MemoryVersions \subseteq Version
         /\ imm \in Seq(Immutables)
         /\ \A i \in DOMAIN imm : imm[i] \in Immutables /\ imm[i].ents \subseteq Version
                                  /\ imm[i].wal \in Nat
         /\ \A v \in Version : v.seq \in Nat
         /\ oldestWal \in Nat /\ worker.wal \in Nat
         /\ snaps \in [Snaps -> Nat \cup {Inactive}]
         /\ \A r \in Readers : reader[r] \in Gets
<1> USE Zenon
<1>1. /\ IsDirectory(ssts, VersionSets) /\ IsDirectory(tables, VersionSets)
      /\ active \in VersionSets /\ imm \in Seq(Immutables) /\ oldestWal \in Nat
      /\ snaps \in [Snaps -> Nat \cup {Inactive}] /\ worker \in Workers
      /\ reader \in [Readers -> Gets]
  BY DEF IInv, TypeOK, DiskTypeOK, MemoryTypeOK, ThreadsTypeOK, ReadersTypeOK
<1>2. \A S \in VersionSets : S \subseteq Version
  BY DEF VersionSets, FiniteSubsets
<1>3. \A n \in DOMAIN ssts : ssts[n] \in VersionSets
  BY <1>1 DEF IsDirectory
<1>4. \A n \in DOMAIN tables : tables[n] \in VersionSets
  BY <1>1 DEF IsDirectory
<1>5. TableVersions \subseteq Version
  BY <1>2, <1>4 DEF TableVersions
<1>6. StoredVersions \subseteq Version
  BY <1>2, <1>3, <1>5 DEF StoredVersions
<1>7. \A i \in DOMAIN imm : imm[i] \in Immutables
  BY <1>1, SMT
<1>8. \A i \in DOMAIN imm : imm[i].ents \subseteq Version /\ imm[i].wal \in Nat
  BY <1>2, <1>7 DEF Immutables
<1>9. active \subseteq Version
  BY <1>1, <1>2
<1>10. MemoryVersions \subseteq Version
  BY <1>5, <1>8, <1>9 DEF MemoryVersions
<1>11. \A v \in Version : v.seq \in Nat
  BY DEF Version, Versions
<1>12. worker.wal \in Nat
  BY <1>1 DEF Workers
<1> QED BY <1>1, <1>5, <1>6, <1>7, <1>8, <1>9, <1>10, <1>11, <1>12

-----------------------------------------------------------------------------
(***************************************************************************)
(* What a read finds in layers.                                            *)
(***************************************************************************)

\* Where sequence numbers identify versions, the newest version is unique, and
\* Newest finds it.
LEMMA NewestIsUnique ==
  ASSUME NEW K, NEW V \in SUBSET Versions(K), SeqIdentifies(V),
         NEW n \in V, IsNewest(n, V)
  PROVE  Newest(V) = n
<1> USE Zenon
<1>1. ASSUME NEW m \in V, IsNewest(m, V) PROVE m = n
  <2>1. m.seq <= n.seq /\ n.seq <= m.seq /\ m.seq \in Nat /\ n.seq \in Nat
    BY <1>1 DEF IsNewest, Versions
  <2>2. m.seq = n.seq
    BY <2>1, SMT
  <2> QED BY <2>2 DEF SeqIdentifies
<1>2. Newest(V) \in V /\ IsNewest(Newest(V), V)
  BY DEF Newest
<1> QED BY <1>1, <1>2

\* A read's result depends on the newest visible version only: dropping others
\* changes nothing.
LEMMA LookupNeedsNewest ==
  ASSUME NEW K, NEW V \in SUBSET Versions(K), NEW W \in SUBSET Versions(K),
         NEW k, NEW s \in Nat, SeqIdentifies(V), W \subseteq V,
         NEW n \in VisibleAt(W, k, s), IsNewest(n, VisibleAt(V, k, s))
  PROVE  Lookup(W, k, s) = Lookup(V, k, s)
<1> USE Zenon
<1> DEFINE VV == VisibleAt(V, k, s)
           WW == VisibleAt(W, k, s)
<1>1. /\ WW \subseteq VV /\ n \in VV /\ n \in WW
      /\ VV \in SUBSET Versions(K) /\ WW \in SUBSET Versions(K)
  BY DEF VisibleAt
<1>2. SeqIdentifies(VV) /\ SeqIdentifies(WW)
  BY DEF SeqIdentifies, VisibleAt
<1>3. IsNewest(n, VV) /\ IsNewest(n, WW)
  BY <1>1 DEF IsNewest
<1>4. Newest(VV) = n /\ Newest(WW) = n
  <2> HIDE DEF VV, WW
  <2> QED BY <1>1, <1>2, <1>3, NewestIsUnique, SMT
<1> QED BY <1>1, <1>4 DEF Lookup

\* E may be replaced by what a compaction retains of it, with R the other versions:
\* the read at s is not below the oldest snapshot, and no tombstone that is dropped
\* hides a version of R.
Replaceable(K, E, R, min, level, s) ==
  /\ E \in SUBSET Versions(K) /\ R \in SUBSET Versions(K)
  /\ min \in Nat /\ level \in 0..2 /\ s \in Nat
  /\ SeqIdentifies(E \cup R)
  /\ min # 0 => min <= s
  /\ min = 0 => \A e \in E : e.seq <= s
  /\ min = 0 /\ level = 2 =>
       \A e \in E, f \in R : e.deleted /\ f.key = e.key => ~(f.seq < e.seq)

\* Replacing the inputs of a compaction by what it retains of them changes no read that
\* is not below the compaction's oldest snapshot.
LEMMA RetainedPreservesReads ==
  ASSUME WellOrdered, NEW K, NEW E, NEW R, NEW min, NEW level, NEW k, NEW s,
         Replaceable(K, E, R, min, level, s)
  PROVE  Lookup(Retained(E, min, level) \cup R, k, s) = Lookup(E \cup R, k, s)
<1> USE Zenon
<1> SUFFICES ASSUME E \in SUBSET Versions(K), R \in SUBSET Versions(K),
                    min \in Nat, level \in 0..2, s \in Nat,
                    SeqIdentifies(E \cup R),
                    min # 0 => min <= s,
                    min = 0 => \A e \in E : e.seq <= s,
                    min = 0 /\ level = 2 =>
                      \A e \in E, f \in R : e.deleted /\ f.key = e.key => ~(f.seq < e.seq)
             PROVE  Lookup(Retained(E, min, level) \cup R, k, s) = Lookup(E \cup R, k, s)
  BY DEF Replaceable
<1> DEFINE A == E \cup R
           B == Retained(E, min, level) \cup R
           V == VisibleAt(A, k, s)
           W == VisibleAt(B, k, s)
<1>1. /\ B \subseteq A /\ W \subseteq V
      /\ A \in SUBSET Versions(K) /\ B \in SUBSET Versions(K)
      /\ V \in SUBSET Versions(K) /\ \A e \in V : e.seq <= s
  BY DEF Retained, KeepLatest, KeepForSnapshots, VisibleAt
<1>2. CASE V = {}
  <2>1. W = {}
    BY <1>1, <1>2
  <2> QED BY <1>2, <2>1 DEF Lookup
<1>3. CASE V # {}
  <2>1. PICK n \in V : IsNewest(n, V)
    <3> HIDE DEF V
    <3> QED BY <1>1, <1>3, NewestExists, SMT
  <2>2. n \in A /\ n.key = k /\ n.seq <= s /\ n.seq \in Nat
    BY DEF VisibleAt, Versions
  <2>3. CASE n \in B
    <3>1. n \in W
      BY <2>2, <2>3 DEF VisibleAt
    <3>2. Lookup(B, k, s) = Lookup(A, k, s)
      <4>1. SeqIdentifies(A)
        BY SMT
      <4> HIDE DEF A, B
      <4> QED BY <1>1, <2>1, <3>1, <4>1, LookupNeedsNewest, SMT
    <3> QED BY <3>2
  <2>4. CASE n \notin B
    <3>1. n \in E /\ n \notin R /\ n \notin Retained(E, min, level)
      BY <2>2, <2>4
    <3>2. min = 0
      <4> SUFFICES ASSUME min # 0 PROVE FALSE
        BY SMT
      <4>1. ~(n.seq > min) /\ ~IsNewest(n, VisibleAt(E, n.key, min))
        BY <3>1 DEF Retained, KeepForSnapshots
      <4>2. \A f \in VisibleAt(E, n.key, min) : f \in V
        BY <2>2, SMT DEF VisibleAt, Versions
      <4>3. IsNewest(n, VisibleAt(E, n.key, min))
        BY <2>1, <2>2, <3>1, <4>1, <4>2, SMT DEF IsNewest, VisibleAt
      <4> QED BY <4>1, <4>3, SMT
    <3>3. \A f \in VersionsOf(E, n) : f \in V
      BY <2>2, <3>2 DEF VersionsOf, VisibleAt
    <3>4. IsNewest(n, VersionsOf(E, n))
      BY <2>1, <3>1, <3>3 DEF IsNewest, VersionsOf
    <3>5. n.deleted /\ level = 2
      BY <3>1, <3>2, <3>4, SMT DEF Retained, KeepLatest
    <3>6. W = {}
      <4> SUFFICES ASSUME NEW f \in W PROVE FALSE
        OBVIOUS
      <4>1. f \in B /\ f \in V /\ f \in A /\ f.key = k /\ f.seq \in Nat /\ f.seq <= n.seq
        BY <1>1, <2>1, SMT DEF VisibleAt, IsNewest, Versions
      <4>2. f # n
        BY <2>4, <4>1, SMT
      <4>3. f.seq # n.seq
        BY <2>2, <4>1, <4>2 DEF SeqIdentifies
      <4>4. f.seq < n.seq
        BY <2>2, <4>1, <4>3, SMT
      <4>5. f \notin R
        BY <2>2, <3>1, <3>2, <3>5, <4>1, <4>4, SMT
      <4>6. f \in E /\ IsNewest(f, VersionsOf(E, f))
        BY <3>2, <4>1, <4>5, SMT DEF Retained, KeepLatest
      <4>7. n.seq <= f.seq
        BY <2>2, <3>1, <4>1, <4>6, SMT DEF IsNewest, VersionsOf
      <4> QED BY <2>2, <4>1, <4>4, <4>7, SMT
    <3>7. Newest(V) = n
      <4>1. SeqIdentifies(V)
        BY DEF SeqIdentifies, VisibleAt
      <4> HIDE DEF V
      <4> QED BY <1>1, <2>1, <4>1, NewestIsUnique, SMT
    <3> QED BY <1>3, <3>5, <3>6, <3>7, SMT DEF Lookup
  <2> QED BY <2>3, <2>4, SMT
<1> QED BY <1>2, <1>3

\* Every source of a read is newer than those behind it, the tables last.
Stacked(L, T) ==
  /\ \A i, j \in DOMAIN L : i < j => Covers(L[i], L[j])
  /\ \A i \in DOMAIN L : Covers(L[i], T)

Sources(L, T) == T \cup UNION {L[i] : i \in DOMAIN L}

\* A read depends only on what is visible in its sources.
LEMMA SameVisible ==
  ASSUME WellOrdered, NEW L, NEW M, NEW k, NEW s, DOMAIN L = DOMAIN M, DOMAIN L \in SUBSET Nat,
         \A i \in DOMAIN L : VisibleAt(L[i], k, s) = VisibleAt(M[i], k, s)
  PROVE  FirstHit(L, k, s) = FirstHit(M, k, s)
<1> USE Zenon
<1> DEFINE H == {i \in DOMAIN L : VisibleAt(L[i], k, s) # {}}
           J == {i \in DOMAIN M : VisibleAt(M[i], k, s) # {}}
<1>1. H = J /\ H \in SUBSET Nat
  OBVIOUS
<1>2. FirstHit(L, k, s) = IF H = {} THEN NotFound ELSE Lookup(L[Min(H)], k, s)
  BY DEF FirstHit
<1>3. FirstHit(M, k, s) = IF J = {} THEN NotFound ELSE Lookup(M[Min(J)], k, s)
  BY DEF FirstHit
<1>4. H # {} => Min(H) \in H
  <2> HIDE DEF H
  <2> QED BY <1>1, MinProperties
<1>5. H # {} => Min(H) \in DOMAIN L
  BY <1>4
<1> HIDE DEF H, J
<1>6. H # {} => Lookup(L[Min(H)], k, s) = Lookup(M[Min(H)], k, s)
  <2>1. H # {} => VisibleAt(L[Min(H)], k, s) = VisibleAt(M[Min(H)], k, s)
    BY <1>5
  <2> QED BY <2>1 DEF Lookup
<1> QED BY <1>1, <1>2, <1>3, <1>6, SMT

-----------------------------------------------------------------------------
(***************************************************************************)
(* What several steps have in common.                                      *)
(***************************************************************************)

\* The marks of the manifest are numbers.
LEMMA MarkTypes == IInv => \A p \in Marks(mbase, mtail) : p[1] \in Nat
  BY OrderTypes, Zenon

\* One of them is that of the version that the log starts from.
LEMMA MarkOfBase ==
  IInv => mbase.wal \in Nat /\ \E p \in Marks(mbase, mtail) : p[1] = mbase.wal
<1> USE Zenon
<1> SUFFICES ASSUME IInv PROVE mbase.wal \in Nat /\ \E p \in Marks(mbase, mtail) : p[1] = mbase.wal
  OBVIOUS
<1>1. <<mbase.wal, mbase.last>> \in Marks(mbase, mtail)
  BY DEF Marks
<1>2. <<mbase.wal, mbase.last>>[1] = mbase.wal
  OBVIOUS
<1>3. mbase.wal \in Nat
  BY OrderTypes DEF Edits
<1> QED BY <1>1, <1>2, <1>3

\* Tables stay placed: those written are in the log, records come only behind all
\* of them, those that go were below what every version of the manifest replays,
\* and a new version of the manifest keeps no more alive than an old one.
LEMMA PlacedKept ==
  ASSUME IInv, IInv', PlacedInv,
         \A v \in StoredVersions' : v \in StoredVersions \/ v \in Logged(wals', 0),
         \A v \in StoredVersions :
           v \in Logged(wals, 0) => v \in Logged(wals', 0) \/ Settled(wals', Marks(mbase', mtail'), v),
         \A low : \A u \in Logged(wals', low) :
           u \in Logged(wals, low) \/ \A v \in StoredVersions : v.seq < u.seq,
         \A q \in Marks(mbase', mtail') :
           \/ q \in Marks(mbase, mtail)
           \/ /\ \A v \in StoredVersions : v.seq <= q[2]
              /\ \E p \in Marks(mbase, mtail) : p[1] <= q[1]
  PROVE  PlacedInv'
<1> USE Zenon
<1> DEFINE M == Marks(mbase, mtail)
           N == Marks(mbase', mtail')
<1>1. /\ \A p \in M : p[1] \in Nat
      /\ \A p \in N : p[1] \in Nat
  <2>1. \A p \in M : p[1] \in Nat
    BY OrderTypes
  <2>2. (\A p \in Marks(mbase, mtail) : p[1] \in Nat)'
    BY MarkTypes, PTL
  <2> QED BY <2>1, <2>2
<1> SUFFICES ASSUME NEW v \in StoredVersions'
             PROVE  v \in Logged(wals', 0) \/ Settled(wals', N, v)
  BY DEF PlacedInv
<1>2. CASE v \in StoredVersions /\ v \notin Logged(wals, 0)
  <2>1. Settled(wals, M, v)
    BY <1>2 DEF PlacedInv
  <2> SUFFICES ASSUME NEW q \in N
               PROVE  v.seq <= q[2] /\ \A u \in Logged(wals', q[1]) : v.seq < u.seq
    BY DEF Settled
  <2>2. CASE q \in M
    BY <1>2, <2>1, <2>2 DEF Settled
  <2>3. CASE q \notin M
    <3>1. PICK p \in M : p[1] <= q[1]
      BY <2>3
    <3>2. p[1] \in Nat /\ q[1] \in Nat
      BY <1>1
    <3>3. \A u \in Logged(wals, p[1]) : v.seq < u.seq
      BY <2>1 DEF Settled
    <3>4. Logged(wals, q[1]) \subseteq Logged(wals, p[1])
      BY <3>1, <3>2, LogShrinks
    <3> QED BY <1>2, <2>3, <3>3, <3>4
  <2> QED BY <2>2, <2>3
<1> QED BY <1>2

\* The same for a step that leaves the records where they are.
LEMMA PlacedSame ==
  ASSUME IInv, IInv', PlacedInv, Kept(wals, wals'), Kept(wals', wals),
         \A v \in StoredVersions' : v \in StoredVersions \/ v \in Logged(wals, 0),
         \A q \in Marks(mbase', mtail') :
           \/ q \in Marks(mbase, mtail)
           \/ /\ \A v \in StoredVersions : v.seq <= q[2]
              /\ \E p \in Marks(mbase, mtail) : p[1] <= q[1]
  PROVE  PlacedInv'
<1> USE Zenon
<1>1. ASSUME NEW low PROVE Logged(wals', low) = Logged(wals, low)
  <2>1. Logged(wals', low) \subseteq Logged(wals, low) /\ Logged(wals, low) \subseteq Logged(wals', low)
    BY LogKept
  <2> QED BY <2>1
<1> QED BY <1>1, PlacedKept

\* A sequence number that names one write goes on naming it as long as nothing is
\* written.
LEMMA IdentityKept ==
  ASSUME IdentityInv, \A v \in StoredVersions' : v \in StoredVersions \/ v \in Logged(wals, 0),
         Logged(wals', 0) \subseteq Logged(wals, 0)
  PROVE  IdentityInv'
  BY Zenon DEF IdentityInv, SeqIdentifies

\* The disk after a step that writes only tables whose versions are logged.
LEMMA DiskSame ==
  ASSUME IInv, IInv', PlacedInv, SyncedInv, IdentityInv, UNCHANGED wals,
         mu' # "write" => mu # "write", mu' = "write" => mu = "write" /\ activeWal' = activeWal,
         \A v \in StoredVersions' : v \in StoredVersions \/ v \in Logged(wals, 0),
         \A q \in Marks(mbase', mtail') :
           \/ q \in Marks(mbase, mtail)
           \/ /\ \A v \in StoredVersions : v.seq <= q[2]
              /\ \E p \in Marks(mbase, mtail) : p[1] <= q[1]
  PROVE  PlacedInv' /\ SyncedInv' /\ IdentityInv'
<1> USE Zenon
<1>1. Kept(wals, wals') /\ Kept(wals', wals)
  BY DEF Kept
<1>2. PlacedInv'
  BY <1>1, PlacedSame
<1>3. IdentityInv'
  BY IdentityKept
<1>4. SyncedInv'
  BY DEF SyncedInv
<1> QED BY <1>2, <1>3, <1>4

\* The layers do not change when neither they nor the log do, and a table comes
\* only with versions that some layer has.
LEMMA MemorySame ==
  ASSUME MemoryInv, ~closed' => ~closed,
         UNCHANGED <<active, oldestWal, imm, wals>>, edit'.last = edit.last,
         TableVersions' \subseteq TableVersions,
         \A v \in StoredVersions' : v \in StoredVersions \/ v \in MemoryVersions
  PROVE  MemoryInv'
<1> USE Zenon
<1> SUFFICES ASSUME ~closed' PROVE MemoryInv'
  BY DEF MemoryInv
<1>1. \A v \in MemoryVersions' \cup StoredVersions' : v.seq <= edit'.last
  <2>1. MemoryVersions' \subseteq MemoryVersions
    BY DEF MemoryVersions
  <2> QED BY <2>1 DEF MemoryInv
<1>2. /\ active' \subseteq Logged(wals', oldestWal')
      /\ \A i \in DOMAIN imm' : imm'[i].ents \subseteq Logged(wals', imm'[i].wal)
  BY DEF MemoryInv
<1>3. Covers(active', TableVersions')
  BY DEF MemoryInv, Covers
<1>4. \A i \in DOMAIN imm' : Covers(active', imm'[i].ents) /\ Covers(imm'[i].ents, TableVersions')
  BY DEF MemoryInv, Covers
<1>5. \A i, j \in DOMAIN imm' : i < j => Covers(imm'[j].ents, imm'[i].ents)
  BY DEF MemoryInv
<1> QED BY <1>1, <1>2, <1>3, <1>4, <1>5 DEF MemoryInv

\* The queue and the WALs that it keeps alive do not change.
LEMMA QueueSame ==
  ASSUME QueueInv, UNCHANGED <<mbase, mtail, closed, oldestWal, imm, mu, pending>>,
         edit'.wal = edit.wal,
         worker'.pc \in {"compact", "purge"} =>
           worker.pc \in {"compact", "purge"} /\ worker'.wal = worker.wal
  PROVE  QueueInv'
<1> USE Zenon
<1> DEFINE M == Marks(mbase, mtail)
<1>1. M' = M /\ NextLiveWAL' = NextLiveWAL /\ (Saving' <=> Saving)
  BY DEF Marks, NextLiveWAL, Saving
<1>2. /\ ~closed => mbase.wal <= edit.wal
      /\ TornRest(mtail) = <<>> => \A p \in M : mbase.wal <= p[1]
      /\ worker.pc \in {"compact", "purge"} => worker.wal <= edit.wal /\ \A p \in M : worker.wal <= p[1]
      /\ mu = "purge" => \A p \in M : edit.wal <= p[1]
  BY DEF QueueInv
<1> HIDE DEF M
<1>3. /\ ~closed' => mbase'.wal <= edit'.wal
      /\ TornRest(mtail') = <<>> => \A p \in M' : mbase'.wal <= p[1]
      /\ worker'.pc \in {"compact", "purge"} => worker'.wal <= edit'.wal /\ \A p \in M' : worker'.wal <= p[1]
      /\ mu' = "purge" => \A p \in M' : edit'.wal <= p[1]
  BY <1>1, <1>2
<1>4. ~closed' /\ mu' # "purge" =>
        /\ edit'.wal <= oldestWal'
        /\ \A i \in DOMAIN imm' : edit'.wal <= imm'[i].wal /\ imm'[i].wal <= oldestWal'
        /\ \A i, j \in DOMAIN imm' : i < j => imm'[i].wal <= imm'[j].wal
  BY DEF QueueInv
<1>5. /\ Saving' => mtail'[Len(mtail')].wal = pending'.wal
      /\ mu' \in {"rotate", "compact"} => pending'.wal = edit'.wal
      /\ mu' = "flush" => pending'.wal = NextLiveWAL'
  BY <1>1 DEF QueueInv
<1> QED BY <1>3, <1>4, <1>5 DEF QueueInv, M

\* Nobody's work changes but by its own steps.
LEMMA WorkSame ==
  ASSUME WorkInv, UNCHANGED <<closed, closer, active, imm, tables>>,
         worker'.pc \in {"build", "publish"} =>
           worker.pc \in {"build", "publish"} /\ worker'.ents = worker.ents,
         comp'.stage \in {"build", "publish"} =>
           comp.stage \in {"build", "publish"} /\ comp'.ents = comp.ents
  PROVE  WorkInv'
<1>1. TableVersions' = TableVersions
  BY Zenon DEF TableVersions
<1> QED BY <1>1, Zenon DEF WorkInv

\* Snapshots stay what they are.
LEMMA SnapSame ==
  ASSUME IInv, IInv', SnapInv, UNCHANGED <<closed, snaps>>, ~closed => edit.last <= edit'.last
  PROVE  SnapInv'
<1> USE Zenon
<1>1. snaps \in [Snaps -> Nat \cup {Inactive}] /\ edit.last \in Nat
  BY LayerTypes, OrderTypes
<1>2. edit'.last \in Nat
  BY DEF IInv, TypeOK, MemoryTypeOK, Edits
<1>3. \A i \in Snaps : snaps[i] \in Nat \cup {-1}
  BY <1>1 DEF Inactive
<1> SUFFICES ASSUME NEW i \in Snaps PROVE IF closed THEN snaps[i] = Inactive ELSE snaps[i] <= edit'.last
  BY DEF SnapInv
<1>4. IF closed THEN snaps[i] = Inactive ELSE snaps[i] <= edit.last
  BY DEF SnapInv
<1> QED BY <1>1, <1>2, <1>3, <1>4, SMT

\* The MemTables that a Get has pinned.
LEMMA PinnedLayers ==
  ASSUME IInv, NEW r \in Readers
  PROVE  /\ PinnedMemTables(r) = <<IF reader[r].shared THEN active ELSE reader[r].active>> \o reader[r].imms
         /\ PinnedMemTables(r) \in Seq(SUBSET Version)
         /\ DOMAIN PinnedMemTables(r) \in SUBSET Nat
         /\ reader[r].imms \in Seq(SUBSET Version)
         /\ reader[r].shared \in BOOLEAN /\ reader[r].seq \in Nat
<1> USE Zenon
<1> DEFINE x == IF reader[r].shared THEN active ELSE reader[r].active
           q == reader[r].imms
           S == SUBSET Version
<1>1. \A T \in VersionSets : T \in S
  BY DEF VersionSets, FiniteSubsets
<1>2. active \in VersionSets /\ reader[r] \in Gets
  BY LayerTypes DEF IInv, TypeOK, MemoryTypeOK
<1>3. /\ reader[r].active \in VersionSets /\ q \in Seq(VersionSets)
      /\ reader[r].shared \in BOOLEAN /\ reader[r].seq \in Nat
  BY <1>2 DEF Gets
<1>4. x \in S
  BY <1>1, <1>2, <1>3
<1>5. PinnedMemTables(r) = <<x>> \o q
  BY DEF PinnedMemTables
<1> HIDE DEF x, S
<1>6. q \in Seq(S)
  BY <1>1, <1>3, SMT
<1> HIDE DEF q
<1>7. <<x>> \o q \in Seq(S) /\ DOMAIN (<<x>> \o q) \in SUBSET Nat
  BY <1>4, <1>6, SMT
<1> QED BY <1>3, <1>5, <1>6, <1>7 DEF x, q, S

\* A Get in progress is the same, and what it sees of its MemTables.
LEMMA ReadKept ==
  ASSUME WellOrdered, IInv, ReadInv,
         \A r \in Readers :
           /\ reader'[r].pc = reader[r].pc /\ reader'[r].key = reader[r].key
           /\ reader'[r].seq = reader[r].seq /\ reader'[r].tabs = reader[r].tabs
           /\ reader'[r].want = reader[r].want /\ reader'[r].got = reader[r].got
           /\ DOMAIN PinnedMemTables(r)' = DOMAIN PinnedMemTables(r)
           /\ \A i \in DOMAIN PinnedMemTables(r) :
                VisibleAt(PinnedMemTables(r)[i], reader[r].key, reader[r].seq)
                  = VisibleAt(PinnedMemTables(r)'[i], reader[r].key, reader[r].seq)
           /\ reader'[r].shared =>
                reader[r].shared /\ (~closed' => reader[r].seq <= edit'.last)
  PROVE  ReadInv'
<1> USE Zenon
<1> SUFFICES ASSUME NEW r \in Readers
             PROVE  LET p == reader'[r]
                    IN  /\ p.pc = "pinned" => Found(r)' = p.want
                        /\ p.pc = "tables" => Lookup(p.tabs, p.key, p.seq) = p.want
                        /\ p.pc = "done" => p.got = p.want
                        /\ p.shared => p.pc = "pinned" /\ (~closed' => p.seq <= edit'.last)
  BY DEF ReadInv
<1> DEFINE L == PinnedMemTables(r)
           N == PinnedMemTables(r)'
           k == reader[r].key
           s == reader[r].seq
<1>1. Found(r) = IF \E i \in DOMAIN L : VisibleAt(L[i], k, s) # {}
                 THEN FirstHit(L, k, s) ELSE Lookup(reader[r].tabs, k, s)
  BY DEF Found, Searched
<1>2. /\ reader'[r].pc = reader[r].pc /\ reader'[r].key = k /\ reader'[r].seq = s
      /\ reader'[r].tabs = reader[r].tabs
      /\ reader'[r].want = reader[r].want /\ reader'[r].got = reader[r].got
      /\ reader'[r].shared => reader[r].shared /\ (~closed' => s <= edit'.last)
  OBVIOUS
<1>3. Found(r)' = IF \E i \in DOMAIN N : VisibleAt(N[i], k, s) # {}
                  THEN FirstHit(N, k, s) ELSE Lookup(reader[r].tabs, k, s)
  BY <1>2 DEF Found, Searched
<1>4. /\ DOMAIN L \in SUBSET Nat /\ DOMAIN L = DOMAIN N
      /\ \A i \in DOMAIN L : VisibleAt(L[i], k, s) = VisibleAt(N[i], k, s)
  BY PinnedLayers
<1>5. /\ reader[r].pc = "pinned" => Found(r) = reader[r].want
      /\ reader[r].pc = "tables" => Lookup(reader[r].tabs, k, s) = reader[r].want
      /\ reader[r].pc = "done" => reader[r].got = reader[r].want
      /\ reader[r].shared => reader[r].pc = "pinned"
  BY DEF ReadInv
<1> HIDE DEF L, N, k, s
<1>6. FirstHit(L, k, s) = FirstHit(N, k, s)
  BY ONLY WellOrdered, <1>4, SameVisible
<1>7. Found(r)' = Found(r)
  <2>1. CASE \E i \in DOMAIN L : VisibleAt(L[i], k, s) # {}
    BY <1>1, <1>3, <1>4, <1>6, <2>1
  <2>2. CASE ~(\E i \in DOMAIN L : VisibleAt(L[i], k, s) # {})
    BY <1>1, <1>3, <1>4, <2>2
  <2> QED BY <2>1, <2>2, SMT
<1> QED BY <1>2, <1>5, <1>7 DEF k, s

\* No Get and no MemTable changes.
LEMMA ReadSame ==
  ASSUME WellOrdered, IInv, IInv', ReadInv, UNCHANGED <<reader, active>>,
         ~closed' => ~closed /\ edit.last <= edit'.last
  PROVE  ReadInv'
<1> USE Zenon
<1>1. \A r : PinnedMemTables(r)' = PinnedMemTables(r)
  BY DEF PinnedMemTables
<1>2. \A r \in Readers : reader[r].seq \in Nat
  BY PinnedLayers
<1>3. edit.last \in Nat /\ edit'.last \in Nat
  BY OrderTypes DEF IInv, TypeOK, MemoryTypeOK, Edits
<1>4. \A r \in Readers : reader[r].shared => (~closed => reader[r].seq <= edit.last)
  BY DEF ReadInv
<1>5. \A r \in Readers : reader[r].shared => (~closed' => reader[r].seq <= edit'.last)
  BY <1>2, <1>3, <1>4, SMT
<1> QED BY <1>1, <1>5, ReadKept

\* Readers keep the MemTable they pinned when another one replaces it.
LEMMA ReadFrozen ==
  ASSUME WellOrdered, IInv, ReadInv, FreezeReaders
  PROVE  ReadInv'
<1> USE Zenon
<1> SUFFICES ASSUME NEW r \in Readers
             PROVE  /\ reader'[r].pc = reader[r].pc /\ reader'[r].key = reader[r].key
                    /\ reader'[r].seq = reader[r].seq /\ reader'[r].tabs = reader[r].tabs
                    /\ reader'[r].want = reader[r].want /\ reader'[r].got = reader[r].got
                    /\ ~reader'[r].shared
                    /\ PinnedMemTables(r)' = PinnedMemTables(r)
  BY ReadKept
<1> DEFINE p == reader[r]
           q == [p EXCEPT !.active = active, !.shared = FALSE]
<1>1. p \in Gets /\ p.shared \in BOOLEAN
  BY LayerTypes, PinnedLayers
<1>2. reader'[r] = IF p.shared THEN q ELSE p
  BY DEF FreezeReaders
<1> HIDE DEF p
<1>3. /\ q.pc = p.pc /\ q.key = p.key /\ q.seq = p.seq /\ q.tabs = p.tabs
      /\ q.want = p.want /\ q.got = p.got /\ ~q.shared /\ q.active = active /\ q.imms = p.imms
  BY <1>1 DEF Gets
<1> HIDE DEF q
<1>4. reader'[r].imms = p.imms /\ ~reader'[r].shared
      /\ reader'[r].active = IF p.shared THEN active ELSE p.active
  BY <1>1, <1>2, <1>3
<1>5. PinnedMemTables(r)' = <<reader'[r].active>> \o reader'[r].imms
  BY <1>4 DEF PinnedMemTables
<1>6. PinnedMemTables(r)' = PinnedMemTables(r)
  BY <1>4, <1>5 DEF PinnedMemTables, p
<1> QED BY <1>2, <1>3, <1>4, <1>6 DEF p

\* Every version in memory is in a WAL or in a table.
LEMMA MemoryLogged ==
  ASSUME IInv, MemoryInv, WorkInv
  PROVE  \A v \in MemoryVersions : v \in StoredVersions \/ v \in Logged(wals, 0)
<1> USE Zenon
<1>1. CASE closed
  <2>1. active = {} /\ imm = <<>>
    BY <1>1 DEF WorkInv, IInv, ControlInv
  <2>2. DOMAIN imm = {}
    BY <2>1, SMT
  <2> QED BY <2>1, <2>2 DEF MemoryVersions, StoredVersions
<1>2. CASE ~closed
  <2>1. /\ active \subseteq Logged(wals, oldestWal)
        /\ \A i \in DOMAIN imm : imm[i].ents \subseteq Logged(wals, imm[i].wal)
    BY <1>2 DEF MemoryInv
  <2>2. \A w \in Nat : 0 <= w /\ 0 \in Nat
    BY SMT
  <2>3. \A w \in Nat : Logged(wals, w) \subseteq Logged(wals, 0)
    BY <2>2, LogShrinks
  <2>4. oldestWal \in Nat /\ \A i \in DOMAIN imm : imm[i].wal \in Nat
    BY LayerTypes
  <2>5. active \subseteq Logged(wals, 0) /\ \A i \in DOMAIN imm : imm[i].ents \subseteq Logged(wals, 0)
    BY <2>1, <2>3, <2>4
  <2> QED BY <2>5 DEF MemoryVersions, StoredVersions
<1> QED BY <1>1, <1>2

\* The tables after one is built, and after some are removed.
LEMMA TablesWritten ==
  ASSUME UNCHANGED tables
  PROVE  /\ \A n, x : ssts' = Created(ssts, n, x) =>
              \A v \in StoredVersions' : v \in StoredVersions \/ v \in x
         /\ \A S : ssts' = Restricted(ssts, S) => StoredVersions' \subseteq StoredVersions
         /\ ssts' = ssts => StoredVersions' = StoredVersions
         /\ TableVersions' = TableVersions
<1> USE Zenon
<1>1. TableVersions' = TableVersions
  BY DEF TableVersions
<1>2. StoredVersions' = TableVersions \cup UNION {ssts'[m] : m \in DOMAIN ssts'}
  BY <1>1 DEF StoredVersions
<1>3. ASSUME NEW n, NEW x, ssts' = Created(ssts, n, x), NEW v \in StoredVersions'
      PROVE  v \in StoredVersions \/ v \in x
  <2>1. CASE v \in TableVersions
    BY <2>1 DEF StoredVersions
  <2>2. CASE \E m \in DOMAIN ssts' : v \in ssts'[m]
    <3>1. PICK m \in DOMAIN ssts' : v \in ssts'[m]
      BY <2>2
    <3>2. m \in DOMAIN ssts \cup {n} /\ ssts'[m] = IF m = n THEN x ELSE ssts[m]
      BY <1>3, <3>1 DEF Created
    <3>3. v \in x \/ (m \in DOMAIN ssts /\ v \in ssts[m])
      BY <3>1, <3>2
    <3> QED BY <3>3 DEF StoredVersions
  <2> QED BY <1>2, <1>3, <2>1, <2>2
<1>4. ASSUME NEW S, ssts' = Restricted(ssts, S), NEW v \in StoredVersions'
      PROVE  v \in StoredVersions
  <2>1. CASE v \in TableVersions
    BY <2>1 DEF StoredVersions
  <2>2. CASE \E m \in DOMAIN ssts' : v \in ssts'[m]
    <3>1. PICK m \in DOMAIN ssts' : v \in ssts'[m]
      BY <2>2
    <3>2. m \in DOMAIN ssts /\ ssts'[m] = ssts[m]
      BY <1>4, <3>1 DEF Restricted
    <3> QED BY <3>1, <3>2 DEF StoredVersions
  <2> QED BY <1>2, <1>4, <2>1, <2>2
<1>5. ssts' = ssts => StoredVersions' = StoredVersions
  BY <1>2 DEF StoredVersions
<1> QED BY <1>1, <1>3, <1>4, <1>5

\* A step that changes neither the logs nor what is in memory, and builds or removes
\* tables only.
LEMMA QuietLayers ==
  ASSUME WellOrdered, IInv, IInv', LayersInv,
         UNCHANGED <<wals, mbase, mtail, closed, active, activeWal, oldestWal, imm, tables, mu,
                     pending, closer>>,
         edit'.last = edit.last, edit'.wal = edit.wal,
         \A v \in StoredVersions' : v \in StoredVersions \/ v \in MemoryVersions,
         worker'.pc \in {"build", "publish"} => worker'.ents = imm[1].ents,
         worker'.pc \in {"compact", "purge"} =>
           worker.pc \in {"compact", "purge"} /\ worker'.wal = worker.wal,
         comp'.stage \in {"build", "publish"} => comp'.ents \subseteq TableVersions,
         SnapInv', ReadInv'
  PROVE  LayersInv'
<1> USE Zenon
<1>1. PlacedInv /\ SyncedInv /\ IdentityInv /\ QueueInv /\ MemoryInv /\ WorkInv
  BY DEF LayersInv
<1>2. TableVersions' = TableVersions
  BY TablesWritten
<1>3. \A v \in StoredVersions' : v \in StoredVersions \/ v \in Logged(wals, 0)
  BY <1>1, MemoryLogged
<1>4. PlacedInv' /\ SyncedInv' /\ IdentityInv'
  BY <1>1, <1>3, DiskSame
<1>5. QueueInv'
  BY <1>1, QueueSame
<1>6. MemoryInv'
  BY <1>1, <1>2, MemorySame
<1>7. WorkInv'
  BY <1>1, <1>2 DEF WorkInv
<1> QED BY <1>4, <1>5, <1>6, <1>7 DEF LayersInv

\* The same for a step of the worker or of a compaction, which no read notices.
LEMMA BuildLayers ==
  ASSUME WellOrdered, IInv, IInv', LayersInv,
         UNCHANGED <<wals, mbase, mtail, closed, active, activeWal, oldestWal, imm, tables, mu,
                     pending, closer, snaps, reader>>,
         edit'.last = edit.last, edit'.wal = edit.wal,
         \A v \in StoredVersions' : v \in StoredVersions \/ v \in MemoryVersions,
         worker'.pc \in {"build", "publish"} => worker'.ents = imm[1].ents,
         worker'.pc \in {"compact", "purge"} =>
           worker.pc \in {"compact", "purge"} /\ worker'.wal = worker.wal,
         comp'.stage \in {"build", "publish"} => comp'.ents \subseteq TableVersions
  PROVE  LayersInv'
<1> USE Zenon
<1>1. SnapInv /\ ReadInv
  BY DEF LayersInv
<1>2. edit.last \in Nat
  BY OrderTypes
<1>3. edit.last <= edit'.last
  BY <1>2, SMT
<1>4. SnapInv' /\ ReadInv'
  BY <1>1, <1>3, SnapSame, ReadSame
<1> QED BY <1>4, QuietLayers

\* A new directory has no layers.
LEMMA InitLayers == ASSUME IInv, Init PROVE LayersInv
<1> USE Zenon
<1>1. /\ wals = <<>> /\ ssts = <<>> /\ tables = <<>> /\ active = {} /\ closed /\ mu = "free"
      /\ worker = IdleWorker /\ comp = NoCompaction
      /\ snaps = [i \in Snaps |-> Inactive] /\ reader = [r \in Readers |-> IdleReader]
      /\ mtail = <<>>
  BY DEF Init
<1>2. DOMAIN wals = {} /\ DOMAIN ssts = {} /\ DOMAIN tables = {}
  BY <1>1, SMT
<1>3. StoredVersions = {} /\ Logged(wals, 0) = {}
  BY <1>2 DEF StoredVersions, TableVersions, Logged
<1>4. PlacedInv /\ SyncedInv /\ IdentityInv
  BY <1>2, <1>3 DEF PlacedInv, SyncedInv, IdentityInv, SeqIdentifies
<1>5. /\ mu \notin {"rotate", "flush", "compact", "close"} /\ mu \notin {"rotate", "compact"}
      /\ mu # "flush" /\ mu # "purge"
      /\ worker.pc \notin {"build", "publish"} /\ worker.pc \notin {"compact", "purge"}
      /\ comp.stage \notin {"build", "publish"}
  BY <1>1, SMT DEF IdleWorker, NoCompaction
<1>6. QueueInv
  <2>1. \A p \in Marks(mbase, mtail) : mbase.wal <= p[1]
    <3>1. mbase.wal \in Nat
      BY MarkOfBase
    <3> QED BY <1>1, <3>1, SMT DEF Marks
  <2> QED BY <1>1, <1>5, <2>1 DEF QueueInv, Saving
<1>7. MemoryInv /\ WorkInv /\ SnapInv
  BY <1>1, <1>5 DEF MemoryInv, WorkInv, SnapInv
<1>8. ReadInv
  <2>1. \A r \in Readers : reader[r] = IdleReader
    BY <1>1
  <2>2. /\ IdleReader.pc # "pinned" /\ IdleReader.pc # "tables" /\ IdleReader.pc # "done"
        /\ ~IdleReader.shared
    BY SMT DEF IdleReader
  <2> QED BY <2>1, <2>2 DEF ReadInv
<1> QED BY <1>4, <1>6, <1>7, <1>8 DEF LayersInv

\* A sequence number names one write.
LEMMA LayersIdentifyWrites ==
  ASSUME WellOrdered, IInv, LayersInv PROVE SequencesIdentifyWrites
<1> USE Zenon
<1> DEFINE e == LoadedEdit
           S == StoredVersions \cup Logged(wals, 0)
<1>1. MemoryVersions \subseteq S
  BY MemoryLogged DEF LayersInv
<1>2. ReplayedVersions(wals, e) \subseteq S
  <2>1. ReplayedVersions(wals, e) = Logged(wals, e.wal)
    BY DEF ReplayedVersions, Logged
  <2>2. e.wal \in Nat
    BY RecoveryFacts
  <2> HIDE DEF e
  <2>3. 0 <= e.wal /\ 0 \in Nat
    BY <2>2, SMT
  <2>4. Logged(wals, e.wal) \subseteq Logged(wals, 0)
    BY <2>2, <2>3, LogShrinks
  <2> QED BY <2>1, <2>4
<1>3. UNION {ssts[n] : n \in Nums(e.files) \cap DOMAIN ssts} \subseteq S
  BY DEF StoredVersions
<1>4. AllVersions \subseteq S
  BY <1>1, <1>2, <1>3 DEF AllVersions
<1>5. SeqIdentifies(S)
  BY DEF LayersInv, IdentityInv
<1> QED BY <1>4, <1>5 DEF SequencesIdentifyWrites, SeqIdentifies

-----------------------------------------------------------------------------
(***************************************************************************)
(* What the invariant says of a read.                                      *)
(***************************************************************************)

\* The log has versions, and its order is that of the files.
LEMMA LogTypes ==
  ASSUME IInv, NEW low
  PROVE  Logged(wals, low) \subseteq Version
<1> USE Zenon
<1>1. \A n \in DOMAIN wals : \A i \in DOMAIN wals[n].recs : wals[n].recs[i] \in BatchRecords(Version)
  BY OrderTypes
<1> SUFFICES ASSUME NEW v \in Logged(wals, low) PROVE v \in Version
  OBVIOUS
<1> QED BY <1>1, InLog DEF BatchRecords

\* A version below a file is older than every version from that file on.
LEMMA LogOrder ==
  ASSUME IInv, OrderInv, NEW n \in DOMAIN wals, NEW low \in Nat, n < low,
         NEW i \in DOMAIN wals[n].recs, NEW v \in wals[n].recs[i], NEW u \in Logged(wals, low)
  PROVE  v.seq < u.seq
<1> USE Zenon
<1>1. PICK m \in DOMAIN wals : m >= low /\ \E j \in DOMAIN wals[m].recs : u \in wals[m].recs[j]
  BY InLog
<1>2. n \in Nat /\ m \in Nat
  BY OrderTypes
<1>3. n < m
  BY <1>1, <1>2, SMT
<1> QED BY <1>1, <1>3 DEF OrderInv, Ordered

\* Then a search finds the newest visible version of all.
LEMMA FirstHitFinds ==
  ASSUME WellOrdered, NEW K, NEW L \in Seq(SUBSET Versions(K)), NEW T \in SUBSET Versions(K),
         NEW k, NEW s \in Nat, SeqIdentifies(Sources(L, T)), Stacked(L, T)
  PROVE  Lookup(Sources(L, T), k, s) = Searched(L, T, k, s)
<1> USE Zenon
<1> SUFFICES ASSUME NEW U \in SUBSET Versions(K), SeqIdentifies(U),
                    U = T \cup UNION {L[i] : i \in DOMAIN L},
                    \A i, j \in DOMAIN L : i < j => Covers(L[i], L[j]),
                    \A i \in DOMAIN L : Covers(L[i], T)
             PROVE  Lookup(U, k, s) = IF \E i \in DOMAIN L : VisibleAt(L[i], k, s) # {}
                                      THEN FirstHit(L, k, s) ELSE Lookup(T, k, s)
  <2> DEFINE U == Sources(L, T)
  <2>1. \A i \in DOMAIN L : L[i] \in SUBSET Versions(K)
    BY SMT
  <2>2. U \in SUBSET Versions(K) /\ U = T \cup UNION {L[i] : i \in DOMAIN L}
    BY <2>1 DEF Sources
  <2> HIDE DEF U
  <2> QED BY <2>2 DEF U, Stacked, Searched
<1> DEFINE hits == {i \in DOMAIN L : VisibleAt(L[i], k, s) # {}}
           V == VisibleAt(U, k, s)
<1>1. hits \in SUBSET Nat /\ DOMAIN L \in SUBSET Nat
  BY SMT
<1>2. V \in SUBSET Versions(K) /\ \A e \in V : e.seq <= s
  BY DEF VisibleAt
<1>3. CASE hits = {}
  <2>1. ~(\E i \in DOMAIN L : VisibleAt(L[i], k, s) # {})
    BY <1>3
  <2>2. V = VisibleAt(T, k, s)
    BY <2>1 DEF VisibleAt
  <2> HIDE DEF V, hits
  <2>3. Lookup(U, k, s) = Lookup(T, k, s)
    BY <2>2 DEF Lookup, V
  <2> QED BY <2>1, <2>3
<1>4. CASE hits # {}
  <2> DEFINE m == Min(hits)
  <2>1. m \in hits /\ \A i \in hits : m <= i
    <3> HIDE DEF hits
    <3> QED BY <1>1, <1>4, MinProperties
  <2>2. FirstHit(L, k, s) = Lookup(L[m], k, s) /\ \E i \in DOMAIN L : VisibleAt(L[i], k, s) # {}
    BY <1>4 DEF FirstHit
  <2>3. m \in DOMAIN L /\ VisibleAt(L[m], k, s) # {} /\ L[m] \subseteq U
    BY <2>1
  <2>4. PICK u \in VisibleAt(L[m], k, s) : TRUE
    BY <2>3
  <2>5. u \in L[m] /\ u \in V
    BY <2>3, <2>4 DEF VisibleAt
  <2>6. PICK n \in V : IsNewest(n, V)
    <3> HIDE DEF V
    <3> QED BY <1>2, <2>5, NewestExists
  <2>7. u.seq <= n.seq /\ n \in U /\ n.key = k /\ n.seq <= s
    BY <2>5, <2>6 DEF IsNewest, VisibleAt
  <2>8. n \in L[m]
    <3>1. CASE n \in T
      BY <2>3, <2>5, <2>7, <3>1 DEF Covers
    <3>2. CASE \E i \in DOMAIN L : n \in L[i]
      <4>1. PICK i \in DOMAIN L : n \in L[i]
        BY <3>2
      <4>2. i \in hits
        BY <2>7, <4>1 DEF VisibleAt
      <4>3. m <= i /\ m \in Nat /\ i \in Nat
        BY <1>1, <2>1, <4>2
      <4> HIDE DEF m
      <4>4. m = i \/ m < i
        BY <4>3, SMT
      <4> QED BY <2>3, <2>5, <2>7, <4>1, <4>4 DEF Covers
    <3> QED BY <2>7, <3>1, <3>2
  <2>9. n \in VisibleAt(L[m], k, s)
    BY <2>7, <2>8 DEF VisibleAt
  <2>10. L[m] \in SUBSET Versions(K)
    BY <2>3
  <2> HIDE DEF m, hits
  <2>11. Lookup(L[m], k, s) = Lookup(U, k, s)
    <3> DEFINE W == L[m]
    <3>1. /\ W \in SUBSET Versions(K) /\ W \subseteq U /\ n \in VisibleAt(W, k, s)
          /\ IsNewest(n, VisibleAt(U, k, s))
      BY <2>3, <2>6, <2>9, <2>10
    <3> HIDE DEF W
    <3>2. Lookup(W, k, s) = Lookup(U, k, s)
      BY <3>1, LookupNeedsNewest, SMT
    <3> QED BY <3>2 DEF W
  <2> QED BY <2>2, <2>11
<1> QED BY <1>3, <1>4

\* To have the tables as the last source is to search them when no MemTable has
\* the key.
LEMMA LastSource ==
  ASSUME WellOrdered, NEW S, NEW L \in Seq(S), NEW T \in S, NEW k, NEW s
  PROVE  FirstHit(L \o <<T>>, k, s) = Searched(L, T, k, s)
<1> USE Zenon
<1> DEFINE N == L \o <<T>>
           m == Len(L) + 1
           H == {i \in DOMAIN L : VisibleAt(L[i], k, s) # {}}
           G == {i \in DOMAIN N : VisibleAt(N[i], k, s) # {}}
<1>1. /\ DOMAIN L \subseteq Nat /\ m \in Nat /\ m \notin DOMAIN L /\ N[m] = T
      /\ DOMAIN N = DOMAIN L \cup {m} /\ \A i \in DOMAIN L : N[i] = L[i] /\ i <= m
  BY SMT
<1>2. /\ FirstHit(N, k, s) = IF G = {} THEN NotFound ELSE Lookup(N[Min(G)], k, s)
      /\ FirstHit(L, k, s) = IF H = {} THEN NotFound ELSE Lookup(L[Min(H)], k, s)
  BY DEF FirstHit
<1>3. Searched(L, T, k, s) = IF H # {} THEN FirstHit(L, k, s) ELSE Lookup(T, k, s)
  BY DEF Searched
<1>4. /\ H \subseteq DOMAIN L /\ \A i \in G : i \in H \/ (i = m /\ VisibleAt(T, k, s) # {})
      /\ H \subseteq G /\ (VisibleAt(T, k, s) # {} => m \in G)
  <2> HIDE DEF N, m
  <2> QED BY <1>1
<1> HIDE DEF N, m, G, H
<1>5. CASE H # {}
  <2>1. Min(H) \in H /\ \A i \in H : Min(H) <= i
    BY <1>1, <1>4, <1>5, MinProperties
  <2>2. G \subseteq Nat /\ G # {}
    BY <1>1, <1>4, <1>5
  <2>3. Min(G) \in G /\ \A i \in G : Min(G) <= i
    BY <2>2, MinProperties
  <2>4. \A i \in G : Min(H) <= i
    BY <1>1, <1>4, <2>1
  <2>5. Min(G) <= Min(H) /\ Min(H) <= Min(G) /\ Min(G) \in Nat /\ Min(H) \in Nat
    BY <1>1, <1>4, <2>1, <2>2, <2>3, <2>4
  <2>6. Min(G) = Min(H)
    BY <2>5, SMT
  <2> QED BY <1>1, <1>2, <1>3, <1>4, <1>5, <2>1, <2>2, <2>6 DEF N
<1>6. CASE H = {} /\ VisibleAt(T, k, s) # {}
  <2>1. \A i \in G : i = m
    BY <1>4, <1>6
  <2>2. G \subseteq Nat /\ G # {}
    BY <1>1, <1>4, <1>6, <2>1
  <2>3. Min(G) = m
    BY <2>1, <2>2, MinProperties
  <2> QED BY <1>1, <1>2, <1>3, <1>6, <2>2, <2>3 DEF N
<1>7. CASE H = {} /\ VisibleAt(T, k, s) = {}
  <2>1. G = {}
    BY <1>4, <1>7
  <2>2. Lookup(T, k, s) = NotFound
    BY <1>7 DEF Lookup
  <2> QED BY <1>2, <1>3, <1>7, <2>1, <2>2 DEF N
<1> QED BY <1>5, <1>6, <1>7

\* Of two MemTables the one that is searched first is newer, and all are newer than
\* the tables.
LEMMA SearchOrder ==
  ASSUME IInv, MemoryInv, ~closed
  PROVE  LET L == MemTablesNewestFirst
         IN  /\ L \in Seq(SUBSET Version) /\ Len(L) = Len(imm) + 1 /\ Len(imm) \in Nat
             /\ MemoryVersions = Sources(L, TableVersions) /\ Stacked(L, TableVersions)
<1> USE Zenon
<1> DEFINE n == Len(imm)
           q == [i \in DOMAIN imm |-> imm[n + 1 - i].ents]
           L == <<active>> \o q
           S == SUBSET Version
<1>1. /\ imm \in Seq(Immutables) /\ active \in S
      /\ \A i \in DOMAIN imm : imm[i].ents \in S
  BY LayerTypes DEF S
<1>2. n \in Nat /\ DOMAIN imm = 1..n
  BY <1>1, SMT
<1> HIDE DEF n, S
<1>3. \A i \in 1..n : n + 1 - i \in 1..n
  BY <1>2, SMT
<1>4. q \in Seq(S) /\ Len(q) = n /\ \A i \in 1..n : q[i] = imm[n + 1 - i].ents
  <2>1. \A i \in 1..n : imm[n + 1 - i].ents \in S
    BY <1>1, <1>2, <1>3
  <2>2. q = [i \in 1..n |-> imm[n + 1 - i].ents]
    BY <1>2, SMT
  <2> DEFINE g == [i \in 1..n |-> imm[n + 1 - i].ents]
  <2>3. g \in [1..n -> S] /\ \A i \in 1..n : g[i] = imm[n + 1 - i].ents
    BY <2>1
  <2> HIDE DEF g
  <2>4. g \in Seq(S) /\ Len(g) = n
    BY <1>2, <2>3, SMT
  <2> QED BY <2>2, <2>3, <2>4 DEF g
<1> HIDE DEF q
<1>5. L \in Seq(S) /\ Len(L) = n + 1 /\ L[1] = active /\ \A i \in 2..(n + 1) : L[i] = q[i - 1]
  BY <1>1, <1>2, <1>4, SMT
<1>6. DOMAIN L = 1..(n + 1)
  BY <1>5, SMT
<1> HIDE DEF L
<1>7. \A i \in 2..(n + 1) : n + 2 - i \in 1..n /\ L[i] = imm[n + 2 - i].ents
  <2>1. \A i \in 2..(n + 1) : i - 1 \in 1..n /\ n + 1 - (i - 1) = n + 2 - i /\ n + 2 - i \in 1..n
    BY <1>2, SMT
  <2> QED BY <1>4, <1>5, <2>1, SMT
<1>8. /\ \A i \in 1..(n + 1) : i = 1 \/ i \in 2..(n + 1)
      /\ \A i \in 1..n : n + 2 - i \in 2..(n + 1) /\ n + 2 - (n + 2 - i) = i
      /\ \A i \in 2..(n + 1) : i \in 1..(n + 1)
      /\ 1 \in 1..(n + 1)
  BY <1>2, SMT
<1>9. MemoryVersions = TableVersions \cup UNION {L[i] : i \in DOMAIN L}
  <2>1. UNION {L[i] : i \in DOMAIN L} = active \cup UNION {imm[i].ents : i \in DOMAIN imm}
    <3>1. ASSUME NEW v, NEW i \in DOMAIN L, v \in L[i]
          PROVE  v \in active \/ \E j \in DOMAIN imm : v \in imm[j].ents
      <4>1. CASE i = 1
        BY <1>5, <3>1, <4>1
      <4>2. CASE i \in 2..(n + 1)
        BY <1>2, <1>7, <3>1, <4>2
      <4> QED BY <1>6, <1>8, <4>1, <4>2
    <3>2. \A v \in active : \E i \in DOMAIN L : v \in L[i]
      BY <1>5, <1>6, <1>8
    <3>3. ASSUME NEW j \in DOMAIN imm, NEW v \in imm[j].ents PROVE \E i \in DOMAIN L : v \in L[i]
      <4>1. /\ n + 2 - j \in 2..(n + 1) /\ n + 2 - (n + 2 - j) = j /\ n + 2 - j \in DOMAIN L
        BY <1>2, <1>6, <1>8
      <4>2. L[n + 2 - j] = imm[n + 2 - (n + 2 - j)].ents
        BY <1>7, <4>1
      <4> QED BY <3>3, <4>1, <4>2
    <3> QED BY <3>1, <3>2, <3>3
  <2> QED BY <2>1 DEF MemoryVersions
<1>10. ASSUME NEW i \in DOMAIN L PROVE Covers(L[i], TableVersions)
  <2>1. CASE i = 1
    BY <1>5, <2>1 DEF MemoryInv
  <2>2. CASE i \in 2..(n + 1)
    BY <1>2, <1>7, <2>2 DEF MemoryInv
  <2> QED BY <1>6, <1>8, <2>1, <2>2
<1>11. ASSUME NEW i \in DOMAIN L, NEW j \in DOMAIN L, i < j PROVE Covers(L[i], L[j])
  <2>1. j \in 2..(n + 1) /\ (i = 1 \/ i \in 2..(n + 1))
    BY <1>2, <1>6, <1>11, SMT
  <2>2. CASE i = 1
    BY <1>2, <1>5, <1>7, <2>1, <2>2 DEF MemoryInv
  <2>3. CASE i \in 2..(n + 1)
    <3>1. n + 2 - j < n + 2 - i
      BY <1>2, <1>11, <2>1, <2>3, SMT
    <3> QED BY <1>2, <1>7, <2>1, <2>3, <3>1 DEF MemoryInv
  <2> QED BY <2>1, <2>2, <2>3
<1> QED BY <1>2, <1>5, <1>9, <1>10, <1>11 DEF L, S, n, q, MemTablesNewestFirst, Sources,
     Stacked

\* So a Get that searches them and then the tables finds the newest visible version.
LEMMA SearchFinds ==
  ASSUME WellOrdered, IInv, IdentityInv, MemoryInv, WorkInv, ~closed, NEW k, NEW s \in Nat
  PROVE  Lookup(MemoryVersions, k, s) = Searched(MemTablesNewestFirst, TableVersions, k, s)
<1> USE Zenon
<1> DEFINE L == MemTablesNewestFirst
           T == TableVersions
<1>1. /\ L \in Seq(SUBSET Versions(Keys)) /\ T \in SUBSET Versions(Keys)
      /\ MemoryVersions = Sources(L, T) /\ Stacked(L, T)
  BY SearchOrder, LayerTypes DEF Version
<1>2. SeqIdentifies(MemoryVersions)
  BY MemoryLogged DEF IdentityInv, SeqIdentifies
<1> HIDE DEF L, T
<1>3. Lookup(Sources(L, T), k, s) = Searched(L, T, k, s)
  BY <1>1, <1>2, FirstHitFinds
<1> QED BY <1>1, <1>3 DEF L, T

\* A read may stop at the first source that has its key.
LEMMA LayersStopReads ==
  ASSUME WellOrdered, IInv, LayersInv PROVE FirstHitIsNewest
<1> USE Zenon
<1> SUFFICES ASSUME ~closed, NEW s \in ReadPoints, NEW k \in Keys
             PROVE  FirstHit(MemTablesNewestFirst \o <<TableVersions>>, k, s)
                      = Lookup(MemoryVersions, k, s)
  BY DEF FirstHitIsNewest
<1> DEFINE L == MemTablesNewestFirst
           T == TableVersions
           S == SUBSET Version
<1>1. IdentityInv /\ MemoryInv /\ WorkInv
  BY DEF LayersInv
<1>2. s \in Nat
  BY OrderTypes, LayerTypes DEF ReadPoints
<1>3. Lookup(MemoryVersions, k, s) = Searched(L, T, k, s)
  BY <1>1, <1>2, SearchFinds
<1>4. L \in Seq(S) /\ T \in S
  BY <1>1, SearchOrder, LayerTypes
<1> HIDE DEF L, T, S
<1>5. FirstHit(L \o <<T>>, k, s) = Searched(L, T, k, s)
  BY <1>4, LastSource
<1> QED BY <1>3, <1>5 DEF L, T

\* All that an open store has logged is known to its version.
LEMMA LogBounded ==
  IInv /\ OrderInv /\ ~closed /\ ~bgError /\ mu # "write" =>
    \A v \in Logged(wals, 0) : v.seq <= edit.last
<1> USE Zenon
<1> SUFFICES ASSUME IInv, OrderInv, ~closed, ~bgError, mu # "write", NEW v \in Logged(wals, 0)
             PROVE  v.seq <= edit.last
  OBVIOUS
<1>1. PICK n \in DOMAIN wals : \E i \in DOMAIN wals[n].recs : v \in wals[n].recs[i]
  BY InLog
<1>2. n \in Nat /\ activeWal \in Nat
  BY OrderTypes DEF IInv, TypeOK, MemoryTypeOK
<1>3. n < activeWal \/ n = activeWal \/ activeWal < n
  BY <1>2, SMT
<1>4. ActiveInv
  BY DEF OrderInv
<1>5. Bounded(wals, n, edit.last)
  BY <1>1, <1>3, <1>4 DEF ActiveInv
<1> QED BY <1>1, <1>5 DEF Bounded

-----------------------------------------------------------------------------
\* The steps that change what reads find by themselves, without a new version of the
\* manifest; module DB_proofs is about them.
LayerSteps ==
  \/ WriteFails \/ WriteApplies \/ WriteSwitches \/ SwitchFails
  \/ WorkerPurges \/ WorkerPurgeFails
  \/ CloseEnds \/ CloseSaveFails \/ ClosePurges \/ ClosePurgeFails

\* Nothing goes on in a closed database.
LEMMA ClosedIsQuiet ==
  IInv /\ closed => mu = "free" /\ worker.pc = "off" /\ comp.stage = "idle" /\ closer.pc = "idle"
<1> USE Zenon
<1>1. IInv /\ closed => mu = "free" /\ worker.pc = "off" /\ comp = NoCompaction /\ closer.pc = "idle"
  BY DEF IInv, ControlInv
<1>2. NoCompaction.stage = "idle"
  BY SMT DEF NoCompaction
<1> QED BY <1>1, <1>2, SMT

\* The steps of the worker, of compactions, of a rotation and of Close that build and
\* save a version keep the layers.
LEMMA VersionLayers ==
  ASSUME WellOrdered, "torn" \notin SaveFailures, IInv, IInv', OrderInv, LayersInv,
         ~closed => TornRest(mtail) = <<>>,
         worker.pc = "publish" => worker.num \notin Nums(edit.files)
  PROVE  (\/ CloseBegins \/ CloseSteps \/ WriteSteps \/ WorkerSteps
          \/ CompactionSteps \/ UserCompacts) => LayerSteps \/ LayersInv'
\* The worker and a compaction between two saves.
<1>BackgroundLayers.
  ASSUME WellOrdered, IInv, IInv', LayersInv,
         \/ WorkerWakes \/ WorkerFindsNothing \/ WorkerGivesUp \/ WorkerPicks
         \/ FlushBuilds \/ FlushBuildFails
         \/ MaybeCompactStarts \/ MaybeCompactEnds \/ (\E by, n : Selects(by, n))
         \/ CompactionBuilds \/ CompactionBuildFails
         \/ CompactionRemoves \/ CompactionRemoveFails
  PROVE  LayersInv'
  <2> USE <1>BackgroundLayers
  <2> USE Zenon
  <2>1. /\ worker \in Workers /\ comp \in Compactions /\ edit \in Edits
        /\ comp.by = "worker" => worker.pc = "compact"
        /\ edit.last \in Nat
    BY OrderTypes DEF IInv, TypeOK, ThreadsTypeOK, ControlInv
  <2>2. /\ worker.pc \in {"build", "publish"} => worker.ents = imm[1].ents
        /\ comp.stage \in {"build", "publish"} => comp.ents \subseteq TableVersions
        /\ worker.pc \in {"build", "publish"} => 1 \in DOMAIN imm
    <3>1. worker.pc \in {"build", "publish"} => imm # <<>>
      BY DEF IInv, ChecksInv, QueueUnchanged
    <3>2. imm # <<>> => 1 \in DOMAIN imm
      BY LayerTypes, SMT
    <3> QED BY <3>1, <3>2 DEF LayersInv, WorkInv
  <2>3. /\ worker.pc \in {"build", "publish"} => worker.ents \subseteq MemoryVersions
        /\ TableVersions \subseteq StoredVersions
    BY <2>2 DEF MemoryVersions, StoredVersions
  <2>4. UNCHANGED <<wals, mbase, mtail, closed, active, activeWal, oldestWal, imm, tables, mu,
                    pending, closer, snaps, reader>>
    BY DEF WorkerWakes, WorkerFindsNothing, WorkerGivesUp, WorkerPicks, FlushBuilds,
         FlushBuildFails, MaybeCompactStarts, MaybeCompactEnds, Selects, CompactionBuilds,
         CompactionBuildFails, CompactionRemoves, CompactionRemoveFails, disk, memory
  <2>5. edit'.last = edit.last /\ edit'.wal = edit.wal
    <3>1. edit' = edit \/ edit' = [edit EXCEPT !.next = @ + 1]
      BY DEF WorkerWakes, WorkerFindsNothing, WorkerGivesUp, WorkerPicks, FlushBuilds,
           FlushBuildFails, MaybeCompactStarts, MaybeCompactEnds, Selects, CompactionBuilds,
           CompactionBuildFails, CompactionRemoves, CompactionRemoveFails, memory
    <3> QED BY <2>1, <3>1, SMT DEF Edits
  <2>6. \A v \in StoredVersions' : v \in StoredVersions \/ v \in MemoryVersions
    <3>1. CASE ssts' = ssts
      BY <2>4, <3>1, TablesWritten
    <3>2. CASE \E S : ssts' = Restricted(ssts, S)
      BY <2>4, <3>2, TablesWritten
    <3>3. CASE worker.pc = "build" /\ ssts' = Created(ssts, worker.num, worker.ents)
      BY <2>3, <2>4, <3>3, TablesWritten
    <3>4. CASE CompactionBuilds
      <4>1. CompactionOutput \subseteq StoredVersions /\ ssts' = Created(ssts, comp.num, CompactionOutput)
        BY <2>2, <2>3, <3>4 DEF CompactionBuilds, CompactionOutput, Retained, KeepLatest,
             KeepForSnapshots
      <4> QED BY <2>4, <4>1, TablesWritten
    <3> QED BY <3>1, <3>2, <3>3, <3>4 DEF WorkerWakes, WorkerFindsNothing, WorkerGivesUp,
         WorkerPicks, FlushBuilds, FlushBuildFails, MaybeCompactStarts, MaybeCompactEnds,
         Selects, CompactionBuildFails, CompactionRemoves, CompactionRemoveFails, disk,
         PartlyRemoved
  <2>7. /\ worker'.pc \in {"build", "publish"} => worker'.ents = imm[1].ents
        /\ worker'.pc \in {"compact", "purge"} =>
             worker.pc \in {"compact", "purge"} /\ worker'.wal = worker.wal
    <3>1. CASE worker' = worker
      BY <2>2, <3>1
    <3>2. CASE \E p \in {"wait", "loop", "exit"} :
                 worker' = [worker EXCEPT !.pc = p] \/ worker' = [IdleWorker EXCEPT !.pc = p]
      <4>1. worker'.pc \in {"wait", "loop", "exit"}
        BY <2>1, <3>2, IdleTypes DEF Workers
      <4> QED BY <4>1, SMT
    <3>3. CASE WorkerPicks
      <4>1. worker'.pc = "build" /\ worker'.ents = imm[1].ents
        BY <3>3 DEF WorkerPicks
      <4> QED BY <4>1, SMT
    <3>4. CASE worker.pc = "build" /\ worker' = [worker EXCEPT !.pc = "publish"]
      <4>1. worker'.pc = "publish" /\ worker'.ents = worker.ents
        BY <2>1, <3>4 DEF Workers
      <4> QED BY <2>2, <3>4, <4>1, SMT
    <3>5. CASE CompactionEnds
      <4>1. worker' = worker \/ (worker.pc = "compact" /\ worker' = [worker EXCEPT !.pc = "purge"])
        BY <2>1, <3>5 DEF CompactionEnds
      <4>2. worker' # worker => worker'.pc = "purge" /\ worker'.wal = worker.wal
        BY <2>1, <4>1 DEF Workers
      <4> QED BY <2>2, <4>1, <4>2, SMT
    <3>6. WorkerFindsNothing => \E p \in {"wait", "loop", "exit"} : worker' = [IdleWorker EXCEPT !.pc = p]
      <4>1. WorkerFindsNothing => worker' = [IdleWorker EXCEPT !.pc = IF stop THEN "exit" ELSE "wait"]
        BY DEF WorkerFindsNothing
      <4>2. (IF stop THEN "exit" ELSE "wait") \in {"wait", "loop", "exit"}
        OBVIOUS
      <4> QED BY <4>1, <4>2
    <3> QED BY <3>1, <3>2, <3>3, <3>4, <3>5, <3>6 DEF WorkerWakes, WorkerGivesUp, FlushBuilds,
         FlushBuildFails, MaybeCompactStarts, MaybeCompactEnds, Selects, CompactionBuilds,
         CompactionBuildFails, CompactionRemoves, CompactionRemoveFails
  <2>8. comp'.stage \in {"build", "publish"} => comp'.ents \subseteq TableVersions
    <3>1. CASE comp' = comp
      BY <2>2, <3>1
    <3>2. CASE comp' = NoCompaction \/ \E n : comp' = [NoCompaction EXCEPT !.by = "worker", !.stage = "check", !.attempts = n]
      <4>1. CASE comp' = NoCompaction
        BY <4>1 DEF NoCompaction
      <4>2. ASSUME NEW n, comp' = [NoCompaction EXCEPT !.by = "worker", !.stage = "check", !.attempts = n]
            PROVE  comp'.stage = "check"
        BY <4>2 DEF NoCompaction
      <4> QED BY <3>2, <4>1, <4>2
    <3>3. CASE MaybeCompactStarts
      BY <3>3 DEF MaybeCompactStarts, NoCompaction
    <3>4. CASE CompactionBuilds
      <4>1. comp'.ents = comp.ents
        BY <2>1, <3>4 DEF CompactionBuilds, Compactions
      <4> QED BY <2>2, <3>4, <4>1 DEF CompactionBuilds
    <3>5. ASSUME NEW by, NEW n, Selects(by, n) PROVE comp'.ents \subseteq TableVersions
      <4>1. comp'.ents = UNION {tables[m] : m \in Nums(CompactionInputs)} /\ ~closed
        BY <3>5 DEF Selects
      <4>2. Nums(CompactionInputs) \subseteq DOMAIN tables
        <5>1. Nums(CompactionInputs) \subseteq Nums(edit.files)
          BY DEF CompactionInputs, AtLevel, Nums
        <5> QED BY <4>1, <5>1 DEF IInv, FilesInv
      <4> QED BY <4>1, <4>2 DEF TableVersions
    <3>6. CompactionRemoves => comp' = NoCompaction \/ \E n : comp' = [NoCompaction EXCEPT !.by = "worker", !.stage = "check", !.attempts = n]
      BY DEF CompactionRemoves
    <3> QED BY <3>1, <3>2, <3>3, <3>4, <3>5, <3>6 DEF WorkerWakes, WorkerFindsNothing,
         WorkerGivesUp, WorkerPicks, FlushBuilds, FlushBuildFails, MaybeCompactEnds,
         CompactionBuildFails, CompactionRemoveFails, CompactionEnds
  <2> QED BY <2>4, <2>5, <2>6, <2>7, <2>8, BuildLayers
\* The worker's next version needs no WAL that the version does not.
<1>NextLiveOrder.
  ASSUME IInv, QueueInv, ~closed, mu # "purge"
  PROVE  NextLiveWAL \in Nat /\ edit.wal <= NextLiveWAL /\ NextLiveWAL <= oldestWal
  <2> USE <1>NextLiveOrder
  <2>1. /\ imm \in Seq(Immutables) /\ oldestWal \in Nat
        /\ \A i \in DOMAIN imm : imm[i].wal \in Nat
    BY LayerTypes, Zenon
  <2>2. Len(imm) > 1 => 2 \in DOMAIN imm
    BY <2>1
  <2>3. /\ edit.wal <= oldestWal
        /\ \A i \in DOMAIN imm : edit.wal <= imm[i].wal /\ imm[i].wal <= oldestWal
    BY Zenon DEF QueueInv
  <2> QED BY <2>1, <2>2, <2>3 DEF NextLiveWAL
\* The worker, a compaction or Close begins to save its version.
<1>SaveBeginsLayers.
  ASSUME WellOrdered, IInv, IInv', LayersInv, TornRest(mtail) = <<>>,
         FlushPublishes \/ CompactionPublishes \/ CloseSaves
  PROVE  LayersInv'
  <2> USE <1>SaveBeginsLayers
  <2> USE Zenon
  <2> DEFINE M == Marks(mbase, mtail)
  <2>1. /\ UNCHANGED <<wals, ssts, closed, active, activeWal, oldestWal, imm, tables, edit, snaps,
                       worker, comp, closer, reader>>
        /\ mu = "free" /\ mu' \in {"flush", "compact", "close"}
    BY DEF FlushPublishes, CompactionPublishes, CloseSaves, memory, Joined
  <2>2. ~closed
    BY DEF FlushPublishes, CompactionPublishes, CloseSaves, IInv, ControlInv, InputsUnchanged,
         Joined
  <2>3. PICK new \in Edits :
          /\ SaveAppends(new) /\ pending' = new /\ new.last = edit.last
          /\ mu' = "flush" => new.wal = NextLiveWAL
          /\ mu' = "compact" => new.wal = edit.wal
          /\ mu' = "close" => new.wal = edit.next
    BY SaveBegins
  <2>4. /\ Marks(mbase', mtail') = M \cup {<<new.wal, edit.last>>}
        /\ mtail'[Len(mtail')].wal = new.wal
    BY <2>3, SaveMarks
  <2>5. /\ PlacedInv /\ SyncedInv /\ IdentityInv /\ QueueInv /\ MemoryInv /\ WorkInv
        /\ SnapInv /\ ReadInv
    BY DEF LayersInv
  <2>6. /\ edit.wal \in Nat /\ edit.next \in Nat /\ edit.last \in Nat /\ new.wal \in Nat
        /\ edit.wal < edit.next /\ worker.wal \in Nat
    BY <2>2, OrderTypes, LayerTypes DEF IInv, ManifestInv, Edits
  <2>7. NextLiveWAL \in Nat /\ edit.wal <= NextLiveWAL
    BY <2>1, <2>2, <2>5, <1>NextLiveOrder, SMT
  <2>8. edit.wal <= new.wal
    BY <2>1, <2>3, <2>6, <2>7, SMT
  <2>9. /\ mbase.wal \in Nat /\ mbase.wal <= edit.wal /\ mbase' = mbase
        /\ \A o \in M : mbase.wal <= o[1]
        /\ \E o \in M : o[1] = mbase.wal
    BY <2>2, <2>3, <2>5, MarkOfBase DEF QueueInv, SaveAppends
  <2>10. mbase.wal <= new.wal
    BY <2>6, <2>8, <2>9, SMT
  <2>11. /\ \A v \in StoredVersions : v.seq <= edit.last
         /\ <<new.wal, edit.last>>[1] = new.wal /\ <<new.wal, edit.last>>[2] = edit.last
    BY <2>2, <2>5 DEF MemoryInv
  <2>12. TableVersions' = TableVersions /\ StoredVersions' = StoredVersions
    BY <2>1, TablesWritten
  <2>13. \A q \in Marks(mbase', mtail') :
            \/ q \in M
            \/ (\A v \in StoredVersions : v.seq <= q[2]) /\ \E o \in M : o[1] <= q[1]
    <3> HIDE DEF M
    <3>1. \A q \in Marks(mbase', mtail') : q \in M \/ q = <<new.wal, edit.last>>
      BY <2>4
    <3>2. \E o \in M : o[1] <= new.wal
      BY <2>9, <2>10
    <3> QED BY <2>11, <3>1, <3>2, SMT
  <2>14. PlacedInv' /\ SyncedInv' /\ IdentityInv'
    BY <2>1, <2>5, <2>12, <2>13, DiskSame
  <2>15. MemoryInv'
    BY <2>1, <2>5, <2>12, MemorySame
  <2>16. WorkInv'
    BY <2>1, <2>5, <2>12 DEF WorkInv
  <2>17. SnapInv' /\ ReadInv'
    <3>1. edit.last <= edit'.last
      BY <2>1, <2>6, SMT
    <3> QED BY <2>1, <2>5, <3>1, SnapSame, ReadSame
  <2>18. QueueInv'
    <3>1. NextLiveWAL' = NextLiveWAL /\ mu' # "purge" /\ mu # "purge" /\ mu' # "rotate"
      BY <2>1 DEF NextLiveWAL
    <3>2. mbase'.wal <= edit'.wal /\ \A o \in Marks(mbase', mtail') : mbase'.wal <= o[1]
      BY <2>1, <2>4, <2>9, <2>10, <2>11
    <3>3. /\ edit'.wal <= oldestWal'
          /\ \A i \in DOMAIN imm' : edit'.wal <= imm'[i].wal /\ imm'[i].wal <= oldestWal'
          /\ \A i, j \in DOMAIN imm' : i < j => imm'[i].wal <= imm'[j].wal
      BY <2>1, <2>2, <2>5, <3>1 DEF QueueInv
    <3>4. worker.pc \in {"compact", "purge"} =>
            worker.wal <= edit.wal /\ worker.wal <= new.wal /\ \A o \in M : worker.wal <= o[1]
      <4>1. worker.pc \in {"compact", "purge"} => worker.wal <= edit.wal /\ \A o \in M : worker.wal <= o[1]
        BY <2>5 DEF QueueInv
      <4> HIDE DEF M
      <4>2. worker.wal <= edit.wal => worker.wal <= new.wal
        BY <2>6, <2>8, SMT
      <4> QED BY <4>1, <4>2
    <3>5. worker'.pc \in {"compact", "purge"} =>
            worker'.wal <= edit'.wal /\ \A o \in Marks(mbase', mtail') : worker'.wal <= o[1]
      <4>1. \A o \in Marks(mbase', mtail') : o \in M \/ o[1] = new.wal
        BY <2>4, <2>11
      <4> QED BY <2>1, <3>4, <4>1
    <3>6. /\ mtail'[Len(mtail')].wal = pending'.wal
          /\ mu' = "compact" => pending'.wal = edit'.wal
          /\ mu' = "flush" => pending'.wal = NextLiveWAL'
      BY <2>1, <2>3, <2>4, <3>1
    <3> QED BY <3>1, <3>2, <3>3, <3>5, <3>6 DEF QueueInv
  <2> QED BY <2>14, <2>15, <2>16, <2>17, <2>18 DEF LayersInv
\* A save of a database that goes on has failed.
<1>SaveFailsLayers.
  ASSUME WellOrdered, IInv, IInv', LayersInv, TornRest(mtail) = <<>>, "torn" \notin SaveFailures,
         RotateFails \/ FlushFails \/ CompactionFails
  PROVE  LayersInv'
  <2> USE <1>SaveFailsLayers
  <2> USE Zenon
  <2> DEFINE M == Marks(mbase, mtail)
             N == Marks(mbase', mtail')
  <2>1. /\ UNCHANGED <<wals, ssts, mbase, closed, active, activeWal, oldestWal, imm, tables, edit,
                       snaps, closer, reader>>
        /\ mu \in {"rotate", "flush", "compact"} /\ mu' = "free"
        /\ \E how \in SaveFailures : mtail' = SaveLeaves(how)
    BY DEF RotateFails, FlushFails, CompactionFails, SaveFails
  <2>2. Saving
    BY <2>1 DEF Saving
  <2>3. N \subseteq M
    BY <2>1, <2>2, SaveLeavesMarks
  <2>4. /\ PlacedInv /\ SyncedInv /\ IdentityInv /\ QueueInv /\ MemoryInv /\ WorkInv
        /\ SnapInv /\ ReadInv
    BY DEF LayersInv
  <2>5. TableVersions' = TableVersions /\ StoredVersions' = StoredVersions
    BY <2>1, TablesWritten
  <2>6. PlacedInv' /\ SyncedInv' /\ IdentityInv'
    <3>1. mu # "write" /\ mu' # "write"
      BY <2>1, SMT
    <3> QED BY <2>1, <2>3, <2>4, <2>5, <3>1, DiskSame
  <2>7. MemoryInv'
    BY <2>1, <2>4, <2>5, MemorySame
  <2>8. SnapInv' /\ ReadInv'
    <3>1. edit.last \in Nat
      BY OrderTypes
    <3>2. edit.last <= edit'.last
      BY <2>1, <3>1, SMT
    <3> QED BY <2>1, <2>4, <3>2, SnapSame, ReadSame
  <2>9. worker \in Workers /\ (comp.by = "worker" => worker.pc = "compact")
    BY DEF IInv, TypeOK, ThreadsTypeOK, ControlInv
  <2>10. /\ worker'.pc \in {"build", "publish"} => worker.pc \in {"build", "publish"} /\ worker'.ents = worker.ents
         /\ worker'.pc \in {"compact", "purge"} => worker.pc \in {"compact", "purge"} /\ worker'.wal = worker.wal
    <3>1. CASE worker' = worker
      BY <3>1
    <3>2. CASE worker' = [IdleWorker EXCEPT !.pc = "loop"]
      <4>1. worker'.pc = "loop"
        BY <3>2, IdleTypes DEF Workers
      <4> QED BY <4>1, SMT
    <3>3. CASE worker.pc = "compact" /\ worker' = [worker EXCEPT !.pc = "purge"]
      <4>1. worker'.pc = "purge" /\ worker'.wal = worker.wal
        BY <2>9, <3>3 DEF Workers
      <4> QED BY <3>3, <4>1, SMT
    <3>4. CompactionEnds => worker' = worker \/ (worker.pc = "compact" /\ worker' = [worker EXCEPT !.pc = "purge"])
      BY <2>9 DEF CompactionEnds
    <3> QED BY <3>1, <3>2, <3>3, <3>4 DEF RotateFails, FlushFails, CompactionFails
  <2>11. comp'.stage \in {"build", "publish"} => comp.stage \in {"build", "publish"} /\ comp'.ents = comp.ents
    <3>1. comp' = comp \/ comp' = NoCompaction
      BY DEF RotateFails, FlushFails, CompactionFails, CompactionEnds
    <3>2. NoCompaction.stage = "idle"
      BY DEF NoCompaction
    <3> QED BY <3>1, <3>2
  <2>12. WorkInv'
    BY <2>1, <2>4, <2>10, <2>11, WorkSame
  <2>13. QueueInv'
    <3>1. /\ ~closed => mbase.wal <= edit.wal
          /\ \A p \in M : mbase.wal <= p[1]
          /\ worker.pc \in {"compact", "purge"} => worker.wal <= edit.wal /\ \A p \in M : worker.wal <= p[1]
      BY <2>4 DEF QueueInv
    <3> HIDE DEF M, N
    <3>2. /\ ~closed' => mbase'.wal <= edit'.wal
          /\ \A p \in N : mbase'.wal <= p[1]
          /\ worker'.pc \in {"compact", "purge"} => worker'.wal <= edit'.wal /\ \A p \in N : worker'.wal <= p[1]
      BY <2>1, <2>3, <2>10, <3>1
    <3>3. mu # "purge" /\ mu' \notin {"rotate", "compact", "flush", "purge"} /\ ~Saving'
      BY <2>1, SMT DEF Saving
    <3>4. ~closed' =>
            /\ edit'.wal <= oldestWal'
            /\ \A i \in DOMAIN imm' : edit'.wal <= imm'[i].wal /\ imm'[i].wal <= oldestWal'
            /\ \A i, j \in DOMAIN imm' : i < j => imm'[i].wal <= imm'[j].wal
      BY <2>1, <2>4, <3>3 DEF QueueInv
    <3> QED BY <3>2, <3>3, <3>4 DEF QueueInv, N
  <2> QED BY <2>6, <2>7, <2>8, <2>12, <2>13 DEF LayersInv
\* After a successful save the version it saved is the only one of the manifest.
<1>SavedMark.
  ASSUME WellOrdered, IInv, IInv', OrderInv, QueueInv, TornRest(mtail) = <<>>, SaveSucceeds, Saving
  PROVE  /\ Marks(mbase', mtail') \subseteq Marks(mbase, mtail)
         /\ mbase'.wal = pending.wal /\ \A p \in Marks(mbase', mtail') : p[1] = pending.wal
         /\ edit' = pending /\ edit'.last = edit.last
  <2> USE <1>SavedMark
  <2> USE Zenon
  <2>1. /\ Marks(mbase', mtail') \subseteq Marks(mbase, mtail)
        /\ edit' = pending /\ edit'.last = edit.last
    BY SavedMarks
  <2>2. /\ mbase \in Edits /\ mtail \in Seq(Records) /\ Len(mtail) > 0
        /\ mtail[Len(mtail)].wal = pending.wal
    BY OrderTypes DEF IInv, ManifestInv, QueueInv
  <2>3. mbase' = Replay(mbase, IntactPrefix(mtail)) /\ mtail' = <<>>
    BY DEF SaveSucceeds
  <2>4. Replay(mbase, IntactPrefix(mtail)).wal = mtail[Len(mtail)].wal
    <3>1. Len(mtail) # 0
      BY <2>2, SMT
    <3>2. Replay(mbase, IntactPrefix(mtail)).wal = IF Len(mtail) = 0 THEN mbase.wal ELSE mtail[Len(mtail)].wal
      BY <2>2, WholeLog
    <3> QED BY <3>1, <3>2
  <2>5. mbase'.wal = pending.wal
    BY <2>2, <2>3, <2>4
  <2>6. ASSUME NEW p \in Marks(mbase', mtail') PROVE p[1] = mbase'.wal
    <3>1. DOMAIN mtail' = {}
      BY <2>3, SMT
    <3>2. p = <<mbase'.wal, mbase'.last>>
      BY <3>1 DEF Marks
    <3> QED BY <3>2
  <2> QED BY <2>1, <2>5, <2>6
\* The queue after a successful save.
<1>SavedQueue.
  ASSUME WellOrdered, IInv, IInv', OrderInv, QueueInv, TornRest(mtail) = <<>>, SaveSucceeds, Saving,
         mu' \in {"free", "purge"},
         mu' = "free" =>
           /\ pending.wal <= oldestWal'
           /\ \A i \in DOMAIN imm' : pending.wal <= imm'[i].wal /\ imm'[i].wal <= oldestWal'
           /\ \A i, j \in DOMAIN imm' : i < j => imm'[i].wal <= imm'[j].wal,
         worker'.pc \in {"compact", "purge"} => worker'.wal <= pending.wal
  PROVE  QueueInv'
  <2> USE <1>SavedQueue
  <2> USE Zenon
  <2>1. /\ mbase'.wal = pending.wal /\ \A p \in Marks(mbase', mtail') : p[1] = pending.wal
        /\ edit'.wal = pending.wal
    BY <1>SavedMark
  <2>2. pending.wal \in Nat
    BY OrderTypes
  <2>3. pending.wal <= pending.wal
    BY <2>2, SMT
  <2>4. ~Saving' /\ mu' \notin {"rotate", "compact", "flush"} /\ (mu' # "purge" => mu' = "free")
    BY SMT DEF Saving
  <2>5. /\ mbase'.wal <= edit'.wal /\ \A p \in Marks(mbase', mtail') : mbase'.wal <= p[1] /\ edit'.wal <= p[1]
        /\ worker'.pc \in {"compact", "purge"} =>
             worker'.wal <= edit'.wal /\ \A p \in Marks(mbase', mtail') : worker'.wal <= p[1]
    BY <2>1, <2>3
  <2>6. mu' # "purge" =>
          /\ edit'.wal <= oldestWal'
          /\ \A i \in DOMAIN imm' : edit'.wal <= imm'[i].wal /\ imm'[i].wal <= oldestWal'
          /\ \A i, j \in DOMAIN imm' : i < j => imm'[i].wal <= imm'[j].wal
    BY <2>1, <2>4
  <2> QED BY <2>4, <2>5, <2>6 DEF QueueInv
\* A compaction has saved its version: reads find less, and nothing else.
<1>CompactionSucceedsLayers.
  ASSUME WellOrdered, IInv, IInv', OrderInv, LayersInv, TornRest(mtail) = <<>>, CompactionSucceeds
  PROVE  LayersInv'
  <2> USE <1>CompactionSucceedsLayers
  <2> USE Zenon
  <2>1. /\ UNCHANGED <<wals, ssts, closed, active, activeWal, oldestWal, imm, snaps, worker,
                       closer, reader>>
        /\ SaveSucceeds /\ mu = "compact" /\ mu' = "free"
        /\ tables' = Created(Restricted(tables, DOMAIN tables \ comp.inputs), comp.num, CompactionOutput)
        /\ comp' = [comp EXCEPT !.stage = "remove"]
    BY DEF CompactionSucceeds
  <2>2. Saving /\ ~closed /\ comp.stage = "publish" /\ comp \in Compactions
    BY <2>1 DEF Saving, IInv, ControlInv, TypeOK, ThreadsTypeOK
  <2>3. /\ PlacedInv /\ SyncedInv /\ IdentityInv /\ QueueInv /\ MemoryInv /\ WorkInv
        /\ SnapInv /\ ReadInv
    BY DEF LayersInv
  <2>4. /\ Marks(mbase', mtail') \subseteq Marks(mbase, mtail) /\ edit' = pending /\ edit'.last = edit.last
    BY <2>1, <2>2, <2>3, <1>SavedMark
  <2>5. CompactionOutput \subseteq TableVersions
    <3>1. comp.ents \subseteq TableVersions
      BY <2>2, <2>3 DEF WorkInv
    <3> QED BY <3>1 DEF CompactionOutput, Retained, KeepLatest, KeepForSnapshots
  <2>6. TableVersions' \subseteq TableVersions
    <3> SUFFICES ASSUME NEW n \in DOMAIN tables', NEW v \in tables'[n] PROVE v \in TableVersions
      BY DEF TableVersions
    <3>1. \/ tables'[n] = CompactionOutput
          \/ n \in DOMAIN tables /\ tables'[n] = tables[n]
      BY <2>1 DEF Created, Restricted
    <3> QED BY <2>5, <3>1 DEF TableVersions
  <2>7. StoredVersions' \subseteq StoredVersions
    BY <2>1, <2>6 DEF StoredVersions
  <2>8. PlacedInv' /\ SyncedInv' /\ IdentityInv'
    <3>1. mu # "write" /\ mu' # "write"
      BY <2>1, SMT
    <3> QED BY <2>1, <2>3, <2>4, <2>7, <3>1, DiskSame
  <2>9. MemoryInv'
    BY <2>1, <2>3, <2>4, <2>6, <2>7, MemorySame
  <2>10. SnapInv' /\ ReadInv'
    <3>1. edit.last \in Nat
      BY OrderTypes
    <3>2. edit.last <= edit'.last
      BY <2>4, <3>1, SMT
    <3> QED BY <2>1, <2>3, <3>2, SnapSame, ReadSame
  <2>11. WorkInv'
    <3>1. comp'.stage = "remove"
      BY <2>1, <2>2 DEF Compactions
    <3>2. comp'.stage \notin {"build", "publish"}
      BY <3>1, SMT
    <3> QED BY <2>1, <2>3, <3>2 DEF WorkInv
  <2>12. QueueInv'
    <3>1. mu # "purge" /\ mu \in {"rotate", "compact"} /\ mu' \in {"free", "purge"}
      BY <2>1, SMT
    <3>2. /\ pending.wal = edit.wal
          /\ pending.wal <= oldestWal
          /\ \A i \in DOMAIN imm : pending.wal <= imm[i].wal /\ imm[i].wal <= oldestWal
          /\ \A i, j \in DOMAIN imm : i < j => imm[i].wal <= imm[j].wal
          /\ worker.pc \in {"compact", "purge"} => worker.wal <= pending.wal
      BY <2>2, <2>3, <3>1 DEF QueueInv
    <3> QED BY <2>1, <2>2, <2>3, <3>1, <3>2, <1>SavedQueue
  <2> QED BY <2>8, <2>9, <2>10, <2>11, <2>12 DEF LayersInv
\* Close has saved its version.
<1>CloseSavedLayers.
  ASSUME WellOrdered, IInv, IInv', OrderInv, LayersInv, TornRest(mtail) = <<>>, CloseSaved
  PROVE  LayersInv'
  <2> USE <1>CloseSavedLayers
  <2> USE Zenon
  <2>1. /\ UNCHANGED <<wals, ssts, closed, active, activeWal, oldestWal, imm, tables, snaps, worker, comp,
                       closer, reader>>
        /\ SaveSucceeds /\ mu = "close" /\ mu' = "purge"
    BY DEF CloseSaved
  <2>2. Saving /\ ~closed /\ worker.pc = "exit"
    BY <2>1 DEF Saving, IInv, ControlInv
  <2>3. /\ PlacedInv /\ SyncedInv /\ IdentityInv /\ QueueInv /\ MemoryInv /\ WorkInv
        /\ SnapInv /\ ReadInv
    BY DEF LayersInv
  <2>4. /\ Marks(mbase', mtail') \subseteq Marks(mbase, mtail) /\ edit' = pending /\ edit'.last = edit.last
    BY <2>1, <2>2, <2>3, <1>SavedMark
  <2>5. TableVersions' = TableVersions /\ StoredVersions' = StoredVersions
    BY <2>1, TablesWritten
  <2>6. PlacedInv' /\ SyncedInv' /\ IdentityInv'
    <3>1. mu # "write" /\ mu' # "write"
      BY <2>1, SMT
    <3> QED BY <2>1, <2>3, <2>4, <2>5, <3>1, DiskSame
  <2>7. MemoryInv'
    BY <2>1, <2>3, <2>4, <2>5, MemorySame
  <2>8. SnapInv' /\ ReadInv'
    <3>1. edit.last \in Nat
      BY OrderTypes
    <3>2. edit.last <= edit'.last
      BY <2>4, <3>1, SMT
    <3> QED BY <2>1, <2>3, <3>2, SnapSame, ReadSame
  <2>9. WorkInv'
    BY <2>1, <2>3, <2>5 DEF WorkInv
  <2>10. QueueInv'
    <3>1. mu' \in {"free", "purge"} /\ mu' # "free" /\ worker'.pc \notin {"compact", "purge"}
      BY <2>1, <2>2, SMT
    <3> QED BY <2>1, <2>2, <2>3, <3>1, <1>SavedQueue
  <2> QED BY <2>6, <2>7, <2>8, <2>9, <2>10 DEF LayersInv
\* The worker has saved its version: the head of the queue is now a table.
<1>FlushSucceedsLayers.
  ASSUME WellOrdered, IInv, IInv', OrderInv, LayersInv, TornRest(mtail) = <<>>,
         worker.pc = "publish" => worker.num \notin Nums(edit.files), FlushSucceeds
  PROVE  LayersInv'
  <2> USE <1>FlushSucceedsLayers
  <2> USE Zenon
  <2>1. /\ UNCHANGED <<wals, ssts, closed, active, activeWal, oldestWal, snaps, comp, closer, reader>>
        /\ SaveSucceeds /\ mu = "flush" /\ mu' = "free"
        /\ tables' = Created(tables, worker.num, worker.ents) /\ imm' = Tail(imm)
        /\ worker' = [IdleWorker EXCEPT !.pc = "compact", !.wal = pending.wal]
    BY DEF FlushSucceeds
  <2>2. Saving /\ ~closed /\ worker.pc = "publish" /\ imm # <<>>
    BY <2>1 DEF Saving, IInv, ControlInv, ChecksInv, QueueUnchanged
  <2>3. /\ PlacedInv /\ SyncedInv /\ IdentityInv /\ QueueInv /\ MemoryInv /\ WorkInv
        /\ SnapInv /\ ReadInv
    BY DEF LayersInv
  <2>4. /\ Marks(mbase', mtail') \subseteq Marks(mbase, mtail) /\ edit' = pending /\ edit'.last = edit.last
    BY <2>1, <2>2, <2>3, <1>SavedMark
  <2>5. /\ 1 \in DOMAIN imm
        /\ \A i \in DOMAIN imm' :
             i \in Nat /\ i + 1 \in DOMAIN imm /\ imm'[i] = imm[i + 1] /\ 1 < i + 1 /\ (i = 1 \/ 2 < i + 1)
        /\ DOMAIN imm' # {} => 2 \in DOMAIN imm /\ Len(imm) > 1
    <3> DEFINE t == Tail(imm)
    <3>1. imm \in Seq(Immutables)
      BY LayerTypes
    <3>2. /\ Len(imm) \in Nat /\ Len(imm) >= 1 /\ DOMAIN imm = 1..Len(imm)
          /\ t \in Seq(Immutables) /\ Len(t) = Len(imm) - 1
          /\ \A i \in 1..(Len(imm) - 1) : t[i] = imm[i + 1]
      BY <2>2, <3>1, SMT
    <3>3. DOMAIN t = 1..(Len(imm) - 1)
      BY <3>2, SMT
    <3> HIDE DEF t
    <3>4. /\ 1 \in DOMAIN imm
          /\ \A i \in DOMAIN t :
               i \in Nat /\ i + 1 \in DOMAIN imm /\ t[i] = imm[i + 1] /\ 1 < i + 1 /\ (i = 1 \/ 2 < i + 1)
          /\ DOMAIN t # {} => 2 \in DOMAIN imm /\ Len(imm) > 1
      BY <3>2, <3>3, SMT
    <3> QED BY <2>1, <3>4 DEF t
  <2>6. worker.ents = imm[1].ents /\ worker.num \notin DOMAIN tables
    BY <2>2, <2>3 DEF WorkInv, IInv, FilesInv
  <2>7. /\ \A v \in TableVersions' : v \in TableVersions \/ v \in imm[1].ents
        /\ TableVersions \subseteq TableVersions'
    <3>1. DOMAIN tables' = DOMAIN tables \cup {worker.num}
      BY <2>1 DEF Created
    <3>2. \A n \in DOMAIN tables' : tables'[n] = IF n = worker.num THEN imm[1].ents ELSE tables[n]
      BY <2>1, <2>6 DEF Created
    <3>3. \A n \in DOMAIN tables : tables'[n] = tables[n] /\ n \in DOMAIN tables'
      BY <2>6, <3>1, <3>2
    <3>4. \A n \in DOMAIN tables' : tables'[n] = imm[1].ents \/ (n \in DOMAIN tables /\ tables'[n] = tables[n])
      BY <3>1, <3>2
    <3>5. ASSUME NEW v \in TableVersions' PROVE v \in TableVersions \/ v \in imm[1].ents
      BY <3>4, <3>5 DEF TableVersions
    <3>6. TableVersions \subseteq TableVersions'
      BY <3>3 DEF TableVersions
    <3> QED BY <3>5, <3>6
  <2>8. /\ imm[1].ents \subseteq MemoryVersions
        /\ \A v \in StoredVersions' : v \in StoredVersions \/ v \in MemoryVersions
        /\ MemoryVersions' \subseteq MemoryVersions
    <3>1. imm[1].ents \subseteq MemoryVersions
      BY <2>5 DEF MemoryVersions
    <3>2. ASSUME NEW v \in StoredVersions' PROVE v \in StoredVersions \/ v \in MemoryVersions
      <4>1. StoredVersions' = TableVersions' \cup UNION {ssts[n] : n \in DOMAIN ssts}
        BY <2>1 DEF StoredVersions
      <4> QED BY <2>7, <3>1, <3>2, <4>1 DEF StoredVersions
    <3>3. ASSUME NEW v \in MemoryVersions' PROVE v \in MemoryVersions
      <4>1. v \in active \/ v \in TableVersions' \/ \E i \in DOMAIN imm' : v \in imm'[i].ents
        BY <2>1, <3>3 DEF MemoryVersions
      <4>2. CASE v \in active
        BY <4>2 DEF MemoryVersions
      <4>3. CASE v \in TableVersions'
        <5>1. v \in TableVersions \/ v \in imm[1].ents
          BY <2>7, <4>3
        <5> QED BY <3>1, <5>1 DEF MemoryVersions
      <4>4. CASE \E i \in DOMAIN imm' : v \in imm'[i].ents
        <5>1. \E i \in DOMAIN imm : v \in imm[i].ents
          BY <2>5, <4>4
        <5> QED BY <5>1 DEF MemoryVersions
      <4> QED BY <4>1, <4>2, <4>3, <4>4
    <3> QED BY <3>1, <3>2, <3>3
  <2>9. PlacedInv' /\ SyncedInv' /\ IdentityInv'
    <3>1. mu # "write" /\ mu' # "write"
      BY <2>1, SMT
    <3>2. \A v \in StoredVersions' : v \in StoredVersions \/ v \in Logged(wals, 0)
      BY <2>3, <2>8, MemoryLogged
    <3> QED BY <2>1, <2>3, <2>4, <3>1, <3>2, DiskSame
  <2>10. MemoryInv'
    <3>1. /\ \A v \in MemoryVersions \cup StoredVersions : v.seq <= edit.last
          /\ active \subseteq Logged(wals, oldestWal)
          /\ \A i \in DOMAIN imm : imm[i].ents \subseteq Logged(wals, imm[i].wal)
          /\ Covers(active, TableVersions)
          /\ \A i \in DOMAIN imm : Covers(active, imm[i].ents) /\ Covers(imm[i].ents, TableVersions)
          /\ \A i, j \in DOMAIN imm : i < j => Covers(imm[j].ents, imm[i].ents)
      BY <2>2, <2>3 DEF MemoryInv
    <3>2. \A v \in MemoryVersions' \cup StoredVersions' : v.seq <= edit'.last
      BY <2>4, <2>8, <3>1
    <3>3. /\ active' \subseteq Logged(wals', oldestWal')
          /\ \A i \in DOMAIN imm' : imm'[i].ents \subseteq Logged(wals', imm'[i].wal)
      BY <2>1, <2>5, <3>1
    <3>4. Covers(active', TableVersions')
      BY <2>1, <2>5, <2>7, <3>1 DEF Covers
    <3>5. ASSUME NEW i \in DOMAIN imm'
          PROVE  Covers(active', imm'[i].ents) /\ Covers(imm'[i].ents, TableVersions')
      <4>1. Covers(imm[i + 1].ents, imm[1].ents) /\ Covers(imm[i + 1].ents, TableVersions)
            /\ Covers(active, imm[i + 1].ents) /\ imm'[i] = imm[i + 1]
        BY <2>5, <3>1, <3>5
      <4> QED BY <2>1, <2>7, <4>1 DEF Covers
    <3>6. ASSUME NEW i \in DOMAIN imm', NEW j \in DOMAIN imm', i < j
          PROVE  Covers(imm'[j].ents, imm'[i].ents)
      <4>1. /\ i \in Nat /\ j \in Nat /\ i + 1 \in DOMAIN imm /\ j + 1 \in DOMAIN imm
            /\ imm'[i] = imm[i + 1] /\ imm'[j] = imm[j + 1]
        BY <2>5
      <4>2. i + 1 < j + 1
        BY <3>6, <4>1, SMT
      <4> QED BY <3>1, <4>1, <4>2
    <3> QED BY <3>2, <3>3, <3>4, <3>5, <3>6 DEF MemoryInv
  <2>11. SnapInv' /\ ReadInv'
    <3>1. edit.last \in Nat
      BY OrderTypes
    <3>2. edit.last <= edit'.last
      BY <2>4, <3>1, SMT
    <3> QED BY <2>1, <2>3, <3>2, SnapSame, ReadSame
  <2>12. worker'.pc = "compact" /\ worker'.wal = pending.wal
    BY <2>1, IdleTypes DEF Workers
  <2>13. WorkInv'
    <3>1. worker'.pc \notin {"build", "publish"}
      BY <2>12, SMT
    <3>2. comp.stage \in {"build", "publish"} => comp.ents \subseteq TableVersions'
      BY <2>3, <2>7 DEF WorkInv
    <3> QED BY <2>1, <2>3, <3>1, <3>2 DEF WorkInv
  <2>14. QueueInv'
    <3>1. mu # "purge" /\ mu' \in {"free", "purge"}
      BY <2>1, SMT
    <3>2. /\ pending.wal = NextLiveWAL
          /\ \A i \in DOMAIN imm : imm[i].wal <= oldestWal
          /\ \A i, j \in DOMAIN imm : i < j => imm[i].wal <= imm[j].wal
      BY <2>1, <2>2, <2>3, <3>1 DEF QueueInv
    <3>3. NextLiveWAL \in Nat /\ NextLiveWAL <= oldestWal
      BY <2>2, <2>3, <3>1, <1>NextLiveOrder
    <3>4. ASSUME NEW i \in DOMAIN imm' PROVE pending.wal <= imm'[i].wal /\ imm'[i].wal <= oldestWal
      <4>1. /\ imm'[i] = imm[i + 1] /\ i + 1 \in DOMAIN imm /\ 2 \in DOMAIN imm /\ Len(imm) > 1
            /\ (i = 1 \/ 2 < i + 1) /\ i \in Nat
        BY <2>5
      <4>2. pending.wal = imm[2].wal
        BY <3>2, <4>1 DEF NextLiveWAL
      <4>3. CASE i = 1
        BY <3>2, <3>3, <4>1, <4>2, <4>3, SMT
      <4>4. CASE 2 < i + 1
        BY <3>2, <4>1, <4>2, <4>4
      <4> QED BY <2>5, <4>3, <4>4
    <3>5. ASSUME NEW i \in DOMAIN imm', NEW j \in DOMAIN imm', i < j PROVE imm'[i].wal <= imm'[j].wal
      <4>1. /\ i \in Nat /\ j \in Nat /\ i + 1 \in DOMAIN imm /\ j + 1 \in DOMAIN imm
            /\ imm'[i] = imm[i + 1] /\ imm'[j] = imm[j + 1]
        BY <2>5
      <4>2. i + 1 < j + 1
        BY <3>5, <4>1, SMT
      <4> QED BY <3>2, <4>1, <4>2
    <3>6. pending.wal <= oldestWal' /\ worker'.wal <= pending.wal
      BY <2>1, <2>12, <3>2, <3>3, SMT
    <3>7. /\ \A i \in DOMAIN imm' : pending.wal <= imm'[i].wal /\ imm'[i].wal <= oldestWal'
          /\ \A i, j \in DOMAIN imm' : i < j => imm'[i].wal <= imm'[j].wal
      BY <2>1, <3>4, <3>5
    <3> QED BY <2>1, <2>2, <2>3, <3>1, <3>6, <3>7, <1>SavedQueue
  <2> QED BY <2>9, <2>10, <2>11, <2>13, <2>14 DEF LayersInv
\* The active MemTable joins the queue, behind all others.
<1>Queued.
  ASSUME IInv, imm' = Append(imm, [ents |-> active, wal |-> oldestWal])
  PROVE  /\ \E n \in Nat :
              /\ DOMAIN imm' = DOMAIN imm \cup {n}
              /\ \A i \in DOMAIN imm : i < n /\ ~(n < i) /\ imm'[i] = imm[i]
              /\ ~(n < n) /\ imm'[n].ents = active /\ imm'[n].wal = oldestWal
         /\ imm # <<>> => 1 \in DOMAIN imm /\ imm'[1] = imm[1]
  <2> USE <1>Queued
  <2> DEFINE x == [ents |-> active, wal |-> oldestWal]
             a == Append(imm, x)
             n == Len(imm) + 1
  <2>1. imm \in Seq(Immutables) /\ x \in Immutables /\ x.ents = active /\ x.wal = oldestWal
    BY LayerTypes, Zenon DEF Immutables, IInv, TypeOK, MemoryTypeOK
  <2> HIDE DEF x
  <2>2. /\ Len(imm) \in Nat /\ DOMAIN imm = 1..Len(imm) /\ n \in Nat
        /\ a \in Seq(Immutables) /\ Len(a) = n
        /\ \A i \in 1..Len(imm) : a[i] = imm[i]
        /\ a[n] = x
    BY <2>1
  <2>3. DOMAIN a = 1..n
    BY <2>2
  <2>4. imm # <<>> => Len(imm) >= 1
    BY <2>1
  <2> HIDE DEF a
  <2>5. /\ DOMAIN a = DOMAIN imm \cup {n}
        /\ \A i \in DOMAIN imm : i < n /\ ~(n < i) /\ a[i] = imm[i]
        /\ ~(n < n)
        /\ imm # <<>> => 1 \in DOMAIN imm /\ a[1] = imm[1]
    BY <2>2, <2>3, <2>4
  <2> HIDE DEF n
  <2> QED BY <2>1, <2>2, <2>5, Zenon DEF a, x
\* Its order is that of the sources of a read.
<1>QueuedMemory.
  ASSUME IInv, MemoryInv, ~closed, UNCHANGED <<wals, ssts, tables, closed>>,
         edit'.last = edit.last, active' = {},
         imm' = Append(imm, [ents |-> active, wal |-> oldestWal])
  PROVE  MemoryInv'
  <2> USE <1>QueuedMemory
  <2> USE Zenon
  <2>1. PICK n \in Nat :
          /\ DOMAIN imm' = DOMAIN imm \cup {n}
          /\ \A i \in DOMAIN imm : i < n /\ ~(n < i) /\ imm'[i] = imm[i]
          /\ ~(n < n) /\ imm'[n].ents = active /\ imm'[n].wal = oldestWal
    BY <1>Queued
  <2>2. TableVersions' = TableVersions /\ StoredVersions' = StoredVersions
    BY TablesWritten
  <2>3. /\ \A v \in MemoryVersions \cup StoredVersions : v.seq <= edit.last
        /\ active \subseteq Logged(wals, oldestWal)
        /\ \A i \in DOMAIN imm : imm[i].ents \subseteq Logged(wals, imm[i].wal)
        /\ Covers(active, TableVersions)
        /\ \A i \in DOMAIN imm : Covers(active, imm[i].ents) /\ Covers(imm[i].ents, TableVersions)
        /\ \A i, j \in DOMAIN imm : i < j => Covers(imm[j].ents, imm[i].ents)
    BY DEF MemoryInv
  <2>4. MemoryVersions' \subseteq MemoryVersions
    <3> SUFFICES ASSUME NEW v \in MemoryVersions' PROVE v \in MemoryVersions
      OBVIOUS
    <3>1. v \in TableVersions \/ \E i \in DOMAIN imm' : v \in imm'[i].ents
      BY <2>2 DEF MemoryVersions
    <3>2. ASSUME NEW i \in DOMAIN imm', v \in imm'[i].ents PROVE v \in MemoryVersions
      BY <2>1, <3>2 DEF MemoryVersions
    <3> QED BY <3>1, <3>2 DEF MemoryVersions
  <2>5. \A v \in MemoryVersions' \cup StoredVersions' : v.seq <= edit'.last
    BY <2>2, <2>3, <2>4
  <2>6. active' \subseteq Logged(wals', oldestWal') /\ Covers(active', TableVersions')
    BY DEF Covers
  <2>7. ASSUME NEW i \in DOMAIN imm'
        PROVE  /\ imm'[i].ents \subseteq Logged(wals', imm'[i].wal)
               /\ Covers(active', imm'[i].ents) /\ Covers(imm'[i].ents, TableVersions')
    <3>1. Covers(active', imm'[i].ents)
      BY DEF Covers
    <3>2. CASE i \in DOMAIN imm
      BY <2>1, <2>2, <2>3, <3>1, <3>2
    <3>3. CASE i = n
      BY <2>1, <2>2, <2>3, <3>1, <3>3
    <3> QED BY <2>1, <3>2, <3>3
  <2>8. ASSUME NEW i \in DOMAIN imm', NEW j \in DOMAIN imm', i < j PROVE Covers(imm'[j].ents, imm'[i].ents)
    <3>1. i \in DOMAIN imm
      BY <2>1, <2>8
    <3>2. CASE j \in DOMAIN imm
      BY <2>1, <2>3, <2>8, <3>1, <3>2
    <3>3. CASE j = n
      BY <2>1, <2>3, <3>1, <3>3
    <3> QED BY <2>1, <3>2, <3>3
  <2> QED BY <2>5, <2>6, <2>7, <2>8 DEF MemoryInv
\* Its order is also that of the WALs.
<1>QueuedOrder.
  ASSUME IInv, QueueInv, ~closed, mu # "purge", oldestWal' \in Nat, oldestWal <= oldestWal',
         imm' = Append(imm, [ents |-> active, wal |-> oldestWal])
  PROVE  /\ edit.wal <= oldestWal'
         /\ \A i \in DOMAIN imm' : edit.wal <= imm'[i].wal /\ imm'[i].wal <= oldestWal'
         /\ \A i, j \in DOMAIN imm' : i < j => imm'[i].wal <= imm'[j].wal
  <2> USE <1>QueuedOrder
  <2> USE Zenon
  <2>1. PICK n \in Nat :
          /\ DOMAIN imm' = DOMAIN imm \cup {n}
          /\ \A i \in DOMAIN imm : i < n /\ ~(n < i) /\ imm'[i] = imm[i]
          /\ ~(n < n) /\ imm'[n].ents = active /\ imm'[n].wal = oldestWal
    BY <1>Queued
  <2>2. /\ edit.wal <= oldestWal
        /\ \A i \in DOMAIN imm : edit.wal <= imm[i].wal /\ imm[i].wal <= oldestWal
        /\ \A i, j \in DOMAIN imm : i < j => imm[i].wal <= imm[j].wal
    BY DEF QueueInv
  <2>3. /\ edit.wal \in Nat /\ oldestWal \in Nat
        /\ \A i \in DOMAIN imm : imm[i].wal \in Nat
    BY LayerTypes, OrderTypes
  <2>4. edit.wal <= oldestWal' /\ \A i \in DOMAIN imm : imm[i].wal <= oldestWal'
    BY <2>2, <2>3, SMT
  <2>5. ASSUME NEW i \in DOMAIN imm' PROVE edit.wal <= imm'[i].wal /\ imm'[i].wal <= oldestWal'
    BY <2>1, <2>2, <2>4
  <2>6. ASSUME NEW i \in DOMAIN imm', NEW j \in DOMAIN imm', i < j PROVE imm'[i].wal <= imm'[j].wal
    <3>1. i \in DOMAIN imm
      BY <2>1, <2>6
    <3>2. CASE j \in DOMAIN imm
      BY <2>1, <2>2, <2>6, <3>1, <3>2
    <3>3. CASE j = n
      BY <2>1, <2>2, <3>1, <3>3
    <3> QED BY <2>1, <3>2, <3>3
  <2> QED BY <2>4, <2>5, <2>6
\* The switch to a new MemTable and WAL is saved.
<1>RotateSucceedsLayers.
  ASSUME WellOrdered, IInv, IInv', OrderInv, LayersInv, TornRest(mtail) = <<>>, RotateSucceeds
  PROVE  LayersInv'
  <2> USE <1>RotateSucceedsLayers
  <2> USE Zenon
  <2>1. /\ UNCHANGED <<wals, ssts, closed, tables, snaps, worker, comp, closer>>
        /\ SaveSucceeds /\ mu = "rotate" /\ mu' = "free" /\ FreezeReaders
        /\ active' = {} /\ imm' = Append(imm, [ents |-> active, wal |-> oldestWal])
        /\ oldestWal' = pending.next - 1
    BY DEF RotateSucceeds
  <2>2. /\ Saving /\ ~closed /\ oldestWal <= activeWal /\ activeWal < edit.next
        /\ pending.next = edit.next + 1
    BY <2>1 DEF Saving, IInv, ControlInv, WALInv
  <2>3. /\ PlacedInv /\ SyncedInv /\ IdentityInv /\ QueueInv /\ MemoryInv /\ WorkInv
        /\ SnapInv /\ ReadInv
    BY DEF LayersInv
  <2>4. /\ Marks(mbase', mtail') \subseteq Marks(mbase, mtail) /\ edit' = pending /\ edit'.last = edit.last
    BY <2>1, <2>2, <2>3, <1>SavedMark
  <2>5. TableVersions' = TableVersions /\ StoredVersions' = StoredVersions
    BY <2>1, TablesWritten
  <2>6. PlacedInv' /\ SyncedInv' /\ IdentityInv'
    <3>1. mu # "write" /\ mu' # "write"
      BY <2>1, SMT
    <3> QED BY <2>1, <2>3, <2>4, <2>5, <3>1, DiskSame
  <2>7. MemoryInv'
    BY <2>1, <2>2, <2>3, <2>4, <1>QueuedMemory
  <2>8. SnapInv' /\ ReadInv'
    <3>1. edit.last \in Nat
      BY OrderTypes
    <3>2. edit.last <= edit'.last
      BY <2>4, <3>1, SMT
    <3> QED BY <2>1, <2>3, <3>2, SnapSame, ReadFrozen
  <2>9. WorkInv'
    <3>1. worker.pc \in {"build", "publish"} => imm # <<>> /\ worker.ents = imm[1].ents
      BY <2>3 DEF WorkInv, IInv, ChecksInv, QueueUnchanged
    <3>2. worker'.pc \in {"build", "publish"} => worker'.ents = imm'[1].ents
      BY <2>1, <3>1, <1>Queued
    <3> QED BY <2>1, <2>3, <2>5, <3>2 DEF WorkInv
  <2>10. QueueInv'
    <3>1. mu # "purge" /\ mu \in {"rotate", "compact"} /\ mu' \in {"free", "purge"}
      BY <2>1, SMT
    <3>2. pending.wal = edit.wal /\ (worker.pc \in {"compact", "purge"} => worker.wal <= edit.wal)
      BY <2>3, <3>1 DEF QueueInv
    <3>3. oldestWal \in Nat /\ activeWal \in Nat /\ edit.next \in Nat
      BY OrderTypes, LayerTypes
    <3>4. oldestWal' \in Nat /\ oldestWal <= oldestWal'
      BY <2>1, <2>2, <3>3, SMT
    <3>5. /\ edit.wal <= oldestWal'
          /\ \A i \in DOMAIN imm' : edit.wal <= imm'[i].wal /\ imm'[i].wal <= oldestWal'
          /\ \A i, j \in DOMAIN imm' : i < j => imm'[i].wal <= imm'[j].wal
      BY <2>1, <2>2, <2>3, <3>1, <3>4, <1>QueuedOrder
    <3> QED BY <2>1, <2>2, <2>3, <3>1, <3>2, <3>5, <1>SavedQueue
  <2> QED BY <2>6, <2>7, <2>8, <2>9, <2>10 DEF LayersInv
\* Close hands the active MemTable to the worker.
<1>CloseBeginsLayers.
  ASSUME WellOrdered, IInv, IInv', LayersInv, CloseBegins
  PROVE  LayersInv'
  <2> USE <1>CloseBeginsLayers
  <2> USE Zenon
  <2>1. /\ UNCHANGED <<wals, ssts, mbase, mtail, closed, activeWal, oldestWal, tables, edit, snaps, mu,
                       pending, worker, comp>>
        /\ ~closed /\ mu = "free" /\ FreezeReaders /\ active' = {}
        /\ imm' = IF active = {} THEN imm ELSE Append(imm, [ents |-> active, wal |-> oldestWal])
    BY DEF CloseBegins, disk
  <2>2. /\ PlacedInv /\ SyncedInv /\ IdentityInv /\ QueueInv /\ MemoryInv /\ WorkInv
        /\ SnapInv /\ ReadInv
    BY DEF LayersInv
  <2>3. TableVersions' = TableVersions /\ StoredVersions' = StoredVersions
    BY <2>1, TablesWritten
  <2>4. PlacedInv' /\ SyncedInv' /\ IdentityInv'
    BY <2>1, <2>2, <2>3, DiskSame
  <2>5. SnapInv' /\ ReadInv'
    <3>1. edit.last \in Nat
      BY OrderTypes
    <3>2. edit.last <= edit'.last
      BY <2>1, <3>1, SMT
    <3> QED BY <2>1, <2>2, <3>2, SnapSame, ReadFrozen
  <2>6. CASE active = {}
    <3>1. imm' = imm /\ active' = active
      BY <2>1, <2>6
    <3>2. MemoryInv'
      BY <2>1, <2>2, <2>3, <3>1, MemorySame
    <3>3. QueueInv'
      BY <2>1, <2>2, <3>1, QueueSame
    <3>4. WorkInv'
      BY <2>1, <2>2, <2>3, <3>1 DEF WorkInv
    <3> QED BY <2>4, <2>5, <3>2, <3>3, <3>4 DEF LayersInv
  <2>7. CASE active # {}
    <3>1. imm' = Append(imm, [ents |-> active, wal |-> oldestWal])
      BY <2>1, <2>7
    <3>2. MemoryInv'
      BY <2>1, <2>2, <3>1, <1>QueuedMemory
    <3>3. WorkInv'
      <4>1. worker.pc \in {"build", "publish"} => imm # <<>> /\ worker.ents = imm[1].ents
        BY <2>2 DEF WorkInv, IInv, ChecksInv, QueueUnchanged
      <4>2. worker'.pc \in {"build", "publish"} => worker'.ents = imm'[1].ents
        BY <2>1, <3>1, <4>1, <1>Queued
      <4> QED BY <2>1, <2>2, <2>3, <4>2 DEF WorkInv
    <3>4. QueueInv'
      <4>1. oldestWal \in Nat
        BY LayerTypes
      <4>2. /\ mu # "purge" /\ oldestWal' \in Nat /\ oldestWal <= oldestWal'
            /\ mu' \notin {"rotate", "compact", "flush", "purge"} /\ ~Saving'
        BY <2>1, <4>1, SMT DEF Saving
      <4>3. /\ edit.wal <= oldestWal'
            /\ \A i \in DOMAIN imm' : edit.wal <= imm'[i].wal /\ imm'[i].wal <= oldestWal'
            /\ \A i, j \in DOMAIN imm' : i < j => imm'[i].wal <= imm'[j].wal
        BY <2>1, <2>2, <3>1, <4>2, <1>QueuedOrder
      <4>4. /\ mbase'.wal <= edit'.wal
            /\ TornRest(mtail') = <<>> => \A p \in Marks(mbase', mtail') : mbase'.wal <= p[1]
            /\ worker'.pc \in {"compact", "purge"} =>
                 worker'.wal <= edit'.wal /\ \A p \in Marks(mbase', mtail') : worker'.wal <= p[1]
        <5>1. Marks(mbase', mtail') = Marks(mbase, mtail) /\ TornRest(mtail') = TornRest(mtail)
          BY <2>1
        <5> QED BY <2>1, <2>2, <5>1 DEF QueueInv
      <4> QED BY <2>1, <4>2, <4>3, <4>4 DEF QueueInv
    <3> QED BY <2>4, <2>5, <3>2, <3>3, <3>4 DEF LayersInv
  <2> QED BY <2>6, <2>7
<1> USE Zenon
<1> SUFFICES ASSUME \/ CloseBegins \/ CloseSteps \/ WriteSteps \/ WorkerSteps
                    \/ CompactionSteps \/ UserCompacts
             PROVE  LayerSteps \/ LayersInv'
  BY SMT
<1>1. CASE CloseBegins
  BY <1>1, <1>CloseBeginsLayers
<1>2. CASE CloseSteps
  <2>1. CloseSaves \/ CloseSaved => closer.pc = "join" \/ mu = "close"
    BY DEF CloseSaves, CloseSaved, Joined
  <2>2. CloseSaves \/ CloseSaved => TornRest(mtail) = <<>>
    BY <2>1, ClosedIsQuiet, SMT
  <2> QED BY <1>2, <2>2, <1>SaveBeginsLayers, <1>CloseSavedLayers DEF CloseSteps, LayerSteps
<1>3. CASE WriteSteps
  <2>1. RotateSucceeds \/ RotateFails => mu = "rotate"
    BY DEF RotateSucceeds, RotateFails
  <2>2. RotateSucceeds \/ RotateFails => TornRest(mtail) = <<>>
    BY <2>1, ClosedIsQuiet, SMT
  <2> QED BY <1>3, <2>2, <1>RotateSucceedsLayers, <1>SaveFailsLayers DEF WriteSteps, LayerSteps
<1>4. CASE WorkerSteps
  <2>1. FlushPublishes \/ FlushSucceeds \/ FlushFails => worker.pc = "publish" \/ mu = "flush"
    BY DEF FlushPublishes, FlushSucceeds, FlushFails
  <2>2. FlushPublishes \/ FlushSucceeds \/ FlushFails => TornRest(mtail) = <<>>
    BY <2>1, ClosedIsQuiet, SMT
  <2> QED BY <1>4, <2>2, <1>BackgroundLayers, <1>SaveBeginsLayers, <1>FlushSucceedsLayers, <1>SaveFailsLayers
       DEF WorkerSteps, LayerSteps
<1>5. CASE CompactionSteps \/ UserCompacts
  <2>1. CompactionPublishes \/ CompactionSucceeds \/ CompactionFails =>
          comp.stage = "publish" \/ mu = "compact"
    BY DEF CompactionPublishes, CompactionSucceeds, CompactionFails
  <2>2. CompactionPublishes \/ CompactionSucceeds \/ CompactionFails => TornRest(mtail) = <<>>
    BY <2>1, ClosedIsQuiet, SMT
  <2>3. MaybeCompactSelects \/ UserCompacts => \E by, n : Selects(by, n)
    BY DEF MaybeCompactSelects, UserCompacts
  <2> QED BY <1>5, <2>2, <2>3, <1>BackgroundLayers, <1>SaveBeginsLayers, <1>CompactionSucceedsLayers,
       <1>SaveFailsLayers DEF CompactionSteps
<1> QED BY <1>1, <1>2, <1>3, <1>4, <1>5

\* Of a closed database only what is on disk matters.
LEMMA ClosedLayers ==
  ASSUME IInv, IInv', LayersInv, closed', active' = {}, \A i \in Snaps : snaps'[i] = Inactive,
         Kept(wals, wals'), StoredVersions' \subseteq StoredVersions,
         \A v \in StoredVersions :
           v \in Logged(wals, 0) => v \in Logged(wals', 0) \/ Settled(wals', Marks(mbase', mtail'), v),
         Marks(mbase', mtail') \subseteq Marks(mbase, mtail),
         TornRest(mtail') = <<>> => \A p \in Marks(mbase', mtail') : mbase'.wal <= p[1],
         SyncedInv', ReadInv'
  PROVE  LayersInv'
<1> USE Zenon
<1>1. PlacedInv /\ IdentityInv
  BY DEF LayersInv
<1>2. \A low : Logged(wals', low) \subseteq Logged(wals, low)
  BY LogKept
<1>3. PlacedInv'
  BY <1>1, <1>2, PlacedKept
<1>4. IdentityInv'
  BY <1>1, <1>2, IdentityKept
<1>5. mu' = "free" /\ worker'.pc = "off" /\ comp' = NoCompaction
  BY DEF IInv, ControlInv
<1>6. /\ mu' \notin {"rotate", "flush", "compact", "close", "purge"}
      /\ worker'.pc \notin {"build", "publish", "compact", "purge"}
      /\ comp'.stage \notin {"build", "publish"}
  BY <1>5, SMT DEF NoCompaction
<1>7. QueueInv'
  BY <1>6 DEF QueueInv, Saving
<1>8. MemoryInv' /\ WorkInv' /\ SnapInv'
  BY <1>6 DEF MemoryInv, WorkInv, SnapInv
<1> QED BY <1>3, <1>4, <1>7, <1>8 DEF LayersInv

\* The tables of a database that is closed are those on disk.
LEMMA ClosedTables ==
  ASSUME tables' = <<>>, UNCHANGED ssts
  PROVE  StoredVersions' \subseteq StoredVersions
<1>1. DOMAIN tables' = {}
  OBVIOUS
<1>2. TableVersions' = {}
  BY <1>1, Zenon DEF TableVersions
<1> QED BY <1>2, Zenon DEF StoredVersions

\* A power failure at any point.
LEMMA CrashLayers ==
  ASSUME WellOrdered, IInv, IInv', OrderInv, LayersInv, Crash
  PROVE  LayersInv'
\* A power failure keeps the synced records of a file, and all that it keeps is
\* synced.
<1>PowerFailureSynced.
  ASSUME NEW f \in WALFiles(Version), NEW g \in AfterPowerFailure(f)
  PROVE  /\ \A i \in DOMAIN g.recs : i <= g.synced
         /\ \A i \in DOMAIN f.recs : i <= f.synced => i \in DOMAIN g.recs /\ g.recs[i] = f.recs[i]
  <2> USE <1>PowerFailureSynced
  <2> USE Zenon
  <2> DEFINE S == BatchRecords(Version)
             s == f.recs
  <2>1. s \in Seq(S) /\ f.synced \in Nat
    BY DEF WALFiles
  <2>2. PICK n \in f.synced..Len(f.recs), t \in BOOLEAN :
          g = [recs |-> SubSeq(f.recs, 1, n), synced |-> n, torn |-> t]
    BY SMT DEF AfterPowerFailure
  <2>3. g.recs = SubSeq(s, 1, n) /\ g.synced = n
    BY <2>2
  <2> HIDE DEF S, s
  <2>4. n \in Nat /\ n <= Len(s) /\ Len(s) \in Nat /\ f.synced <= n
    BY <2>1, <2>2, SMT DEF s
  <2>5. DOMAIN s = 1..Len(s) /\ \A i \in 1..n : s[i] \in S /\ i \in DOMAIN s
    BY <2>1, <2>4, SMT
  <2>6. /\ SubSeq(s, 1, n) \in Seq(S) /\ Len(SubSeq(s, 1, n)) = n
        /\ \A i \in 1..n : SubSeq(s, 1, n)[i] = s[i]
    BY <2>4, <2>5, SMT
  <2>7. DOMAIN SubSeq(s, 1, n) = 1..n
    BY <2>6, SMT
  <2>8. /\ \A i \in DOMAIN s : i <= f.synced => i \in 1..n
        /\ \A i \in 1..n : i <= n
    BY <2>1, <2>4, <2>5, SMT
  <2> QED BY <2>3, <2>6, <2>7, <2>8 DEF s
<1> USE Zenon
<1>1. /\ closed' /\ active' = {} /\ tables' = <<>> /\ snaps' = [i \in Snaps |-> Inactive]
      /\ mu' = "free" /\ UNCHANGED ssts /\ reader' = [r \in Readers |-> IdleReader]
  BY DEF Crash, ResetMemory
<1>2. SyncedInv /\ MemoryInv
  BY DEF LayersInv
<1>3. ReadInv'
  <2>1. \A r \in Readers : reader'[r] = IdleReader
    BY <1>1
  <2>2. /\ IdleReader.pc # "pinned" /\ IdleReader.pc # "tables" /\ IdleReader.pc # "done"
        /\ ~IdleReader.shared
    BY SMT DEF IdleReader
  <2> QED BY <2>1, <2>2 DEF ReadInv
<1>4. StoredVersions' \subseteq StoredVersions
  BY <1>1, ClosedTables
<1>5. /\ Marks(mbase', mtail') \subseteq Marks(mbase, mtail)
      /\ TornRest(mtail') = <<>> => \A p \in Marks(mbase', mtail') : mbase'.wal <= p[1]
  <2>1. mbase \in Edits /\ mtail \in Seq(Records) /\ msynced \in Nat
    BY DEF IInv, TypeOK, DiskTypeOK
  <2>2. PICK n \in msynced..Len(mtail), torn \in BOOLEAN :
          LET log == SubSeq(mtail, 1, n) \o IF torn THEN <<Tear(mtail[n + 1])>> ELSE <<>>
          IN  /\ torn => n < Len(mtail)
              /\ mbase' = Replay(mbase, IntactPrefix(log))
              /\ mtail' = TornRest(log)
    BY DEF Crash
  <2> DEFINE log == SubSeq(mtail, 1, n) \o IF torn THEN <<Tear(mtail[n + 1])>> ELSE <<>>
  <2>3. n \in 0..Len(mtail)
    BY <2>1, SMT
  <2>4. log \in Seq(Records) /\ Marks(mbase, log) \subseteq Marks(mbase, mtail)
    BY <2>1, <2>2, <2>3, CrashMarks
  <2>5. mbase' = Replay(mbase, IntactPrefix(log)) /\ mtail' = TornRest(log)
    BY <2>2
  <2> HIDE DEF log
  <2>6. Marks(mbase', mtail') \subseteq Marks(mbase, mtail)
    BY <2>1, <2>4, <2>5, ReadBackMarks
  <2>7. ASSUME TornRest(mtail') = <<>>, NEW p \in Marks(mbase', mtail') PROVE mbase'.wal <= p[1]
    <3>1. mtail' = <<>>
      BY <2>4, <2>5, <2>7, RestIsTorn
    <3>2. mbase'.wal \in Nat
      BY DEF IInv, TypeOK, DiskTypeOK, Edits
    <3> QED BY <2>7, <3>1, <3>2, SMT DEF Marks
  <2> QED BY <2>6, <2>7
<1> DEFINE dirty == {m \in DOMAIN wals : Dirty(wals[m])}
<1>6. PICK img : /\ \A m \in dirty : img[m] \in AfterPowerFailure(wals[m])
                 /\ wals' = [m \in DOMAIN wals |-> IF m \in dirty THEN img[m] ELSE wals[m]]
  BY DEF Crash
<1>7. \A m \in DOMAIN wals : wals[m] \in WALFiles(Version)
  BY OrderTypes
<1>8. ASSUME NEW m \in DOMAIN wals
      PROVE  /\ \A i \in DOMAIN wals'[m].recs :
                  /\ i \in DOMAIN wals[m].recs /\ wals'[m].recs[i] = wals[m].recs[i]
                  /\ i <= wals'[m].synced
             /\ \A i \in DOMAIN wals[m].recs : i <= wals[m].synced =>
                  i \in DOMAIN wals'[m].recs /\ wals'[m].recs[i] = wals[m].recs[i]
  <2>1. CASE m \in dirty
    <3>1. wals'[m] = img[m] /\ img[m] \in AfterPowerFailure(wals[m])
      BY <1>6, <2>1
    <3> DEFINE f == wals[m]
               g == wals'[m]
    <3>2. f \in WALFiles(Version) /\ g \in AfterPowerFailure(f)
      BY <1>7, <3>1
    <3> HIDE DEF dirty, f, g
    <3>3. \A i \in DOMAIN g.recs : i \in DOMAIN f.recs /\ g.recs[i] = f.recs[i]
      BY <3>2, PowerFailureKeeps
    <3>4. /\ \A i \in DOMAIN g.recs : i <= g.synced
          /\ \A i \in DOMAIN f.recs : i <= f.synced => i \in DOMAIN g.recs /\ g.recs[i] = f.recs[i]
      BY <3>2, <1>PowerFailureSynced
    <3> QED BY <3>3, <3>4 DEF f, g
  <2>2. CASE m \notin dirty
    <3>1. wals'[m] = wals[m] /\ ~(wals[m].synced < Len(wals[m].recs))
      BY <1>6, <2>2 DEF Dirty
    <3>2. wals[m].synced \in Nat /\ wals[m].recs \in Seq(BatchRecords(Version))
      BY <1>7 DEF WALFiles
    <3>3. \A i \in DOMAIN wals[m].recs : i <= wals[m].synced
      <4> DEFINE S == BatchRecords(Version)
                 s == wals[m].recs
                 n == wals[m].synced
      <4>1. s \in Seq(S) /\ n \in Nat /\ ~(n < Len(s))
        BY <3>1, <3>2
      <4> HIDE DEF S, s, n
      <4>2. \A i \in DOMAIN s : i <= n
        BY <4>1, SMT
      <4> QED BY <4>2 DEF s, n
    <3> QED BY <3>1, <3>3
  <2> QED BY <2>1, <2>2
<1>9. DOMAIN wals' = DOMAIN wals
  BY <1>6
<1> HIDE DEF dirty
<1>10. Kept(wals, wals')
  BY <1>8, <1>9 DEF Kept
<1>11. SyncedInv'
  BY <1>8, <1>9 DEF SyncedInv
<1>12. ASSUME NEW v \in StoredVersions, v \in Logged(wals, 0) PROVE v \in Logged(wals', 0)
  <2>1. PICK n \in DOMAIN wals : n >= 0 /\ \E i \in DOMAIN wals[n].recs : v \in wals[n].recs[i]
    BY <1>12, InLog
  <2>2. PICK i \in DOMAIN wals[n].recs : v \in wals[n].recs[i]
    BY <2>1
  <2>3. CASE i <= wals[n].synced
    <3>1. i \in DOMAIN wals'[n].recs /\ v \in wals'[n].recs[i]
      BY <1>8, <2>2, <2>3
    <3> QED BY <1>9, <2>1, <3>1, InLog
  <2>4. CASE mu = "write" /\ n = activeWal /\ i = Len(wals[n].recs)
    <3>1. v \in Appended /\ ~closed
      BY <2>2, <2>4 DEF Appended, IInv, ControlInv
    <3>2. edit.last < v.seq /\ v.seq <= edit.last
      BY <1>2, <1>12, <2>4, <3>1 DEF OrderInv, MemoryInv
    <3>3. edit.last \in Nat /\ v.seq \in Nat
      BY OrderTypes, LayerTypes
    <3> QED BY <3>2, <3>3, SMT
  <2> QED BY <1>2, <2>3, <2>4 DEF SyncedInv
<1>13. \A i \in Snaps : snaps'[i] = Inactive
  BY <1>1
<1> QED BY <1>1, <1>3, <1>4, <1>5, <1>10, <1>11, <1>12, <1>13, ClosedLayers

\* The steps of a Get, and what is done to snapshots, keep the layers.
LEMMA ReadLayers ==
  ASSUME WellOrdered, IInv, IInv', LayersInv,
         \/ \E i \in Snaps : GetSnapshot(i) \/ ReleaseSnapshot(i)
         \/ \E r \in Readers : GetSteps(r) \/ \E k \in Keys : GetPins(r, k)
         \/ UNCHANGED vars
  PROVE  LayersInv'
\* One Get goes on, and nothing else changes.
<1>OneReads.
  ASSUME ReadInv, UNCHANGED <<active, closed, edit>>, NEW r \in Readers, NEW p,
         reader' = [reader EXCEPT ![r] = p], reader \in [Readers -> Gets],
         p.pc = "pinned" => Found(r)' = p.want,
         p.pc = "tables" => Lookup(p.tabs, p.key, p.seq) = p.want,
         p.pc = "done" => p.got = p.want,
         p.shared => p.pc = "pinned" /\ (~closed => p.seq <= edit.last)
  PROVE  ReadInv'
  <2> USE <1>OneReads
  <2> USE Zenon
  <2> SUFFICES ASSUME NEW q \in Readers
               PROVE  /\ reader'[q].pc = "pinned" => Found(q)' = reader'[q].want
                      /\ reader'[q].pc = "tables" =>
                           Lookup(reader'[q].tabs, reader'[q].key, reader'[q].seq) = reader'[q].want
                      /\ reader'[q].pc = "done" => reader'[q].got = reader'[q].want
                      /\ reader'[q].shared =>
                           reader'[q].pc = "pinned" /\ (~closed' => reader'[q].seq <= edit'.last)
    BY DEF ReadInv
  <2>1. CASE q = r
    <3>1. reader'[q] = p
      BY <2>1
    <3> QED BY <2>1, <3>1
  <2>2. CASE q # r
    <3>1. reader'[q] = reader[q]
      BY <2>2
    <3>2. PinnedMemTables(q)' = PinnedMemTables(q)
      BY <3>1 DEF PinnedMemTables
    <3>3. Found(q)' = Found(q)
      BY <3>1, <3>2 DEF Found
    <3> QED BY <3>1, <3>3 DEF ReadInv
  <2> QED BY <2>1, <2>2
\* A step of a Get, which changes the Get only.
<1>GetLayers.
  ASSUME WellOrdered, IInv, IInv', LayersInv, NEW r \in Readers,
         GetSteps(r) \/ \E k \in Keys : GetPins(r, k)
  PROVE  LayersInv'
  <2> USE <1>GetLayers
  <2> USE Zenon
  <2>1. UNCHANGED <<wals, ssts, mbase, mtail, closed, active, activeWal, oldestWal, imm, tables, mu,
                    pending, closer, worker, comp, edit, snaps>>
    BY DEF GetSteps, GetReadsMemTables, GetReadsTables, GetReturns, GetPins, disk, memory
  <2>2. IdentityInv /\ MemoryInv /\ WorkInv /\ SnapInv /\ ReadInv
    BY DEF LayersInv
  <2>3. reader \in [Readers -> Gets] /\ reader[r] \in Gets
    BY LayerTypes DEF IInv, TypeOK, ReadersTypeOK
  <2> DEFINE p == reader[r]
  <2>4. ReadInv'
    <3>1. CASE GetReadsMemTables(r)
      <4> DEFINE L == PinnedMemTables(r)
                 h == \E i \in DOMAIN L : VisibleAt(L[i], p.key, p.seq) # {}
                 c == IF h THEN "done" ELSE "tables"
                 g == FirstHit(L, p.key, p.seq)
                 q == [p EXCEPT !.pc = c, !.got = g, !.active = {}, !.shared = FALSE, !.imms = <<>>]
      <4>1. p.pc = "pinned" /\ reader' = [reader EXCEPT ![r] = q]
        BY <3>1 DEF GetReadsMemTables
      <4>2. IF h THEN g = p.want ELSE Lookup(p.tabs, p.key, p.seq) = p.want
        <5>1. Found(r) = p.want
          BY <4>1, <2>2 DEF ReadInv
        <5> QED BY <5>1 DEF Found, Searched
      <4>3. c \in {"done", "tables"} /\ (c = "done" => h) /\ (c = "tables" => ~h)
        <5> HIDE DEF h
        <5> QED BY SMT
      <4> HIDE DEF L, h, c, g, p
      <4>4. /\ q.pc = c /\ q.got = g /\ ~q.shared /\ q.tabs = p.tabs /\ q.key = p.key /\ q.seq = p.seq
            /\ q.want = p.want
        BY <2>3 DEF Gets, p
      <4>5. /\ q.pc # "pinned" /\ (q.pc = "tables" => ~h) /\ (q.pc = "done" => h)
        BY <4>3, <4>4, SMT
      <4> HIDE DEF q
      <4> QED BY <2>1, <2>2, <2>3, <4>1, <4>2, <4>4, <4>5, <1>OneReads
    <3>2. CASE GetReadsTables(r)
      <4> DEFINE g == Lookup(p.tabs, p.key, p.seq)
                 q == [p EXCEPT !.pc = "done", !.tabs = {}, !.got = g]
      <4>1. p.pc = "tables" /\ reader' = [reader EXCEPT ![r] = q]
        BY <3>2 DEF GetReadsTables
      <4>2. g = p.want
        BY <2>2, <4>1 DEF ReadInv
      <4>3. p.shared = FALSE
        <5>1. p.shared \in BOOLEAN /\ (p.shared => p.pc = "pinned")
          BY <2>2, PinnedLayers DEF ReadInv
        <5> QED BY <4>1, <5>1, SMT
      <4> HIDE DEF g, p
      <4>4. q.pc = "done" /\ q.got = g /\ q.want = p.want /\ q.shared = p.shared
        BY <2>3 DEF Gets, p
      <4>5. q.pc # "pinned" /\ q.pc # "tables"
        BY <4>4, SMT
      <4> HIDE DEF q
      <4> QED BY <2>1, <2>2, <2>3, <4>1, <4>2, <4>3, <4>4, <4>5, <1>OneReads
    <3>3. CASE GetReturns(r)
      <4>1. reader' = [reader EXCEPT ![r] = IdleReader]
        BY <3>3 DEF GetReturns
      <4>2. /\ IdleReader.pc # "pinned" /\ IdleReader.pc # "tables" /\ IdleReader.pc # "done"
            /\ ~IdleReader.shared
        BY SMT DEF IdleReader
      <4> QED BY <2>1, <2>2, <2>3, <4>1, <4>2, <1>OneReads
    <3>4. CASE \E k \in Keys : GetPins(r, k)
      <4>1. PICK k \in Keys, s \in ReadPoints :
              /\ ~closed
              /\ reader' = [reader EXCEPT ![r] =
                   [pc |-> "pinned", key |-> k, seq |-> s, active |-> {}, shared |-> TRUE,
                    imms |-> [i \in DOMAIN imm |-> imm[Len(imm) + 1 - i].ents],
                    tabs |-> TableVersions, want |-> Lookup(MemoryVersions, k, s),
                    got |-> NotFound]]
        BY <3>4 DEF GetPins
      <4> DEFINE m == [i \in DOMAIN imm |-> imm[Len(imm) + 1 - i].ents]
                 T == TableVersions
                 w == Lookup(MemoryVersions, k, s)
                 q == [pc |-> "pinned", key |-> k, seq |-> s, active |-> {}, shared |-> TRUE,
                       imms |-> m, tabs |-> T, want |-> w, got |-> NotFound]
      <4>2. s \in Nat /\ s <= edit.last
        <5>1. edit.last \in Nat /\ snaps \in [Snaps -> Nat \cup {Inactive}]
          BY OrderTypes, LayerTypes
        <5>2. CASE s = edit.last
          BY <5>1, <5>2, SMT
        <5>3. CASE \E i \in Snaps : s = snaps[i] /\ s # Inactive
          <6>1. PICK i \in Snaps : s = snaps[i] /\ s # Inactive
            BY <5>3
          <6>2. s <= edit.last
            BY <2>2, <4>1, <6>1 DEF SnapInv
          <6> QED BY <5>1, <6>1, <6>2
        <5> QED BY <4>1, <5>2, <5>3 DEF ReadPoints
      <4>3. reader' = [reader EXCEPT ![r] = q]
        BY <4>1
      <4>4. w = Searched(<<active>> \o m, T, k, s)
        <5>1. w = Searched(MemTablesNewestFirst, T, k, s)
          BY <2>2, <4>1, <4>2, SearchFinds
        <5> QED BY <5>1 DEF MemTablesNewestFirst
      <4> HIDE DEF m, T, w, p
      <4>5. /\ q.pc = "pinned" /\ q.key = k /\ q.seq = s /\ q.shared /\ q.imms = m /\ q.tabs = T
            /\ q.want = w
        OBVIOUS
      <4>6. q.pc # "tables" /\ q.pc # "done"
        BY <4>5, SMT
      <4> HIDE DEF q
      <4>7. reader'[r] = q
        BY <2>3, <4>3
      <4>8. PinnedMemTables(r)' = <<active>> \o m
        BY <2>1, <4>5, <4>7 DEF PinnedMemTables
      <4>9. Found(r)' = Searched(<<active>> \o m, T, k, s)
        BY <4>5, <4>7, <4>8 DEF Found
      <4>10. Found(r)' = q.want
        BY <4>4, <4>5, <4>9
      <4> QED BY <2>1, <2>2, <2>3, <4>2, <4>3, <4>5, <4>6, <4>10, <1>OneReads
    <3> QED BY <3>1, <3>2, <3>3, <3>4 DEF GetSteps
  <2>5. SnapInv'
    BY <2>1, <2>2 DEF SnapInv
  <2>6. StoredVersions' = StoredVersions
    BY <2>1, TablesWritten
  <2>7. /\ worker'.pc \in {"build", "publish"} => worker'.ents = imm[1].ents
        /\ comp'.stage \in {"build", "publish"} => comp'.ents \subseteq TableVersions
    BY <2>1, <2>2 DEF WorkInv
  <2> QED BY <2>1, <2>4, <2>5, <2>6, <2>7, QuietLayers
\* A snapshot is taken or released.
<1>SnapshotLayers.
  ASSUME WellOrdered, IInv, IInv', LayersInv, NEW i \in Snaps, GetSnapshot(i) \/ ReleaseSnapshot(i)
  PROVE  LayersInv'
  <2> USE <1>SnapshotLayers
  <2> USE Zenon
  <2>1. UNCHANGED <<wals, ssts, mbase, mtail, closed, active, activeWal, oldestWal, imm, tables, mu,
                    pending, closer, worker, comp, edit, reader>>
    BY DEF GetSnapshot, ReleaseSnapshot, disk
  <2>2. WorkInv /\ SnapInv /\ ReadInv
    BY DEF LayersInv
  <2>3. edit.last \in Nat /\ snaps \in [Snaps -> Nat \cup {Inactive}]
    BY OrderTypes, LayerTypes
  <2>4. SnapInv'
    <3>1. PICK s \in {edit.last, Inactive} : snaps' = [snaps EXCEPT ![i] = s]
      BY DEF GetSnapshot, ReleaseSnapshot
    <3>2. ~closed
      BY <2>2 DEF GetSnapshot, ReleaseSnapshot, SnapInv
    <3>3. s <= edit.last
      BY <2>3, <3>1, SMT DEF Inactive
    <3>4. \A j \in Snaps : snaps'[j] <= edit.last
      BY <2>2, <2>3, <3>1, <3>2, <3>3 DEF SnapInv
    <3> QED BY <2>1, <3>2, <3>4 DEF SnapInv
  <2>5. ReadInv'
    <3>1. edit.last <= edit'.last
      BY <2>1, <2>3, SMT
    <3> QED BY <2>1, <2>2, <3>1, ReadSame
  <2>6. StoredVersions' = StoredVersions
    BY <2>1, TablesWritten
  <2>7. /\ worker'.pc \in {"build", "publish"} => worker'.ents = imm[1].ents
        /\ comp'.stage \in {"build", "publish"} => comp'.ents \subseteq TableVersions
    BY <2>1, <2>2 DEF WorkInv
  <2> QED BY <2>1, <2>4, <2>5, <2>6, <2>7, QuietLayers
\* Nothing happens.
<1>StutterLayers.
  ASSUME WellOrdered, IInv, IInv', LayersInv, UNCHANGED vars
  PROVE  LayersInv'
  <2> USE <1>StutterLayers
  <2> USE Zenon
  <2>1. UNCHANGED <<wals, ssts, mbase, mtail, closed, active, activeWal, oldestWal, imm, tables, mu,
                    pending, closer, worker, comp, edit, reader, snaps>>
    BY DEF vars, disk, memory
  <2>2. WorkInv
    BY DEF LayersInv
  <2>3. StoredVersions' = StoredVersions
    BY <2>1, TablesWritten
  <2>4. /\ worker'.pc \in {"build", "publish"} => worker'.ents = imm[1].ents
        /\ comp'.stage \in {"build", "publish"} => comp'.ents \subseteq TableVersions
    BY <2>1, <2>2 DEF WorkInv
  <2> QED BY <2>1, <2>3, <2>4, BuildLayers
<1> QED BY <1>GetLayers, <1>SnapshotLayers, <1>StutterLayers, Zenon

=============================================================================
