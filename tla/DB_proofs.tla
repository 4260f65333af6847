----------------------------- MODULE DB_proofs ------------------------------
(***************************************************************************)
(* Type correctness of DB, the validity of the checks its threads make     *)
(* after they have waited without the lock, that no table is built under a *)
(* number in use, that a crash at any point leaves a directory that Open   *)
(* accepts, and that a read finds the newest version that it may see, for  *)
(* every value of the constants.                                           *)
(***************************************************************************)
EXTENDS DBFileSteps, DBLayers

WF == INSTANCE WellFoundedInduction

-----------------------------------------------------------------------------
(***************************************************************************)
(* The steps of the clients keep the order of the sources of a read.       *)
(***************************************************************************)

\* The steps of clients, purges, crashes and reopens keep the layers.
LEMMA ClientLayers ==
  ASSUME WellOrdered, "torn" \notin SaveFailures, "full" \notin AppendFailures,
         IInv, IInv', OrderInv, OrderInv', LayersInv, ~closed => TornRest(mtail) = <<>>
  PROVE  (\/ LayerSteps \/ Open \/ OpenFails \/ Crash
          \/ \E b \in Batches : Write(b)
          \/ \E i \in Snaps : GetSnapshot(i) \/ ReleaseSnapshot(i)
          \/ \E r \in Readers : GetSteps(r) \/ \E k \in Keys : GetPins(r, k)
          \/ UNCHANGED vars) => LayersInv'
\* What is removed with the files below the oldest WAL of every version of the
\* manifest is settled.
<1>Purged.
  ASSUME IInv, OrderInv, NEW w \in Nat, Kept(wals, wals'),
         \A n \in DOMAIN wals : n >= w => n \in DOMAIN wals' /\ wals'[n] = wals[n],
         \A p \in Marks(mbase, mtail) : w <= p[1],
         NEW v \in Logged(wals, 0)
  PROVE  v \in Logged(wals', 0) \/ Settled(wals', Marks(mbase, mtail), v)
  <2> USE <1>Purged
  <2> USE Zenon
  <2>1. PICK n \in DOMAIN wals : n >= 0 /\ \E i \in DOMAIN wals[n].recs : v \in wals[n].recs[i]
    BY InLog
  <2>2. PICK i \in DOMAIN wals[n].recs : v \in wals[n].recs[i]
    BY <2>1
  <2>3. n \in Nat
    BY OrderTypes
  <2>4. CASE n >= w
    <3>1. n \in DOMAIN wals' /\ wals'[n] = wals[n]
      BY <2>4
    <3> QED BY <2>1, <3>1, InLog
  <2>5. CASE ~(n >= w)
    <3> SUFFICES ASSUME NEW p \in Marks(mbase, mtail)
                 PROVE  v.seq <= p[2] /\ \A u \in Logged(wals', p[1]) : v.seq < u.seq
      BY DEF Settled
    <3>1. p[1] \in Nat /\ n < p[1]
      <4>1. p[1] \in Nat /\ w <= p[1]
        BY OrderTypes
      <4> QED BY <2>3, <2>5, <4>1, SMT
    <3>2. Bounded(wals, n, p[2])
      BY <3>1 DEF OrderInv
    <3>3. \A u \in Logged(wals, p[1]) : v.seq < u.seq
      BY <2>2, <3>1, LogOrder
    <3>4. Logged(wals', p[1]) \subseteq Logged(wals, p[1])
      BY LogKept
    <3> QED BY <2>2, <3>2, <3>3, <3>4 DEF Bounded
  <2> QED BY <2>4, <2>5
\* Close ends.
<1>CloseEndsLayers.
  ASSUME WellOrdered, IInv, IInv', OrderInv, LayersInv, TornRest(mtail) = <<>>,
         "torn" \notin SaveFailures,
         CloseEnds \/ CloseSaveFails \/ ClosePurges \/ ClosePurgeFails
  PROVE  LayersInv'
  <2> USE <1>CloseEndsLayers
  <2> USE Zenon
  <2>1. /\ ResetMemory /\ UNCHANGED <<ssts, mbase, reader>> /\ closer.pc = "join" /\ ~closed
        /\ mu \in {"free", "close", "purge"}
    BY DEF CloseEnds, CloseSaveFails, ClosePurges, ClosePurgeFails, disk, Joined, IInv,
         ControlInv
  <2>2. /\ closed' /\ active' = {} /\ tables' = <<>> /\ snaps' = [i \in Snaps |-> Inactive] /\ mu' = "free"
    BY <2>1 DEF ResetMemory
  <2>3. SyncedInv /\ QueueInv /\ WorkInv /\ ReadInv /\ mu # "write"
    BY <2>1, SMT DEF LayersInv
  <2>4. active = {}
    BY <2>1, <2>3 DEF WorkInv
  <2>5. ReadInv'
    BY <2>1, <2>2, <2>3, <2>4, ReadSame
  <2>6. StoredVersions' \subseteq StoredVersions
    BY <2>1, <2>2, ClosedTables
  <2>7. /\ Marks(mbase', mtail') \subseteq Marks(mbase, mtail)
        /\ TornRest(mtail') = <<>> => \A p \in Marks(mbase', mtail') : mbase'.wal <= p[1]
    <3>1. Marks(mbase', mtail') \subseteq Marks(mbase, mtail)
      <4>1. CASE UNCHANGED mtail
        BY <2>1, <4>1
      <4>2. CASE CloseSaveFails
        <5>1. PICK how \in SaveFailures : mtail' = SaveLeaves(how)
          BY <4>2 DEF CloseSaveFails
        <5>2. Saving
          BY <4>2 DEF CloseSaveFails, Saving
        <5> QED BY <2>1, <5>1, <5>2, SaveLeavesMarks
      <4> QED BY <4>1, <4>2 DEF CloseEnds, ClosePurges, ClosePurgeFails, disk
    <3> QED BY <2>1, <2>3, <3>1 DEF QueueInv
  <2>8. /\ Kept(wals, wals') /\ (\A n \in DOMAIN wals' : n \in DOMAIN wals /\ wals'[n] = wals[n])
        /\ \A v \in Logged(wals, 0) :
             v \in Logged(wals', 0) \/ Settled(wals', Marks(mbase', mtail'), v)
    <3>1. CASE CloseEnds \/ CloseSaveFails
      <4>1. wals' = wals
        BY <3>1 DEF CloseEnds, CloseSaveFails, disk
      <4> QED BY <4>1 DEF Kept
    <3>2. CASE ClosePurges \/ ClosePurgeFails
      <4>1. /\ mu = "purge" /\ UNCHANGED mtail
            /\ \E R \in SUBSET ObsoleteWALs : wals' = Restricted(wals, DOMAIN wals \ R)
        BY <3>2 DEF ClosePurges, ClosePurgeFails, PartlyRemoved
      <4>2. PICK R \in SUBSET ObsoleteWALs : wals' = Restricted(wals, DOMAIN wals \ R)
        BY <4>1
      <4>3. DOMAIN wals' = DOMAIN wals \ R /\ \A n \in DOMAIN wals' : wals'[n] = wals[n]
        BY <4>2 DEF Restricted
      <4>4. Kept(wals, wals') /\ \A n \in DOMAIN wals' : n \in DOMAIN wals /\ wals'[n] = wals[n]
        BY <4>3 DEF Kept
      <4>5. edit.wal \in Nat /\ DOMAIN wals \in SUBSET Nat
        BY OrderTypes
      <4>6. \A n \in DOMAIN wals : n >= edit.wal => n \notin R
        BY <4>5, SMT DEF ObsoleteWALs
      <4>7. \A n \in DOMAIN wals : n >= edit.wal => n \in DOMAIN wals' /\ wals'[n] = wals[n]
        BY <4>3, <4>6
      <4>8. \A p \in Marks(mbase, mtail) : edit.wal <= p[1]
        BY <2>3, <4>1 DEF QueueInv
      <4>9. \A v \in Logged(wals, 0) :
              v \in Logged(wals', 0) \/ Settled(wals', Marks(mbase, mtail), v)
        BY <4>4, <4>5, <4>7, <4>8, <1>Purged
      <4> QED BY <2>1, <4>1, <4>4, <4>9
    <3> QED BY <3>1, <3>2
  <2>9. SyncedInv'
    BY <2>3, <2>8 DEF SyncedInv
  <2>10. \A i \in Snaps : snaps'[i] = Inactive
    BY <2>2
  <2> QED BY <2>2, <2>5, <2>6, <2>7, <2>8, <2>9, <2>10, ClosedLayers
\* What Open does to the files keeps them synced.
<1>OpenSynced.
  ASSUME IInv, NEW S, \A n \in DOMAIN wals : \A i \in DOMAIN wals[n].recs : i <= wals[n].synced
  PROVE  LET g == Truncated(S)
         IN  /\ \A n \in DOMAIN g : \A i \in DOMAIN g[n].recs : i <= g[n].synced
             /\ \A m : LET h == OpenedForAppend(g, m)
                       IN  \A n \in DOMAIN h : \A i \in DOMAIN h[n].recs : i <= h[n].synced
  <2> USE <1>OpenSynced
  <2> USE Zenon
  <2> DEFINE g == Truncated(S)
  <2>1. \A n \in DOMAIN wals : wals[n] \in WALFiles(Version) /\ wals[n].recs \in Seq(BatchRecords(Version))
    BY OrderTypes
  <2>2. ASSUME NEW n \in DOMAIN wals, NEW i \in DOMAIN TruncateTornTail(wals[n]).recs
        PROVE  i <= TruncateTornTail(wals[n]).synced
    <3> DEFINE f == wals[n]
               x == TruncateTornTail(f)
               T == BatchRecords(Version)
               s == f.recs
               k == Len(s)
    <3>1. f \in WALFiles(Version) /\ s \in Seq(T)
      BY <2>1
    <3>2. x = f \/ (x.recs = s /\ x.synced = k)
      <4> HIDE DEF f
      <4> QED BY <3>1 DEF TruncateTornTail, SyncFile, WALFiles
    <3> HIDE DEF x, T, s
    <3>3. \A j \in DOMAIN s : j <= k
      BY <3>1, SMT
    <3> HIDE DEF k
    <3>4. i \in DOMAIN x.recs
      BY <2>2 DEF x
    <3>5. i <= x.synced
      BY <3>2, <3>3, <3>4 DEF s
    <3> QED BY <3>5 DEF x
  <2>3. DOMAIN g = DOMAIN wals /\ \A n \in DOMAIN wals : g[n] \in {wals[n], TruncateTornTail(wals[n])}
    BY DEF Truncated
  <2>4. \A n \in DOMAIN g : \A i \in DOMAIN g[n].recs : i <= g[n].synced
    BY <2>2, <2>3
  <2> HIDE DEF g
  <2>5. ASSUME NEW m, NEW n \in DOMAIN OpenedForAppend(g, m)
        PROVE  \A i \in DOMAIN OpenedForAppend(g, m)[n].recs : i <= OpenedForAppend(g, m)[n].synced
    <3>1. DOMAIN EmptyWAL.recs = {}
      BY SMT DEF EmptyWAL
    <3>2. CASE m \in DOMAIN g
      BY <2>4, <2>5, <3>2 DEF OpenedForAppend
    <3>3. CASE m \notin DOMAIN g
      <4>1. /\ OpenedForAppend(g, m)[n] = (IF n = m THEN EmptyWAL ELSE g[n])
            /\ n = m \/ n \in DOMAIN g
        BY <2>5, <3>3 DEF OpenedForAppend, Created
      <4> QED BY <2>4, <3>1, <4>1
    <3> QED BY <3>2, <3>3
  <2> QED BY <2>4, <2>5 DEF g
\* What Open does to the files leaves in them every record they had.
<1>OpenLogs.
  ASSUME IInv, NEW S, NEW low
  PROVE  /\ Logged(Truncated(S), low) = Logged(wals, low)
         /\ \A m : Logged(OpenedForAppend(Truncated(S), m), low) = Logged(wals, low)
  <2> USE <1>OpenLogs
  <2> USE Zenon
  <2> DEFINE g == Truncated(S)
  <2>1. \A n \in DOMAIN wals : wals[n] \in WALFiles(Version)
    BY OrderTypes
  <2>2. \A n \in DOMAIN wals : TruncateTornTail(wals[n]).recs = wals[n].recs
    BY <2>1 DEF TruncateTornTail, SyncFile, WALFiles
  <2>3. DOMAIN g = DOMAIN wals /\ \A n \in DOMAIN wals : g[n].recs = wals[n].recs
    BY <2>2 DEF Truncated
  <2>4. Kept(wals, g) /\ \A m : Kept(wals, OpenedForAppend(g, m))
    BY OpenKeeps
  <2> HIDE DEF g
  <2>5. Kept(g, wals)
    BY <2>3 DEF Kept
  <2>6. Logged(g, low) \subseteq Logged(wals, low) /\ Logged(wals, low) \subseteq Logged(g, low)
    BY <2>4, <2>5, LogKept
  <2>7. ASSUME NEW m
        PROVE  Logged(OpenedForAppend(g, m), low) = Logged(wals, low)
    <3> DEFINE h == OpenedForAppend(g, m)
    <3>1. \A n \in DOMAIN g : n \in DOMAIN h /\ h[n] = g[n]
      BY DEF OpenedForAppend, Created
    <3>2. Kept(wals, h)
      BY <2>4
    <3> HIDE DEF h
    <3>3. Kept(h, g)
      BY <3>1 DEF Kept
    <3>4. Logged(h, low) \subseteq Logged(wals, low) /\ Logged(g, low) \subseteq Logged(h, low)
      BY <3>2, <3>3, LogKept
    <3> QED BY <2>6, <3>4 DEF h
  <2> QED BY <2>6, <2>7 DEF g
\* An Open that fails.
<1>OpenFailsLayers.
  ASSUME WellOrdered, IInv, IInv', OrderInv, LayersInv, OpenFails
  PROVE  LayersInv'
  <2> USE <1>OpenFailsLayers
  <2> USE Zenon
  <2>1. /\ closed /\ closed' /\ mu = "free" /\ mu' = "free"
        /\ UNCHANGED <<ssts, active, imm, tables, snaps, reader, closed, edit>>
    BY DEF OpenFails, memory, IInv, ControlInv
  <2>2. active' = {} /\ \A i \in Snaps : snaps'[i] = Inactive
    BY <2>1 DEF LayersInv, WorkInv, SnapInv
  <2>3. StoredVersions' = StoredVersions
    BY <2>1 DEF StoredVersions, TableVersions
  <2>4. ReadInv'
    BY <2>1, ReadSame DEF LayersInv
  <2>5. UNCHANGED <<mbase, mtail>> \/ LoadManifest
    BY DEF OpenFails
  <2>6. /\ Marks(mbase', mtail') \subseteq Marks(mbase, mtail)
        /\ UNCHANGED <<mbase, mtail>> \/ mtail' = <<>>
    BY <2>5, LoadMarks
  <2>7. TornRest(mtail') = <<>> => \A p \in Marks(mbase', mtail') : mbase'.wal <= p[1]
    <3>1. CASE UNCHANGED <<mbase, mtail>>
      BY <3>1 DEF LayersInv, QueueInv
    <3>2. CASE mtail' = <<>>
      <4>1. mbase'.wal \in Nat
        BY DEF IInv, TypeOK, DiskTypeOK, Edits
      <4> QED BY <3>2, <4>1, SMT DEF Marks
    <3> QED BY <2>6, <3>1, <3>2
  <2>8. \A n \in DOMAIN wals : \A i \in DOMAIN wals[n].recs : i <= wals[n].synced
    <3>1. mu # "write"
      BY <2>1, SMT
    <3> QED BY <3>1 DEF LayersInv, SyncedInv
  <2>9. /\ Kept(wals, wals') /\ Logged(wals', 0) = Logged(wals, 0)
        /\ \A n \in DOMAIN wals' : \A i \in DOMAIN wals'[n].recs : i <= wals'[n].synced
    <3>1. CASE wals' = wals
      BY <2>8, <3>1 DEF Kept
    <3>2. CASE wals' # wals
      <4>1. PICK S : wals' = Truncated(S) \/ wals' = OpenedForAppend(Truncated(S), NewestWAL)
        BY <3>2 DEF OpenFails
      <4> DEFINE g == Truncated(S)
                 h == OpenedForAppend(g, NewestWAL)
      <4>2. Kept(wals, g) /\ Kept(wals, h)
        BY OpenKeeps
      <4>3. Logged(g, 0) = Logged(wals, 0) /\ Logged(h, 0) = Logged(wals, 0)
        BY <1>OpenLogs
      <4>4. /\ \A n \in DOMAIN g : \A i \in DOMAIN g[n].recs : i <= g[n].synced
            /\ \A n \in DOMAIN h : \A i \in DOMAIN h[n].recs : i <= h[n].synced
        BY <2>8, <1>OpenSynced
      <4>5. wals' = g \/ wals' = h
        BY <4>1
      <4> HIDE DEF g, h
      <4> QED BY <4>2, <4>3, <4>4, <4>5
    <3> QED BY <3>1, <3>2
  <2>10. SyncedInv'
    BY <2>9 DEF SyncedInv
  <2> QED BY <2>1, <2>2, <2>3, <2>4, <2>6, <2>7, <2>9, <2>10, ClosedLayers
\* What a version of the manifest would replay is newer than what is in tables.
<1>RecoveredCovers.
  ASSUME IInv, OrderInv, PlacedInv, NEW low \in Nat, NEW last, <<low, last>> \in Marks(mbase, mtail)
  PROVE  Covers(Logged(wals, low), StoredVersions)
  <2> USE <1>RecoveredCovers
  <2> USE Zenon
  <2> SUFFICES ASSUME NEW u \in Logged(wals, low), NEW v \in StoredVersions, u.seq <= v.seq
               PROVE  v \in Logged(wals, low)
    BY DEF Covers
  <2>1. u.seq \in Nat /\ v.seq \in Nat
    BY LogTypes, LayerTypes
  <2>2. ~(v.seq < u.seq)
    BY <2>1, SMT
  <2>3. v \in Logged(wals, 0)
    <3>1. <<low, last>>[1] = low
      BY SMT
    <3>2. ~Settled(wals, Marks(mbase, mtail), v)
      BY <2>2, <3>1 DEF Settled
    <3> QED BY <3>2 DEF PlacedInv
  <2>4. PICK n \in DOMAIN wals : \E i \in DOMAIN wals[n].recs : v \in wals[n].recs[i]
    BY <2>3, InLog
  <2>5. ~(n < low)
    BY <2>2, <2>4, LogOrder
  <2>6. n >= low
    BY <2>5, OrderTypes, SMT
  <2> QED BY <2>4, <2>6, InLog
\* Open: what is replayed lies above the tables.
<1>OpenLayers.
  ASSUME WellOrdered, IInv, IInv', OrderInv, OrderInv', LayersInv, Open
  PROVE  LayersInv'
  <2> USE <1>OpenLayers
  <2> USE Zenon
  <2> DEFINE e == LoadedEdit
             M == Marks(mbase, mtail)
  <2>1. /\ e \in Edits /\ e.wal \in Nat /\ e.last \in Nat
    BY RecoveryFacts DEF Edits
  <2>2. /\ closed /\ ~closed' /\ ~bgError' /\ mu = "free" /\ mu' = "free" /\ imm' = <<>>
        /\ UNCHANGED <<ssts, snaps>> /\ LoadManifest /\ FreezeReaders
        /\ wals' = OpenedForAppend(Truncated(LiveWALs(e)), NewestWAL)
        /\ active' = ReplayedVersions(wals, e)
        /\ oldestWal' = (IF LiveWALs(e) = {} THEN e.wal ELSE Min(LiveWALs(e)))
        /\ tables' = [n \in Nums(e.files) |-> ssts[n]] /\ Nums(e.files) \subseteq DOMAIN ssts
        /\ worker' = [IdleWorker EXCEPT !.pc = "wait"] /\ comp' = NoCompaction
        /\ closer'.pc = "idle"
    BY DEF Open, Recoverable, IInv, ControlInv
  <2>3. edit'.wal = e.wal
    <3> DEFINE m == Max({e.next, MaxSeenFileNumber + 1})
               s == RecoveredLast(wals, e)
    <3>1. edit' = [e EXCEPT !.next = m, !.last = s]
      BY DEF Open
    <3> HIDE DEF e, m, s
    <3> QED BY <2>1, <3>1 DEF Edits
  <2>4. PlacedInv /\ SyncedInv /\ IdentityInv /\ QueueInv /\ SnapInv /\ ReadInv
    BY DEF LayersInv
  <2>5. <<e.wal, e.last>> \in M
    BY OrderTypes, ReadBackMarks DEF LoadedEdit
  <2>6. \A low : Logged(wals', low) = Logged(wals, low)
    BY <2>2, <1>OpenLogs
  <2>7. /\ M' \subseteq M
        /\ \/ UNCHANGED <<mbase, mtail>> /\ TornRest(mtail) = <<>>
           \/ mbase' = e /\ mtail' = <<>>
    BY <2>2, LoadMarks
  <2>8. TableVersions' \subseteq UNION {ssts[n] : n \in DOMAIN ssts}
    <3> DEFINE D == Nums(e.files)
    <3>1. tables' = [n \in D |-> ssts[n]] /\ D \subseteq DOMAIN ssts
      BY <2>2
    <3> HIDE DEF D
    <3> QED BY <3>1 DEF TableVersions
  <2>9. StoredVersions' \subseteq StoredVersions /\ TableVersions' \subseteq StoredVersions
    BY <2>2, <2>8 DEF StoredVersions
  <2>10. PlacedInv'
    BY <2>4, <2>6, <2>7, <2>9, PlacedKept
  <2>11. IdentityInv'
    BY <2>4, <2>6, <2>9, IdentityKept
  <2>12. SyncedInv'
    <3>1. mu # "write"
      BY <2>2, SMT
    <3>2. \A n \in DOMAIN wals : \A i \in DOMAIN wals[n].recs : i <= wals[n].synced
      BY <2>4, <3>1 DEF SyncedInv
    <3> DEFINE h == OpenedForAppend(Truncated(LiveWALs(e)), NewestWAL)
    <3>3. \A n \in DOMAIN h : \A i \in DOMAIN h[n].recs : i <= h[n].synced
      BY <3>2, <1>OpenSynced
    <3>4. wals' = h
      BY <2>2
    <3> HIDE DEF h
    <3> QED BY <3>3, <3>4 DEF SyncedInv
  <2>13. active' = Logged(wals, e.wal)
    BY <2>2 DEF ReplayedVersions, Logged
  <2>14. e.wal <= oldestWal' /\ active' \subseteq Logged(wals', oldestWal')
    <3> DEFINE W == LiveWALs(e)
    <3>1. W \subseteq Nat /\ \A n \in W : n \in DOMAIN wals /\ e.wal <= n
      BY OrderTypes DEF LiveWALs
    <3>2. \A n \in DOMAIN wals : n >= e.wal => n \in W
      BY DEF LiveWALs
    <3>3. oldestWal' = (IF W = {} THEN e.wal ELSE Min(W))
      BY <2>2
    <3> HIDE DEF W, e
    <3>5. e.wal <= oldestWal' /\ \A n \in W : oldestWal' <= n
      <4>1. CASE W = {}
        BY <2>1, <3>3, <4>1, SMT
      <4>2. CASE W # {}
        <5>1. Min(W) \in W /\ \A n \in W : Min(W) <= n
          BY <3>1, <4>2, MinProperties
        <5> QED BY <3>1, <3>3, <4>2, <5>1
      <4> QED BY <4>1, <4>2
    <3>6. oldestWal' \in Nat
      BY LayerTypes DEF IInv, TypeOK, MemoryTypeOK
    <3>7. \A n \in DOMAIN wals : n >= e.wal => n >= oldestWal'
      <4> SUFFICES ASSUME NEW n \in DOMAIN wals, n >= e.wal PROVE n >= oldestWal'
        OBVIOUS
      <4>1. n \in Nat /\ oldestWal' <= n
        BY <3>1, <3>2, <3>5
      <4> QED BY ONLY <3>6, <4>1, SMT
    <3>8. ASSUME NEW v \in Logged(wals, e.wal) PROVE v \in Logged(wals, oldestWal')
      BY <3>7, InLog
    <3> QED BY <2>6, <2>13, <3>5, <3>8
  <2>15. QueueInv'
    <3>1. mbase'.wal <= e.wal
      <4>1. CASE UNCHANGED <<mbase, mtail>> /\ TornRest(mtail) = <<>>
        <5>1. <<e.wal, e.last>>[1] = e.wal
          BY SMT
        <5> QED BY <2>4, <2>5, <4>1, <5>1 DEF QueueInv
      <4>2. CASE mbase' = e /\ mtail' = <<>>
        <5> HIDE DEF e
        <5> QED BY <2>1, <4>2, SMT
      <4> QED BY <2>7, <4>1, <4>2
    <3>2. \A p \in M' : mbase'.wal <= p[1]
      <4>1. CASE UNCHANGED <<mbase, mtail>> /\ TornRest(mtail) = <<>>
        BY <2>4, <4>1 DEF QueueInv
      <4>2. CASE mtail' = <<>>
        <5>1. mbase'.wal \in Nat
          BY DEF IInv, TypeOK, DiskTypeOK, Edits
        <5> QED BY <4>2, <5>1, SMT DEF Marks
      <4> QED BY <2>7, <4>1, <4>2
    <3>3. mu' \notin {"rotate", "flush", "compact", "close", "purge"} /\ mu' # "purge"
      BY <2>2, SMT
    <3>4. worker'.pc \notin {"compact", "purge"}
      BY <2>2, SMT DEF IdleWorker
    <3>5. DOMAIN imm' = {}
      BY <2>2, SMT
    <3> QED BY <2>2, <2>3, <2>14, <3>1, <3>2, <3>3, <3>4, <3>5 DEF QueueInv, Saving
  <2>16. MemoryInv'
    <3>1. DOMAIN imm' = {}
      BY <2>2, SMT
    <3>2. \A v \in Logged(wals', 0) : v.seq <= edit'.last
      <4>1. mu' # "write"
        BY <2>2, SMT
      <4>2. (IInv /\ OrderInv /\ ~closed /\ ~bgError /\ mu # "write" =>
               \A v \in Logged(wals, 0) : v.seq <= edit.last)'
        BY LogBounded, PTL
      <4> QED BY <2>2, <4>1, <4>2
    <3>3. MemoryVersions' = active' \cup TableVersions'
      BY <3>1 DEF MemoryVersions, TableVersions
    <3>4. active' \subseteq Logged(wals', 0)
      <4>1. Logged(wals, e.wal) \subseteq Logged(wals, 0)
        BY <2>1, LogShrinks, SMT
      <4> QED BY <2>6, <2>13, <4>1
    <3>5. ASSUME NEW v \in StoredVersions PROVE v.seq <= edit'.last
      <4>1. CASE v \in Logged(wals, 0)
        BY <2>6, <3>2, <4>1
      <4>2. CASE Settled(wals, M, v)
        <5>1. <<e.wal, e.last>>[2] = e.last
          BY SMT
        <5>2. v.seq <= e.last
          BY <2>5, <4>2, <5>1 DEF Settled
        <5>3. e.last <= edit'.last /\ edit'.last \in Nat
          <6> DEFINE m == Max({e.next, MaxSeenFileNumber + 1})
                     s == RecoveredLast(wals, e)
          <6>1. edit' = [e EXCEPT !.next = m, !.last = s]
            BY DEF Open
          <6>2. e.last <= s /\ s \in Nat
            BY <2>1, RecoveredBound
          <6> HIDE DEF e, m, s
          <6> QED BY <2>1, <6>1, <6>2 DEF Edits
        <5>4. v.seq \in Nat
          BY LayerTypes
        <5> HIDE DEF e
        <5> QED BY <2>1, <5>2, <5>3, <5>4, SMT
      <4> QED BY <2>4, <4>1, <4>2 DEF PlacedInv
    <3>6. \A v \in MemoryVersions' \cup StoredVersions' : v.seq <= edit'.last
      BY <2>9, <3>2, <3>3, <3>4, <3>5
    <3>7. Covers(active', TableVersions')
      <4>1. Covers(Logged(wals, e.wal), StoredVersions)
        BY <2>1, <2>4, <2>5, <1>RecoveredCovers
      <4> QED BY <2>9, <2>13, <4>1 DEF Covers
    <3> QED BY <2>14, <3>1, <3>6, <3>7 DEF MemoryInv
  <2>17. WorkInv' /\ SnapInv' /\ ReadInv'
    <3>1. ReadInv'
      BY <2>2, <2>4, ReadFrozen
    <3>2. worker'.pc \notin {"build", "publish"} /\ comp'.stage \notin {"build", "publish"}
      BY <2>2, SMT DEF IdleWorker, NoCompaction
    <3>3. closer'.pc # "join"
      BY <2>2, SMT
    <3>4. WorkInv'
      BY <2>2, <3>2, <3>3 DEF WorkInv
    <3>5. edit'.last \in Nat
      BY DEF IInv, TypeOK, MemoryTypeOK, Edits
    <3>6. Inactive <= edit'.last
      BY <3>5, SMT DEF Inactive
    <3>7. SnapInv'
      BY <2>2, <2>4, <3>6 DEF SnapInv
    <3> QED BY <3>1, <3>4, <3>7
  <2> QED BY <2>10, <2>11, <2>12, <2>15, <2>16, <2>17 DEF LayersInv
\* What is in memory is still in the log.
<1>MemoryKept.
  ASSUME MemoryInv, UNCHANGED <<ssts, closed, active, oldestWal, imm, tables>>, edit'.last = edit.last,
         ~closed => /\ active \subseteq Logged(wals', oldestWal)
                    /\ \A i \in DOMAIN imm : imm[i].ents \subseteq Logged(wals', imm[i].wal)
  PROVE  MemoryInv'
  <2> USE <1>MemoryKept
  <2> USE Zenon
  <2>1. TableVersions' = TableVersions
    BY DEF TableVersions
  <2>2. StoredVersions' = StoredVersions
    BY <2>1 DEF StoredVersions
  <2>3. MemoryVersions' = MemoryVersions
    BY <2>1 DEF MemoryVersions
  <2> QED BY <2>1, <2>2, <2>3 DEF MemoryInv
\* A write leaves the queue and the manifest alone.
<1>QueueWrites.
  ASSUME QueueInv, mu \in {"free", "write"}, mu' \in {"free", "write"}, edit'.wal = edit.wal,
         UNCHANGED <<mbase, mtail, closed, oldestWal, imm, worker>>
  PROVE  QueueInv'
  <2> USE <1>QueueWrites
  <2> USE Zenon
  <2>1. /\ mu # "purge" /\ mu' # "purge"
        /\ mu' \notin {"rotate", "flush", "compact", "close"} /\ mu' # "flush"
        /\ mu' \notin {"rotate", "compact"}
    BY SMT
  <2> DEFINE M == Marks(mbase, mtail)
  <2>2. M' = M
    BY DEF Marks
  <2>3. ~Saving'
    BY <2>1 DEF Saving
  <2> HIDE DEF M
  <2> QED BY <2>1, <2>2, <2>3 DEF QueueInv, M
\* The numbers of a batch are its own.
<1>BatchIdentifies.
  ASSUME NEW b \in Batches, NEW first \in Nat
  PROVE  SeqIdentifies(BatchVersions(b, first))
  <2> USE <1>BatchIdentifies
  <2> USE Zenon
  <2> DEFINE v(i) == [key |-> b[i].key, seq |-> first + i - 1, deleted |-> b[i].deleted]
  <2>1. BatchVersions(b, first) = {v(i) : i \in DOMAIN b}
    BY DEF BatchVersions
  <2>2. \A i \in DOMAIN b : i \in Nat
    <3>1. b \in Seq([key : Keys, deleted : BOOLEAN])
      BY BatchesAreNonEmpty
    <3> QED BY <3>1, SMT
  <2>3. \A i \in DOMAIN b : v(i).seq = first + i - 1
    OBVIOUS
  <2> HIDE DEF v
  <2>4. \A i, j \in DOMAIN b : v(i).seq = v(j).seq => i = j
    BY <2>2, <2>3, SMT
  <2> QED BY <2>1, <2>4 DEF SeqIdentifies
\* Write appends a record that is newer than everything.
<1>WriteLayers.
  ASSUME WellOrdered, IInv, IInv', OrderInv, LayersInv, NEW b \in Batches, Write(b)
  PROVE  LayersInv'
  <2> USE <1>WriteLayers
  <2> USE Zenon
  <2> DEFINE r == BatchVersions(b, edit.last + 1)
             a == activeWal
             f == wals[a]
             k == Len(f.recs)
  <2>1. /\ mu = "free" /\ mu' = "write" /\ ~bgError /\ ~closed
        /\ UNCHANGED <<mbase, mtail, closed, activeWal, edit, bgError, pending>>
        /\ a \in Nat /\ DOMAIN wals \in SUBSET Nat /\ edit.last \in Nat /\ a \in DOMAIN wals
        /\ r \in BatchRecords(Version) /\ \A v \in r : v.seq \in Nat /\ edit.last < v.seq
        /\ DOMAIN wals' = DOMAIN wals /\ \A n \in DOMAIN wals : n # a => wals'[n] = wals[n]
        /\ k \in Nat /\ DOMAIN f.recs = 1..k /\ DOMAIN wals'[a].recs = 1..(k + 1)
        /\ Len(wals'[a].recs) = k + 1 /\ wals'[a].recs[k + 1] = r
        /\ \A i \in 1..k : wals'[a].recs[i] = f.recs[i]
        /\ wals'[a].synced = f.synced
    BY WriteAppends
  <2>2. UNCHANGED <<ssts, active, oldestWal, imm, tables, snaps, worker, comp, closer, reader>>
    BY DEF Write, memory
  <2>3. PlacedInv /\ SyncedInv /\ IdentityInv /\ QueueInv /\ MemoryInv /\ WorkInv /\ SnapInv /\ ReadInv
    BY DEF LayersInv
  <2>4. StoredVersions' = StoredVersions
    BY <2>2 DEF StoredVersions, TableVersions
  <2>5. SeqIdentifies(r)
    <3>1. edit.last + 1 \in Nat
      BY <2>1, SMT
    <3> QED BY <3>1, <1>BatchIdentifies
  <2> HIDE DEF r, a, f, k
  <2>6. \A n \in DOMAIN wals' : \A i \in DOMAIN wals'[n].recs :
          \/ /\ n = a /\ i = k + 1 /\ wals'[n].recs[i] = r
          \/ /\ i \in DOMAIN wals[n].recs /\ wals'[n].recs[i] = wals[n].recs[i]
             /\ wals'[n].synced = wals[n].synced
    <3>1. \A i \in DOMAIN wals'[a].recs : i = k + 1 \/ i \in DOMAIN f.recs
      BY <2>1, SMT
    <3> QED BY <2>1, <3>1 DEF f
  <2>7. \A n \in DOMAIN wals : \A i \in DOMAIN wals[n].recs :
          n \in DOMAIN wals' /\ i \in DOMAIN wals'[n].recs /\ wals'[n].recs[i] = wals[n].recs[i]
    <3>1. \A i \in DOMAIN f.recs : i \in DOMAIN wals'[a].recs /\ wals'[a].recs[i] = f.recs[i]
      BY <2>1, SMT
    <3> QED BY <2>1, <3>1 DEF f
  <2>8. ASSUME NEW low, NEW u \in Logged(wals', low) PROVE u \in Logged(wals, low) \/ u \in r
    <3>1. PICK n \in DOMAIN wals' : n >= low /\ \E i \in DOMAIN wals'[n].recs : u \in wals'[n].recs[i]
      BY <2>8, InLog
    <3>2. PICK i \in DOMAIN wals'[n].recs : u \in wals'[n].recs[i]
      BY <3>1
    <3>3. u \in r \/ \E j \in DOMAIN wals[n].recs : u \in wals[n].recs[j]
      BY <2>6, <3>2
    <3> QED BY <2>1, <3>1, <3>3, InLog
  <2>9. ASSUME NEW low, NEW u \in Logged(wals, low) PROVE u \in Logged(wals', low)
    <3>1. PICK n \in DOMAIN wals : n >= low /\ \E i \in DOMAIN wals[n].recs : u \in wals[n].recs[i]
      BY <2>9, InLog
    <3> QED BY <2>7, <3>1, InLog
  <2>10. \A v \in StoredVersions \cup Logged(wals, 0) : v.seq \in Nat /\ v.seq <= edit.last
    <3>1. mu # "write"
      BY <2>1, SMT
    <3>2. \A v \in Logged(wals, 0) : v.seq <= edit.last
      BY <2>1, <3>1, LogBounded
    <3>3. \A v \in StoredVersions : v.seq <= edit.last
      BY <2>1, <2>3 DEF MemoryInv
    <3>4. \A v \in StoredVersions \cup Logged(wals, 0) : v.seq \in Nat
      BY LayerTypes, LogTypes
    <3> QED BY <3>2, <3>3, <3>4
  <2>11. \A v \in StoredVersions \cup Logged(wals, 0), u \in r : v.seq < u.seq /\ v.seq # u.seq
    BY <2>1, <2>10, SMT
  <2>12. PlacedInv'
    <3>1. \A low : \A u \in Logged(wals', low) :
            u \in Logged(wals, low) \/ \A v \in StoredVersions : v.seq < u.seq
      BY <2>8, <2>11
    <3>2. Marks(mbase', mtail') = Marks(mbase, mtail)
      BY <2>1 DEF Marks
    <3> QED BY <2>3, <2>4, <2>9, <3>1, <3>2, PlacedKept
  <2>13. IdentityInv'
    <3> SUFFICES ASSUME NEW u \in StoredVersions \cup Logged(wals', 0),
                        NEW v \in StoredVersions \cup Logged(wals', 0), u.seq = v.seq
                 PROVE  u = v
      BY <2>4 DEF IdentityInv, SeqIdentifies
    <3> DEFINE S == StoredVersions \cup Logged(wals, 0)
    <3>1. (u \in S \/ u \in r) /\ (v \in S \/ v \in r)
      BY <2>8
    <3>2. SeqIdentifies(S)
      BY <2>3 DEF IdentityInv
    <3> QED BY <2>5, <2>11, <3>1, <3>2 DEF SeqIdentifies
  <2>14. SyncedInv'
    <3>1. \A n \in DOMAIN wals : \A i \in DOMAIN wals[n].recs : i <= wals[n].synced
      <4>1. mu # "write"
        BY <2>1, SMT
      <4> QED BY <2>3, <4>1 DEF SyncedInv
    <3> QED BY <2>1, <2>6, <3>1 DEF SyncedInv, a
  <2>15. QueueInv'
    <3>1. mu \in {"free", "write"} /\ mu' \in {"free", "write"}
      BY <2>1, SMT
    <3> QED BY <2>1, <2>2, <2>3, <3>1, <1>QueueWrites
  <2>16. MemoryInv'
    BY <2>1, <2>2, <2>3, <2>9, <1>MemoryKept DEF MemoryInv
  <2>17. edit.last <= edit'.last
    BY <2>1, SMT
  <2>18. WorkInv' /\ SnapInv' /\ ReadInv'
    BY <2>1, <2>2, <2>3, <2>17, WorkSame, SnapSame, ReadSame
  <2> QED BY <2>12, <2>13, <2>14, <2>15, <2>16, <2>18 DEF LayersInv
\* An append that fails leaves the records before it.
<1>WriteFailsLayers.
  ASSUME WellOrdered, "full" \notin AppendFailures, IInv, IInv', OrderInv, LayersInv, WriteFails
  PROVE  LayersInv'
  <2> USE <1>WriteFailsLayers
  <2> USE Zenon
  <2> DEFINE a == activeWal
             f == wals[a]
             k == Len(f.recs)
             q == SubSeq(f.recs, 1, k - 1)
  <2>1. /\ mu = "write" /\ mu' = "free"
        /\ UNCHANGED <<ssts, mbase, mtail, closed, active, activeWal, oldestWal, imm, tables, edit,
                       snaps, worker, comp, closer, reader>>
    BY DEF WriteFails
  <2>2. PICK how \in AppendFailures : wals' = [wals EXCEPT ![activeWal] = AppendLeaves(@, how)]
    BY DEF WriteFails
  <2>3. /\ ~closed /\ a \in DOMAIN wals /\ f.recs \in Seq(BatchRecords(Version)) /\ k > 0
    BY <2>1, InWriteOrder
  <2>4. /\ k \in Nat /\ DOMAIN f.recs = 1..k /\ \A i \in DOMAIN f.recs : i = k \/ i \in DOMAIN q
        /\ \A i \in DOMAIN q : i # k /\ i \in DOMAIN f.recs /\ q[i] = f.recs[i]
    <3> DEFINE S == BatchRecords(Version)
               s == f.recs
    <3>1. s \in Seq(S) /\ k = Len(s) /\ k > 0 /\ q = SubSeq(s, 1, k - 1)
      BY <2>3
    <3> HIDE DEF S, s, k, q
    <3>2. k \in Nat /\ DOMAIN s = 1..k
      BY <3>1, SMT
    <3>3. /\ q \in Seq(S) /\ Len(q) = k - 1 /\ \A i \in 1..(k - 1) : q[i] = s[i]
      BY <3>1, <3>2, SMT
    <3>4. DOMAIN q = 1..(k - 1)
      BY <3>3, SMT
    <3>5. /\ \A i \in 1..k : i = k \/ i \in 1..(k - 1)
          /\ \A i \in 1..(k - 1) : i # k /\ i \in 1..k
      BY <3>2, SMT
    <3> QED BY <3>2, <3>3, <3>4, <3>5 DEF s
  <2> DEFINE x == AppendLeaves(f, how)
  <2>5. x.recs = q /\ x.synced = f.synced
    <3>1. f \in WALFiles(Version) /\ how \in {"none", "torn", "full"}
      BY <2>3, OrderTypes, FailuresAreKnown
    <3>2. how \in {"none", "torn"}
      BY <3>1
    <3> HIDE DEF q
    <3>3. x \in {[f EXCEPT !.recs = q], [[f EXCEPT !.recs = q] EXCEPT !.torn = TRUE]}
      BY <3>2 DEF AppendLeaves, q
    <3> HIDE DEF x
    <3> QED BY <3>1, <3>3 DEF WALFiles
  <2> HIDE DEF x
  <2>6. wals' = [wals EXCEPT ![activeWal] = x]
    BY <2>2 DEF x
  <2>7. /\ DOMAIN wals' = DOMAIN wals /\ wals'[a] = x
        /\ \A n \in DOMAIN wals : n # a => wals'[n] = wals[n]
    BY <2>3, <2>6
  <2>8. Appended = f.recs[k]
    BY DEF Appended
  <2> HIDE DEF q, k
  <2>9. \A n \in DOMAIN wals' : \A i \in DOMAIN wals'[n].recs :
          /\ i \in DOMAIN wals[n].recs /\ wals'[n].recs[i] = wals[n].recs[i]
          /\ wals'[n].synced = wals[n].synced /\ ~(n = a /\ i = k)
    BY <2>4, <2>5, <2>7
  <2>10. \A n \in DOMAIN wals : \A i \in DOMAIN wals[n].recs :
           \/ n \in DOMAIN wals' /\ i \in DOMAIN wals'[n].recs /\ wals'[n].recs[i] = wals[n].recs[i]
           \/ wals[n].recs[i] = Appended
    BY <2>4, <2>5, <2>7, <2>8
  <2>11. PlacedInv /\ SyncedInv /\ IdentityInv /\ QueueInv /\ MemoryInv /\ WorkInv /\ SnapInv /\ ReadInv
    BY DEF LayersInv
  <2>12. \A v \in Appended : ~(v.seq <= edit.last)
    <3>1. \A v \in Appended : edit.last < v.seq /\ v \in Version
      <4>1. Appended \subseteq Version
        BY <2>3, <2>4, <2>8, OrderTypes, SMT DEF BatchRecords, k
      <4> QED BY <2>1, <4>1 DEF OrderInv
    <3>2. edit.last \in Nat /\ \A v \in Version : v.seq \in Nat
      BY OrderTypes, LayerTypes
    <3> QED BY <3>1, <3>2, SMT
  <2>13. ASSUME NEW low, NEW v \in Logged(wals, low), v.seq <= edit.last PROVE v \in Logged(wals', low)
    <3>1. PICK n \in DOMAIN wals : n >= low /\ \E i \in DOMAIN wals[n].recs : v \in wals[n].recs[i]
      BY <2>13, InLog
    <3>2. PICK i \in DOMAIN wals[n].recs : v \in wals[n].recs[i]
      BY <3>1
    <3>3. n \in DOMAIN wals' /\ i \in DOMAIN wals'[n].recs /\ wals'[n].recs[i] = wals[n].recs[i]
      BY <2>10, <2>12, <2>13, <3>2
    <3> QED BY <3>1, <3>2, <3>3, InLog
  <2>14. \A low : Logged(wals', low) \subseteq Logged(wals, low)
    <3>1. Kept(wals, wals')
      BY <2>7, <2>9 DEF Kept
    <3> QED BY <3>1, LogKept
  <2>15. \A v \in MemoryVersions \cup StoredVersions : v.seq <= edit.last
    BY <2>3, <2>11 DEF MemoryInv
  <2>16. StoredVersions' = StoredVersions
    BY <2>1 DEF StoredVersions, TableVersions
  <2>17. PlacedInv' /\ IdentityInv'
    <3>1. Marks(mbase', mtail') = Marks(mbase, mtail)
      BY <2>1 DEF Marks
    <3>2. PlacedInv'
      BY <2>11, <2>13, <2>14, <2>15, <2>16, <3>1, PlacedKept
    <3> QED BY <2>11, <2>14, <2>16, <3>2, IdentityKept
  <2>18. SyncedInv'
    <3>1. \A n \in DOMAIN wals : \A i \in DOMAIN wals[n].recs : i <= wals[n].synced \/ (n = a /\ i = k)
      BY <2>11 DEF SyncedInv, k
    <3> QED BY <2>9, <2>7, <3>1 DEF SyncedInv
  <2>19. QueueInv'
    <3>1. mu \in {"free", "write"} /\ mu' \in {"free", "write"}
      BY <2>1, SMT
    <3> QED BY <2>1, <2>11, <3>1, <1>QueueWrites
  <2>20. MemoryInv'
    <3>1. active \subseteq MemoryVersions /\ \A i \in DOMAIN imm : imm[i].ents \subseteq MemoryVersions
      BY DEF MemoryVersions
    <3>2. /\ active \subseteq Logged(wals, oldestWal)
          /\ \A i \in DOMAIN imm : imm[i].ents \subseteq Logged(wals, imm[i].wal)
      BY <2>3, <2>11 DEF MemoryInv
    <3>3. /\ active \subseteq Logged(wals', oldestWal)
          /\ \A i \in DOMAIN imm : imm[i].ents \subseteq Logged(wals', imm[i].wal)
      BY <2>13, <2>15, <3>1, <3>2
    <3> QED BY <2>1, <2>11, <3>3, <1>MemoryKept
  <2>21. edit.last <= edit'.last
    BY <2>1, OrderTypes, SMT
  <2>22. WorkInv' /\ SnapInv' /\ ReadInv'
    BY <2>1, <2>11, <2>21, WorkSame, SnapSame, ReadSame
  <2> QED BY <2>17, <2>18, <2>19, <2>20, <2>22 DEF LayersInv
\* The record that a write has synced is newer than what the version knows.
<1>AppendedFacts.
  ASSUME WellOrdered, IInv, OrderInv, LayersInv, mu = "write"
  PROVE  /\ Appended \subseteq Version /\ Appended \subseteq Logged(wals, oldestWal)
         /\ \A v \in Appended : edit.last < v.seq /\ v.seq <= LastSeq(Appended)
         /\ edit.last \in Nat /\ LastSeq(Appended) \in Nat /\ edit.last <= LastSeq(Appended)
  <2> USE <1>AppendedFacts
  <2> USE Zenon
  <2> DEFINE a == activeWal
             f == wals[a]
             k == Len(f.recs)
             s == LastSeq(Appended)
  <2>1. /\ ~closed /\ a \in DOMAIN wals /\ a \in Nat /\ f.recs \in Seq(BatchRecords(Version)) /\ k > 0
        /\ s \in Nat
    BY InWriteOrder
  <2>2. k \in DOMAIN f.recs /\ Appended = f.recs[k]
    <3>1. Appended = f.recs[k]
      BY DEF Appended
    <3> DEFINE S == BatchRecords(Version)
               x == f.recs
    <3>2. x \in Seq(S) /\ Len(x) > 0 /\ k = Len(x)
      BY <2>1
    <3> HIDE DEF S, x, k
    <3>3. k \in DOMAIN x
      BY <3>2, SMT
    <3> QED BY <3>1, <3>3 DEF x
  <2>3. Appended \in BatchRecords(Version)
    BY <2>1, <2>2, OrderTypes
  <2> HIDE DEF k
  <2>4. Appended \subseteq Version /\ Appended # {}
    BY <2>3 DEF BatchRecords
  <2>5. Appended \subseteq Logged(wals, oldestWal)
    <3>1. a >= oldestWal
      <4>1. oldestWal <= a
        BY <2>1 DEF IInv, WALInv
      <4> QED BY <2>1, <4>1, LayerTypes, SMT
    <3> QED BY <2>1, <2>2, <3>1, InLog
  <2>6. \A v \in Appended : edit.last < v.seq /\ v.seq <= s /\ v.seq \in Nat
    BY <2>3, RecordBounds DEF OrderInv
  <2>7. edit.last \in Nat
    BY OrderTypes
  <2>8. PICK v \in Appended : TRUE
    BY <2>4
  <2>9. edit.last < v.seq /\ v.seq <= s /\ v.seq \in Nat
    BY <2>6
  <2> HIDE DEF s
  <2>10. edit.last <= s
    BY <2>1, <2>7, <2>9, SMT DEF s
  <2> QED BY <2>1, <2>4, <2>5, <2>6, <2>7, <2>10 DEF s
\* A Get that pinned the active MemTable does not see what is added to it.
<1>AppliedReads.
  ASSUME WellOrdered, IInv, OrderInv, LayersInv, mu = "write", UNCHANGED <<closed, reader>>,
         active' = active \cup Appended, edit'.last = LastSeq(Appended)
  PROVE  ReadInv'
  <2> USE <1>AppliedReads
  <2> USE Zenon
  <2>1. /\ \A v \in Appended : edit.last < v.seq /\ v.seq \in Nat
        /\ edit.last \in Nat /\ LastSeq(Appended) \in Nat /\ edit.last <= LastSeq(Appended)
    BY <1>AppendedFacts, LayerTypes
  <2>2. ReadInv /\ ~closed
    BY DEF LayersInv, IInv, ControlInv, OrderInv
  <2> SUFFICES ASSUME NEW r \in Readers
               PROVE  /\ DOMAIN PinnedMemTables(r)' = DOMAIN PinnedMemTables(r)
                      /\ \A i \in DOMAIN PinnedMemTables(r) :
                           VisibleAt(PinnedMemTables(r)[i], reader[r].key, reader[r].seq)
                             = VisibleAt(PinnedMemTables(r)'[i], reader[r].key, reader[r].seq)
                      /\ reader[r].shared => reader[r].seq <= edit'.last
    BY <2>2, ReadKept
  <2> DEFINE p == reader[r]
             x == IF p.shared THEN active ELSE p.active
             y == IF p.shared THEN active \cup Appended ELSE p.active
             L == <<x>> \o p.imms
             N == <<y>> \o p.imms
  <2>3. p.imms \in Seq(SUBSET Version) /\ p.shared \in BOOLEAN /\ p.seq \in Nat
    BY PinnedLayers
  <2>4. p.shared => p.seq <= edit.last
    BY <2>2 DEF ReadInv
  <2>5. VisibleAt(x, p.key, p.seq) = VisibleAt(y, p.key, p.seq)
    <3>1. CASE p.shared
      <4>1. \A v \in Appended : ~(v.seq <= p.seq)
        BY <2>1, <2>3, <2>4, <3>1, SMT
      <4> QED BY <3>1, <4>1 DEF VisibleAt
    <3>2. CASE ~p.shared
      BY <3>2
    <3> QED BY <3>1, <3>2
  <2>6. PinnedMemTables(r) = L /\ PinnedMemTables(r)' = N
    BY DEF PinnedMemTables
  <2>7. p.shared => p.seq <= edit'.last
    BY <2>1, <2>3, <2>4, SMT
  <2> DEFINE S == SUBSET Version
             q == p.imms
  <2>8. q \in Seq(S)
    BY <2>3
  <2> HIDE DEF p, x, y, S, q
  <2>9. /\ DOMAIN (<<x>> \o q) = DOMAIN (<<y>> \o q)
        /\ (<<x>> \o q)[1] = x /\ (<<y>> \o q)[1] = y
        /\ \A i \in DOMAIN (<<x>> \o q) : i # 1 => (<<x>> \o q)[i] = (<<y>> \o q)[i]
    BY <2>8, SMT
  <2>10. \A i \in DOMAIN L : VisibleAt(L[i], p.key, p.seq) = VisibleAt(N[i], p.key, p.seq)
    BY <2>5, <2>9 DEF q
  <2> HIDE DEF L, N
  <2>11. DOMAIN L = DOMAIN N
    BY <2>9 DEF q, L, N
  <2> QED BY <2>6, <2>7, <2>10, <2>11 DEF p
\* What the files are when the record is synced and the next WAL is there.
<1>AppliedFiles.
  ASSUME WellOrdered, IInv, OrderInv, SyncedInv, mu = "write",
         NEW h, h = SyncedWALs \/ h = OpenedForAppend(SyncedWALs, edit.next)
  PROVE  /\ Kept(wals, h) /\ Kept(h, wals)
         /\ \A n \in DOMAIN h : \A i \in DOMAIN h[n].recs : i <= h[n].synced
  <2> USE <1>AppliedFiles
  <2> USE Zenon
  <2> DEFINE a == activeWal
             f == wals[a]
             g == SyncedWALs
  <2>1. /\ a \in DOMAIN wals /\ f.recs \in Seq(BatchRecords(Version))
        /\ DOMAIN g = DOMAIN wals /\ \A n \in DOMAIN wals : g[n].recs = wals[n].recs
    BY InWriteOrder
  <2>2. /\ \A n \in DOMAIN wals : n # a => g[n] = wals[n]
        /\ g[a].synced = Len(f.recs)
    <3>1. f \in WALFiles(Version)
      BY <2>1, OrderTypes
    <3>2. SyncFile(f).synced = Len(f.recs)
      BY <3>1 DEF SyncFile, WALFiles
    <3> QED BY <2>1, <3>2 DEF SyncedWALs
  <2>3. \A i \in DOMAIN f.recs : i <= Len(f.recs)
    <3> DEFINE S == BatchRecords(Version)
               x == f.recs
    <3>1. x \in Seq(S)
      BY <2>1
    <3> HIDE DEF S, x
    <3>2. \A i \in DOMAIN x : i <= Len(x)
      BY <3>1, SMT
    <3> QED BY <3>2 DEF x
  <2> HIDE DEF g
  <2>4. \A n \in DOMAIN g : \A i \in DOMAIN g[n].recs : i <= g[n].synced
    BY <2>1, <2>2, <2>3 DEF SyncedInv
  <2>5. \/ h = g
        \/ /\ DOMAIN h = DOMAIN g \cup {edit.next} /\ h[edit.next] = EmptyWAL
           /\ \A n \in DOMAIN g : h[n] = g[n]
    <3>1. h = g \/ (edit.next \notin DOMAIN g /\ h = Created(g, edit.next, EmptyWAL))
      BY DEF OpenedForAppend, g
    <3>2. CASE edit.next \notin DOMAIN g /\ h = Created(g, edit.next, EmptyWAL)
      BY <3>2 DEF Created
    <3> QED BY <3>1, <3>2
  <2>6. DOMAIN EmptyWAL.recs = {}
    BY SMT DEF EmptyWAL
  <2>7. Kept(wals, h) /\ Kept(h, wals)
    BY <2>1, <2>5, <2>6 DEF Kept
  <2> QED BY <2>4, <2>5, <2>6, <2>7
\* A batch that is applied lies above everything in memory.
<1>AppliedMemory.
  ASSUME WellOrdered, IInv, OrderInv, LayersInv, mu = "write", UNCHANGED <<ssts, closed, oldestWal, imm, tables>>,
         active' = active \cup Appended, edit'.last = LastSeq(Appended),
         \A low : Logged(wals', low) = Logged(wals, low)
  PROVE  MemoryInv'
  <2> USE <1>AppliedMemory
  <2> USE Zenon
  <2>1. /\ Appended \subseteq Logged(wals, oldestWal)
        /\ \A v \in Appended : edit.last < v.seq /\ v.seq <= LastSeq(Appended) /\ v.seq \in Nat
        /\ edit.last \in Nat /\ LastSeq(Appended) \in Nat /\ edit.last <= LastSeq(Appended)
    BY <1>AppendedFacts, LayerTypes
  <2>2. MemoryInv /\ ~closed
    BY DEF LayersInv, IInv, ControlInv, OrderInv
  <2>3. TableVersions' = TableVersions
    BY DEF TableVersions
  <2>4. StoredVersions' = StoredVersions /\ MemoryVersions' = MemoryVersions \cup Appended
    <3>1. StoredVersions' = StoredVersions
      BY <2>3 DEF StoredVersions
    <3>2. MemoryVersions' = MemoryVersions \cup Appended
      BY <2>3, SMT DEF MemoryVersions
    <3> QED BY <3>1, <3>2
  <2>5. \A v \in MemoryVersions \cup StoredVersions : v.seq \in Nat /\ v.seq <= edit.last
    BY <2>2, LayerTypes DEF MemoryInv
  <2>6. \A v \in MemoryVersions' \cup StoredVersions' : v.seq <= edit'.last
    <3>1. \A v \in MemoryVersions \cup StoredVersions : v.seq <= edit'.last
      BY <2>1, <2>5, SMT
    <3> QED BY <2>1, <2>4, <3>1
  <2>7. \A u \in Appended, v \in MemoryVersions : ~(u.seq <= v.seq)
    BY <2>1, <2>5, SMT
  <2>8. ASSUME NEW B, B \subseteq MemoryVersions, Covers(active, B) PROVE Covers(active', B)
    BY <2>7, <2>8 DEF Covers
  <2>9. TableVersions \subseteq MemoryVersions /\ \A i \in DOMAIN imm : imm[i].ents \subseteq MemoryVersions
    BY DEF MemoryVersions, TableVersions
  <2> QED BY <2>1, <2>2, <2>3, <2>6, <2>8, <2>9 DEF MemoryInv
\* The queue when a full MemTable is about to be switched.
<1>SwitchQueue.
  ASSUME IInv, LayersInv, TornRest(mtail) = <<>>, mu = "write", ~closed, mu' = "rotate",
         UNCHANGED <<closed, oldestWal, imm, worker>>, edit'.wal = edit.wal,
         NEW new \in Edits, SaveAppends(new), new.wal = edit.wal
  PROVE  QueueInv'
  <2> USE <1>SwitchQueue
  <2> USE Zenon
  <2> DEFINE M == Marks(mbase, mtail)
             o == <<new.wal, new.last>>
  <2>1. /\ Marks(mbase', mtail') = M \cup {o} /\ mtail'[Len(mtail')].wal = new.wal
        /\ pending' = new /\ mbase' = mbase
    BY SaveMarks DEF SaveAppends
  <2>2. QueueInv
    BY DEF LayersInv
  <2>3. o[1] = edit.wal
    BY SMT
  <2>4. \A p \in Marks(mbase', mtail') : p \in M \/ p[1] = edit.wal
    BY <2>1, <2>3
  <2> HIDE DEF M, o
  <2>5. mu # "purge" /\ mu' # "purge" /\ mu' # "flush"
    BY SMT
  <2>6. mbase'.wal <= edit'.wal /\ \A p \in Marks(mbase', mtail') : mbase'.wal <= p[1]
    BY <2>1, <2>2, <2>4 DEF QueueInv, M
  <2>7. /\ edit'.wal <= oldestWal'
        /\ \A i \in DOMAIN imm' : edit'.wal <= imm'[i].wal /\ imm'[i].wal <= oldestWal'
        /\ \A i, j \in DOMAIN imm' : i < j => imm'[i].wal <= imm'[j].wal
    BY <2>2, <2>5 DEF QueueInv
  <2>8. worker'.pc \in {"compact", "purge"} =>
          worker'.wal <= edit'.wal /\ \A p \in Marks(mbase', mtail') : worker'.wal <= p[1]
    BY <2>2, <2>4 DEF QueueInv, M
  <2>9. mtail'[Len(mtail')].wal = pending'.wal /\ pending'.wal = edit'.wal
    BY <2>1
  <2> QED BY <2>5, <2>6, <2>7, <2>8, <2>9 DEF QueueInv
\* The end of a write that is applied.
<1>AppliesLayers.
  ASSUME WellOrdered, IInv, IInv', OrderInv, LayersInv, TornRest(mtail) = <<>>,
         WriteApplies \/ SwitchFails \/ WriteSwitches
  PROVE  LayersInv'
  <2> USE <1>AppliesLayers
  <2> USE Zenon
  <2> DEFINE s == LastSeq(Appended)
             M == Marks(mbase, mtail)
  <2>1. /\ mu = "write" /\ mu' \in {"free", "rotate"} /\ edit' = AppliedEdit
        /\ active' = active \cup Appended
        /\ UNCHANGED <<ssts, closed, activeWal, oldestWal, imm, tables, snaps, worker, comp, closer, reader>>
        /\ wals' \in {SyncedWALs, OpenedForAppend(SyncedWALs, edit.next)}
    BY DEF WriteApplies, SwitchFails, WriteSwitches
  <2>2. /\ ~closed /\ AppliedEdit \in Edits /\ AppliedEdit.last = s
        /\ AppliedEdit.wal = edit.wal /\ AppliedEdit.next = edit.next
    BY <2>1, InWriteOrder
  <2>3. PlacedInv /\ SyncedInv /\ IdentityInv /\ QueueInv /\ MemoryInv /\ WorkInv /\ SnapInv
    BY DEF LayersInv
  <2>4. /\ Kept(wals, wals') /\ Kept(wals', wals)
        /\ \A n \in DOMAIN wals' : \A i \in DOMAIN wals'[n].recs : i <= wals'[n].synced
    <3> DEFINE h == wals'
    <3>1. h = SyncedWALs \/ h = OpenedForAppend(SyncedWALs, edit.next)
      BY <2>1
    <3> HIDE DEF h
    <3>2. /\ Kept(wals, h) /\ Kept(h, wals)
          /\ \A n \in DOMAIN h : \A i \in DOMAIN h[n].recs : i <= h[n].synced
      BY <2>1, <2>3, <3>1, <1>AppliedFiles
    <3> QED BY <3>2 DEF h
  <2>5. ASSUME NEW low PROVE Logged(wals', low) = Logged(wals, low)
    <3>1. Logged(wals', low) \subseteq Logged(wals, low) /\ Logged(wals, low) \subseteq Logged(wals', low)
      BY <2>4, LogKept
    <3> QED BY <3>1
  <2>6. /\ edit'.wal = edit.wal /\ edit'.last = s
        /\ edit.last \in Nat /\ s \in Nat /\ edit.last <= s /\ edit.last <= edit'.last
    BY <2>1, <2>2, <1>AppendedFacts
  <2>7. QueueInv' /\ Marks(mbase', mtail') \subseteq M \cup {<<edit.wal, s>>}
    <3>1. CASE WriteApplies \/ SwitchFails
      <4>1. UNCHANGED <<mbase, mtail>> /\ mu' = "free"
        BY <3>1 DEF WriteApplies, SwitchFails
      <4>2. mu \in {"free", "write"} /\ mu' \in {"free", "write"}
        BY <2>1, <4>1, SMT
      <4>3. Marks(mbase', mtail') = M
        BY <4>1 DEF Marks
      <4> QED BY <2>1, <2>3, <2>6, <4>1, <4>2, <4>3, <1>QueueWrites
    <3>2. CASE WriteSwitches
      <4> DEFINE e == AppliedEdit
                 n == e.next + 1
                 new == [e EXCEPT !.next = n]
      <4>1. SaveAppends(new) /\ mu' = "rotate"
        BY <3>2 DEF WriteSwitches
      <4>2. e \in Edits /\ n \in Nat
        BY <2>2, SMT DEF Edits
      <4> HIDE DEF e, n
      <4>3. new \in Edits /\ new.wal = e.wal /\ new.last = e.last
        BY <4>2 DEF Edits
      <4> HIDE DEF new
      <4>4. new.wal = edit.wal /\ new.last = s
        BY <2>2, <4>3 DEF e
      <4>5. Marks(mbase', mtail') = M \cup {<<new.wal, new.last>>}
        BY <4>1, <4>3, SaveMarks
      <4>6. QueueInv'
        BY <2>1, <2>2, <2>6, <4>1, <4>3, <4>4, <1>SwitchQueue
      <4> QED BY <4>4, <4>5, <4>6
    <3> QED BY <3>1, <3>2
  <2>8. StoredVersions' = StoredVersions /\ TableVersions' = TableVersions
    BY <2>1 DEF StoredVersions, TableVersions
  <2>9. PlacedInv' /\ IdentityInv'
    <3>1. \A v \in StoredVersions : v.seq <= s
      <4>1. \A v \in StoredVersions : v.seq <= edit.last /\ v.seq \in Nat
        BY <2>2, <2>3, LayerTypes DEF MemoryInv
      <4> HIDE DEF s
      <4> QED BY <2>6, <4>1, SMT
    <3>2. \E p \in M : p[1] <= edit.wal
      BY <2>2, <2>3, MarkOfBase DEF QueueInv
    <3>3. <<edit.wal, s>>[1] = edit.wal /\ <<edit.wal, s>>[2] = s
      BY SMT
    <3>4. \A q \in Marks(mbase', mtail') : q \in M \/ q = <<edit.wal, s>>
      BY <2>7
    <3> HIDE DEF s
    <3>5. PlacedInv'
      BY <2>3, <2>4, <2>8, <3>1, <3>2, <3>3, <3>4, PlacedSame, SMT
    <3>6. IdentityInv'
      BY <2>3, <2>5, <2>8, IdentityKept
    <3> QED BY <3>5, <3>6
  <2>10. SyncedInv'
    BY <2>4 DEF SyncedInv
  <2>11. MemoryInv'
    BY <2>1, <2>5, <2>6, <1>AppliedMemory
  <2>12. WorkInv'
    <3>1. closer.pc # "join"
      <4>1. mu \in {"write", "rotate"}
        BY <2>1, SMT
      <4>2. closer.pc = "idle"
        BY <4>1 DEF IInv, ControlInv
      <4> QED BY <4>2, SMT
    <3> QED BY <2>1, <2>2, <2>3, <2>8, <3>1 DEF WorkInv
  <2>13. SnapInv'
    BY <2>1, <2>3, <2>6, SnapSame
  <2>14. ReadInv'
    BY <2>1, <2>6, <1>AppliedReads
  <2> QED BY <2>7, <2>9, <2>10, <2>11, <2>12, <2>13, <2>14 DEF LayersInv
\* The worker removes WALs that no version replays.
<1>WorkerPurgesLayers.
  ASSUME WellOrdered, IInv, IInv', OrderInv, LayersInv, WorkerPurges \/ WorkerPurgeFails
  PROVE  LayersInv'
  <2> USE <1>WorkerPurgesLayers
  <2> USE Zenon
  <2> DEFINE w == worker.wal
  <2>1. /\ UNCHANGED <<ssts, mbase, mtail, closed, active, activeWal, oldestWal, imm, tables, edit,
                       snaps, mu, pending, comp, closer, reader>>
        /\ worker.pc = "purge" /\ worker' = [IdleWorker EXCEPT !.pc = "loop"]
    BY DEF WorkerPurges, WorkerPurgeFails, memory
  <2>2. PlacedInv /\ SyncedInv /\ IdentityInv /\ QueueInv /\ MemoryInv /\ WorkInv /\ SnapInv /\ ReadInv
    BY DEF LayersInv
  <2>3. /\ w \in Nat /\ edit.wal \in Nat /\ DOMAIN wals \in SUBSET Nat /\ oldestWal \in Nat
        /\ \A i \in DOMAIN imm : imm[i].wal \in Nat
    BY OrderTypes, LayerTypes
  <2>4. worker.pc \in {"compact", "purge"} /\ worker.pc \notin {"off", "exit"}
        /\ worker'.pc \notin {"compact", "purge"} /\ worker'.pc \notin {"build", "publish"}
    BY <2>1, SMT DEF IdleWorker
  <2>5. ~closed /\ mu # "purge"
    <3>1. mu = "purge" => mu \in {"close", "purge"}
      BY SMT
    <3> QED BY <2>4, <3>1 DEF IInv, ControlInv
  <2>6. w <= edit.wal /\ \A p \in Marks(mbase, mtail) : w <= p[1]
    BY <2>2, <2>4 DEF QueueInv
  <2> HIDE DEF w
  <2>7. PICK R \in SUBSET {n \in DOMAIN wals : n < w} : wals' = Restricted(wals, DOMAIN wals \ R)
    <3>1. CASE WorkerPurges
      <4> DEFINE Q == {n \in DOMAIN wals : n < w}
      <4>1. wals' = Restricted(wals, {n \in DOMAIN wals : n >= w})
        BY <3>1 DEF WorkerPurges, w
      <4>2. {n \in DOMAIN wals : n >= w} = DOMAIN wals \ Q
        BY <2>3, SMT
      <4> QED BY <4>1, <4>2
    <3>2. CASE WorkerPurgeFails
      BY <3>2 DEF WorkerPurgeFails, PartlyRemoved, w
    <3> QED BY <3>1, <3>2
  <2>8. DOMAIN wals' = DOMAIN wals \ R /\ \A n \in DOMAIN wals' : wals'[n] = wals[n]
    BY <2>7 DEF Restricted
  <2>9. Kept(wals, wals')
    BY <2>8 DEF Kept
  <2>10. \A n \in DOMAIN wals : n >= w => n \in DOMAIN wals' /\ wals'[n] = wals[n]
    <3>1. \A n \in DOMAIN wals : n >= w => n \notin R
      BY <2>3, <2>7, SMT
    <3> QED BY <2>8, <3>1
  <2>11. \A low : Logged(wals', low) \subseteq Logged(wals, low)
    BY <2>9, LogKept
  <2>12. ASSUME NEW low \in Nat, edit.wal <= low PROVE Logged(wals, low) \subseteq Logged(wals', low)
    <3> SUFFICES ASSUME NEW v \in Logged(wals, low) PROVE v \in Logged(wals', low)
      OBVIOUS
    <3>1. PICK n \in DOMAIN wals : n >= low /\ \E i \in DOMAIN wals[n].recs : v \in wals[n].recs[i]
      BY InLog
    <3>2. n >= w
      BY <2>3, <2>6, <2>12, <3>1, SMT
    <3> QED BY <2>10, <3>1, <3>2, InLog
  <2>13. StoredVersions' = StoredVersions /\ TableVersions' = TableVersions
    BY <2>1 DEF StoredVersions, TableVersions
  <2>14. Marks(mbase', mtail') = Marks(mbase, mtail)
    BY <2>1
  <2>15. PlacedInv' /\ IdentityInv'
    <3>1. \A v \in Logged(wals, 0) :
            v \in Logged(wals', 0) \/ Settled(wals', Marks(mbase, mtail), v)
      BY <2>3, <2>6, <2>9, <2>10, <1>Purged
    <3>2. PlacedInv'
      BY <2>2, <2>11, <2>13, <2>14, <3>1, PlacedKept
    <3> QED BY <2>2, <2>11, <2>13, <3>2, IdentityKept
  <2>16. SyncedInv'
    BY <2>1, <2>2, <2>8 DEF SyncedInv
  <2>17. QueueInv'
    BY <2>1, <2>2, <2>4, QueueSame
  <2>18. MemoryInv'
    <3>1. edit.wal <= oldestWal /\ \A i \in DOMAIN imm : edit.wal <= imm[i].wal
      BY <2>2, <2>5 DEF QueueInv
    <3>2. /\ active \subseteq Logged(wals, oldestWal)
          /\ \A i \in DOMAIN imm : imm[i].ents \subseteq Logged(wals, imm[i].wal)
      BY <2>2, <2>5 DEF MemoryInv
    <3>3. /\ active \subseteq Logged(wals', oldestWal)
          /\ \A i \in DOMAIN imm : imm[i].ents \subseteq Logged(wals', imm[i].wal)
      BY <2>3, <2>12, <3>1, <3>2
    <3> QED BY <2>1, <2>2, <3>3, <1>MemoryKept
  <2>19. WorkInv'
    BY <2>1, <2>2, <2>4, WorkSame
  <2>20. SnapInv' /\ ReadInv'
    <3>1. edit.last <= edit'.last
      BY <2>1, OrderTypes, SMT
    <3> QED BY <2>1, <2>2, <3>1, SnapSame, ReadSame
  <2> QED BY <2>15, <2>16, <2>17, <2>18, <2>19, <2>20 DEF LayersInv
<1> USE Zenon
<1> SUFFICES ASSUME \/ LayerSteps \/ Open \/ OpenFails \/ Crash
                    \/ \E b \in Batches : Write(b)
                    \/ \E i \in Snaps : GetSnapshot(i) \/ ReleaseSnapshot(i)
                    \/ \E r \in Readers : GetSteps(r) \/ \E k \in Keys : GetPins(r, k)
                    \/ UNCHANGED vars
             PROVE  LayersInv'
  BY SMT
<1>1. CASE LayerSteps
  <2> DEFINE Ends == CloseEnds \/ CloseSaveFails \/ ClosePurges \/ ClosePurgeFails
             Applies == WriteApplies \/ SwitchFails \/ WriteSwitches
  <2>1. Ends => mu \in {"close", "purge"} \/ closer.pc = "join"
    BY DEF CloseEnds, CloseSaveFails, ClosePurges, ClosePurgeFails, Joined
  <2>2. Applies => mu = "write"
    BY DEF WriteApplies, SwitchFails, WriteSwitches
  <2>3. Ends \/ Applies => TornRest(mtail) = <<>>
    <3> HIDE DEF Ends, Applies
    <3> QED BY <2>1, <2>2, ClosedIsQuiet, SMT
  <2> QED BY <1>1, <2>3, <1>CloseEndsLayers, <1>AppliesLayers, <1>WriteFailsLayers, <1>WorkerPurgesLayers
       DEF LayerSteps
<1>2. CASE Open \/ OpenFails \/ Crash
  BY <1>2, <1>OpenLayers, <1>OpenFailsLayers, CrashLayers
<1>3. CASE \E b \in Batches : Write(b)
  BY <1>3, <1>WriteLayers
<1>4. CASE \/ \E i \in Snaps : GetSnapshot(i) \/ ReleaseSnapshot(i)
           \/ \E r \in Readers : GetSteps(r) \/ \E k \in Keys : GetPins(r, k)
           \/ UNCHANGED vars
  BY <1>4, ReadLayers
<1> QED BY <1>1, <1>2, <1>3, <1>4

-----------------------------------------------------------------------------
\* The natural numbers are well ordered.
LEMMA NaturalsAreWellOrdered == WellOrdered
<1> USE Zenon
<1> SUFFICES ASSUME NEW S \in SUBSET Nat, S # {}
             PROVE  \E x \in S : \A y \in S : x <= y
  BY DEF WellOrdered
<1>1. PICK x \in S : \A y \in S : <<y, x>> \notin WF!OpToRel(<, Nat)
  BY WF!NatLessThanWellFounded, WF!WFMin
<1>2. ASSUME NEW y \in S PROVE x <= y
  <2>1. x \in Nat /\ y \in Nat /\ ~(y < x)
    BY <1>1 DEF WF!OpToRel
  <2> QED BY <2>1, SMT
<1> QED BY <1>2

-----------------------------------------------------------------------------
(***************************************************************************)
(* What a compaction drops no read misses.                                 *)
(***************************************************************************)

\* Compaction is invisible.  E are the versions of a compaction's inputs, R all the
\* others a reader can reach.  A read of any key k at s returns the same before
\* and after E is replaced by what the compaction retains of it, provided
\*  - the read is not below the oldest snapshot the compaction knew of, or, if it
\*    knew of none, not below any version in its inputs, and
\*  - when tombstones are dropped, R has no older version of their keys.
\* (CompactUnlocked: the min_snapshot == 0 branch, kept_boundary, and the
\* target_level < 2 test.)
THEOREM CompactionPreservesReads ==
  ASSUME NEW K, NEW E \in SUBSET Versions(K), NEW R \in SUBSET Versions(K),
         NEW min \in Nat, NEW level \in 0..2, NEW k, NEW s \in Nat,
         SeqIdentifies(E \cup R),
         min # 0 => min <= s,
         min = 0 => \A e \in E : e.seq <= s,
         min = 0 /\ level = 2 =>
           \A e \in E, f \in R : e.deleted /\ f.key = e.key => ~(f.seq < e.seq)
  PROVE  Lookup(Retained(E, min, level) \cup R, k, s) = Lookup(E \cup R, k, s)
<1>1. Replaceable(K, E, R, min, level, s)
  BY Zenon DEF Replaceable
<1> QED BY <1>1, RetainedPreservesReads, NaturalsAreWellOrdered

-----------------------------------------------------------------------------
(***************************************************************************)
(* The invariants of the engine.                                           *)
(***************************************************************************)

\* The invariant holds throughout.
THEOREM InvariantHolds == Spec => []IInv
<1>1. Init => IInv
  BY InitIInv, Zenon
<1>2. IInv /\ [Next]_vars => IInv'
  BY NextIInv, NaturalsAreWellOrdered, Zenon
<1> QED BY <1>1, <1>2, PTL DEF Spec

\* Every variable of the engine always has its type, whatever its threads, I/O
\* errors and crashes do.
THEOREM TypeCorrect == Spec => []TypeOK
<1>1. IInv => TypeOK
  BY Zenon DEF IInv
<1> QED BY <1>1, InvariantHolds, PTL

\* The "state changed" branches of FlushOneImmutableMemTable, of CompactUnlocked and
\* of Close are dead: what each thread read before it gave up version_mu_ is still
\* true when it takes it again, for any number of keys, readers, snapshots, failures
\* and crashes.
THEOREM PublishChecksAlwaysHold == Spec => []PublishChecksHold
BY ChecksFollow, InvariantHolds, PTL

\* No table is ever built under a number that a file, another build or the version
\* uses: not by the worker and a client's compaction side by side, not after errors
\* that leave orphans, and not after a crash, whatever files it left behind.
THEOREM FileNumbersAreAlwaysFresh == Spec => []FileNumbersAreFresh
<1>1. IInv /\ NumbersInv /\ [Next]_vars => NumbersInv'
  BY NextNumbers, NaturalsAreWellOrdered, Zenon
<1> QED BY <1>1, InitNumbers, NumbersFollow, InvariantHolds, PTL DEF Spec

\* The invariants of the files and of the log.
LEMMA OrderHolds ==
  ASSUME "torn" \notin SaveFailures
  PROVE  Spec => [](IInv /\ NumbersInv /\ TablesInv /\ OrderInv)
<1> USE NaturalsAreWellOrdered, Zenon
<1>1. IInv /\ Init => TablesInv /\ OrderInv
  BY InitTables, InitOrder
<1>2. IInv /\ NumbersInv /\ [Next]_vars => NumbersInv'
  BY NextNumbers
<1>3. IInv /\ IInv' /\ NumbersInv /\ TablesInv /\ [Next]_vars => TablesInv'
  BY NextTables
<1>4. IInv /\ IInv' /\ TablesInv /\ OrderInv /\ [Next]_vars => OrderInv'
  BY WholeWhenOpen, NextOrder
<1> QED BY <1>1, <1>2, <1>3, <1>4, InitNumbers, InvariantHolds, PTL DEF Spec

\* No crash, at whatever point and however much of the manifest's log it keeps,
\* leaves a directory that Recover refuses: every SSTable that the manifest names is
\* on disk, the records of the WALs it keeps alive are in order of their sequence
\* numbers, and its oldest WAL has a number below the next file number.  So it is
\* for any number of threads, writes, failed writes, crashes and reopens, provided
\* no failed Save tears its record: the log then ends before the records behind it.
THEOREM EveryCrashAlwaysRecovers ==
  ASSUME "torn" \notin SaveFailures PROVE Spec => []EveryCrashRecovers
<1>1. IInv /\ TablesInv /\ OrderInv => EveryCrashRecovers
  BY ImagesAreThere, ImagesReplay, NaturalsAreWellOrdered, Zenon DEF EveryCrashRecovers, Recoverable
<1> QED BY <1>1, OrderHolds, PTL

\* No two files of level 1, or of level 2, have keys in common: not in the version in
\* memory, nor in any that a crash may bring back, and the range of a file has all
\* the keys of its table.  A compaction that has read its inputs without the lock
\* publishes over a version that a flush has changed meanwhile, and its save or the
\* flush's may fail with its record in the log; the files it did not take are beside
\* its output all the same.
THEOREM RangesHold ==
  ASSUME "torn" \notin SaveFailures PROVE Spec => []RangesInv
<1>1. IInv /\ Init => RangesInv
  BY InitRanges, NaturalsAreWellOrdered, Zenon
<1>2. IInv /\ IInv' /\ NumbersInv /\ TablesInv /\ TablesInv' /\ RangesInv /\ [Next]_vars
        => RangesInv'
  BY NextRanges, NaturalsAreWellOrdered, Zenon
<1> QED BY <1>1, <1>2, OrderHolds, PTL DEF Spec

\* The levels that Get and a compaction search by key range are disjoint in the version
\* in memory, whatever was flushed, compacted, lost and read back before.
THEOREM LevelsAreAlwaysDisjoint ==
  ASSUME "torn" \notin SaveFailures PROVE Spec => []LevelsAreDisjoint
BY InitFiles, LevelsFollow, NextClosed, RangesHold, InvariantHolds, PTL DEF Spec

-----------------------------------------------------------------------------
(***************************************************************************)
(* Reads.  The theorems leave out two errors: a Save that leaves a part of *)
(* its record, so that the records behind it are never read; and an        *)
(* AppendBatch that reports an error when the whole record is in the file  *)
(* but not synced, which Open replays and a power failure may still undo.  *)
(***************************************************************************)

\* Every step keeps the layers.
LEMMA NextLayers ==
  ASSUME WellOrdered, "torn" \notin SaveFailures, "full" \notin AppendFailures
  PROVE  /\ IInv /\ IInv' /\ OrderInv /\ OrderInv' /\ LayersInv
         /\ (~closed => TornRest(mtail) = <<>>)
         /\ (worker.pc = "publish" => worker.num \notin Nums(edit.files))
         /\ [Next]_vars
         => LayersInv'
BY VersionLayers, ClientLayers, Zenon DEF Next

\* The sources of a read are in order at every moment.
THEOREM LayersHold ==
  ASSUME "torn" \notin SaveFailures, "full" \notin AppendFailures
  PROVE  Spec => []LayersInv
<1>1. IInv /\ Init => LayersInv
  BY InitLayers, Zenon
<1>2. NumbersInv => (worker.pc = "publish" => worker.num \notin Nums(edit.files))
  BY Zenon DEF NumbersInv
<1>3. IInv /\ IInv' /\ NumbersInv /\ TablesInv /\ OrderInv /\ OrderInv' /\ LayersInv /\ [Next]_vars
        => LayersInv'
  BY <1>2, WholeWhenOpen, NextLayers, NaturalsAreWellOrdered, Zenon
<1> QED BY <1>1, <1>3, OrderHolds, PTL DEF Spec

\* At every point where a read could start, the first MemTable that has the key has
\* its newest visible version, and so have the tables when none has it: Get may
\* stop there, whatever was switched, flushed, compacted or replayed before.
THEOREM FirstHitIsAlwaysNewest ==
  ASSUME "torn" \notin SaveFailures, "full" \notin AppendFailures
  PROVE  Spec => []FirstHitIsNewest
<1>1. IInv /\ LayersInv => FirstHitIsNewest
  BY LayersStopReads, NaturalsAreWellOrdered, Zenon
<1> QED BY <1>1, LayersHold, InvariantHolds, PTL

\* Wherever the copies of a write are, in a WAL, a MemTable or a table, its sequence
\* number is no other write's: recovery never hands out a number again.
THEOREM SequencesAlwaysIdentifyWrites ==
  ASSUME "torn" \notin SaveFailures, "full" \notin AppendFailures
  PROVE  Spec => []SequencesIdentifyWrites
<1>1. IInv /\ LayersInv => SequencesIdentifyWrites
  BY LayersIdentifyWrites, NaturalsAreWellOrdered, Zenon
<1> QED BY <1>1, LayersHold, InvariantHolds, PTL

\* A Get returns what its key was when it pinned the version, however long it runs:
\* while its MemTables are written to, switched, flushed and compacted, and while
\* the database is closed and opened again.
THEOREM ReadsAreAlwaysStable ==
  ASSUME "torn" \notin SaveFailures, "full" \notin AppendFailures
  PROVE  Spec => []ReadsAreStable
<1>1. LayersInv => ReadsAreStable
  BY Zenon DEF LayersInv, ReadInv, ReadsAreStable
<1> QED BY <1>1, LayersHold, PTL

=============================================================================
