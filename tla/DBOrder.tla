------------------------------ MODULE DBOrder -------------------------------
(***************************************************************************)
(* The order of the WAL records: what is added to the invariant of         *)
(* DBInvariant to show that, whatever version a crash brings back, the     *)
(* records of the WALs it keeps alive are in order of their sequence       *)
(* numbers; and that every step keeps it.                                  *)
(***************************************************************************)
EXTENDS DBInvariant

\* Every record starts above the one before it, in this file or an earlier one.
Ordered(files) ==
  \A n1, n2 \in DOMAIN files :
    \A i1 \in DOMAIN files[n1].recs, i2 \in DOMAIN files[n2].recs :
      n1 < n2 \/ (n1 = n2 /\ i1 < i2) =>
        \A v1 \in files[n1].recs[i1], v2 \in files[n2].recs[i2] : v1.seq < v2.seq

\* File n has no sequence number above s.
Bounded(files, n, s) ==
  \A i \in DOMAIN files[n].recs : \A v \in files[n].recs[i] : v.seq <= s

\* The oldest WAL and the last sequence number of each record of the manifest.
Marks(base, log) ==
  {<<base.wal, base.last>>} \cup {<<log[i].wal, log[i].last>> : i \in DOMAIN log}

\* Every record of the new files was there before, in the same place.
Kept(old, new) ==
  \A n \in DOMAIN new : \A i \in DOMAIN new[n].recs :
    /\ n \in DOMAIN old /\ i \in DOMAIN old[n].recs
    /\ new[n].recs[i] = old[n].recs[i]

\* The state of the files while the database is open: only the active WAL has
\* sequence numbers that the version does not know, those of a record being
\* written or of one that failed.
ActiveInv ==
  /\ \A n \in DOMAIN wals : n <= edit.next /\ (activeWal < n => DOMAIN wals[n].recs = {})
  /\ \A n \in DOMAIN wals : n < activeWal => Bounded(wals, n, edit.last)
  /\ ~bgError /\ mu # "write" => Bounded(wals, activeWal, edit.last)
  /\ mu \notin {"close", "purge"} =>
       edit.wal <= activeWal /\ \A p \in Marks(mbase, mtail) : p[1] <= activeWal

\* The records are in order; no version on disk gives up a file with a sequence
\* number above its own; and the next Open goes on behind every file.
OrderInv ==
  /\ Ordered(wals)
  /\ \A p \in Marks(mbase, mtail) :
       \A n \in DOMAIN wals : n < p[1] => Bounded(wals, n, p[2])
  /\ closed /\ TornRest(mtail) = <<>> =>
       \A p \in Marks(mbase, mtail) :
         p[1] <= LoadedEdit.wal \/ \E n \in DOMAIN wals : p[1] <= n
  /\ ~closed => ActiveInv
  /\ mu \in {"write", "rotate"} => ~bgError
  /\ mu = "write" =>
       LET f == wals[activeWal]
       IN  /\ \A i \in 1..(Len(f.recs) - 1) : \A v \in f.recs[i] : v.seq <= edit.last
           /\ \A v \in Appended : edit.last < v.seq
  /\ mu = "close" =>
       \A p \in Marks(mbase, SubSeq(mtail, 1, Len(mtail) - 1)) : p[1] <= activeWal
  /\ mu = "purge" => mtail = <<>>
  /\ Saving => pending.last = edit.last
  /\ mu \in {"rotate", "flush", "compact"} => pending.wal <= activeWal

-----------------------------------------------------------------------------
(***************************************************************************)
(* What steps do to the WALs and to the marks of the manifest.             *)
(***************************************************************************)

\* The files and numbers that the invariant is about have their types.
LEMMA OrderTypes ==
  ASSUME IInv
  PROVE  /\ edit \in Edits /\ pending \in Edits /\ mbase \in Edits
         /\ mtail \in Seq(Records)
         /\ edit.next \in Nat /\ edit.wal \in Nat /\ edit.last \in Nat
         /\ pending.next \in Nat /\ pending.wal \in Nat /\ pending.last \in Nat
         /\ activeWal \in Nat /\ DOMAIN wals \in SUBSET Nat
         /\ IsFiniteSet(DOMAIN wals)
         /\ \A n \in DOMAIN wals : /\ wals[n] \in WALFiles(Version)
                                   /\ wals[n].recs \in Seq(BatchRecords(Version))
         /\ \A n \in DOMAIN wals : \A i \in DOMAIN wals[n].recs :
              wals[n].recs[i] \in BatchRecords(Version)
         /\ \A p \in Marks(mbase, mtail) : p[1] \in Nat /\ p[2] \in Nat
<1> USE Zenon
<1>1. edit \in Edits /\ pending \in Edits /\ mbase \in Edits /\ mtail \in Seq(Records)
  BY DEF IInv, TypeOK, DiskTypeOK, MemoryTypeOK, ThreadsTypeOK
<1>2. /\ edit.next \in Nat /\ edit.wal \in Nat /\ edit.last \in Nat
      /\ pending.next \in Nat /\ pending.wal \in Nat /\ pending.last \in Nat
      /\ mbase.wal \in Nat /\ mbase.last \in Nat
  BY <1>1 DEF Edits
<1>3. activeWal \in Nat /\ IsDirectory(wals, WALFiles(Version))
  BY DEF IInv, TypeOK, DiskTypeOK, MemoryTypeOK
<1>4. DOMAIN wals \in SUBSET Nat /\ IsFiniteSet(DOMAIN wals)
  BY <1>3 DEF IsDirectory, FiniteSubsets
<1>5. \A n \in DOMAIN wals : /\ wals[n] \in WALFiles(Version)
                             /\ wals[n].recs \in Seq(BatchRecords(Version))
  BY <1>3 DEF IsDirectory, WALFiles
<1>6. \A n \in DOMAIN wals : \A i \in DOMAIN wals[n].recs :
        wals[n].recs[i] \in BatchRecords(Version)
  <2> DEFINE S == BatchRecords(Version)
  <2>1. \A n \in DOMAIN wals : wals[n].recs \in Seq(S)
    BY <1>5
  <2> HIDE DEF S
  <2>2. \A n \in DOMAIN wals : \A i \in DOMAIN wals[n].recs : wals[n].recs[i] \in S
    BY <2>1, SMT
  <2> QED BY <2>2 DEF S
<1>7. \A i \in DOMAIN mtail : mtail[i].wal \in Nat /\ mtail[i].last \in Nat
  <2>1. \A i \in DOMAIN mtail : mtail[i] \in Records
    BY <1>1, SMT
  <2> QED BY <2>1 DEF Records
<1>8. \A p \in Marks(mbase, mtail) : p[1] \in Nat /\ p[2] \in Nat
  BY <1>2, <1>7, SMT DEF Marks
<1> QED BY <1>1, <1>2, <1>3, <1>4, <1>5, <1>6, <1>8

\* A replayed version has the mark of the last record.
LEMMA ReplayMark ==
  ASSUME NEW base \in Edits, NEW log \in Seq(Records)
  PROVE  <<Replay(base, log).wal, Replay(base, log).last>> \in Marks(base, log)
<1> DEFINE n == Len(log)
<1>1. n \in Nat /\ (n # 0 => n \in DOMAIN log)
  OBVIOUS
<1>2. /\ Replay(base, log).wal = IF n = 0 THEN base.wal ELSE log[n].wal
      /\ Replay(base, log).last = IF n = 0 THEN base.last ELSE log[n].last
  BY Zenon DEF Replay
<1> HIDE DEF n
<1> QED BY <1>1, <1>2, Zenon DEF Marks

\* Reading a log back makes no new marks.
LEMMA ReadBackMarks ==
  ASSUME WellOrdered, NEW base \in Edits, NEW log \in Seq(Records)
  PROVE  LET e == Replay(base, IntactPrefix(log))
         IN  /\ <<e.wal, e.last>> \in Marks(base, log)
             /\ Marks(e, TornRest(log)) \subseteq Marks(base, log)
             /\ Marks(e, <<>>) = {<<e.wal, e.last>>}
<1> USE Zenon
<1> DEFINE p == IntactPrefix(log)
           t == TornRest(log)
           e == Replay(base, p)
<1>1. p \in Seq(Records) /\ \A i \in DOMAIN p : i \in DOMAIN log /\ p[i] = log[i]
  BY LogPartTypes
<1>2. \A i \in DOMAIN t : \E j \in DOMAIN log : t[i] = log[j]
  BY LogPartTypes
<1> HIDE DEF p, t
<1>3. <<e.wal, e.last>> \in Marks(base, p)
  BY <1>1, ReplayMark
<1> HIDE DEF e
<1>4. Marks(base, p) \subseteq Marks(base, log)
  BY <1>1 DEF Marks
<1>5. Marks(e, t) \subseteq {<<e.wal, e.last>>} \cup Marks(base, log)
  BY <1>2 DEF Marks
<1>6. Marks(e, <<>>) = {<<e.wal, e.last>>}
  BY SMT DEF Marks
<1> QED BY <1>3, <1>4, <1>5, <1>6 DEF e, p, t

\* What a log loses at its end takes marks away.
LEMMA PrefixMarks ==
  ASSUME NEW base, NEW log \in Seq(Records), NEW n \in 0..Len(log)
  PROVE  /\ SubSeq(log, 1, n) \in Seq(Records)
         /\ Marks(base, SubSeq(log, 1, n)) \subseteq Marks(base, log)
<1> DEFINE s == SubSeq(log, 1, n)
<1>1. \A i \in 1..n : log[i] \in Records /\ i \in DOMAIN log
  OBVIOUS
<1>2. n \in Int /\ n - 1 + 1 = n /\ (1 <= n \/ n = 0)
  OBVIOUS
<1>3. s \in Seq(Records) /\ Len(s) = n /\ \A i \in 1..n : s[i] = log[i]
  BY <1>1, <1>2
<1>4. DOMAIN s = 1..n
  BY <1>3
<1> HIDE DEF s
<1>5. Marks(base, s) \subseteq Marks(base, log)
  BY <1>1, <1>3, <1>4, Zenon DEF Marks
<1> QED BY <1>3, <1>5, Zenon DEF s

\* So does a crash, which may tear the first record it loses.
LEMMA CrashMarks ==
  ASSUME NEW base, NEW log \in Seq(Records), NEW n \in 0..Len(log),
         NEW torn \in BOOLEAN, torn => n < Len(log)
  PROVE  LET l == SubSeq(log, 1, n) \o IF torn THEN <<Tear(log[n + 1])>> ELSE <<>>
         IN  l \in Seq(Records) /\ Marks(base, l) \subseteq Marks(base, log)
<1> USE Zenon
<1> DEFINE s == SubSeq(log, 1, n)
           x == Tear(log[n + 1])
<1>1. s \in Seq(Records) /\ Marks(base, s) \subseteq Marks(base, log)
  BY PrefixMarks
<1>2. Len(s) \in Nat /\ DOMAIN s = 1..Len(s)
  BY <1>1, SMT
<1> HIDE DEF s
<1>3. CASE ~torn
  <2>1. s \o <<>> = s
    BY <1>1, SMT
  <2> QED BY <1>1, <1>3, <2>1 DEF s
<1>4. CASE torn
  <2>1. n + 1 \in DOMAIN log /\ log[n + 1] \in Records
    BY <1>4, SMT
  <2>2. x \in Records /\ x.wal = log[n + 1].wal /\ x.last = log[n + 1].last
    BY <2>1, TearType DEF Tear, Records
  <2>3. <<x.wal, x.last>> \in Marks(base, log)
    BY <2>1, <2>2 DEF Marks
  <2> HIDE DEF x
  <2> DEFINE l == Append(s, x)
             k == Len(s)
  <2>4. /\ l \in Seq(Records) /\ Len(l) = k + 1
        /\ \A i \in 1..k : l[i] = s[i] /\ l[k + 1] = x
    BY <1>1, <2>2, SMT
  <2>5. DOMAIN l = 1..(k + 1) /\ l[k + 1] = x
    BY <1>1, <2>2, <2>4, SMT
  <2>6. s \o <<x>> = l
    BY <1>1, <2>2, SMT
  <2> HIDE DEF l, k
  <2>7. DOMAIN s = 1..k /\ \A i \in 1..(k + 1) : i \in 1..k \/ i = k + 1
    BY <1>2, SMT DEF k
  <2>8. \A i \in DOMAIN l : <<l[i].wal, l[i].last>> \in Marks(base, s) \cup {<<x.wal, x.last>>}
    BY <2>4, <2>5, <2>7 DEF Marks
  <2>9. <<base.wal, base.last>> \in Marks(base, log)
    BY DEF Marks
  <2>10. Marks(base, l) \subseteq Marks(base, log)
    BY <1>1, <2>3, <2>8, <2>9 DEF Marks
  <2> QED BY <1>4, <2>4, <2>6, <2>10 DEF l, s, x
<1> QED BY <1>3, <1>4

\* A save adds the mark of the version it saves.
LEMMA SaveMarks ==
  ASSUME IInv, NEW new \in Edits, SaveAppends(new)
  PROVE  /\ Marks(mbase', mtail') = Marks(mbase, mtail) \cup {<<new.wal, new.last>>}
         /\ SubSeq(mtail', 1, Len(mtail') - 1) = mtail
         /\ mtail'[Len(mtail')].wal = new.wal
<1> USE Zenon
<1> DEFINE r == BuildEditPayload(persisted, new)
           n == Len(mtail)
           a == Append(mtail, r)
<1>1. mtail \in Seq(Records) /\ persisted \in Edits
  BY DEF IInv, TypeOK, DiskTypeOK, MemoryTypeOK
<1>2. mtail' = a /\ mbase' = mbase
  BY DEF SaveAppends
<1>3. r \in Records /\ r.wal = new.wal /\ r.last = new.last
  BY <1>1, BuildEditPayloadType DEF BuildEditPayload
<1> HIDE DEF r
<1>4. n \in Nat /\ DOMAIN mtail = 1..n
  BY <1>1, SMT
<1>5. /\ a \in Seq(Records) /\ Len(a) = n + 1
      /\ \A i \in 1..n : a[i] = mtail[i]
      /\ a[n + 1] = r
  BY <1>1, <1>3, SMT
<1>6. DOMAIN a = 1..(n + 1)
  BY <1>5, SMT
<1>7. SubSeq(a, 1, n) = mtail
  BY <1>1, <1>3, <1>4, SMT
<1> HIDE DEF n, a
<1>8. /\ \A i \in 1..(n + 1) : i \in 1..n \/ i = n + 1
      /\ n + 1 \in 1..(n + 1) /\ \A i \in 1..n : i \in 1..(n + 1)
      /\ (n + 1) - 1 = n
  BY <1>4, SMT
<1>9. Marks(mbase, a) = Marks(mbase, mtail) \cup {<<new.wal, new.last>>}
  <2>1. ASSUME NEW p \in Marks(mbase, a)
        PROVE  p \in Marks(mbase, mtail) \cup {<<new.wal, new.last>>}
    BY <1>3, <1>4, <1>5, <1>6, <1>8, <2>1 DEF Marks
  <2>2. ASSUME NEW p \in Marks(mbase, mtail) PROVE p \in Marks(mbase, a)
    BY <1>4, <1>5, <1>6, <1>8, <2>2 DEF Marks
  <2>3. <<new.wal, new.last>> \in Marks(mbase, a)
    BY <1>3, <1>5, <1>6, <1>8 DEF Marks
  <2> QED BY <2>1, <2>2, <2>3
<1> QED BY <1>2, <1>3, <1>5, <1>7, <1>8, <1>9

\* What a cut leaves behind the intact records begins with a torn one, so that it
\* is nothing or is cut again.
LEMMA RestIsTorn ==
  ASSUME WellOrdered, NEW log \in Seq(Records), TornRest(TornRest(log)) = <<>>
  PROVE  TornRest(log) = <<>>
<1> USE Zenon
<1> DEFINE t == TornRest(log)
           n == Len(IntactPrefix(log))
           k == Len(IntactPrefix(t))
<1>1. /\ n \in 0..Len(log) /\ Len(log) \in Nat /\ t \in Seq(Records)
      /\ Len(t) = Len(log) - n
      /\ \A i \in 1..(Len(log) - n) : t[i] = log[n + i]
      /\ n < Len(log) => log[n + 1].torn
  BY LogParts, SMT
<1> HIDE DEF t, n
<1>2. /\ k \in 0..Len(t) /\ Len(TornRest(t)) = Len(t) - k
      /\ \A i \in 1..k : ~t[i].torn
  BY <1>1, LogParts
<1> HIDE DEF k
<1> SUFFICES ASSUME t # <<>> PROVE FALSE
  BY DEF t
<1>3. n < Len(log) /\ 1 \in 1..(Len(log) - n)
  <2>1. Len(t) # 0
    BY <1>1, SMT
  <2> QED BY <1>1, <2>1, SMT
<1>4. t[1].torn
  BY <1>1, <1>3
<1>5. k = 0
  BY <1>1, <1>2, <1>4, SMT
<1>6. Len(TornRest(t)) = 0
  BY SMT DEF t
<1> QED BY <1>1, <1>2, <1>3, <1>5, <1>6, SMT

\* What a failed save leaves has no other marks.
LEMMA SaveLeavesMarks ==
  ASSUME IInv, Saving, NEW how \in SaveFailures, "torn" \notin SaveFailures
  PROVE  Marks(mbase, SaveLeaves(how)) \subseteq Marks(mbase, mtail)
<1> USE Zenon
<1>1. mtail \in Seq(Records) /\ Len(mtail) > 0
  BY DEF IInv, TypeOK, DiskTypeOK, ManifestInv
<1>2. Len(mtail) - 1 \in 0..Len(mtail)
  BY <1>1, SMT
<1>3. SaveLeaves(how) \in {SubSeq(mtail, 1, Len(mtail) - 1), mtail}
  BY FailuresAreKnown DEF SaveLeaves
<1> QED BY <1>1, <1>2, <1>3, PrefixMarks

\* A power failure keeps a prefix of a file's records.
LEMMA PowerFailureKeeps ==
  ASSUME NEW f \in WALFiles(Version), NEW g \in AfterPowerFailure(f)
  PROVE  \A i \in DOMAIN g.recs : i \in DOMAIN f.recs /\ g.recs[i] = f.recs[i]
<1> USE Zenon
<1> DEFINE S == BatchRecords(Version)
           s == f.recs
<1>1. s \in Seq(S) /\ f.synced \in Nat
  BY DEF WALFiles
<1>2. PICK n \in f.synced..Len(f.recs), t \in BOOLEAN :
        g = [recs |-> SubSeq(f.recs, 1, n), synced |-> n, torn |-> t]
  BY SMT DEF AfterPowerFailure
<1>3. g.recs = SubSeq(s, 1, n)
  BY <1>2
<1> HIDE DEF S, s
<1>4. n \in Nat /\ n <= Len(s) /\ Len(s) \in Nat
  BY <1>1, <1>2, SMT DEF s
<1>5. DOMAIN s = 1..Len(s) /\ \A i \in 1..n : s[i] \in S /\ i \in DOMAIN s
  BY <1>1, <1>4, SMT
<1>6. /\ SubSeq(s, 1, n) \in Seq(S) /\ Len(SubSeq(s, 1, n)) = n
      /\ \A i \in 1..n : SubSeq(s, 1, n)[i] = s[i]
  BY <1>4, <1>5, SMT
<1>7. DOMAIN SubSeq(s, 1, n) = 1..n
  BY <1>6, SMT
<1> QED BY <1>3, <1>5, <1>6, <1>7 DEF s

\* What Open does to the files keeps their records.
LEMMA OpenKeeps ==
  ASSUME IInv, NEW S
  PROVE  /\ Kept(wals, Truncated(S)) /\ DOMAIN Truncated(S) = DOMAIN wals
         /\ \A n : /\ Kept(wals, OpenedForAppend(Truncated(S), n))
                   /\ DOMAIN OpenedForAppend(Truncated(S), n) = DOMAIN wals \cup {n}
<1> USE Zenon
<1>1. \A n \in DOMAIN wals : wals[n] \in WALFiles(Version)
  BY OrderTypes
<1>2. \A n \in DOMAIN wals : TruncateTornTail(wals[n]).recs = wals[n].recs
  BY <1>1 DEF TruncateTornTail, SyncFile, WALFiles
<1> DEFINE g == Truncated(S)
<1>3. DOMAIN g = DOMAIN wals /\ \A n \in DOMAIN wals : g[n].recs = wals[n].recs
  BY <1>2 DEF Truncated
<1> HIDE DEF g
<1>4. Kept(wals, g)
  BY <1>3 DEF Kept
<1>5. ASSUME NEW n
      PROVE  Kept(wals, OpenedForAppend(g, n)) /\ DOMAIN OpenedForAppend(g, n) = DOMAIN wals \cup {n}
  <2>1. DOMAIN EmptyWAL.recs = {}
    BY SMT DEF EmptyWAL
  <2>2. CASE n \in DOMAIN g
    BY <1>3, <1>4, <2>2 DEF OpenedForAppend
  <2>3. CASE n \notin DOMAIN g
    <3>1. OpenedForAppend(g, n) = Created(g, n, EmptyWAL)
      BY <2>3 DEF OpenedForAppend
    <3> DEFINE h == Created(g, n, EmptyWAL)
    <3>2. /\ DOMAIN h = DOMAIN wals \cup {n} /\ h[n] = EmptyWAL
          /\ \A m \in DOMAIN wals : h[m] = g[m]
      BY <1>3, <2>3 DEF Created
    <3> HIDE DEF h
    <3>3. Kept(wals, h)
      BY <1>3, <2>1, <3>2 DEF Kept
    <3> QED BY <3>1, <3>2, <3>3 DEF h
  <2> QED BY <2>2, <2>3
<1> QED BY <1>3, <1>4, <1>5 DEF g

\* Reading the manifest makes no marks.
LEMMA LoadMarks ==
  ASSUME WellOrdered, IInv, LoadManifest
  PROVE  /\ Marks(mbase', mtail') \subseteq Marks(mbase, mtail)
         /\ \/ UNCHANGED <<mbase, mtail>> /\ TornRest(mtail) = <<>>
            \/ mbase' = LoadedEdit /\ mtail' = <<>>
<1> USE Zenon
<1>1. mbase \in Edits /\ mtail \in Seq(Records)
  BY OrderTypes
<1>2. CASE TornRest(mtail) = <<>>
  BY <1>2 DEF LoadManifest
<1>3. CASE TornRest(mtail) # <<>>
  <2>1. mbase' = Replay(mbase, IntactPrefix(mtail)) /\ mtail' = <<>>
    BY <1>3 DEF LoadManifest, LoadedEdit
  <2> DEFINE e == Replay(mbase, IntactPrefix(mtail))
  <2>2. <<e.wal, e.last>> \in Marks(mbase, mtail) /\ Marks(e, <<>>) = {<<e.wal, e.last>>}
    BY <1>1, ReadBackMarks
  <2> HIDE DEF e
  <2>3. Marks(mbase', mtail') = Marks(e, <<>>)
    BY <2>1 DEF e
  <2>4. mbase' = LoadedEdit
    BY <2>1 DEF LoadedEdit
  <2> QED BY <2>1, <2>2, <2>3, <2>4
<1> QED BY <1>2, <1>3

\* The last sequence number after recovery bounds what was replayed.
LEMMA RecoveredBound ==
  ASSUME WellOrdered, IInv, NEW e \in Edits
  PROVE  /\ e.last <= RecoveredLast(wals, e) /\ RecoveredLast(wals, e) \in Nat
         /\ \A n \in DOMAIN wals : n >= e.wal => Bounded(wals, n, RecoveredLast(wals, e))
<1> USE Zenon
<1> DEFINE R == ReplayedVersions(wals, e)
           f == [v \in R |-> v.seq]
           Q == {v.seq : v \in R}
           X == {e.last} \cup Q
<1>1. R \in VersionSets
  BY ReplayedVersionsType DEF IInv, TypeOK, DiskTypeOK
<1>2. IsFiniteSet(R) /\ R \subseteq Version
  BY <1>1 DEF VersionSets, FiniteSubsets
<1>3. \A n \in DOMAIN wals : n >= e.wal =>
        \A i \in DOMAIN wals[n].recs : \A v \in wals[n].recs[i] : v \in R
  BY SMT DEF ReplayedVersions, RecordedVersions
<1> HIDE DEF R
<1>4. Q = {f[v] : v \in R} /\ Q \subseteq Nat /\ e.last \in Nat
  BY <1>2 DEF Version, Versions, Edits
<1>5. IsFiniteSet(Q)
  <2> HIDE DEF f, Q
  <2> QED BY <1>2, <1>4, FiniteImage
<1>6. IsFiniteSet(X)
  <2> HIDE DEF Q
  <2>1. IsFiniteSet({e.last})
    BY FiniteSmall
  <2> QED BY <1>5, <2>1, FiniteUnion
<1>7. X \in SUBSET Nat /\ X # {} /\ e.last \in X /\ \A v \in R : v.seq \in X
  BY <1>4
<1>8. RecoveredLast(wals, e) = Max(X)
  BY DEF RecoveredLast, R
<1> HIDE DEF X
<1>9. Max(X) \in X /\ \A x \in X : x <= Max(X)
  BY <1>6, <1>7, MaxProperties
<1>10. \A n \in DOMAIN wals : n >= e.wal => Bounded(wals, n, Max(X))
  BY <1>3, <1>7, <1>9 DEF Bounded
<1> QED BY <1>7, <1>8, <1>9, <1>10

\* What a write does to the log.
LEMMA WriteAppends ==
  ASSUME IInv, NEW b \in Batches, Write(b)
  PROVE  LET r == BatchVersions(b, edit.last + 1)
             a == activeWal
             f == wals[a]
             k == Len(f.recs)
         IN  /\ mu = "free" /\ mu' = "write" /\ ~bgError /\ ~closed
             /\ UNCHANGED <<mbase, mtail, closed, activeWal, edit, bgError, pending>>
             /\ a \in Nat /\ DOMAIN wals \in SUBSET Nat /\ edit.last \in Nat /\ a \in DOMAIN wals
             /\ r \in BatchRecords(Version) /\ \A v \in r : v.seq \in Nat /\ edit.last < v.seq
             /\ DOMAIN wals' = DOMAIN wals /\ \A n \in DOMAIN wals : n # a => wals'[n] = wals[n]
             /\ k \in Nat /\ DOMAIN f.recs = 1..k /\ DOMAIN wals'[a].recs = 1..(k + 1)
             /\ Len(wals'[a].recs) = k + 1 /\ wals'[a].recs[k + 1] = r
             /\ \A i \in 1..k : wals'[a].recs[i] = f.recs[i]
             /\ wals'[a].synced = f.synced
<1> USE Zenon
<1> DEFINE r == BatchVersions(b, edit.last + 1)
           a == activeWal
           f == wals[a]
           k == Len(f.recs)
<1>1. /\ mu = "free" /\ mu' = "write" /\ ~bgError /\ ~closed
      /\ UNCHANGED <<mbase, mtail, closed, activeWal, edit, bgError, pending>>
      /\ wals' = [wals EXCEPT ![a] = AppendRecord(@, r)]
  BY DEF Write, memory
<1>2. /\ a \in Nat /\ DOMAIN wals \in SUBSET Nat /\ edit.last \in Nat /\ a \in DOMAIN wals
      /\ f \in WALFiles(Version) /\ f.recs \in Seq(BatchRecords(Version))
  BY <1>1, OrderTypes DEF IInv, WALInv
<1>3. r \in BatchRecords(Version) /\ \A v \in r : v.seq \in Nat /\ edit.last < v.seq
  <2>1. edit.last + 1 \in Nat
    BY <1>2, SMT
  <2>2. r \in BatchRecords(Version)
    BY <2>1, BatchVersionsType
  <2>3. \A v \in r : v.seq \in Nat
    BY <2>2 DEF BatchRecords, Version, Versions
  <2>4. \A i \in DOMAIN b : i \in Nat /\ i >= 1
    <3>1. b \in Seq([key : Keys, deleted : BOOLEAN])
      BY BatchesAreNonEmpty
    <3> QED BY <3>1, SMT
  <2>5. \A v \in r : edit.last < v.seq
    BY <1>2, <2>4, SMT DEF BatchVersions
  <2> QED BY <2>2, <2>3, <2>5
<1>4. /\ DOMAIN wals' = DOMAIN wals /\ wals'[a].recs = Append(f.recs, r) /\ wals'[a].synced = f.synced
      /\ \A n \in DOMAIN wals : n # a => wals'[n] = wals[n]
  <2>1. AppendRecord(f, r).recs = Append(f.recs, r) /\ AppendRecord(f, r).synced = f.synced
    BY <1>2 DEF AppendRecord, WALFiles
  <2> HIDE DEF r
  <2> QED BY <1>1, <1>2, <2>1
<1>5. /\ k \in Nat /\ DOMAIN f.recs = 1..k /\ DOMAIN wals'[a].recs = 1..(k + 1)
      /\ Len(wals'[a].recs) = k + 1 /\ wals'[a].recs[k + 1] = r
      /\ \A i \in 1..k : wals'[a].recs[i] = f.recs[i]
  <2> DEFINE S == BatchRecords(Version)
             g == Append(f.recs, r)
  <2>1. f.recs \in Seq(S) /\ r \in S
    BY <1>2, <1>3
  <2> HIDE DEF S, r
  <2>2. /\ g \in Seq(S) /\ Len(g) = k + 1 /\ g[k + 1] = r /\ \A i \in 1..k : g[i] = f.recs[i]
    BY <2>1, SMT
  <2>3. k \in Nat /\ DOMAIN f.recs = 1..k /\ DOMAIN g = 1..(k + 1)
    BY <2>1, <2>2, SMT
  <2> QED BY <1>4, <2>2, <2>3
<1> QED BY <1>1, <1>2, <1>3, <1>4, <1>5

\* The first and the last sequence number of a record bound the others.
LEMMA RecordBounds ==
  ASSUME WellOrdered, NEW r \in BatchRecords(Version)
  PROVE  /\ \A v \in r : v.seq \in Nat /\ FirstSeq(r) <= v.seq /\ v.seq <= LastSeq(r)
         /\ \E v \in r : v.seq = FirstSeq(r)
         /\ \E v \in r : v.seq = LastSeq(r)
<1> USE Zenon
<1> DEFINE f == [v \in r |-> v.seq]
           S == {v.seq : v \in r}
<1>1. S = {f[v] : v \in r}
  BY SMT
<1>2. IsFiniteSet(S)
  <2>1. IsFiniteSet(r)
    BY DEF BatchRecords
  <2> HIDE DEF f, S
  <2> QED BY <1>1, <2>1, FiniteImage
<1>3. S \in SUBSET Nat /\ S # {}
  BY DEF BatchRecords, Version, Versions
<1>4. /\ \A v \in r : v.seq \in S
      /\ \A x \in S : \E v \in r : v.seq = x
  BY SMT
<1>5. LastSeq(r) = Max(S) /\ FirstSeq(r) = Min(S)
  BY DEF LastSeq, FirstSeq
<1> HIDE DEF S
<1>6. Max(S) \in S /\ \A x \in S : x <= Max(S)
  BY <1>2, <1>3, MaxProperties
<1>7. Min(S) \in S /\ \A x \in S : Min(S) <= x
  BY <1>3, MinProperties
<1> QED BY <1>3, <1>4, <1>5, <1>6, <1>7

\* While a write waits for its record, that one has the highest numbers.
LEMMA InWriteOrder ==
  ASSUME WellOrdered, IInv, OrderInv, mu = "write"
  PROVE  LET s == LastSeq(Appended)
         IN  /\ ~closed /\ ~bgError /\ activeWal \in DOMAIN wals /\ activeWal \in Nat
             /\ wals[activeWal].recs \in Seq(BatchRecords(Version))
             /\ Len(wals[activeWal].recs) > 0
             /\ ActiveInv /\ edit.wal <= activeWal
             /\ \A p \in Marks(mbase, mtail) : p[1] <= activeWal
             /\ s \in Nat /\ \A n \in DOMAIN wals : Bounded(wals, n, s)
             /\ AppliedEdit \in Edits /\ AppliedEdit.last = s
             /\ AppliedEdit.wal = edit.wal /\ AppliedEdit.next = edit.next
             /\ DOMAIN SyncedWALs = DOMAIN wals
             /\ \A n \in DOMAIN wals : SyncedWALs[n].recs = wals[n].recs
<1> USE Zenon
<1> DEFINE s == LastSeq(Appended)
           a == activeWal
           f == wals[a]
           k == Len(f.recs)
<1>1. ~closed /\ ~bgError
  BY DEF IInv, ControlInv, OrderInv
<1>2. /\ a \in DOMAIN wals /\ a \in Nat /\ f.recs \in Seq(BatchRecords(Version)) /\ k > 0
      /\ edit \in Edits /\ edit.last \in Nat /\ DOMAIN wals \in SUBSET Nat
      /\ f \in WALFiles(Version)
  BY <1>1, OrderTypes DEF IInv, WALInv
<1>3. ActiveInv /\ edit.wal <= a /\ \A p \in Marks(mbase, mtail) : p[1] <= a
  BY <1>1 DEF OrderInv, ActiveInv
<1>4. /\ k \in Nat /\ DOMAIN f.recs = 1..k /\ k \in 1..k
      /\ \A i \in 1..k : i = k \/ i \in 1..(k - 1)
  <2> DEFINE S == BatchRecords(Version)
  <2>1. f.recs \in Seq(S)
    BY <1>2
  <2> HIDE DEF S
  <2>2. k \in Nat /\ DOMAIN f.recs = 1..k
    BY <2>1, SMT
  <2> HIDE DEF k
  <2> QED BY <1>2, <2>2, SMT
<1>5. Appended = f.recs[k] /\ Appended \in BatchRecords(Version)
  <2>1. Appended = f.recs[k]
    BY DEF Appended
  <2>2. \A i \in DOMAIN f.recs : f.recs[i] \in BatchRecords(Version)
    BY <1>2, OrderTypes
  <2> QED BY <1>4, <2>1, <2>2
<1>6. s \in Nat /\ \A v \in Appended : v.seq \in Nat /\ v.seq <= s /\ edit.last < v.seq
  BY <1>5, LastSeqType, RecordBounds DEF OrderInv
<1>7. edit.last <= s
  <2>1. PICK v \in Appended : TRUE
    BY <1>5 DEF BatchRecords
  <2> HIDE DEF s
  <2> QED BY <1>2, <1>6, <2>1, SMT
<1>8. \A n \in DOMAIN wals : \A i \in DOMAIN wals[n].recs : \A v \in wals[n].recs[i] : v.seq \in Nat
  <2>1. \A n \in DOMAIN wals : \A i \in DOMAIN wals[n].recs :
          wals[n].recs[i] \in BatchRecords(Version)
    BY OrderTypes
  <2> QED BY <2>1 DEF BatchRecords, Version, Versions
<1>9. \A i \in 1..(k - 1) : \A v \in f.recs[i] : v.seq <= edit.last
  BY DEF OrderInv
<1>10. AppliedEdit \in Edits /\ AppliedEdit.last = s
       /\ AppliedEdit.wal = edit.wal /\ AppliedEdit.next = edit.next
  <2>1. AppliedEdit = [edit EXCEPT !.last = s]
    BY DEF AppliedEdit
  <2>2. s \in Nat
    BY <1>6
  <2> HIDE DEF s
  <2> QED BY <1>2, <2>1, <2>2 DEF Edits
<1>11. /\ DOMAIN SyncedWALs = DOMAIN wals
       /\ \A n \in DOMAIN wals : SyncedWALs[n].recs = wals[n].recs
  <2> DEFINE x == SyncFile(f)
  <2>1. SyncedWALs = [wals EXCEPT ![a] = x]
    BY DEF SyncedWALs
  <2>2. x.recs = f.recs
    BY <1>2, <1>5, WALOperationTypes
  <2> HIDE DEF x
  <2> QED BY <1>2, <2>1, <2>2
<1> HIDE DEF s, k
<1>12. \A n \in DOMAIN wals : Bounded(wals, n, s)
  <2>1. ASSUME NEW n \in DOMAIN wals, n < a PROVE Bounded(wals, n, s)
    <3>1. Bounded(wals, n, edit.last)
      BY <1>3, <2>1 DEF ActiveInv
    <3> QED BY <1>2, <1>6, <1>7, <1>8, <3>1, SMT DEF Bounded
  <2>2. ASSUME NEW n \in DOMAIN wals, a < n PROVE Bounded(wals, n, s)
    BY <1>3, <2>2 DEF ActiveInv, Bounded
  <2>3. Bounded(wals, a, s)
    <3>1. ASSUME NEW i \in DOMAIN f.recs, NEW v \in f.recs[i] PROVE v.seq <= s
      <4>1. CASE i = k
        BY <1>5, <1>6, <4>1
      <4>2. CASE i \in 1..(k - 1)
        <5>1. v.seq <= edit.last /\ v.seq \in Nat
          BY <1>2, <1>8, <1>9, <4>2
        <5> QED BY <1>2, <1>6, <1>7, <5>1, SMT
      <4> QED BY <1>4, <4>1, <4>2
    <3> QED BY <3>1 DEF Bounded
  <2>4. \A n \in DOMAIN wals : n < a \/ n = a \/ a < n
    BY <1>2, SMT
  <2> QED BY <2>1, <2>2, <2>3, <2>4
<1> QED BY <1>1, <1>2, <1>3, <1>6, <1>10, <1>11, <1>12 DEF s, k

-----------------------------------------------------------------------------
(***************************************************************************)
(* A new database, and what the invariants say of a crash.                 *)
(***************************************************************************)

\* The log of a new database is in order.
LEMMA InitOrder ==
  ASSUME WellOrdered, IInv, Init, LoadedEdit = Replay(mbase, mtail) PROVE OrderInv
<1> USE Zenon
<1>1. /\ mbase = FirstEdit /\ mtail = <<>> /\ closed /\ mu = "free"
      /\ worker = IdleWorker /\ comp = NoCompaction /\ wals = <<>>
  BY DEF Init
<1>2. mbase \in Edits /\ mtail \in Seq(Records) /\ LoadedEdit \in Edits
  BY OrderTypes, RecoveryFacts DEF LoadedEdit
<1>3. Marks(mbase, mtail) = {<<mbase.wal, mbase.last>>}
  BY <1>1, SMT DEF Marks
<1>4. <<LoadedEdit.wal, LoadedEdit.last>> \in Marks(mbase, mtail)
  BY <1>2, ReplayMark
<1>5. Marks(mbase, mtail) = {<<LoadedEdit.wal, LoadedEdit.last>>} /\ LoadedEdit.wal \in Nat
  BY <1>2, <1>3, <1>4, SMT DEF Edits
<1>6. DOMAIN wals = {}
  BY <1>1, SMT
<1> QED BY <1>1, <1>5, <1>6, SMT DEF OrderInv, Ordered, Saving

\* The WALs that a version keeps alive replay in order.
LEMMA ImagesReplay ==
  ASSUME WellOrdered, IInv, OrderInv, NEW e PROVE ReplaysInOrder(wals, LiveWALs(e))
<1> USE Zenon
<1> SUFFICES ASSUME NEW n1 \in DOMAIN wals, NEW n2 \in DOMAIN wals,
                    NEW i1 \in DOMAIN wals[n1].recs, NEW i2 \in DOMAIN wals[n2].recs,
                    n1 < n2 \/ (n1 = n2 /\ i1 < i2)
             PROVE  LastSeq(wals[n1].recs[i1]) < FirstSeq(wals[n2].recs[i2])
  BY DEF ReplaysInOrder, LiveWALs
<1> DEFINE r1 == wals[n1].recs[i1]
           r2 == wals[n2].recs[i2]
<1>1. r1 \in BatchRecords(Version) /\ r2 \in BatchRecords(Version)
  BY OrderTypes
<1>2. \A v1 \in r1, v2 \in r2 : v1.seq < v2.seq
  BY DEF OrderInv, Ordered
<1> HIDE DEF r1, r2
<1>3. PICK v1 \in r1 : v1.seq = LastSeq(r1)
  BY <1>1, RecordBounds
<1>4. PICK v2 \in r2 : v2.seq = FirstSeq(r2)
  BY <1>1, RecordBounds
<1>5. LastSeq(r1) < FirstSeq(r2)
  BY <1>2, <1>3, <1>4
<1> QED BY <1>5 DEF r1, r2

-----------------------------------------------------------------------------
(***************************************************************************)
(* Every step keeps the order of the records.                              *)
(***************************************************************************)

\* The version that a save begins with: the one in memory, but for its files and for
\* the oldest WAL that it needs.
LEMMA SaveBegins ==
  ASSUME IInv, IInv', FlushPublishes \/ CompactionPublishes \/ CloseSaves
  PROVE  \E new \in Edits :
           /\ SaveAppends(new) /\ pending' = new /\ new.last = edit.last
           /\ mu' = "flush" => new.wal = NextLiveWAL
           /\ mu' = "compact" => new.wal = edit.wal
           /\ mu' = "close" => new.wal = edit.next
<1> USE Zenon
<1> SUFFICES \E new :
               /\ SaveAppends(new) /\ new.last = edit.last
               /\ mu' = "flush" => new.wal = NextLiveWAL
               /\ mu' = "compact" => new.wal = edit.wal
               /\ mu' = "close" => new.wal = edit.next
  BY DEF SaveAppends, IInv, TypeOK, ThreadsTypeOK
<1> DEFINE F == edit.files \cup {MetaOf(worker.num, 0, worker.ents)}
<1>1. edit \in Edits
  BY OrderTypes
<1>2. CASE FlushPublishes
  <2> DEFINE w == NextLiveWAL
             new == [edit EXCEPT !.files = F, !.wal = w]
  <2>1. SaveAppends(new) /\ mu' = "flush"
    BY <1>2 DEF FlushPublishes
  <2> HIDE DEF F, w
  <2>2. new.last = edit.last /\ new.wal = w
    BY <1>1 DEF Edits
  <2> HIDE DEF new
  <2> QED BY <2>1, <2>2 DEF w
<1>3. CASE CompactionPublishes
  <2>1. PICK G : SaveAppends([edit EXCEPT !.files = G]) /\ mu' = "compact"
    BY <1>3 DEF CompactionPublishes
  <2> DEFINE new == [edit EXCEPT !.files = G]
  <2>2. new.last = edit.last /\ new.wal = edit.wal
    BY <1>1 DEF Edits
  <2> HIDE DEF new
  <2> QED BY <2>1, <2>2 DEF new
<1>4. CASE CloseSaves
  <2> DEFINE a == edit.next + 1
             w == edit.next
             new == [edit EXCEPT !.next = a, !.wal = w]
  <2>1. SaveAppends(new) /\ mu' = "close"
    BY <1>4 DEF CloseSaves
  <2> HIDE DEF a, w
  <2>2. new.last = edit.last /\ new.wal = w
    BY <1>1 DEF Edits
  <2> HIDE DEF new
  <2> QED BY <2>1, <2>2 DEF w
<1> QED BY <1>2, <1>3, <1>4

\* A successful save makes no marks.
LEMMA SavedMarks ==
  ASSUME WellOrdered, IInv, OrderInv, SaveSucceeds, Saving
  PROVE  /\ Marks(mbase', mtail') \subseteq Marks(mbase, mtail)
         /\ edit' = pending /\ edit'.last = edit.last
         /\ edit'.next \in Nat /\ edit.next <= edit'.next
<1> USE Zenon
<1>1. mbase \in Edits /\ mtail \in Seq(Records) /\ pending.next \in Nat
  BY OrderTypes
<1>2. mbase' = Replay(mbase, IntactPrefix(mtail)) /\ mtail' = TornRest(mtail) /\ edit' = pending
  BY DEF SaveSucceeds
<1>3. Marks(mbase', mtail') \subseteq Marks(mbase, mtail)
  BY <1>1, <1>2, ReadBackMarks
<1> QED BY <1>1, <1>2, <1>3 DEF OrderInv, IInv, ManifestInv

\* A log without torn records is replayed to its last record.
LEMMA WholeLog ==
  ASSUME WellOrdered, NEW base \in Edits, NEW log \in Seq(Records), TornRest(log) = <<>>
  PROVE  Replay(base, IntactPrefix(log)).wal
           = IF Len(log) = 0 THEN base.wal ELSE log[Len(log)].wal
<1> USE Zenon
<1> DEFINE p == IntactPrefix(log)
           k == Len(p)
           L == Len(log)
<1>1. /\ p \in Seq(Records) /\ k <= L
      /\ \A i \in DOMAIN p : i \in DOMAIN log /\ p[i] = log[i]
  BY LogPartTypes
<1>2. k \in Nat /\ L \in Nat /\ DOMAIN p = 1..k
  BY <1>1, SMT
<1>3. ~(k < L)
  <2> SUFFICES ASSUME k < L PROVE FALSE
    BY SMT
  <2>1. \A i \in (k + 1)..L : log[i] \in Records
    <3>1. DOMAIN log = 1..L /\ \A i \in 1..L : log[i] \in Records
      BY SMT
    <3> HIDE DEF p, k, L
    <3>2. \A i \in (k + 1)..L : i \in 1..L
      BY <1>2, SMT
    <3> QED BY <3>1, <3>2
  <2>2. SubSeq(log, k + 1, L) = <<>>
    BY DEF TornRest
  <2> HIDE DEF k, L
  <2>3. Len(SubSeq(log, k + 1, L)) = L - (k + 1) + 1
    BY <1>2, <2>1, SMT
  <2>4. L - (k + 1) + 1 # 0
    BY <1>2, SMT
  <2>5. Len(<<>>) = 0
    BY SMT
  <2> QED BY <2>2, <2>3, <2>4, <2>5
<1>4. Replay(base, p).wal = IF k = 0 THEN base.wal ELSE p[k].wal
  BY DEF Replay
<1>5. k = L /\ (L # 0 => L \in DOMAIN p)
  <2> HIDE DEF p, k, L
  <2> QED BY <1>1, <1>2, <1>3, SMT
<1> HIDE DEF p, k, L
<1>6. Replay(base, p).wal = IF L = 0 THEN base.wal ELSE log[L].wal
  BY <1>1, <1>4, <1>5
<1> QED BY <1>6 DEF p, L

\* Every step keeps the WAL records in order and covered by the manifest, as long
\* as no save leaves a torn record behind in a log that is written on.
LEMMA NextOrder ==
  ASSUME WellOrdered, "torn" \notin SaveFailures
  PROVE  /\ IInv /\ IInv' /\ OrderInv /\ (~closed => TornRest(mtail) = <<>>)
         /\ [Next]_vars
         => OrderInv'
\* What is kept of files stays in order and bounded.
<1>KeptOrder.
  ASSUME NEW old, NEW new, Kept(old, new)
  PROVE  /\ Ordered(old) => Ordered(new)
         /\ \A s : \A n \in DOMAIN new :
              (n \in DOMAIN old => Bounded(old, n, s)) => Bounded(new, n, s)
  <2> USE <1>KeptOrder
  <2> USE Zenon
  <2>1. ASSUME Ordered(old) PROVE Ordered(new)
    BY <2>1 DEF Kept, Ordered
  <2>2. ASSUME NEW n \in DOMAIN new, NEW s, n \in DOMAIN old => Bounded(old, n, s)
        PROVE  Bounded(new, n, s)
    BY <2>2 DEF Kept, Bounded
  <2> QED BY <2>1, <2>2
\* A step that leaves the manifest alone and removes no record of the active WAL.
<1>LeavesOrder.
  ASSUME IInv, OrderInv,
         UNCHANGED <<mbase, mtail, closed, activeWal, mu, pending>>,
         edit'.last = edit.last, edit'.wal = edit.wal,
         edit'.next \in Nat, edit.next <= edit'.next,
         bgError => bgError', mu \in {"write", "rotate"} => bgError' = bgError,
         closed => wals' = wals,
         Kept(wals, wals'), DOMAIN wals' \subseteq DOMAIN wals,
         ~closed => wals'[activeWal] = wals[activeWal]
  PROVE  OrderInv'
  <2> USE <1>LeavesOrder
  <2> USE Zenon
  <2> DEFINE M == Marks(mbase, mtail)
  <2>1. M' = M /\ LoadedEdit' = LoadedEdit
    BY DEF Marks, LoadedEdit
  <2>2. /\ edit.next \in Nat /\ DOMAIN wals \in SUBSET Nat /\ activeWal \in Nat
        /\ ~closed => activeWal \in DOMAIN wals
        /\ mu = "write" => ~closed
    BY OrderTypes DEF IInv, WALInv, ControlInv
  <2> HIDE DEF M
  <2>3. Ordered(wals)'
    BY <1>KeptOrder DEF OrderInv
  <2>4. \A p \in M' : \A n \in DOMAIN wals' : n < p[1] => Bounded(wals', n, p[2])
    <3>1. \A p \in M : \A n \in DOMAIN wals : n < p[1] => Bounded(wals, n, p[2])
      BY DEF OrderInv, M
    <3> QED BY <2>1, <3>1, <1>KeptOrder
  <2>5. (closed /\ TornRest(mtail) = <<>> =>
           \A p \in M : p[1] <= LoadedEdit.wal \/ \E n \in DOMAIN wals : p[1] <= n)'
    <3>1. closed /\ TornRest(mtail) = <<>> =>
           \A p \in M : p[1] <= LoadedEdit.wal \/ \E n \in DOMAIN wals : p[1] <= n
      BY DEF OrderInv, M
    <3> QED BY <2>1, <3>1
  <2>6. ASSUME ~closed' PROVE ActiveInv'
    <3>1. ActiveInv /\ ~closed
      BY <2>6 DEF OrderInv
    <3>2. \A n \in DOMAIN wals' : n <= edit'.next
      BY <2>2, <3>1, SMT DEF ActiveInv
    <3>3. \A n \in DOMAIN wals' : activeWal < n => DOMAIN wals'[n].recs = {}
      BY <3>1 DEF ActiveInv, Kept
    <3>4. \A n \in DOMAIN wals' : n < activeWal => Bounded(wals', n, edit.last)
      BY <3>1, <1>KeptOrder DEF ActiveInv
    <3>5. ~bgError' /\ mu # "write" => Bounded(wals', activeWal, edit.last)
      BY <3>1 DEF ActiveInv, Bounded
    <3>6. mu \notin {"close", "purge"} => edit.wal <= activeWal /\ \A p \in M : p[1] <= activeWal
      BY <3>1 DEF ActiveInv, M
    <3> QED BY <2>1, <3>2, <3>3, <3>4, <3>5, <3>6 DEF ActiveInv, M
  <2>7. (mu = "write" =>
         LET f == wals[activeWal]
         IN  /\ \A i \in 1..(Len(f.recs) - 1) : \A v \in f.recs[i] : v.seq <= edit.last
             /\ \A v \in Appended : edit.last < v.seq)'
    <3>1. mu = "write" => Appended' = Appended
      BY <2>2 DEF Appended
    <3> QED BY <2>2, <3>1 DEF OrderInv
  <2>8. (/\ mu \in {"write", "rotate"} => ~bgError
         /\ mu = "close" =>
              \A p \in Marks(mbase, SubSeq(mtail, 1, Len(mtail) - 1)) : p[1] <= activeWal
         /\ mu = "purge" => mtail = <<>>
         /\ Saving => pending.last = edit.last
         /\ mu \in {"rotate", "flush", "compact"} => pending.wal <= activeWal)'
    BY SMT DEF OrderInv, Saving, Marks
  <2> QED BY <2>3, <2>4, <2>5, <2>6, <2>7, <2>8 DEF OrderInv, M
\* A step of a save, other than a writer's: the manifest may get a mark, at most
\* as high as the files whose sequence numbers the version knows.
<1>ManifestOrder.
  ASSUME IInv, OrderInv, ~closed, ~closed', UNCHANGED <<wals, activeWal>>,
         NEW w \in Nat, \A n \in DOMAIN wals : n < w => Bounded(wals, n, edit.last),
         Marks(mbase', mtail') \subseteq Marks(mbase, mtail) \cup {<<w, edit.last>>},
         edit'.last = edit.last, edit'.next \in Nat, edit.next <= edit'.next,
         bgError => bgError', mu # "write", mu' \notin {"write", "rotate"},
         mu' \notin {"close", "purge"} =>
           mu \notin {"close", "purge"} /\ w <= activeWal /\ edit'.wal <= activeWal,
         mu' = "close" =>
           \A p \in Marks(mbase', SubSeq(mtail', 1, Len(mtail') - 1)) : p[1] <= activeWal,
         mu' = "purge" => mtail' = <<>>,
         Saving' => pending'.last = edit'.last,
         mu' \in {"flush", "compact"} => pending'.wal <= activeWal
  PROVE  OrderInv'
  <2> USE <1>ManifestOrder
  <2> USE Zenon
  <2> DEFINE M == Marks(mbase, mtail)
  <2>1. edit.next \in Nat /\ DOMAIN wals \in SUBSET Nat /\ activeWal \in Nat
    BY OrderTypes
  <2>2. M' \subseteq M \cup {<<w, edit.last>>}
    BY SMT
  <2>3. ActiveInv
    BY DEF OrderInv
  <2>4. \A p \in M : \A n \in DOMAIN wals : n < p[1] => Bounded(wals, n, p[2])
    BY DEF OrderInv
  <2>5. mu \notin {"close", "purge"} => \A p \in M : p[1] <= activeWal
    BY <2>3 DEF ActiveInv
  <2> HIDE DEF M
  <2>6. \A p \in M' : \A n \in DOMAIN wals' : n < p[1] => Bounded(wals', n, p[2])
    BY <2>2, <2>4, SMT
  <2>7. Ordered(wals')
    BY DEF OrderInv
  <2>8. ActiveInv'
    <3>1. \A n \in DOMAIN wals : n <= edit'.next /\ (activeWal < n => DOMAIN wals[n].recs = {})
      BY <2>1, <2>3, SMT DEF ActiveInv
    <3>2. /\ \A n \in DOMAIN wals : n < activeWal => Bounded(wals, n, edit.last)
          /\ ~bgError' => Bounded(wals, activeWal, edit.last)
      BY <2>3 DEF ActiveInv
    <3>3. mu' \notin {"close", "purge"} =>
            edit'.wal <= activeWal /\ \A p \in M' : p[1] <= activeWal
      BY <2>2, <2>5, SMT
    <3> QED BY <3>1, <3>2, <3>3 DEF ActiveInv, M
  <2> QED BY <2>6, <2>7, <2>8 DEF OrderInv, M
\* The worker or a compaction begins to save its version, or Close does.
<1>SaveBeginsOrder.
  ASSUME IInv, IInv', OrderInv, FlushPublishes \/ CompactionPublishes \/ CloseSaves
  PROVE  OrderInv'
  <2> USE <1>SaveBeginsOrder
  <2> USE Zenon
  <2>1. /\ UNCHANGED <<wals, closed, activeWal, edit, bgError>> /\ ~closed /\ mu = "free"
        /\ mu' \in {"flush", "compact", "close"}
    BY DEF FlushPublishes, CompactionPublishes, CloseSaves, memory, IInv, ControlInv,
         InputsUnchanged, Joined
  <2>2. PICK new \in Edits :
          /\ SaveAppends(new) /\ pending' = new /\ new.last = edit.last
          /\ mu' = "flush" => new.wal = NextLiveWAL
          /\ mu' = "compact" => new.wal = edit.wal
          /\ mu' = "close" => new.wal = edit.next
    BY SaveBegins
  <2>3. pending' = new /\ new \in Edits /\ new.wal \in Nat
    BY <2>2 DEF Edits
  <2>4. /\ Marks(mbase', mtail') = Marks(mbase, mtail) \cup {<<new.wal, edit.last>>}
        /\ SubSeq(mtail', 1, Len(mtail') - 1) = mtail
    BY <2>2, <2>3, SaveMarks
  <2>5. ActiveInv /\ edit.wal <= activeWal /\ \A p \in Marks(mbase, mtail) : p[1] <= activeWal
    BY <2>1 DEF OrderInv, ActiveInv
  <2>6. /\ DOMAIN wals \in SUBSET Nat /\ activeWal \in Nat /\ edit.next \in Nat
        /\ activeWal < edit.next
    BY <2>1, OrderTypes DEF IInv, WALInv
  <2>7. mu' \in {"flush", "compact"} => new.wal <= activeWal
    BY <2>1, <2>2, <2>3, <2>5 DEF IInv, WALInv
  <2>8. \A n \in DOMAIN wals : n < new.wal => Bounded(wals, n, edit.last)
    <3>1. CASE mu' \in {"flush", "compact"}
      BY <2>3, <2>5, <2>6, <2>7, <3>1, SMT DEF ActiveInv
    <3>2. CASE mu' = "close"
      <4>1. ~bgError
        BY <2>1, <3>2 DEF FlushPublishes, CompactionPublishes, CloseSaves
      <4>2. Bounded(wals, activeWal, edit.last)
        BY <2>1, <2>5, <4>1 DEF ActiveInv
      <4>3. \A n \in DOMAIN wals : activeWal < n => Bounded(wals, n, edit.last)
        BY <2>5 DEF ActiveInv, Bounded
      <4>4. \A n \in DOMAIN wals : n < activeWal \/ n = activeWal \/ activeWal < n
        BY <2>6, SMT
      <4> QED BY <2>5, <4>2, <4>3, <4>4 DEF ActiveInv
    <3> QED BY <2>1, <3>1, <3>2
  <2>9. mbase' = mbase
    BY <2>2 DEF SaveAppends
  <2>10. mu' = "close" =>
           \A p \in Marks(mbase', SubSeq(mtail', 1, Len(mtail') - 1)) : p[1] <= activeWal
    BY <2>4, <2>5, <2>9
  <2>11. /\ edit'.last = edit.last /\ edit'.next \in Nat /\ edit.next <= edit'.next
         /\ ~closed' /\ mu # "write" /\ mu' \notin {"write", "rotate", "purge"}
         /\ mu' \notin {"close", "purge"} =>
              mu \notin {"close", "purge"} /\ new.wal <= activeWal /\ edit'.wal <= activeWal
    BY <2>1, <2>5, <2>6, <2>7, SMT
  <2>12. /\ pending'.last = edit'.last
         /\ mu' \in {"flush", "compact"} => pending'.wal <= activeWal
    BY <2>1, <2>2, <2>3, <2>7
  <2> QED BY <2>1, <2>3, <2>4, <2>8, <2>10, <2>11, <2>12, <1>ManifestOrder
\* The worker, a compaction or Close has saved its version.
<1>SavedOrder.
  ASSUME WellOrdered, IInv, OrderInv, TornRest(mtail) = <<>>,
         FlushSucceeds \/ CompactionSucceeds \/ CloseSaved
  PROVE  OrderInv'
  <2> USE <1>SavedOrder
  <2> USE Zenon
  <2>1. /\ SaveSucceeds /\ Saving /\ UNCHANGED <<wals, closed, activeWal, bgError>>
        /\ \/ mu \in {"flush", "compact"} /\ mu' = "free"
           \/ mu = "close" /\ mu' = "purge"
    BY DEF FlushSucceeds, CompactionSucceeds, CloseSaved, Saving
  <2>2. ~closed
    BY <2>1 DEF Saving, IInv, ControlInv
  <2>3. /\ Marks(mbase', mtail') \subseteq Marks(mbase, mtail)
        /\ edit' = pending /\ edit'.last = edit.last
        /\ edit'.next \in Nat /\ edit.next <= edit'.next
    BY <2>1, SavedMarks
  <2>4. ActiveInv /\ (mu \in {"flush", "compact"} => pending.wal <= activeWal)
    BY <2>2 DEF OrderInv
  <2>5. DOMAIN wals \in SUBSET Nat /\ activeWal \in Nat /\ 0 \in Nat
    BY OrderTypes
  <2>6. \A n \in DOMAIN wals : n < 0 => Bounded(wals, n, edit.last)
    BY <2>5, SMT
  <2>7. mtail' = <<>>
    BY <2>1 DEF SaveSucceeds
  <2>8. 0 <= activeWal /\ (mu' \notin {"close", "purge"} => edit'.wal <= activeWal)
    BY <2>1, <2>3, <2>4, <2>5, SMT
  <2>9. ~Saving' /\ mu' \notin {"write", "rotate", "flush", "compact", "close"} /\ mu # "write"
    BY <2>1 DEF Saving
  <2> QED BY <2>1, <2>2, <2>3, <2>5, <2>6, <2>7, <2>8, <2>9, <1>ManifestOrder
\* A save of a database that goes on has failed.
<1>SaveFailsOrder.
  ASSUME IInv, OrderInv, "torn" \notin SaveFailures,
         RotateFails \/ FlushFails \/ CompactionFails
  PROVE  OrderInv'
  <2> USE <1>SaveFailsOrder
  <2> USE Zenon
  <2>1. /\ SaveFails /\ Saving /\ mu # "close"
        /\ UNCHANGED <<wals, closed, activeWal, edit, mbase>> /\ bgError' /\ mu' = "free"
    BY DEF RotateFails, FlushFails, CompactionFails, Saving, SaveFails
  <2>2. ~closed
    BY <2>1 DEF Saving, IInv, ControlInv
  <2>3. PICK how \in SaveFailures : mtail' = SaveLeaves(how)
    BY <2>1 DEF SaveFails
  <2>4. Marks(mbase', mtail') \subseteq Marks(mbase, mtail)
    BY <2>1, <2>3, SaveLeavesMarks
  <2>5. edit.wal <= activeWal /\ mu \notin {"close", "purge", "write"}
    BY <2>1, <2>2 DEF OrderInv, ActiveInv, Saving
  <2>6. DOMAIN wals \in SUBSET Nat /\ activeWal \in Nat /\ edit.next \in Nat /\ 0 \in Nat
    BY OrderTypes
  <2>7. (\A n \in DOMAIN wals : n < 0 => Bounded(wals, n, edit.last)) /\ 0 <= activeWal
    BY <2>6, SMT
  <2>8. ~Saving' /\ mu' \notin {"write", "rotate", "flush", "compact", "close", "purge"}
    BY <2>1 DEF Saving
  <2>9. edit'.last = edit.last /\ edit'.next \in Nat /\ edit.next <= edit'.next
    BY <2>1, <2>6, SMT
  <2> QED BY <2>1, <2>2, <2>4, <2>5, <2>6, <2>7, <2>8, <2>9, <1>ManifestOrder
\* Of a closed database only the files matter.
<1>ClosedOrder.
  ASSUME IInv, OrderInv, closed', mu' = "free", Kept(wals, wals'),
         Marks(mbase', mtail') \subseteq Marks(mbase, mtail),
         TornRest(mtail') = <<>> =>
           \A p \in Marks(mbase', mtail') :
             p[1] <= LoadedEdit'.wal \/ \E n \in DOMAIN wals' : p[1] <= n
  PROVE  OrderInv'
  <2> USE <1>ClosedOrder
  <2> USE Zenon
  <2> DEFINE M == Marks(mbase, mtail)
  <2>1. \A p \in M : \A n \in DOMAIN wals : n < p[1] => Bounded(wals, n, p[2])
    BY DEF OrderInv
  <2>2. M' \subseteq M
    BY SMT
  <2> HIDE DEF M
  <2>3. \A p \in M' : \A n \in DOMAIN wals' : n < p[1] => Bounded(wals', n, p[2])
    BY <2>1, <2>2, <1>KeptOrder
  <2>4. Ordered(wals')
    BY <1>KeptOrder DEF OrderInv
  <2> QED BY <2>3, <2>4 DEF OrderInv, M, Saving
\* An empty log of edits has one mark, and the next Open starts from it.
<1>OneMark.
  ASSUME WellOrdered, mbase' \in Edits, mtail' = <<>>
  PROVE  \A p \in Marks(mbase', mtail') : p[1] = LoadedEdit'.wal
  <2> USE <1>OneMark
  <2>1. LoadedEdit'.wal = mbase'.wal
    <3>1. IntactPrefix(<<>>) = <<>>
      <4>1. <<>> \in Seq(Records) /\ Len(<<>>) = 0
        OBVIOUS
      <4>2. /\ IntactPrefix(<<>>) \in Seq(Records)
            /\ Len(IntactPrefix(<<>>)) \in 0..Len(<<>>)
        BY <4>1, LogParts, Zenon
      <4>3. Len(IntactPrefix(<<>>)) = 0
        BY <4>1, <4>2
      <4> QED BY <4>2, <4>3
    <3> QED BY <3>1, Zenon DEF LoadedEdit, Replay
  <2> QED BY <2>1 DEF Marks
\* Close ends without a save.
<1>CloseEndsOrder. ASSUME IInv, OrderInv, CloseEnds PROVE OrderInv'
  <2> USE <1>CloseEndsOrder
  <2> USE Zenon
  <2>1. /\ UNCHANGED <<wals, mbase, mtail>> /\ closed' /\ mu' = "free" /\ ~closed
        /\ mu = "free"
    BY DEF CloseEnds, disk, ResetMemory, Joined, IInv, ControlInv
  <2>2. \A p \in Marks(mbase, mtail) : p[1] <= activeWal
    BY <2>1 DEF OrderInv, ActiveInv
  <2>3. activeWal \in DOMAIN wals
    BY <2>1 DEF IInv, WALInv
  <2>4. Kept(wals, wals')
    BY <2>1 DEF Kept
  <2> QED BY <2>1, <2>2, <2>3, <2>4, <1>ClosedOrder
\* Close ends with a save that failed, which its record may have survived.
<1>CloseSaveFailsOrder.
  ASSUME WellOrdered, IInv, OrderInv, "torn" \notin SaveFailures, CloseSaveFails PROVE OrderInv'
  <2> USE <1>CloseSaveFailsOrder
  <2> USE Zenon
  <2> DEFINE n == Len(mtail)
             s == SubSeq(mtail, 1, n - 1)
  <2>1. /\ UNCHANGED <<wals, mbase>> /\ closed' /\ mu' = "free" /\ mu = "close" /\ Saving
    BY DEF CloseSaveFails, ResetMemory, Saving
  <2>2. PICK how \in SaveFailures : mtail' = SaveLeaves(how)
    BY DEF CloseSaveFails
  <2>3. mtail' \in {s, mtail}
    BY <2>2, FailuresAreKnown DEF SaveLeaves
  <2>4. Marks(mbase', mtail') \subseteq Marks(mbase, mtail)
    BY <2>1, <2>2, SaveLeavesMarks
  <2>5. mbase \in Edits /\ mtail \in Seq(Records) /\ n > 0
    BY <2>1 DEF IInv, TypeOK, DiskTypeOK, ManifestInv
  <2>6. activeWal \in DOMAIN wals
    BY <2>1 DEF IInv, WALInv, ControlInv
  <2>7. \A p \in Marks(mbase, s) : p[1] <= activeWal
    BY <2>1 DEF OrderInv
  <2>8. /\ n \in Nat /\ DOMAIN mtail = 1..n
        /\ DOMAIN s = 1..(n - 1) /\ \A i \in 1..(n - 1) : s[i] = mtail[i]
    <3>1. n \in Nat /\ DOMAIN mtail = 1..n /\ \A i \in 1..(n - 1) : mtail[i] \in Records
      BY <2>5, SMT
    <3>2. /\ s \in Seq(Records) /\ Len(s) = n - 1 /\ \A i \in 1..(n - 1) : s[i] = mtail[i]
      <4> HIDE DEF n
      <4> QED BY <2>5, <3>1, SMT
    <3>3. DOMAIN s = 1..(n - 1)
      BY <3>2, SMT
    <3> QED BY <3>1, <3>2, <3>3
  <2>9. ASSUME mtail' = mtail, TornRest(mtail') = <<>>, NEW p \in Marks(mbase', mtail')
        PROVE  p[1] <= LoadedEdit'.wal \/ p[1] <= activeWal
    <3>1. LoadedEdit'.wal = mtail[n].wal
      <4>1. Replay(mbase, IntactPrefix(mtail)).wal = mtail[n].wal
        BY <2>5, <2>9, WholeLog, SMT
      <4> QED BY <2>1, <2>9, <4>1 DEF LoadedEdit
    <3>2. mtail[n].wal \in Nat
      <4>1. mtail[n] \in Records
        BY <2>5, SMT
      <4> QED BY <4>1 DEF Records
    <3> HIDE DEF n, s
    <3>3. \A i \in 1..n : i \in 1..(n - 1) \/ i = n
      BY <2>8, SMT
    <3>4. p \in Marks(mbase, s) \/ p = <<mtail[n].wal, mtail[n].last>>
      BY <2>1, <2>8, <2>9, <3>3 DEF Marks
    <3>5. p = <<mtail[n].wal, mtail[n].last>> => p[1] <= mtail[n].wal
      BY <3>2, SMT
    <3> QED BY <2>7, <3>1, <3>4, <3>5
  <2>10. Kept(wals, wals')
    BY <2>1 DEF Kept
  <2> HIDE DEF n, s
  <2>11. TornRest(mtail') = <<>> =>
           \A p \in Marks(mbase', mtail') :
             p[1] <= LoadedEdit'.wal \/ \E m \in DOMAIN wals' : p[1] <= m
    BY <2>1, <2>3, <2>6, <2>7, <2>9
  <2> QED BY <2>1, <2>4, <2>10, <2>11, <1>ClosedOrder
\* Close ends with the removal of WAL files.
<1>ClosePurgesOrder.
  ASSUME WellOrdered, IInv, IInv', OrderInv, ClosePurges \/ ClosePurgeFails PROVE OrderInv'
  <2> USE <1>ClosePurgesOrder
  <2> USE Zenon
  <2>1. /\ UNCHANGED <<mbase, mtail>> /\ closed' /\ mu' = "free" /\ mtail = <<>>
    BY DEF ClosePurges, ClosePurgeFails, ResetMemory, OrderInv
  <2>2. Kept(wals, wals')
    BY DEF ClosePurges, ClosePurgeFails, Restricted, PartlyRemoved, Kept
  <2>3. mbase' \in Edits /\ mbase'.wal \in Nat
    BY DEF IInv, TypeOK, DiskTypeOK, Edits
  <2>4. \A p \in Marks(mbase', mtail') : p[1] = LoadedEdit'.wal /\ p[1] = mbase'.wal
    BY <2>1, <2>3, <1>OneMark, SMT DEF Marks
  <2>5. \A p \in Marks(mbase', mtail') : p[1] <= LoadedEdit'.wal
    BY <2>3, <2>4, SMT
  <2> QED BY <2>1, <2>2, <2>5, <1>ClosedOrder
\* A power failure keeps the order.
<1>CrashOrder. ASSUME WellOrdered, IInv, IInv', OrderInv, Crash PROVE OrderInv'
  <2> USE <1>CrashOrder
  <2> USE Zenon
  <2>1. mbase \in Edits /\ mtail \in Seq(Records) /\ msynced \in Nat
    BY DEF IInv, TypeOK, DiskTypeOK
  <2>2. PICK n \in msynced..Len(mtail), torn \in BOOLEAN :
          LET log == SubSeq(mtail, 1, n) \o IF torn THEN <<Tear(mtail[n + 1])>> ELSE <<>>
          IN  /\ torn => n < Len(mtail)
              /\ mbase' = Replay(mbase, IntactPrefix(log))
              /\ mtail' = TornRest(log)
    BY DEF Crash
  <2> DEFINE log == SubSeq(mtail, 1, n) \o IF torn THEN <<Tear(mtail[n + 1])>> ELSE <<>>
  <2>3. n \in 0..Len(mtail)
    BY <2>1, SMT
  <2>4. log \in Seq(Records) /\ Marks(mbase, log) \subseteq Marks(mbase, mtail)
    BY <2>1, <2>2, <2>3, CrashMarks
  <2>5. mbase' = Replay(mbase, IntactPrefix(log)) /\ mtail' = TornRest(log)
    BY <2>2
  <2> HIDE DEF log
  <2>6. Marks(mbase', mtail') \subseteq Marks(mbase, mtail)
    BY <2>1, <2>4, <2>5, ReadBackMarks
  <2>7. mbase' \in Edits /\ mbase'.wal \in Nat
    BY DEF IInv, TypeOK, DiskTypeOK, Edits
  <2>8. TornRest(mtail') = <<>> => \A p \in Marks(mbase', mtail') : p[1] <= LoadedEdit'.wal
    <3> SUFFICES ASSUME TornRest(mtail') = <<>>
                 PROVE  \A p \in Marks(mbase', mtail') : p[1] <= LoadedEdit'.wal
      BY SMT
    <3>1. mtail' = <<>>
      BY <2>4, <2>5, RestIsTorn
    <3>2. \A p \in Marks(mbase', mtail') : p[1] = LoadedEdit'.wal /\ p[1] = mbase'.wal
      BY <2>7, <3>1, <1>OneMark, SMT DEF Marks
    <3> QED BY <2>7, <3>2, SMT
  <2>9. closed' /\ mu' = "free"
    BY DEF Crash, ResetMemory
  <2>10. Kept(wals, wals')
    <3> DEFINE dirty == {m \in DOMAIN wals : Dirty(wals[m])}
    <3>1. PICK img : /\ \A m \in dirty : img[m] \in AfterPowerFailure(wals[m])
                     /\ wals' = [m \in DOMAIN wals |-> IF m \in dirty THEN img[m] ELSE wals[m]]
      BY DEF Crash
    <3>2. \A m \in DOMAIN wals : wals[m] \in WALFiles(Version)
      BY OrderTypes
    <3>3. \A m \in dirty : m \in DOMAIN wals
      BY SMT
    <3> HIDE DEF dirty
    <3>4. ASSUME NEW m \in DOMAIN wals', NEW i \in DOMAIN wals'[m].recs
          PROVE  m \in DOMAIN wals /\ i \in DOMAIN wals[m].recs /\ wals'[m].recs[i] = wals[m].recs[i]
      <4>1. m \in DOMAIN wals
        BY <3>1
      <4>2. CASE m \in dirty
        <5>1. wals'[m] = img[m] /\ img[m] \in AfterPowerFailure(wals[m])
          BY <3>1, <4>1, <4>2
        <5> QED BY <3>2, <4>1, <5>1, PowerFailureKeeps, SMT
      <4>3. CASE m \notin dirty
        BY <3>1, <4>1, <4>3
      <4> QED BY <4>2, <4>3
    <3> QED BY <3>4 DEF Kept
  <2> QED BY <2>6, <2>8, <2>9, <2>10, <1>ClosedOrder
\* An Open that fails keeps the order.
<1>OpenFailsOrder. ASSUME WellOrdered, IInv, IInv', OrderInv, OpenFails PROVE OrderInv'
  <2> USE <1>OpenFailsOrder
  <2> USE Zenon
  <2>1. closed /\ closed' /\ mu' = "free"
    BY DEF OpenFails, memory, IInv, ControlInv
  <2>2. UNCHANGED <<mbase, mtail>> \/ LoadManifest
    BY DEF OpenFails
  <2>3. Kept(wals, wals') /\ DOMAIN wals \subseteq DOMAIN wals'
    <3>1. CASE wals' = wals
      BY <3>1 DEF Kept
    <3>2. CASE wals' # wals
      <4>1. PICK S : wals' = Truncated(S) \/ wals' = OpenedForAppend(Truncated(S), NewestWAL)
        BY <3>2 DEF OpenFails
      <4>2. /\ Kept(wals, Truncated(S)) /\ DOMAIN Truncated(S) = DOMAIN wals
            /\ Kept(wals, OpenedForAppend(Truncated(S), NewestWAL))
            /\ DOMAIN OpenedForAppend(Truncated(S), NewestWAL) = DOMAIN wals \cup {NewestWAL}
        BY OpenKeeps
      <4> QED BY <4>1, <4>2
    <3> QED BY <3>1, <3>2
  <2>4. mbase' \in Edits /\ mbase'.wal \in Nat
    BY DEF IInv, TypeOK, DiskTypeOK, Edits
  <2>5. /\ Marks(mbase', mtail') \subseteq Marks(mbase, mtail)
        /\ UNCHANGED <<mbase, mtail>> \/ mtail' = <<>>
    BY <2>2, LoadMarks
  <2>6. CASE UNCHANGED <<mbase, mtail>>
    <3>1. LoadedEdit' = LoadedEdit
      BY <2>6 DEF LoadedEdit
    <3>2. TornRest(mtail) = <<>> =>
            \A p \in Marks(mbase, mtail) :
              p[1] <= LoadedEdit.wal \/ \E n \in DOMAIN wals : p[1] <= n
      BY <2>1 DEF OrderInv
    <3>3. TornRest(mtail') = <<>> =>
            \A p \in Marks(mbase', mtail') :
              p[1] <= LoadedEdit'.wal \/ \E n \in DOMAIN wals' : p[1] <= n
      BY <2>3, <2>6, <3>1, <3>2
    <3> QED BY <2>1, <2>3, <2>5, <3>3, <1>ClosedOrder
  <2>7. CASE mtail' = <<>>
    <3>1. \A p \in Marks(mbase', mtail') : p[1] = LoadedEdit'.wal /\ p[1] = mbase'.wal
      BY <2>4, <2>7, <1>OneMark, SMT DEF Marks
    <3>2. \A p \in Marks(mbase', mtail') : p[1] <= LoadedEdit'.wal
      BY <2>4, <3>1, SMT
    <3> QED BY <2>1, <2>3, <2>5, <3>2, <1>ClosedOrder
  <2> QED BY <2>5, <2>6, <2>7
\* Open goes on writing behind every record of every file.
<1>OpenOrder. ASSUME WellOrdered, IInv, IInv', OrderInv, Open PROVE OrderInv'
  <2> USE <1>OpenOrder
  <2> USE Zenon
  <2> DEFINE e == LoadedEdit
             w == NewestWAL
             s == RecoveredLast(wals, e)
             M == Marks(mbase, mtail)
  <2>1. /\ e \in Edits /\ e.wal \in Nat /\ e.last \in Nat /\ w \in Nat
        /\ \A n \in LiveWALs(e) : n \in Nat /\ n <= w
    BY RecoveryFacts DEF Edits
  <2>2. e.wal <= w
    <3>1. CASE LiveWALs(e) = {}
      BY <2>1, <3>1, SMT DEF NewestWAL
    <3>2. CASE LiveWALs(e) # {}
      <4>1. PICK n \in LiveWALs(e) : TRUE
        BY <3>2
      <4>2. e.wal <= n
        BY <4>1 DEF LiveWALs
      <4> QED BY <2>1, <4>1, <4>2, SMT
    <3> QED BY <3>1, <3>2
  <2>3. DOMAIN wals \in SUBSET Nat /\ \A p \in M : p[1] \in Nat /\ p[2] \in Nat
    BY OrderTypes
  <2>4. \A n \in DOMAIN wals : n <= w
    <3>1. \A n \in DOMAIN wals : n \in LiveWALs(e) \/ n < e.wal
      BY <2>1, <2>3, SMT DEF LiveWALs
    <3> HIDE DEF e, w
    <3> QED BY <2>1, <2>2, <2>3, <3>1, SMT
  <2>5. /\ closed /\ ~closed' /\ ~bgError' /\ activeWal' = w /\ mu' = "free"
        /\ LoadManifest
        /\ wals' = OpenedForAppend(Truncated(LiveWALs(e)), w)
    BY DEF Open, IInv, ControlInv
  <2>6. edit'.wal = e.wal /\ edit'.last = s
    <3> DEFINE m == Max({e.next, MaxSeenFileNumber + 1})
    <3>1. edit' = [e EXCEPT !.next = m, !.last = s]
      BY DEF Open
    <3> HIDE DEF e, m, s
    <3> QED BY <2>1, <3>1 DEF Edits
  <2>7. Kept(wals, wals') /\ DOMAIN wals' = DOMAIN wals \cup {w}
    BY <2>5, OpenKeeps
  <2>8. M' \subseteq M /\ (\/ M' = M /\ TornRest(mtail) = <<>>
                          \/ M' = {<<e.wal, e.last>>})
    <3>1. CASE UNCHANGED <<mbase, mtail>> /\ TornRest(mtail) = <<>>
      BY <3>1 DEF Marks
    <3>2. CASE mbase' = e /\ mtail' = <<>>
      <4>1. M' = {<<e.wal, e.last>>}
        BY <3>2, SMT DEF Marks
      <4> QED BY <2>5, <4>1, LoadMarks
    <3> QED BY <2>5, <3>1, <3>2, LoadMarks
  <2>9. <<e.wal, e.last>> \in M
    BY OrderTypes, ReadBackMarks DEF LoadedEdit
  <2>10. /\ \A p \in M : \A n \in DOMAIN wals : n < p[1] => Bounded(wals, n, p[2])
         /\ TornRest(mtail) = <<>> =>
              \A p \in M : p[1] <= e.wal \/ \E n \in DOMAIN wals : p[1] <= n
    BY <2>5 DEF OrderInv
  <2>11. /\ e.last <= s /\ s \in Nat
         /\ \A n \in DOMAIN wals : n >= e.wal => Bounded(wals, n, s)
    BY <2>1, RecoveredBound
  <2> HIDE DEF e, w, s, M
  <2>12. \A n \in DOMAIN wals : Bounded(wals, n, s)
    <3>1. ASSUME NEW n \in DOMAIN wals, n < e.wal PROVE Bounded(wals, n, s)
      <4>1. Bounded(wals, n, e.last)
        BY <2>9, <2>10, <3>1
      <4>2. \A i \in DOMAIN wals[n].recs : \A v \in wals[n].recs[i] : v.seq \in Nat
        <5>1. \A i \in DOMAIN wals[n].recs : wals[n].recs[i] \in BatchRecords(Version)
          BY OrderTypes
        <5> QED BY <5>1 DEF BatchRecords, Version, Versions
      <4> QED BY <2>1, <2>11, <4>1, <4>2, SMT DEF Bounded
    <3>2. \A n \in DOMAIN wals : n < e.wal \/ n >= e.wal
      BY <2>1, <2>3, SMT
    <3> QED BY <2>11, <3>1, <3>2
  <2>13. \A n \in DOMAIN wals' : Bounded(wals', n, s)
    BY <2>7, <2>12, <1>KeptOrder
  <2>14. \A p \in M' : p[1] <= w
    <3>1. CASE M' = M /\ TornRest(mtail) = <<>>
      BY <2>1, <2>2, <2>3, <2>4, <2>10, <3>1, SMT
    <3>2. CASE M' = {<<e.wal, e.last>>}
      BY <2>2, <3>2, SMT
    <3> QED BY <2>8, <3>1, <3>2
  <2>15. \A n \in DOMAIN wals' : n \in Nat /\ n <= w /\ n <= edit'.next
    <3>1. w < edit'.next /\ edit'.next \in Nat
      BY <2>5, OrderTypes DEF IInv, WALInv, TypeOK, MemoryTypeOK, Edits
    <3> QED BY <2>1, <2>3, <2>4, <2>7, <3>1, SMT
  <2>16. ActiveInv'
    <3>1. \A n \in DOMAIN wals' : ~(w < n)
      BY <2>1, <2>15, SMT
    <3>2. w \in DOMAIN wals'
      BY <2>7
    <3> QED BY <2>2, <2>5, <2>6, <2>13, <2>14, <2>15, <3>1, <3>2 DEF ActiveInv, M
  <2>17. Ordered(wals') /\ \A p \in M' : \A n \in DOMAIN wals' : n < p[1] => Bounded(wals', n, p[2])
    <3>1. Ordered(wals')
      BY <2>7, <1>KeptOrder DEF OrderInv
    <3> QED BY <2>7, <2>8, <2>10, <3>1, <1>KeptOrder
  <2> QED BY <2>5, <2>16, <2>17 DEF OrderInv, M, Saving
\* A write appends its record behind every other one.
<1>WriteOrder. ASSUME IInv, OrderInv, NEW b \in Batches, Write(b) PROVE OrderInv'
  <2> USE <1>WriteOrder
  <2> USE Zenon
  <2> DEFINE r == BatchVersions(b, edit.last + 1)
             a == activeWal
             f == wals[a]
             k == Len(f.recs)
             M == Marks(mbase, mtail)
  <2>1. /\ mu = "free" /\ mu' = "write" /\ ~bgError /\ ~closed
        /\ UNCHANGED <<mbase, mtail, closed, activeWal, edit, bgError, pending>>
        /\ a \in Nat /\ DOMAIN wals \in SUBSET Nat /\ edit.last \in Nat /\ a \in DOMAIN wals
        /\ r \in BatchRecords(Version) /\ \A v \in r : v.seq \in Nat /\ edit.last < v.seq
        /\ DOMAIN wals' = DOMAIN wals /\ \A n \in DOMAIN wals : n # a => wals'[n] = wals[n]
        /\ k \in Nat /\ DOMAIN f.recs = 1..k /\ DOMAIN wals'[a].recs = 1..(k + 1)
        /\ Len(wals'[a].recs) = k + 1 /\ wals'[a].recs[k + 1] = r
        /\ \A i \in 1..k : wals'[a].recs[i] = f.recs[i]
    BY WriteAppends
  <2>2. \A p \in M : p[1] \in Nat
    BY OrderTypes
  <2>3. \A v \in r : v.seq \in Nat /\ edit.last < v.seq
    BY <2>1
  <2>4. DOMAIN wals' = DOMAIN wals /\ \A n \in DOMAIN wals : n # a => wals'[n] = wals[n]
    BY <2>1
  <2>5. /\ k \in Nat /\ DOMAIN f.recs = 1..k /\ DOMAIN wals'[a].recs = 1..(k + 1)
        /\ Len(wals'[a].recs) = k + 1 /\ wals'[a].recs[k + 1] = r
        /\ \A i \in 1..k : wals'[a].recs[i] = f.recs[i]
    BY <2>1
  <2>6. ActiveInv /\ \A p \in M : p[1] <= a
    BY <2>1 DEF OrderInv, ActiveInv
  <2>7. /\ Ordered(wals)
        /\ \A p \in M : \A n \in DOMAIN wals : n < p[1] => Bounded(wals, n, p[2])
    BY DEF OrderInv
  <2>8. /\ \A n \in DOMAIN wals : n <= a => Bounded(wals, n, edit.last)
        /\ \A n \in DOMAIN wals : a < n => DOMAIN wals[n].recs = {}
        /\ \A n \in DOMAIN wals : n <= edit.next
        /\ edit.wal <= a
    <3>1. \A n \in DOMAIN wals : n <= a => n = a \/ n < a
      BY <2>1, <2>2, SMT
    <3> QED BY <2>1, <2>6, <3>1 DEF ActiveInv
  <2>9. M' = M
    BY <2>1 DEF Marks
  <2>10. \A n \in DOMAIN wals : \A i \in DOMAIN wals[n].recs : \A v \in wals[n].recs[i] : v.seq \in Nat
    <3>1. \A n \in DOMAIN wals : \A i \in DOMAIN wals[n].recs :
            wals[n].recs[i] \in BatchRecords(Version)
      BY OrderTypes
    <3> QED BY <3>1 DEF BatchRecords, Version, Versions
  <2> HIDE DEF r, a, f, k, M
  <2>11. \A n \in DOMAIN wals' : \A i \in DOMAIN wals'[n].recs :
           \/ /\ n = a /\ i = k + 1 /\ wals'[n].recs[i] = r
           \/ /\ n \in DOMAIN wals /\ i \in DOMAIN wals[n].recs /\ n <= a /\ (n = a => i <= k)
              /\ wals'[n].recs[i] = wals[n].recs[i]
    <3>1. ASSUME NEW n \in DOMAIN wals', NEW i \in DOMAIN wals'[n].recs, n # a
          PROVE  n <= a /\ wals'[n] = wals[n]
      BY <2>1, <2>2, <2>4, <2>8, <3>1, SMT
    <3>2. ASSUME NEW i \in DOMAIN wals'[a].recs, i # k + 1
          PROVE  i \in DOMAIN wals[a].recs /\ i <= k /\ wals'[a].recs[i] = wals[a].recs[i]
      BY <2>5, <3>2, SMT DEF f
    <3>3. a <= a /\ a \in DOMAIN wals
      BY <2>1, <2>2, SMT
    <3> QED BY <2>4, <2>5, <3>1, <3>2, <3>3
  <2>12. Ordered(wals')
    <3> SUFFICES ASSUME NEW n1 \in DOMAIN wals', NEW n2 \in DOMAIN wals',
                        NEW i1 \in DOMAIN wals'[n1].recs, NEW i2 \in DOMAIN wals'[n2].recs,
                        n1 < n2 \/ (n1 = n2 /\ i1 < i2),
                        NEW v1 \in wals'[n1].recs[i1], NEW v2 \in wals'[n2].recs[i2]
                 PROVE  v1.seq < v2.seq
      BY DEF Ordered
    <3>1. CASE n1 = a /\ i1 = k + 1
      <4>1. n2 <= a /\ (n2 = a => i2 <= k + 1)
        BY <2>1, <2>2, <2>5, <2>11, SMT
      <4>2. n2 \in Nat /\ (n2 = a => i2 \in Nat)
        BY <2>1, <2>2, <2>4, <2>5, SMT
      <4> QED BY <2>1, <2>2, <2>5, <3>1, <4>1, <4>2, SMT
    <3>2. CASE ~(n1 = a /\ i1 = k + 1)
      <4>1. /\ n1 \in DOMAIN wals /\ i1 \in DOMAIN wals[n1].recs /\ n1 <= a
            /\ v1 \in wals[n1].recs[i1]
        BY <2>11, <3>2
      <4>2. CASE n2 = a /\ i2 = k + 1
        <5>1. v1.seq <= edit.last /\ v1.seq \in Nat
          BY <2>8, <2>10, <4>1 DEF Bounded
        <5>2. v2 \in r
          BY <2>5, <4>2
        <5> QED BY <2>1, <2>2, <2>3, <5>1, <5>2, SMT
      <4>3. CASE ~(n2 = a /\ i2 = k + 1)
        <5>1. /\ n2 \in DOMAIN wals /\ i2 \in DOMAIN wals[n2].recs
              /\ v2 \in wals[n2].recs[i2]
          BY <2>11, <4>3
        <5> QED BY <2>7, <4>1, <5>1 DEF Ordered
      <4> QED BY <4>2, <4>3
    <3> QED BY <3>1, <3>2
  <2>13. \A s : \A n \in DOMAIN wals' : n < a /\ Bounded(wals, n, s) => Bounded(wals', n, s)
    BY <2>1, <2>2, <2>4, SMT DEF Bounded
  <2>14. \A p \in M' : \A n \in DOMAIN wals' : n < p[1] => Bounded(wals', n, p[2])
    BY <2>1, <2>2, <2>4, <2>6, <2>7, <2>9, <2>13, SMT
  <2>15. ActiveInv'
    <3>1. \A n \in DOMAIN wals' : n <= edit'.next /\ (activeWal' < n => DOMAIN wals'[n].recs = {})
      BY <2>1, <2>2, <2>4, <2>8, SMT DEF a
    <3>2. \A n \in DOMAIN wals' : n < a => Bounded(wals', n, edit.last)
      BY <2>1, <2>2, <2>4, <2>8, <2>13, SMT
    <3> QED BY <2>1, <2>6, <2>8, <2>9, <3>1, <3>2 DEF ActiveInv, a, M
  <2>16. /\ \A i \in 1..(Len(wals'[a].recs) - 1) : \A v \in wals'[a].recs[i] : v.seq <= edit.last
         /\ \A v \in Appended' : edit.last < v.seq
    <3>1. Appended' = r
      BY <2>1, <2>5 DEF Appended, a
    <3>2. \A i \in 1..k : \A v \in f.recs[i] : v.seq <= edit.last
      BY <2>1, <2>5, <2>8, SMT DEF Bounded, f
    <3>3. 1..(Len(wals'[a].recs) - 1) = 1..k
      BY <2>5, SMT
    <3> QED BY <2>3, <2>5, <3>1, <3>2, <3>3
  <2> QED BY <2>1, <2>12, <2>14, <2>15, <2>16 DEF OrderInv, Saving, M, a
\* A batch is applied: the version knows every record.
<1>AppliedOrder.
  ASSUME WellOrdered, IInv, OrderInv, mu = "write", mu' \in {"free", "rotate"},
         UNCHANGED <<closed, activeWal, bgError>>, edit' = AppliedEdit,
         Kept(wals, wals'), DOMAIN wals' \subseteq DOMAIN wals \cup {edit.next},
         activeWal \in DOMAIN wals',
         Marks(mbase', mtail') \subseteq
           Marks(mbase, mtail) \cup {<<edit.wal, LastSeq(Appended)>>},
         mu' = "rotate" => pending'.last = AppliedEdit.last /\ pending'.wal = edit.wal
  PROVE  OrderInv'
  <2> USE <1>AppliedOrder
  <2> USE Zenon
  <2> DEFINE s == LastSeq(Appended)
             M == Marks(mbase, mtail)
  <2>1. /\ ~closed /\ ~bgError /\ ActiveInv /\ edit.wal <= activeWal
        /\ \A p \in M : p[1] <= activeWal
        /\ \A n \in DOMAIN wals : Bounded(wals, n, s)
        /\ AppliedEdit.last = s /\ AppliedEdit.wal = edit.wal /\ AppliedEdit.next = edit.next
    BY InWriteOrder
  <2>2. M' \subseteq M \cup {<<edit.wal, s>>}
    BY SMT
  <2>3. \A p \in M : \A n \in DOMAIN wals : n < p[1] => Bounded(wals, n, p[2])
    BY DEF OrderInv
  <2> HIDE DEF s, M
  <2>4. \A n \in DOMAIN wals' : Bounded(wals', n, s)
    BY <2>1, <1>KeptOrder
  <2>5. \A p \in M' : \A n \in DOMAIN wals' : n < p[1] => Bounded(wals', n, p[2])
    <3>1. \A p \in M : \A n \in DOMAIN wals' : n < p[1] => Bounded(wals', n, p[2])
      BY <2>3, <1>KeptOrder
    <3> QED BY <2>2, <2>4, <3>1, SMT
  <2>6. Ordered(wals')
    BY <1>KeptOrder DEF OrderInv
  <2>7. ActiveInv'
    <3>1. \A n \in DOMAIN wals' : n <= edit'.next
      BY <2>1, OrderTypes, SMT DEF ActiveInv
    <3>2. \A n \in DOMAIN wals' : activeWal < n => DOMAIN wals'[n].recs = {}
      BY <2>1 DEF ActiveInv, Kept
    <3>3. \A p \in M' : p[1] <= activeWal
      <4>1. <<edit.wal, s>>[1] = edit.wal
        BY SMT
      <4>2. \A p \in M' : p \in M \/ p = <<edit.wal, s>>
        BY <2>2
      <4> QED BY <2>1, <4>1, <4>2
    <3> QED BY <2>1, <2>4, <3>1, <3>2, <3>3 DEF ActiveInv, M
  <2> QED BY <2>1, <2>5, <2>6, <2>7 DEF OrderInv, Saving, M
\* The end of a write that is applied.
<1>AppliesOrder.
  ASSUME WellOrdered, IInv, OrderInv, WriteApplies \/ SwitchFails \/ WriteSwitches
  PROVE  OrderInv'
  <2> USE <1>AppliesOrder
  <2> USE Zenon
  <2> DEFINE g == SyncedWALs
             h == OpenedForAppend(g, edit.next)
             s == LastSeq(Appended)
  <2>1. /\ mu = "write" /\ mu' \in {"free", "rotate"} /\ edit' = AppliedEdit
        /\ UNCHANGED <<closed, activeWal, bgError>> /\ wals' \in {g, h}
    BY DEF WriteApplies, SwitchFails, WriteSwitches
  <2>2. /\ activeWal \in DOMAIN wals
        /\ AppliedEdit \in Edits /\ AppliedEdit.last = s
        /\ AppliedEdit.wal = edit.wal /\ AppliedEdit.next = edit.next
        /\ DOMAIN g = DOMAIN wals /\ \A n \in DOMAIN wals : g[n].recs = wals[n].recs
    BY <2>1, InWriteOrder
  <2> HIDE DEF g
  <2>3. Kept(wals, g)
    BY <2>2 DEF Kept
  <2>4. Kept(wals, h) /\ DOMAIN h = DOMAIN wals \cup {edit.next}
    <3>1. DOMAIN EmptyWAL.recs = {}
      BY SMT DEF EmptyWAL
    <3>2. CASE edit.next \in DOMAIN g
      BY <2>2, <2>3, <3>2 DEF OpenedForAppend
    <3>3. CASE edit.next \notin DOMAIN g
      <4> DEFINE x == Created(g, edit.next, EmptyWAL)
      <4>1. h = x
        BY <3>3 DEF OpenedForAppend
      <4>2. /\ DOMAIN x = DOMAIN wals \cup {edit.next} /\ x[edit.next] = EmptyWAL
            /\ \A m \in DOMAIN wals : x[m] = g[m]
        BY <2>2, <3>3 DEF Created
      <4> HIDE DEF x, h
      <4>3. Kept(wals, x)
        BY <2>2, <3>1, <4>2 DEF Kept
      <4> QED BY <4>1, <4>2, <4>3
    <3> QED BY <3>2, <3>3
  <2> HIDE DEF h
  <2>5. /\ Kept(wals, wals') /\ DOMAIN wals' \subseteq DOMAIN wals \cup {edit.next}
        /\ activeWal \in DOMAIN wals'
    BY <2>1, <2>2, <2>3, <2>4
  <2>6. /\ Marks(mbase', mtail') \subseteq Marks(mbase, mtail) \cup {<<edit.wal, s>>}
        /\ mu' = "rotate" => pending'.last = AppliedEdit.last /\ pending'.wal = edit.wal
    <3>1. CASE WriteApplies \/ SwitchFails
      <4>1. UNCHANGED <<mbase, mtail>> /\ mu' = "free"
        BY <3>1 DEF WriteApplies, SwitchFails
      <4> QED BY <4>1
    <3>2. CASE WriteSwitches
      <4> DEFINE e == AppliedEdit
                 n == e.next + 1
                 new == [e EXCEPT !.next = n]
      <4>1. SaveAppends(new)
        BY <3>2 DEF WriteSwitches
      <4>2. e \in Edits /\ n \in Nat
        BY <2>2, SMT DEF Edits
      <4> HIDE DEF e, n
      <4>3. new \in Edits /\ new.wal = e.wal /\ new.last = e.last
        BY <4>2 DEF Edits
      <4> HIDE DEF new
      <4>4. pending' = new
        BY <4>1 DEF SaveAppends
      <4>5. Marks(mbase', mtail') = Marks(mbase, mtail) \cup {<<new.wal, new.last>>}
        BY <4>1, <4>3, SaveMarks
      <4> QED BY <2>2, <4>3, <4>4, <4>5 DEF e
    <3> QED BY <3>1, <3>2
  <2> QED BY <2>1, <2>5, <2>6, <1>AppliedOrder
\* A failed append leaves some of the last record, and no write follows it.
<1>WriteFailsOrder. ASSUME WellOrdered, IInv, OrderInv, WriteFails PROVE OrderInv'
  <2> USE <1>WriteFailsOrder
  <2> USE Zenon
  <2> DEFINE f == wals[activeWal]
             k == Len(f.recs)
             M == Marks(mbase, mtail)
  <2>1. /\ mu = "write" /\ mu' = "free" /\ bgError'
        /\ UNCHANGED <<mbase, mtail, closed, activeWal, edit, pending>>
    BY DEF WriteFails
  <2>2. PICK how \in AppendFailures : wals' = [wals EXCEPT ![activeWal] = AppendLeaves(@, how)]
    BY DEF WriteFails
  <2>3. /\ ~closed /\ activeWal \in DOMAIN wals /\ activeWal \in Nat
        /\ f.recs \in Seq(BatchRecords(Version)) /\ k > 0
        /\ ActiveInv /\ edit.wal <= activeWal /\ \A p \in M : p[1] <= activeWal
    BY <2>1, InWriteOrder
  <2> DEFINE x == AppendLeaves(f, how)
  <2>4. \A i \in DOMAIN x.recs : i \in DOMAIN f.recs /\ x.recs[i] = f.recs[i]
    <3> DEFINE S == BatchRecords(Version)
               q == SubSeq(f.recs, 1, k - 1)
    <3>1. f \in WALFiles(Version) /\ how \in {"none", "torn", "full"}
      BY <2>3, OrderTypes, FailuresAreKnown
    <3>2. f.recs \in Seq(S)
      BY <2>3
    <3> HIDE DEF S
    <3>3. \A i \in DOMAIN q : i \in DOMAIN f.recs /\ q[i] = f.recs[i]
      BY <2>3, <3>2, SMT
    <3>4. CASE how \in {"none", "torn"}
      <4>1. x.recs = q
        <5> HIDE DEF q
        <5>1. x \in {[f EXCEPT !.recs = q], [[f EXCEPT !.recs = q] EXCEPT !.torn = TRUE]}
          BY <3>4 DEF AppendLeaves, q
        <5> HIDE DEF x
        <5> QED BY <3>1, <5>1 DEF WALFiles
      <4> QED BY <3>3, <4>1
    <3>5. CASE how = "full"
      <4>1. x = f
        BY <3>5 DEF AppendLeaves
      <4> QED BY <4>1
    <3> QED BY <3>1, <3>4, <3>5
  <2> HIDE DEF x
  <2>5. wals' = [wals EXCEPT ![activeWal] = x]
    BY <2>2 DEF x
  <2>6. /\ DOMAIN wals' = DOMAIN wals /\ wals'[activeWal] = x
        /\ \A n \in DOMAIN wals : n # activeWal => wals'[n] = wals[n]
    BY <2>3, <2>5
  <2>7. Kept(wals, wals')
    BY <2>4, <2>6 DEF Kept
  <2>8. M' = M
    BY <2>1 DEF Marks
  <2>9. Ordered(wals') /\ \A p \in M' : \A n \in DOMAIN wals' : n < p[1] => Bounded(wals', n, p[2])
    <3>1. /\ Ordered(wals)
          /\ \A p \in M : \A n \in DOMAIN wals : n < p[1] => Bounded(wals, n, p[2])
      BY DEF OrderInv
    <3> HIDE DEF M
    <3> QED BY <2>6, <2>7, <2>8, <3>1, <1>KeptOrder
  <2>10. ActiveInv'
    <3>1. \A n \in DOMAIN wals' : n <= edit.next /\ (activeWal < n => DOMAIN wals'[n].recs = {})
      BY <2>3, <2>6, <2>7 DEF ActiveInv, Kept
    <3>2. \A n \in DOMAIN wals' : n < activeWal => Bounded(wals', n, edit.last)
      BY <2>3, <2>6, <2>7, <1>KeptOrder DEF ActiveInv
    <3> QED BY <2>1, <2>3, <2>8, <3>1, <3>2 DEF ActiveInv
  <2> QED BY <2>1, <2>3, <2>9, <2>10 DEF OrderInv, Saving
\* The switch: the new WAL is empty and behind every other.
<1>RotateSucceedsOrder. ASSUME WellOrdered, IInv, OrderInv, RotateSucceeds PROVE OrderInv'
  <2> USE <1>RotateSucceedsOrder
  <2> USE Zenon
  <2> DEFINE M == Marks(mbase, mtail)
  <2>1. /\ mu = "rotate" /\ mu' = "free" /\ SaveSucceeds /\ Saving
        /\ UNCHANGED <<wals, closed, bgError>> /\ activeWal' = pending.next - 1
    BY DEF RotateSucceeds, Saving
  <2>2. ~closed /\ ~bgError /\ ActiveInv /\ pending.wal <= activeWal
    BY <2>1 DEF OrderInv, IInv, ControlInv
  <2>3. M' \subseteq M /\ edit' = pending /\ edit'.last = edit.last
    BY <2>1, SavedMarks
  <2>4. /\ activeWal \in Nat /\ edit.next \in Nat /\ activeWal < edit.next
        /\ pending.next = edit.next + 1 /\ activeWal' = edit.next /\ edit.next \in DOMAIN wals
        /\ DOMAIN wals \in SUBSET Nat /\ pending.wal \in Nat /\ \A p \in M : p[1] \in Nat
    <3>1. activeWal < edit.next /\ pending.next = edit.next + 1 /\ edit.next \in DOMAIN wals
      BY <2>1, <2>2 DEF IInv, WALInv
    <3>2. /\ activeWal \in Nat /\ edit.next \in Nat /\ DOMAIN wals \in SUBSET Nat
          /\ pending.wal \in Nat /\ \A p \in M : p[1] \in Nat
      BY OrderTypes
    <3>3. activeWal' = edit.next
      BY <2>1, <3>1, <3>2, SMT
    <3> QED BY <2>1, <3>1, <3>2, <3>3
  <2>5. \A n \in DOMAIN wals : Bounded(wals, n, edit.last)
    <3>1. \A n \in DOMAIN wals : activeWal < n => Bounded(wals, n, edit.last)
      BY <2>2 DEF ActiveInv, Bounded
    <3>2. \A n \in DOMAIN wals : n <= activeWal => n = activeWal \/ n < activeWal
      BY <2>4, SMT
    <3>3. \A n \in DOMAIN wals : activeWal < n \/ n <= activeWal
      BY <2>4, SMT
    <3> QED BY <2>1, <2>2, <3>1, <3>2, <3>3 DEF ActiveInv
  <2>6. /\ \A p \in M : p[1] <= activeWal
        /\ \A p \in M : \A n \in DOMAIN wals : n < p[1] => Bounded(wals, n, p[2])
        /\ Ordered(wals) /\ \A n \in DOMAIN wals : n <= edit.next
    BY <2>1, <2>2 DEF OrderInv, ActiveInv
  <2> HIDE DEF M
  <2>7. ActiveInv'
    <3>1. \A n \in DOMAIN wals : n <= pending.next /\ ~(edit.next < n)
      BY <2>4, <2>6, SMT
    <3>2. pending.wal <= edit.next /\ \A p \in M' : p[1] <= edit.next
      BY <2>2, <2>3, <2>4, <2>6, SMT
    <3> QED BY <2>1, <2>3, <2>4, <2>5, <3>1, <3>2 DEF ActiveInv, M
  <2> QED BY <2>1, <2>2, <2>3, <2>6, <2>7 DEF OrderInv, Saving, M
\* The worker removes WALs below the active one.
<1>WorkerPurgesOrder.
  ASSUME IInv, OrderInv, WorkerPurges \/ WorkerPurgeFails
  PROVE  OrderInv'
  <2> USE <1>WorkerPurgesOrder
  <2> USE Zenon
  <2>1. /\ UNCHANGED <<mbase, mtail, closed, activeWal, mu, pending, edit>>
        /\ worker.pc = "purge" /\ (bgError => bgError')
        /\ mu \in {"write", "rotate"} => bgError' = bgError
    BY SMT DEF WorkerPurges, WorkerPurgeFails, memory
  <2>2. /\ ~closed /\ worker.wal <= activeWal /\ activeWal \in DOMAIN wals
        /\ DOMAIN wals \in SUBSET Nat /\ activeWal \in Nat /\ worker.wal \in Nat
        /\ edit.next \in Nat
    BY <2>1, OrderTypes DEF IInv, ControlInv, WALInv, TypeOK, ThreadsTypeOK, Workers
  <2>3. PICK S : wals' = Restricted(wals, S) /\ activeWal \in S
    <3>1. CASE WorkerPurges
      BY <2>2, <3>1 DEF WorkerPurges
    <3>2. CASE WorkerPurgeFails
      <4>1. PICK R \in SUBSET {n \in DOMAIN wals : n < worker.wal} :
              wals' = Restricted(wals, DOMAIN wals \ R)
        BY <3>2 DEF WorkerPurgeFails, PartlyRemoved
      <4> QED BY <2>2, <4>1, SMT
    <3> QED BY <3>1, <3>2
  <2>4. /\ DOMAIN wals' = DOMAIN wals \cap S
        /\ \A n \in DOMAIN wals' : wals'[n] = wals[n]
    BY <2>3 DEF Restricted
  <2>5. /\ Kept(wals, wals') /\ DOMAIN wals' \subseteq DOMAIN wals
        /\ wals'[activeWal] = wals[activeWal]
    BY <2>2, <2>3, <2>4 DEF Kept
  <2>6. /\ edit'.last = edit.last /\ edit'.wal = edit.wal /\ edit'.next \in Nat
        /\ edit.next <= edit'.next /\ (closed => wals' = wals)
    BY <2>1, <2>2, SMT
  <2> QED BY <2>1, <2>2, <2>5, <2>6, <1>LeavesOrder
\* A step that takes a file number.
<1>NumberTakenOrder.
  ASSUME IInv, OrderInv,
         WorkerPicks \/ (\E by, n : Selects(by, n))
  PROVE  OrderInv'
  <2> USE <1>NumberTakenOrder
  <2> USE Zenon
  <2>1. /\ UNCHANGED <<mbase, mtail, closed, activeWal, mu, pending, bgError, wals>>
        /\ edit' = [edit EXCEPT !.next = @ + 1]
    BY DEF WorkerPicks, Selects, disk
  <2>2. edit \in Edits /\ edit.next \in Nat
    BY OrderTypes
  <2>3. edit'.last = edit.last /\ edit'.wal = edit.wal /\ edit'.next = edit.next + 1
    BY <2>1, <2>2 DEF Edits
  <2>4. Kept(wals, wals')
    BY <2>1 DEF Kept
  <2>5. edit'.next \in Nat /\ edit.next <= edit'.next
    BY <2>2, <2>3, SMT
  <2> QED BY <2>1, <2>3, <2>4, <2>5, <1>LeavesOrder
\* A step that touches neither the WALs nor the version.
<1>OtherOrder.
  ASSUME IInv, OrderInv, UNCHANGED <<mbase, mtail, closed, activeWal, mu, pending, edit, wals>>,
         bgError' = bgError \/ (mu = "free" /\ (bgError => bgError'))
  PROVE  OrderInv'
  <2> USE <1>OtherOrder
  <2>1. edit.next \in Nat
    BY OrderTypes, Zenon
  <2>2. Kept(wals, wals')
    BY Zenon DEF Kept
  <2> QED BY <2>1, <2>2, <1>LeavesOrder
\* The remaining steps of the worker and of compactions.
<1>BackgroundOrder.
  ASSUME IInv, OrderInv,
         \/ WorkerWakes \/ WorkerFindsNothing \/ WorkerGivesUp
         \/ FlushBuilds \/ FlushBuildFails
         \/ MaybeCompactStarts \/ MaybeCompactEnds \/ CompactionBuilds
         \/ CompactionBuildFails \/ CompactionRemoves \/ CompactionRemoveFails
  PROVE  OrderInv'
  <2> USE <1>BackgroundOrder
  <2> USE Zenon
  <2>1. CASE \/ WorkerWakes \/ WorkerFindsNothing \/ WorkerGivesUp \/ FlushBuilds
             \/ MaybeCompactStarts \/ MaybeCompactEnds \/ CompactionBuilds
             \/ CompactionRemoves
    <3>1. UNCHANGED <<mbase, mtail, closed, activeWal, mu, pending, edit, wals, bgError>>
      BY <2>1 DEF WorkerWakes, WorkerFindsNothing, WorkerGivesUp, FlushBuilds,
           MaybeCompactStarts, MaybeCompactEnds, CompactionBuilds, CompactionRemoves, disk,
           memory
    <3> QED BY <3>1, <1>OtherOrder
  <2>2. CASE FlushBuildFails \/ CompactionBuildFails \/ CompactionRemoveFails
    <3>1. /\ UNCHANGED <<mbase, mtail, closed, activeWal, mu, pending, edit, wals>>
          /\ mu = "free" /\ (bgError => bgError')
      BY <2>2 DEF FlushBuildFails, CompactionBuildFails, CompactionRemoveFails, disk
    <3> QED BY <3>1, <1>OtherOrder
  <2> QED BY <2>1, <2>2
\* Reads, snapshots and the begin of Close.
<1>ClientOrder.
  ASSUME IInv, OrderInv,
         \/ \E i \in Snaps : GetSnapshot(i) \/ ReleaseSnapshot(i)
         \/ \E r \in Readers : GetSteps(r) \/ \E k \in Keys : GetPins(r, k)
         \/ CloseBegins \/ UNCHANGED vars
  PROVE  OrderInv'
  <2> USE <1>ClientOrder
  <2>1. UNCHANGED <<mbase, mtail, closed, activeWal, mu, pending, edit, wals, bgError>>
    BY Zenon DEF GetSnapshot, ReleaseSnapshot, GetSteps, GetReadsMemTables,
      GetReadsTables,
      GetReturns, GetPins, CloseBegins, vars, disk, memory
  <2> QED BY <2>1, <1>OtherOrder, Zenon
<1> USE Zenon
<1> SUFFICES ASSUME IInv, IInv', OrderInv, ~closed => TornRest(mtail) = <<>>, [Next]_vars
             PROVE  OrderInv'
  BY SMT
<1>1. CASE Open \/ OpenFails \/ Crash
  BY <1>1, <1>OpenOrder, <1>OpenFailsOrder, <1>CrashOrder
<1>2. CASE CloseSteps
  <2>1. mu = "close" => TornRest(mtail) = <<>>
    BY DEF IInv, ControlInv
  <2> QED BY <1>2, <2>1, <1>CloseEndsOrder, <1>SaveBeginsOrder, <1>SavedOrder, <1>CloseSaveFailsOrder,
       <1>ClosePurgesOrder DEF CloseSteps, CloseSaved
<1>3. CASE WriteSteps \/ \E b \in Batches : Write(b)
  BY <1>3, <1>WriteOrder, <1>WriteFailsOrder, <1>AppliesOrder, <1>RotateSucceedsOrder, <1>SaveFailsOrder DEF
       WriteSteps
<1>4. CASE WorkerSteps
  <2>1. mu = "flush" => TornRest(mtail) = <<>>
    BY DEF IInv, ControlInv
  <2> QED BY <1>4, <2>1, <1>BackgroundOrder, <1>NumberTakenOrder, <1>SaveBeginsOrder, <1>SavedOrder,
       <1>SaveFailsOrder, <1>WorkerPurgesOrder DEF WorkerSteps, FlushSucceeds
<1>5. CASE CompactionSteps \/ UserCompacts
  <2>1. mu = "compact" => TornRest(mtail) = <<>>
    BY DEF IInv, ControlInv
  <2>2. MaybeCompactSelects \/ UserCompacts => \E by, n : Selects(by, n)
    BY DEF MaybeCompactSelects, UserCompacts
  <2> QED BY <1>5, <2>1, <2>2, <1>BackgroundOrder, <1>NumberTakenOrder, <1>SaveBeginsOrder, <1>SavedOrder,
       <1>SaveFailsOrder DEF CompactionSteps, CompactionSucceeds
<1>6. CASE \/ \E i \in Snaps : GetSnapshot(i) \/ ReleaseSnapshot(i)
           \/ \E r \in Readers : GetSteps(r) \/ \E k \in Keys : GetPins(r, k)
           \/ CloseBegins \/ UNCHANGED vars
  BY <1>6, <1>ClientOrder
<1> QED BY <1>1, <1>2, <1>3, <1>4, <1>5, <1>6 DEF Next

=============================================================================
