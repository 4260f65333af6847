---------------------------- MODULE DBInvariant -----------------------------
(***************************************************************************)
(* What the operators of modules MVCC, WAL, VersionEdit and DB return      *)
(* (above all that a compaction may replace its inputs by Retained of them *)
(* without any reader noticing), the inductive invariant of DB, and that   *)
(* every step keeps it.                                                    *)
(***************************************************************************)
EXTENDS DBCorrect, TLAPS

-----------------------------------------------------------------------------
(***************************************************************************)
(* Sets of numbers and finite sets.                                        *)
(***************************************************************************)

\* The least-number principle, from which all facts about Min, Max and finite sets
\* follow.  Lemmas that need it assume it; module DB_proofs, where they meet, proves
\* it (lemma NaturalsAreWellOrdered).
WellOrdered == \A S \in SUBSET Nat : S # {} => \E x \in S : \A y \in S : x <= y

\* Min of a set of natural numbers that is not empty is in it.
LEMMA MinProperties ==
  ASSUME WellOrdered, NEW S \in SUBSET Nat, S # {}
  PROVE  Min(S) \in S /\ \A y \in S : Min(S) <= y
  BY Zenon DEF WellOrdered, Min

\* A set that the first numbers enumerate is finite.
LEMMA FiniteByFunction ==
  ASSUME NEW S, NEW n \in Nat, NEW f, \A i \in 1..n : f[i] \in S, \A x \in S : \E i \in 1..n : f[i] = x
  PROVE IsFiniteSet(S)
<1> DEFINE s == [i \in 1..n |-> f[i]]
<1>1. s \in Seq(S) /\ Len(s) = n /\ \A i \in 1..n : s[i] = f[i]
  OBVIOUS
<1> HIDE DEF s
<1> QED BY <1>1 DEF IsFiniteSet

\* The empty set and singletons are finite.
LEMMA FiniteSmall == IsFiniteSet({}) /\ \A x : IsFiniteSet({x})
<1> USE Zenon
<1>1. IsFiniteSet({})
  <2>1. <<>> \in Seq({})
    BY SMT
  <2> QED BY <2>1 DEF IsFiniteSet
<1>2. ASSUME NEW x PROVE IsFiniteSet({x})
  <2>1. <<x>> \in Seq({x}) /\ Len(<<x>>) = 1 /\ <<x>>[1] = x
    BY SMT
  <2>2. \A y \in {x} : \E n \in 1..Len(<<x>>) : <<x>>[n] = y
    BY <2>1, SMT
  <2> QED BY <2>1, <2>2 DEF IsFiniteSet
<1> QED BY <1>1, <1>2

\* The values of a function on a finite set are finitely many.
LEMMA FiniteImage ==
  ASSUME NEW S, IsFiniteSet(S), NEW f
  PROVE  IsFiniteSet({f[x] : x \in S})
<1> USE Zenon
<1>1. PICK s \in Seq(S) : \A x \in S : \E n \in 1..Len(s) : s[n] = x
  BY DEF IsFiniteSet
<1> DEFINE g == [i \in 1..Len(s) |-> f[s[i]]]
           T == {f[x] : x \in S}
<1>2. \A i \in 1..Len(s) : s[i] \in S /\ g[i] = f[s[i]]
  BY <1>1, SMT
<1>3. \A y \in T : \E i \in 1..Len(s) : g[i] = y
  BY <1>1, <1>2, SMT
<1>4. \A i \in 1..Len(s) : g[i] \in T
  BY <1>2
<1>5. Len(s) \in Nat
  BY SMT
<1> HIDE DEF g, T
<1>6. IsFiniteSet(T)
  BY <1>3, <1>4, <1>5, FiniteByFunction
<1> QED BY <1>6 DEF T

\* A subset of a finite set is finite.
LEMMA FiniteSubset ==
  ASSUME NEW S, IsFiniteSet(S), NEW T \in SUBSET S
  PROVE  IsFiniteSet(T)
<1> USE Zenon
<1>1. CASE T = {}
  BY <1>1, FiniteSmall
<1>2. CASE T # {}
  <2>1. PICK d \in T : TRUE
    BY <1>2
  <2> DEFINE f == [x \in S |-> IF x \in T THEN x ELSE d]
  <2>2. T = {f[x] : x \in S}
    BY <2>1
  <2> HIDE DEF f
  <2> QED BY <2>2, FiniteImage
<1> QED BY <1>1, <1>2

\* A bounded set of natural numbers is finite.
LEMMA FiniteBounded ==
  ASSUME NEW n \in Nat
  PROVE  IsFiniteSet(1..n) /\ \A S \in SUBSET (0..n) : IsFiniteSet(S)
<1> USE Zenon
<1> DEFINE m == n + 1
           T == 0..n
           f == [i \in 1..m |-> i - 1]
<1>1. m \in Nat /\ \A i \in 1..m : f[i] \in T
  BY SMT
<1>2. ASSUME NEW x \in T PROVE \E i \in 1..m : f[i] = x
  <2>1. x + 1 \in 1..m /\ f[x + 1] = x
    BY SMT
  <2> QED BY <2>1
<1>3. 1..n \in SUBSET T
  BY SMT
<1> HIDE DEF f, m, T
<1>4. IsFiniteSet(T)
  BY <1>1, <1>2, FiniteByFunction
<1>5. \A S \in SUBSET T : IsFiniteSet(S)
  BY <1>4, FiniteSubset
<1> QED BY <1>3, <1>5 DEF T

\* Two finite sets have a finite union.
LEMMA FiniteUnion ==
  ASSUME NEW S, IsFiniteSet(S), NEW T, IsFiniteSet(T)
  PROVE  IsFiniteSet(S \cup T)
<1> USE Zenon
<1>1. PICK s \in Seq(S) : \A x \in S : \E n \in 1..Len(s) : s[n] = x
  BY DEF IsFiniteSet
<1>2. PICK t \in Seq(T) : \A x \in T : \E n \in 1..Len(t) : t[n] = x
  BY DEF IsFiniteSet
<1> DEFINE k == Len(s)
           n == Len(s) + Len(t)
           g == [i \in 1..n |-> IF i <= k THEN s[i] ELSE t[i - k]]
<1>3. k \in Nat /\ Len(t) \in Nat /\ n \in Nat
  BY SMT
<1>4. \A i \in 1..k : s[i] \in S
  BY SMT
<1>5. \A i \in 1..Len(t) : t[i] \in T
  BY SMT
<1>6. \A i \in 1..k : i \in 1..n /\ g[i] = s[i]
  BY <1>3, SMT
<1>7. \A i \in 1..Len(t) : k + i \in 1..n /\ g[k + i] = t[i]
  BY <1>3, SMT
<1>8. \A i \in 1..n : g[i] \in S \cup T
  BY <1>3, <1>4, <1>5, SMT
<1>9. \A x \in S \cup T : \E i \in 1..n : g[i] = x
  <2> HIDE DEF g, n
  <2>1. \A x \in S : \E i \in 1..n : g[i] = x
    BY <1>1, <1>6
  <2>2. \A x \in T : \E i \in 1..n : g[i] = x
    BY <1>2, <1>7
  <2> QED BY <2>1, <2>2
<1> HIDE DEF g, n
<1> QED BY <1>3, <1>8, <1>9, FiniteByFunction

\* So have finitely many: of the numbers of sets whose union is not finite, a
\* smallest would be one more than one whose union is.
LEMMA FiniteUNION ==
  ASSUME WellOrdered, NEW R, IsFiniteSet(R), \A S \in R : IsFiniteSet(S)
  PROVE  IsFiniteSet(UNION R)
<1> USE Zenon
<1>1. PICK s \in Seq(R) : \A x \in R : \E n \in 1..Len(s) : s[n] = x
  BY DEF IsFiniteSet
<1> DEFINE U(k) == UNION {s[i] : i \in 1..k}
           Bad == {k \in 0..Len(s) : ~IsFiniteSet(U(k))}
<1>2. Len(s) \in Nat /\ \A i \in 1..Len(s) : s[i] \in R
  BY SMT
<1>3. UNION R = U(Len(s))
  BY <1>1, <1>2
<1>4. Bad = {}
  <2> SUFFICES ASSUME Bad # {} PROVE FALSE
    OBVIOUS
  <2>1. Bad \in SUBSET Nat
    BY <1>2, SMT
  <2>2. PICK k \in Bad : \A m \in Bad : k <= m
    <3> HIDE DEF Bad
    <3> QED BY <2>1, MinProperties
  <2>3. k # 0
    <3>1. U(0) = {}
      BY SMT
    <3> QED BY <2>2, <3>1, FiniteSmall
  <2>4. k \in Nat /\ k <= Len(s) /\ k - 1 \in 0..Len(s) /\ k \in 1..Len(s) /\ ~(k <= k - 1)
    BY <2>2, <2>3, <1>2, SMT
  <2>5. IsFiniteSet(U(k - 1))
    BY <2>2, <2>4
  <2>6. U(k) = U(k - 1) \cup s[k]
    <3>1. 1..k = (1..(k-1)) \cup {k}
      BY <2>4, SMT
    <3> QED BY <3>1
  <2>7. IsFiniteSet(s[k])
    BY <1>2, <2>4
  <2>8. ~IsFiniteSet(U(k))
    BY <2>2
  <2> HIDE DEF U
  <2> QED BY <2>5, <2>6, <2>7, <2>8, FiniteUnion
<1>5. IsFiniteSet(U(Len(s)))
  <2>1. Len(s) \in 0..Len(s)
    BY <1>2, SMT
  <2> HIDE DEF U
  <2> QED BY <1>4, <2>1
<1> QED BY <1>3, <1>5

\* A finite set of natural numbers that is not empty has a largest element.
LEMMA MaxProperties ==
  ASSUME WellOrdered, NEW S \in SUBSET Nat, IsFiniteSet(S), S # {}
  PROVE  Max(S) \in S /\ \A y \in S : y <= Max(S)
<1> USE Zenon
<1>1. PICK s \in Seq(S) : \A x \in S : \E n \in 1..Len(s) : s[n] = x
  BY DEF IsFiniteSet
<1> DEFINE B(k) == \E x \in S : \A i \in 1..k : s[i] <= x
           Bad == {k \in 1..Len(s) : ~B(k)}
<1>2. Len(s) \in Nat /\ \A i \in 1..Len(s) : s[i] \in S /\ s[i] \in Nat
  <2>1. Len(s) \in Nat /\ \A i \in 1..Len(s) : s[i] \in S
    BY SMT
  <2> QED BY <2>1
<1>3. Bad = {}
  <2> SUFFICES ASSUME Bad # {} PROVE FALSE
    BY SMT
  <2>1. Bad \in SUBSET Nat
    BY <1>2, SMT
  <2>2. PICK k \in Bad : \A m \in Bad : k <= m
    <3> HIDE DEF Bad
    <3> QED BY <2>1, MinProperties
  <2>3. k \in 1..Len(s) /\ ~B(k)
    BY <2>2
  <2>4. k # 1
    <3> SUFFICES ASSUME k = 1 PROVE B(k)
      BY <2>3
    <3> QED BY <1>2, <2>3, SMT
  <2>5. k - 1 \in 1..Len(s) /\ ~(k <= k - 1)
    BY <1>2, <2>3, <2>4, SMT
  <2>6. B(k - 1)
    BY <2>2, <2>5
  <2>7. PICK x \in S : \A i \in 1..(k - 1) : s[i] <= x
    BY <2>6
  <2>8. \A i \in 1..k : i = k \/ i \in 1..(k - 1)
    BY <2>3, SMT
  <2>9. CASE s[k] <= x
    BY <2>3, <2>7, <2>8, <2>9
  <2>10. CASE x <= s[k]
    <3>1. ASSUME NEW i \in 1..k PROVE s[i] <= s[k]
      BY <1>2, <2>3, <2>5, <2>7, <2>8, <2>10, SMT
    <3> QED BY <1>2, <2>3, <3>1
  <2> QED BY <1>2, <2>3, <2>9, <2>10, SMT
<1>4. PICK z \in S : TRUE
  OBVIOUS
<1>5. 1 <= Len(s)
  BY <1>1, <1>2, <1>4, SMT
<1>6. B(Len(s))
  <2> HIDE DEF B
  <2> QED BY <1>2, <1>3, <1>5, SMT
<1>7. \E x \in S : \A y \in S : y <= x
  BY <1>1, <1>6
<1> QED BY <1>7 DEF Max

-----------------------------------------------------------------------------
(***************************************************************************)
(* Versions of keys, for all keys, versions and snapshots.                 *)
(***************************************************************************)

\* A set of versions that is not empty and has no sequence number above s has a
\* newest one.
LEMMA NewestExists ==
  ASSUME WellOrdered, NEW K, NEW V \in SUBSET Versions(K), V # {}, NEW s \in Nat,
         \A e \in V : e.seq <= s
  PROVE  \E n \in V : IsNewest(n, V)
<1> USE Zenon
<1> DEFINE D == {s - e.seq : e \in V}
<1>1. D \subseteq Nat /\ D # {}
  BY SMT DEF Versions
<1>2. PICK d \in D : \A c \in D : d <= c
  <2> HIDE DEF D
  <2> QED BY <1>1, MinProperties
<1>3. PICK n \in V : d = s - n.seq
  BY SMT
<1>4. ASSUME NEW f \in V PROVE f.seq <= n.seq
  <2>1. s - f.seq \in D /\ s - f.seq \in Nat /\ d \in Nat
    BY <1>1
  <2>2. d <= s - f.seq
    BY <1>2, <2>1
  <2> QED BY <1>3, <2>1, <2>2, SMT DEF Versions
<1> QED BY <1>3, <1>4 DEF IsNewest

-----------------------------------------------------------------------------
(***************************************************************************)
(* WAL files.                                                              *)
(***************************************************************************)

\* Creating, appending to, syncing and truncating a WAL file give a WAL file.
LEMMA WALOperationTypes ==
  ASSUME NEW V, NEW f \in WALFiles(V), NEW r \in BatchRecords(V)
  PROVE  /\ EmptyWAL \in WALFiles(V)
         /\ AppendRecord(f, r) \in WALFiles(V)
         /\ Len(AppendRecord(f, r).recs) = Len(f.recs) + 1
         /\ SyncFile(f) \in WALFiles(V)
         /\ SyncFile(f).recs = f.recs
         /\ TruncateTornTail(f) \in WALFiles(V)
<1> DEFINE S == BatchRecords(V)
<1>1. f.recs \in Seq(S) /\ r \in S
  BY Zenon DEF WALFiles
<1>2. Append(f.recs, r) \in Seq(S) /\ Len(Append(f.recs, r)) = Len(f.recs) + 1
  <2> HIDE DEF S
  <2> QED BY <1>1
<1>3. Len(f.recs) \in Nat
  <2> HIDE DEF S
  <2> QED BY <1>1
<1>4. <<>> \in Seq(S)
  OBVIOUS
<1> HIDE DEF S
<1> QED BY <1>1, <1>2, <1>3, <1>4, Zenon DEF WALFiles, EmptyWAL, AppendRecord,
  SyncFile, TruncateTornTail, S

\* A replay of a file yields finitely many versions.
LEMMA RecordedVersionsType ==
  ASSUME WellOrdered, NEW V, NEW f \in WALFiles(V)
  PROVE  RecordedVersions(f) \in FiniteSubsets(V)
<1> USE Zenon
<1> DEFINE S == BatchRecords(V)
           R == {f.recs[i] : i \in DOMAIN f.recs}
<1>1. f.recs \in Seq(S)
  BY DEF WALFiles
<1>2. R \subseteq S /\ IsFiniteSet(R)
  <2> HIDE DEF S
  <2>1. DOMAIN f.recs = 1..Len(f.recs) /\ Len(f.recs) \in Nat
    BY <1>1, SMT
  <2>2. IsFiniteSet(DOMAIN f.recs)
    BY <2>1, FiniteBounded
  <2>3. IsFiniteSet(R)
    BY <2>2, FiniteImage
  <2> QED BY <1>1, <2>3, SMT
<1>3. \A r \in R : IsFiniteSet(r) /\ r \subseteq V
  BY <1>2 DEF BatchRecords
<1>4. IsFiniteSet(UNION R)
  <2> HIDE DEF R
  <2> QED BY <1>2, <1>3, FiniteUNION
<1> QED BY <1>3, <1>4 DEF RecordedVersions, FiniteSubsets

\* The last sequence number of a batch record is a number.
LEMMA LastSeqType ==
  ASSUME WellOrdered, NEW r \in BatchRecords(Version)
  PROVE  LastSeq(r) \in Nat
<1> USE Zenon
<1> DEFINE f == [e \in r |-> e.seq]
           S == {e.seq : e \in r}
<1>1. S = {f[e] : e \in r}
  BY SMT
<1>2. IsFiniteSet(S)
  <2>1. IsFiniteSet(r)
    BY DEF BatchRecords
  <2> HIDE DEF f, S
  <2> QED BY <1>1, <2>1, FiniteImage
<1>3. S \in SUBSET Nat /\ S # {}
  BY DEF BatchRecords, Version, Versions
<1>4. Max(S) \in Nat
  <2> HIDE DEF S
  <2> QED BY <1>2, <1>3, MaxProperties
<1> QED BY <1>4 DEF LastSeq

-----------------------------------------------------------------------------
(***************************************************************************)
(* The manifest log.                                                       *)
(***************************************************************************)

\* A version whose live WAL has a number that was already handed out.
LEMMA ReplayType ==
  ASSUME WellOrdered, NEW base \in Edits, NEW log \in Seq(Records)
  PROVE  /\ Replay(base, log) \in Edits
         /\ base.wal < base.next /\ (\A i \in DOMAIN log : log[i].wal < log[i].next)
              => Replay(base, log).wal < Replay(base, log).next
<1> USE Zenon
<1> DEFINE n == Len(log)
           S(m, i) == \A j \in (i+1)..n : m.num \notin Dropped(log[j])
           A == [i \in 1..n |-> {m \in log[i].add : S(m, i)}]
           R == {A[i] : i \in 1..n}
           B == {m \in base.files : S(m, 0)}
<1>1. n \in Nat /\ DOMAIN log = 1..n
  BY SMT
<1>2. Replay(base, log).files = B \cup UNION R
  BY SMT DEF Replay
<1>3. \A i \in 1..n : log[i] \in Records
  BY <1>1, SMT
<1>4. \A i \in 1..n : A[i] \subseteq Metas /\ IsFiniteSet(A[i])
  BY <1>3, FiniteSubset DEF Records, FileSets
<1>5. IsFiniteSet(R)
  <2>1. IsFiniteSet(1..n)
    BY <1>1, FiniteBounded
  <2> HIDE DEF A, n
  <2> QED BY <2>1, FiniteImage
<1>6. IsFiniteSet(UNION R) /\ UNION R \subseteq Metas
  <2> HIDE DEF A
  <2> QED BY <1>4, <1>5, FiniteUNION
<1>7. IsFiniteSet(B) /\ B \subseteq Metas
  BY FiniteSubset DEF Edits, FileSets
<1>8. B \cup UNION R \in FileSets
  <2> HIDE DEF B, R
  <2> QED BY <1>6, <1>7, FiniteUnion DEF FileSets
<1> DEFINE r == Replay(base, log)
<1>9. /\ r.next = IF n = 0 THEN base.next ELSE log[n].next
      /\ r.wal  = IF n = 0 THEN base.wal  ELSE log[n].wal
      /\ r.last = IF n = 0 THEN base.last ELSE log[n].last
      /\ r = [next |-> r.next, wal |-> r.wal, last |-> r.last, files |-> r.files]
  BY DEF Replay
<1>10. n # 0 => n \in 1..n
  BY <1>1, SMT
<1>11. r.next \in Nat /\ r.wal \in Nat /\ r.last \in Nat
  <2>1. CASE n = 0
    BY <2>1, <1>9 DEF Edits
  <2>2. CASE n # 0
    BY <2>2, <1>9, <1>10, <1>3 DEF Records
  <2> QED BY <2>1, <2>2
<1>12. r.files \in FileSets
  BY <1>2, <1>8
<1>13. r \in Edits
  <2> HIDE DEF r
  <2> QED BY <1>9, <1>11, <1>12 DEF Edits
<1>14. ASSUME base.wal < base.next, \A i \in DOMAIN log : log[i].wal < log[i].next
       PROVE  r.wal < r.next
  BY <1>9, <1>10, <1>1, <1>14
<1> QED BY <1>13, <1>14

\* A log is cut before its first torn record.
LEMMA LogParts ==
  ASSUME WellOrdered, NEW log \in Seq(Records)
  PROVE  LET n == Len(IntactPrefix(log))
             L == Len(log)
         IN  /\ n \in 0..L /\ L \in Nat
             /\ IntactPrefix(log) = SubSeq(log, 1, n) /\ IntactPrefix(log) \in Seq(Records)
             /\ TornRest(log) = SubSeq(log, n + 1, L) /\ TornRest(log) \in Seq(Records)
             /\ Len(TornRest(log)) = L - n
             /\ \A i \in 1..n : IntactPrefix(log)[i] = log[i] /\ ~log[i].torn
             /\ \A i \in 1..(L - n) : TornRest(log)[i] = log[n + i]
             /\ n < L => log[n + 1].torn
<1> USE Zenon
<1> DEFINE L == Len(log)
           I == {k \in 0..L : \A j \in 1..k : ~log[j].torn}
           n == Max(I)
<1>1. L \in Nat /\ DOMAIN log = 1..L /\ \A i \in 1..L : log[i] \in Records
  BY SMT
<1>2. n \in I /\ \A k \in I : k <= n
  <2>1. I \in SUBSET (0..L) /\ 0 \in I
    BY <1>1, SMT
  <2>2. I \in SUBSET Nat
    BY <1>1, SMT
  <2> HIDE DEF I, L
  <2>3. IsFiniteSet(I)
    BY <1>1, <2>1, FiniteBounded
  <2> QED BY <2>1, <2>2, <2>3, MaxProperties
<1>3. IntactPrefix(log) = SubSeq(log, 1, n)
  BY DEF IntactPrefix
<1> HIDE DEF n
<1>4. n \in 0..L /\ n \in Nat /\ \A i \in 1..n : ~log[i].torn
  BY <1>1, <1>2, SMT
<1>5. n < L => log[n + 1].torn
  <2> SUFFICES ASSUME n < L, ~log[n + 1].torn PROVE FALSE
    BY SMT
  <2>1. n + 1 \in 0..L /\ ~(n + 1 <= n)
    <3> HIDE DEF L
    <3> QED BY <1>1, <1>4, SMT
  <2>2. \A j \in 1..(n + 1) : j = n + 1 \/ j \in 1..n
    BY <1>4, SMT
  <2>3. n + 1 \in I
    BY <1>4, <2>1, <2>2
  <2> QED BY <1>2, <2>1, <2>3
<1> HIDE DEF I
<1>6. /\ SubSeq(log, 1, n) \in Seq(Records) /\ Len(SubSeq(log, 1, n)) = n
      /\ \A i \in 1..n : SubSeq(log, 1, n)[i] = log[i]
  BY <1>1, <1>4, SMT
<1>7. /\ SubSeq(log, n + 1, L) \in Seq(Records)
      /\ Len(SubSeq(log, n + 1, L)) = L - n
      /\ \A i \in 1..(L - n) : SubSeq(log, n + 1, L)[i] = log[n + i]
  <2>1. CASE n = L
    <3>1. SubSeq(log, L + 1, L) = <<>>
      BY <1>1, SMT
    <3> QED BY <1>1, <2>1, <3>1, SMT
  <2>2. CASE n < L
    <3>0. PICK k \in Nat : k = n + 1
      BY <1>4, SMT
    <3>1. k \in 1..L /\ L - k + 1 = L - n
      BY <1>1, <1>4, <2>2, <3>0, SMT
    <3>2. \A i \in 1..(L - n) : k + i - 1 \in 1..L /\ k + i - 1 = n + i
      BY <1>1, <1>4, <2>2, <3>0, SMT
    <3> HIDE DEF L
    <3>3. /\ SubSeq(log, k, L) \in Seq(Records) /\ Len(SubSeq(log, k, L)) = L - k + 1
          /\ \A i \in 1..(L - k + 1) : SubSeq(log, k, L)[i] = log[k + i - 1]
      BY <1>1, <3>1, SMT
    <3>4. Len(SubSeq(log, k, L)) = L - n
      BY <3>1, <3>3
    <3>5. \A i \in 1..(L - n) : SubSeq(log, k, L)[i] = log[n + i]
      BY <3>1, <3>2, <3>3
    <3> QED BY <3>0, <3>3, <3>4, <3>5
  <2>3. n = L \/ n < L
    <3> HIDE DEF L
    <3> QED BY <1>1, <1>4, SMT
  <2> QED BY <2>1, <2>2, <2>3
<1>8. Len(IntactPrefix(log)) = n
  BY <1>3, <1>6
<1>9. TornRest(log) = SubSeq(log, n + 1, L)
  BY <1>8 DEF TornRest
<1> HIDE DEF L
<1> QED BY <1>1, <1>3, <1>4, <1>5, <1>6, <1>7, <1>8, <1>9 DEF L

\* The intact records and the rest of a log are logs.
LEMMA LogPartTypes ==
  ASSUME WellOrdered, NEW log \in Seq(Records)
  PROVE  /\ IntactPrefix(log) \in Seq(Records)
         /\ Len(IntactPrefix(log)) <= Len(log)
         /\ \A i \in DOMAIN IntactPrefix(log) :
              i \in DOMAIN log /\ IntactPrefix(log)[i] = log[i]
         /\ TornRest(log) \in Seq(Records)
         /\ \A i \in DOMAIN TornRest(log) :
              \E j \in DOMAIN log : TornRest(log)[i] = log[j]
<1> DEFINE p == IntactPrefix(log)
           t == TornRest(log)
           n == Len(p)
           L == Len(log)
<1>1. /\ n \in 0..L /\ L \in Nat /\ p \in Seq(Records) /\ t \in Seq(Records)
      /\ Len(t) = L - n /\ \A i \in 1..n : p[i] = log[i]
      /\ \A i \in 1..(L - n) : t[i] = log[n + i]
  BY LogParts, SMT
<1>2. DOMAIN log = 1..L
  OBVIOUS
<1> HIDE DEF p, t, L
<1>3. DOMAIN p = 1..n /\ DOMAIN t = 1..(L - n)
  BY <1>1
<1> HIDE DEF n
<1>4. \A i \in 1..n : i \in 1..L
  BY <1>1
<1>5. \A i \in 1..(L - n) : n + i \in 1..L
  BY <1>1
<1>6. n <= L
  BY <1>1
<1> QED BY <1>1, <1>2, <1>3, <1>4, <1>5, <1>6, Zenon DEF p, t, n, L

\* The record of a save is a record, as finite as the version saved.
LEMMA BuildEditPayloadType ==
  ASSUME NEW old \in Edits, NEW new \in Edits
  PROVE  /\ BuildEditPayload(old, new) \in Records
         /\ BuildEditPayload(old, new).wal = new.wal
         /\ BuildEditPayload(old, new).next = new.next
<1> USE Zenon
<1>1. \A m \in old.files : m.num \in Nat
  BY DEF Edits, FileSets, Metas
<1>2. {m \in new.files : m.num \notin Nums(old.files)} \in FileSets
  BY FiniteSubset DEF Edits, FileSets
<1> QED BY <1>1, <1>2 DEF BuildEditPayload, Records, Edits, Nums

-----------------------------------------------------------------------------
(***************************************************************************)
(* Directories: the files of one kind by number.                           *)
(***************************************************************************)

\* Replacing some files of a directory gives a directory.
LEMMA DirectoryReplacement ==
  ASSUME NEW T, NEW f, IsDirectory(f, T), NEW g,
         g = [n \in DOMAIN f |-> g[n]], \A n \in DOMAIN f : g[n] \in T
  PROVE  IsDirectory(g, T) /\ DOMAIN g = DOMAIN f
<1>1. DOMAIN g = DOMAIN f
  OBVIOUS
<1>2. g \in [DOMAIN f -> T]
  OBVIOUS
<1> QED BY <1>1, <1>2, Zenon DEF IsDirectory

\* A replay of WAL files yields a MemTable, and a last sequence number.
LEMMA ReplayedVersionsType ==
  ASSUME WellOrdered, NEW f, IsDirectory(f, WALFiles(Version)), NEW e \in Edits
  PROVE  ReplayedVersions(f, e) \in VersionSets /\ RecoveredLast(f, e) \in Nat
<1> USE Zenon
<1> DEFINE S == {m \in DOMAIN f : m >= e.wal}
           g == [n \in S |-> RecordedVersions(f[n])]
           R == {g[n] : n \in S}
           U == ReplayedVersions(f, e)
<1>1. IsFiniteSet(S)
  BY FiniteSubset DEF IsDirectory, FiniteSubsets
<1>2. \A n \in S : g[n] \in FiniteSubsets(Version)
  BY RecordedVersionsType DEF IsDirectory
<1>3. IsFiniteSet(R)
  <2> HIDE DEF g, S
  <2> QED BY <1>1, FiniteImage
<1>4. IsFiniteSet(UNION R) /\ UNION R \subseteq Version
  <2>1. \A r \in R : IsFiniteSet(r) /\ r \subseteq Version
    BY <1>2 DEF FiniteSubsets
  <2> HIDE DEF R
  <2> QED BY <1>3, <2>1, FiniteUNION
<1>5. U = UNION R
  BY DEF ReplayedVersions
<1>6. U \in VersionSets
  BY <1>4, <1>5 DEF VersionSets, FiniteSubsets
<1> DEFINE h == [v \in U |-> v.seq]
           Q == {h[v] : v \in U}
<1>7. IsFiniteSet(Q)
  <2>1. IsFiniteSet(U)
    BY <1>6 DEF VersionSets, FiniteSubsets
  <2> HIDE DEF U, h
  <2> QED BY <2>1, FiniteImage, SMT
<1>8. Q \subseteq Nat /\ Q = {v.seq : v \in U}
  <2>1. \A v \in U : v.seq \in Nat
    BY <1>6 DEF VersionSets, FiniteSubsets, Version, Versions
  <2> HIDE DEF U
  <2> QED BY <2>1
<1>9. e.last \in Nat
  BY DEF Edits
<1>10. Max({e.last} \cup Q) \in Nat
  <2> HIDE DEF Q
  <2>1. IsFiniteSet({e.last} \cup Q)
    BY <1>7, FiniteSmall, FiniteUnion
  <2> QED BY <1>8, <1>9, <2>1, MaxProperties
<1>11. RecoveredLast(f, e) = Max({e.last} \cup Q)
  BY <1>8 DEF RecoveredLast
<1> QED BY <1>6, <1>10, <1>11

-----------------------------------------------------------------------------
(***************************************************************************)
(* What the actions compute.                                               *)
(***************************************************************************)

\* The metadata of a finite table.
LEMMA MetaOfType ==
  ASSUME WellOrdered, NEW num \in Nat, NEW level \in 0..2, NEW ents \in VersionSets
  PROVE  MetaOf(num, level, ents) \in Metas /\ MetaOf(num, level, ents).num = num
<1> USE Zenon
<1> DEFINE f == [e \in ents |-> e.key]
           K == {f[e] : e \in ents}
<1>1. IsFiniteSet(ents) /\ \A e \in ents : e.key \in Nat
  BY KeysAreNumbers DEF VersionSets, FiniteSubsets, Version, Versions
<1>2. K = {e.key : e \in ents} /\ K \in SUBSET Nat /\ (ents # {} => K # {})
  BY <1>1
<1>3. IsFiniteSet(K)
  <2> HIDE DEF f
  <2> QED BY <1>1, FiniteImage
<1>5. ents # {} => Min(K) \in Nat /\ Max(K) \in Nat
  <2> HIDE DEF K
  <2> QED BY <1>2, <1>3, MinProperties, MaxProperties
<1>6. (IF ents = {} THEN 0 ELSE Min({e.key : e \in ents})) \in Nat
  BY <1>2, <1>5
<1>7. (IF ents = {} THEN 0 ELSE Max({e.key : e \in ents})) \in Nat
  BY <1>2, <1>5
<1> QED BY <1>6, <1>7 DEF MetaOf, Metas

\* The versions a batch writes.
LEMMA BatchVersionsType ==
  ASSUME NEW b \in Batches, NEW first \in Nat
  PROVE  BatchVersions(b, first) \in BatchRecords(Version)
<1> USE Zenon
<1> DEFINE g == [i \in DOMAIN b |-> [key |-> b[i].key, seq |-> first + i - 1,
                                     deleted |-> b[i].deleted]]
           R == {g[i] : i \in DOMAIN b}
           S == [key : Keys, deleted : BOOLEAN]
<1>1. b \in Seq(S) /\ Len(b) > 0
  BY BatchesAreNonEmpty
<1>2. Len(b) \in Nat /\ DOMAIN b = 1..Len(b) /\ \A i \in 1..Len(b) : b[i] \in S
  <2> HIDE DEF S
  <2> QED BY <1>1, SMT
<1>3. \A i \in 1..Len(b) : first + i - 1 \in Nat
  BY <1>2, SMT
<1>4. \A i \in DOMAIN b : g[i] \in Version
  BY <1>2, <1>3 DEF Version, Versions
<1>5. IsFiniteSet(R)
  <2>1. IsFiniteSet(DOMAIN b)
    BY <1>2, FiniteBounded
  <2> HIDE DEF g
  <2> QED BY <2>1, FiniteImage
<1>6. R # {}
  <2>1. 1 \in DOMAIN b
    BY <1>1, <1>2, SMT
  <2> QED BY <2>1
<1>7. BatchVersions(b, first) = R
  BY DEF BatchVersions
<1>8. R \subseteq Version
  BY <1>4
<1> HIDE DEF R
<1> QED BY <1>5, <1>6, <1>7, <1>8 DEF BatchRecords

\* What a compaction keeps is finite.
LEMMA RetainedType ==
  ASSUME NEW E \in VersionSets, NEW min, NEW level
  PROVE  Retained(E, min, level) \in VersionSets
<1>1. Retained(E, min, level) \subseteq E
  BY Zenon DEF Retained, KeepLatest, KeepForSnapshots
<1> QED BY <1>1, FiniteSubset, Zenon DEF VersionSets, FiniteSubsets

\* A torn record differs from the record in nothing else.
LEMMA TearType ==
  ASSUME NEW r \in Records
  PROVE  Tear(r) \in Records /\ Tear(r).wal = r.wal /\ Tear(r).next = r.next
BY Zenon DEF Tear, Records

-----------------------------------------------------------------------------
(***************************************************************************)
(* The inductive invariant.                                                *)
(***************************************************************************)
Saving == mu \in {"rotate", "flush", "compact", "close"}

\* Who may be where: what holding version_mu_ across a save, the queue's head, the
\* compaction's inputs and the worker's exit say about the other threads.
ControlInv ==
  /\ closed => /\ mu = "free" /\ worker.pc = "off" /\ comp = NoCompaction
               /\ closer.pc = "idle" /\ imm = <<>> /\ ~stop
  /\ ~closed => worker.pc # "off"
  /\ mu = "flush" => worker.pc = "publish"
  /\ mu = "compact" => comp.stage = "publish"
  /\ mu \in {"close", "purge"} =>
       closer.pc = "join" /\ worker.pc = "exit" /\ comp.by = "none"
  /\ mu \in {"write", "rotate"} => closer.pc = "idle"
  /\ stop <=> closer.pc = "join"
  /\ comp.stage = "idle" <=> comp.by = "none"
  /\ comp.by = "worker" =>
       worker.pc = "compact" /\ (comp.stage # "check" => comp.attempts < 4)
  /\ comp.by = "user" => comp.stage # "check"
  /\ worker.pc = "exit" => bgError \/ (stop /\ imm = <<>>)

\* What a thread read before it released the lock is still true.
ChecksInv ==
  /\ worker.pc \in {"build", "publish"} => QueueUnchanged
  /\ comp.stage \in {"build", "publish"} => InputsUnchanged

\* The open tables are those of the version, the one being saved included.
FilesInv ==
  /\ ~closed => Nums(edit.files) = DOMAIN tables
  /\ mu \in {"rotate", "close"} => Nums(pending.files) = Nums(edit.files)
  /\ mu = "flush" => Nums(pending.files) = Nums(edit.files) \cup {worker.num}
  /\ mu = "compact" =>
       Nums(pending.files) = (Nums(edit.files) \ comp.inputs) \cup {comp.num}

\* A live WAL's number was handed out, in every version on disk and in memory.
ManifestInv ==
  /\ mbase.wal < mbase.next
  /\ \A i \in DOMAIN mtail : mtail[i].wal < mtail[i].next
  /\ ~closed => edit.wal < edit.next
  /\ Saving => /\ pending.wal < pending.next /\ edit.next <= pending.next
               /\ Len(mtail) > 0

\* The active WAL exists and is the newest; no purge reaches it.
WALInv ==
  /\ ~closed => /\ activeWal \in DOMAIN wals /\ activeWal < edit.next
                /\ oldestWal <= activeWal
                /\ \A i \in DOMAIN imm : imm[i].wal <= activeWal
  /\ worker.pc \in {"compact", "purge"} => worker.wal <= activeWal
  /\ mu = "flush" => pending.wal <= activeWal
  /\ mu = "write" => Len(wals[activeWal].recs) > 0
  /\ mu = "rotate" => pending.next = edit.next + 1 /\ edit.next \in DOMAIN wals

IInv ==
  TypeOK /\ ControlInv /\ ChecksInv /\ FilesInv /\ ManifestInv /\ WALInv

-----------------------------------------------------------------------------
\* The values that variables have when nothing is going on have their types.
LEMMA IdleTypes ==
  /\ {} \in VersionSets
  /\ \A T : IsDirectory(<<>>, T) /\ <<>> \in Seq(T)
  /\ FirstEdit \in Edits /\ NoEdit \in Edits
  /\ IdleWorker \in Workers
  /\ NoCompaction \in Compactions
  /\ IdleCloser \in Closers
  /\ IdleReader \in Gets
<1> USE Zenon
<1>1. {} \in VersionSets
  BY FiniteSmall DEF VersionSets, FiniteSubsets
<1>2. \A T : IsDirectory(<<>>, T) /\ <<>> \in Seq(T)
  <2>1. DOMAIN <<>> = {} /\ \A T : <<>> \in [{} -> T] /\ <<>> \in Seq(T)
    BY SMT
  <2> QED BY <2>1, FiniteSmall DEF IsDirectory, FiniteSubsets
<1>3. FirstEdit \in Edits /\ NoEdit \in Edits
  BY FiniteSmall DEF FirstEdit, NoEdit, Edits, FileSets
<1>4. IdleWorker \in Workers
  BY <1>1 DEF IdleWorker, Workers
<1>5. NoCompaction \in Compactions
  <2>1. {} \in SUBSET Nat /\ 0 \in 0..2 /\ 0 \in 0..4
    BY SMT
  <2> QED BY <1>1, <2>1 DEF NoCompaction, Compactions
<1>6. IdleCloser \in Closers
  BY DEF IdleCloser, Closers
<1>7. IdleReader \in Gets
  BY <1>1, <1>2 DEF IdleReader, Gets
<1> QED BY <1>1, <1>2, <1>3, <1>4, <1>5, <1>6, <1>7

-----------------------------------------------------------------------------
(***************************************************************************)
(* Saving the manifest.                                                    *)
(***************************************************************************)

\* Replaying a log whose records have it keeps that property.
LEMMA ReplayFacts ==
  ASSUME WellOrdered, NEW base \in Edits, base.wal < base.next, NEW log \in Seq(Records),
         \A i \in DOMAIN log : log[i].wal < log[i].next
  PROVE  LET e == Replay(base, IntactPrefix(log))
             t == TornRest(log)
         IN  /\ e \in Edits /\ e.wal < e.next
             /\ t \in Seq(Records) /\ Len(t) \in Nat
             /\ \A i \in DOMAIN t : t[i].wal < t[i].next
<1> USE Zenon
<1> DEFINE p == IntactPrefix(log)
           t == TornRest(log)
<1>1. p \in Seq(Records) /\ \A i \in DOMAIN p : i \in DOMAIN log /\ p[i] = log[i]
  BY LogPartTypes
<1>2. t \in Seq(Records) /\ \A i \in DOMAIN t : \E j \in DOMAIN log : t[i] = log[j]
  BY LogPartTypes
<1> HIDE DEF p, t
<1>3. \A i \in DOMAIN p : p[i].wal < p[i].next
  BY <1>1
<1>4. Replay(base, p) \in Edits /\ Replay(base, p).wal < Replay(base, p).next
  BY <1>1, <1>3, ReplayType
<1>5. \A i \in DOMAIN t : t[i].wal < t[i].next
  BY <1>2
<1>6. Len(t) \in Nat
  BY <1>2, SMTT(60)
<1> QED BY <1>2, <1>4, <1>5, <1>6 DEF p, t

-----------------------------------------------------------------------------
(***************************************************************************)
(* Parts of the version, the queue and the readers.                        *)
(***************************************************************************)
\* See FileAdded.
LEMMA NumberTaken ==
  ASSUME NEW e \in Edits
  PROVE  LET a == [e EXCEPT !.next = @ + 1]
             b == [e EXCEPT !.next = @ + 1, !.wal = e.next]
         IN  /\ a \in Edits /\ a.next = e.next + 1 /\ a.wal = e.wal /\ a.files = e.files
             /\ b \in Edits /\ b.next = e.next + 1 /\ b.wal = e.next /\ b.files = e.files
             /\ e.next \in Nat /\ e.wal \in Nat
<1> USE Zenon
<1> DEFINE a == [e EXCEPT !.next = @ + 1]
           b == [e EXCEPT !.next = @ + 1, !.wal = e.next]
<1>1. e.next \in Nat /\ e.wal \in Nat
  BY DEF Edits
<1>2. a \in Edits /\ a.next = e.next + 1 /\ a.wal = e.wal /\ a.files = e.files
  BY <1>1, SMT DEF Edits
<1>3. b \in Edits /\ b.next = e.next + 1 /\ b.wal = e.next /\ b.files = e.files
  <2> DEFINE n == e.next + 1
             w == e.next
             c == [e EXCEPT !.next = n, !.wal = w]
  <2>1. n \in Nat /\ w \in Nat
    BY <1>1, SMT
  <2> HIDE DEF n, w
  <2>2. c \in Edits /\ c.next = n /\ c.wal = w /\ c.files = e.files
    BY <2>1 DEF Edits
  <2> QED BY <2>2 DEF n, w, c
<1> QED BY <1>1, <1>2, <1>3 DEF a, b

\* What Load and the replay of the WALs make of the files on disk.
LEMMA RecoveryFacts ==
  ASSUME WellOrdered, IInv
  PROVE  /\ LoadedEdit \in Edits /\ LoadedEdit.wal < LoadedEdit.next
         /\ LoadedEdit.wal \in Nat /\ LoadedEdit.next \in Nat
         /\ LoadManifest => /\ mbase' \in Edits /\ mtail' \in Seq(Records) /\ msynced' \in Nat
                            /\ mbase'.wal < mbase'.next
                            /\ \A i \in DOMAIN mtail' : mtail'[i].wal < mtail'[i].next
         /\ \A S : IsDirectory(Truncated(S), WALFiles(Version)) /\ DOMAIN Truncated(S) = DOMAIN wals
         /\ NewestWAL \in Nat
         /\ \A n \in LiveWALs(LoadedEdit) : n \in Nat /\ n <= NewestWAL
         /\ NewestWAL \in DOMAIN wals \/ NewestWAL = LoadedEdit.wal
<1> USE Zenon
<1> DEFINE e == LoadedEdit
           L == LiveWALs(e)
<1>1. /\ mbase \in Edits /\ mtail \in Seq(Records) /\ msynced \in Nat
      /\ IsDirectory(wals, WALFiles(Version))
  BY DEF IInv, TypeOK, DiskTypeOK
<1>2. mbase.wal < mbase.next /\ \A i \in DOMAIN mtail : mtail[i].wal < mtail[i].next
  BY DEF IInv, ManifestInv
<1>3. e \in Edits /\ e.wal < e.next
  BY <1>1, <1>2, ReplayFacts DEF LoadedEdit
<1>4. e.wal \in Nat /\ e.next \in Nat
  BY <1>3 DEF Edits
<1>5. LoadManifest => /\ mbase' \in Edits /\ mtail' \in Seq(Records) /\ msynced' \in Nat
                      /\ mbase'.wal < mbase'.next
                      /\ \A i \in DOMAIN mtail' : mtail'[i].wal < mtail'[i].next
  <2> SUFFICES ASSUME LoadManifest
               PROVE  /\ mbase' \in Edits /\ mtail' \in Seq(Records) /\ msynced' \in Nat
                      /\ mbase'.wal < mbase'.next
                      /\ \A i \in DOMAIN mtail' : mtail'[i].wal < mtail'[i].next
    BY SMT
  <2>1. CASE UNCHANGED <<mbase, mtail, msynced>>
    BY <1>1, <1>2, <2>1
  <2>2. CASE mbase' = LoadedEdit /\ mtail' = <<>> /\ msynced' = 0
    BY <1>3, <2>2, SMT
  <2> QED BY <2>1, <2>2 DEF LoadManifest
<1>6. ASSUME NEW S
      PROVE  IsDirectory(Truncated(S), WALFiles(Version)) /\ DOMAIN Truncated(S) = DOMAIN wals
  <2> DEFINE g == Truncated(S)
             T == WALFiles(Version)
  <2>1. \A n \in DOMAIN wals : wals[n] \in WALFiles(Version)
    BY <1>1 DEF IsDirectory
  <2>2. \A n \in DOMAIN wals : TruncateTornTail(wals[n]) \in WALFiles(Version)
    <3>1. ASSUME NEW n \in DOMAIN wals
          PROVE  wals[n].recs \in Seq(BatchRecords(Version))
      BY <2>1 DEF WALFiles
    <3>2. ASSUME NEW n \in DOMAIN wals
          PROVE  Len(wals[n].recs) \in Nat
      BY <3>1, SMT
    <3> QED BY <2>1, <3>2 DEF TruncateTornTail, SyncFile, WALFiles
  <2>3. g = [n \in DOMAIN wals |-> g[n]] /\ \A n \in DOMAIN wals : g[n] \in WALFiles(Version)
    BY <2>1, <2>2 DEF Truncated
  <2> HIDE DEF g
  <2>4. IsDirectory(g, T) /\ DOMAIN g = DOMAIN wals
    BY <1>1, <2>3, DirectoryReplacement
  <2> QED BY <2>4 DEF g
<1>7. L \in SUBSET Nat /\ IsFiniteSet(L) /\ L \subseteq DOMAIN wals
  BY <1>1, FiniteSubset DEF LiveWALs, IsDirectory, FiniteSubsets
<1> HIDE DEF e, L
<1>8. NewestWAL = (IF L = {} THEN e.wal ELSE Max(L))
  BY DEF NewestWAL, e, L
<1>9. CASE L = {}
  BY <1>3, <1>4, <1>5, <1>6, <1>8, <1>9 DEF e, L
<1>10. CASE L # {}
  <2>1. Max(L) \in L /\ \A n \in L : n <= Max(L)
    BY <1>7, <1>10, MaxProperties
  <2>2. NewestWAL \in L /\ \A n \in L : n <= NewestWAL
    BY <1>8, <1>10, <2>1
  <2>3. NewestWAL \in Nat /\ NewestWAL \in DOMAIN wals /\ \A n \in L : n \in Nat
    BY <1>7, <2>2
  <2> QED BY <1>3, <1>4, <1>5, <1>6, <2>2, <2>3 DEF e, L
<1> QED BY <1>9, <1>10


\* What the updates of a version make of it: a file is added, a file replaces
\* others, a file number is taken.
LEMMA FileAdded ==
  ASSUME NEW e \in Edits, NEW m \in Metas, NEW w \in Nat
  PROVE  LET new == [e EXCEPT !.files = @ \cup {m}, !.wal = w]
         IN  /\ new \in Edits /\ new.wal = w /\ new.next = e.next
             /\ Nums(new.files) = Nums(e.files) \cup {m.num}
<1> USE Zenon
<1> DEFINE F == e.files \cup {m}
           new == [e EXCEPT !.files = F, !.wal = w]
<1>1. e.files \in FileSets
  BY DEF Edits
<1>2. F \in FileSets
  BY <1>1, FiniteSmall, FiniteUnion DEF FileSets
<1>3. Nums(F) = Nums(e.files) \cup {m.num}
  BY DEF Nums
<1> HIDE DEF F
<1>4. new \in Edits /\ new.wal = w /\ new.next = e.next /\ new.files = F
  BY <1>2 DEF Edits
<1> HIDE DEF new
<1>5. Nums(new.files) = Nums(e.files) \cup {m.num}
  BY <1>3, <1>4
<1> QED BY <1>4, <1>5 DEF new, F

\* The invariant holds initially.
LEMMA InitIInv == Init => IInv
<1> USE Zenon
<1> SUFFICES ASSUME Init PROVE IInv
  BY SMT
<1>5. DiskTypeOK
  BY IdleTypes DEF Init, DiskTypeOK
<1>6. MemoryTypeOK
  BY IdleTypes DEF Init, MemoryTypeOK
<1>7. ThreadsTypeOK
  BY IdleTypes DEF Init, ThreadsTypeOK
<1>8. ReadersTypeOK
  BY IdleTypes DEF Init, ReadersTypeOK
<1>9. BoundsTypeOK
  BY DEF Init, BoundsTypeOK
<1>10. ControlInv /\ ChecksInv /\ FilesInv /\ WALInv
  BY DEF Init, ControlInv, ChecksInv, FilesInv, WALInv, IdleWorker, NoCompaction, IdleCloser
<1>11. ManifestInv
  BY SMT DEF Init, ManifestInv, Saving, FirstEdit
<1> QED BY <1>5, <1>6, <1>7, <1>8, <1>9, <1>10, <1>11 DEF IInv, TypeOK

-----------------------------------------------------------------------------
(***************************************************************************)
(* The steps keep the invariant.                                           *)
(***************************************************************************)

\* Every step keeps the invariant.
LEMMA NextIInv == WellOrdered => (IInv /\ [Next]_vars => IInv')
\* A read returns a sequence number or NotFound.
<1>LookupType.
  ASSUME WellOrdered, NEW K, NEW E \in SUBSET Versions(K), NEW k, NEW s \in Nat
  PROVE  Lookup(E, k, s) \in Nat
  <2> USE <1>LookupType
  <2> USE Zenon
  <2> DEFINE V == VisibleAt(E, k, s)
  <2>1. V \in SUBSET Versions(K) /\ \A e \in V : e.seq <= s
    BY DEF VisibleAt
  <2>2. CASE V = {}
    BY <2>2 DEF Lookup, NotFound
  <2>3. CASE V # {}
    <3>1. \E n \in V : IsNewest(n, V)
      <4> HIDE DEF V
      <4> QED BY <2>1, <2>3, NewestExists
    <3>2. Newest(V) \in V
      BY <3>1 DEF Newest, IsNewest
    <3>3. Newest(V).seq \in Nat
      BY <2>1, <3>2 DEF Versions
    <3> HIDE DEF V
    <3> QED BY <3>3 DEF Lookup, NotFound, V
  <2> QED BY <2>2, <2>3
\* So does a read of several sources.
<1>FirstHitType.
  ASSUME WellOrdered, NEW K, NEW sources \in Seq(SUBSET Versions(K)), NEW k, NEW s \in Nat
  PROVE  FirstHit(sources, k, s) \in Nat
  <2> USE <1>FirstHitType
  <2> USE Zenon
  <2> DEFINE hits == {i \in DOMAIN sources : VisibleAt(sources[i], k, s) # {}}
  <2>1. hits \in SUBSET Nat
    BY SMT
  <2>2. CASE hits = {}
    BY <2>2 DEF FirstHit, NotFound
  <2>3. CASE hits # {}
    <3>1. Min(hits) \in hits
      <4> HIDE DEF hits
      <4> QED BY <2>1, <2>3, MinProperties
    <3>2. sources[Min(hits)] \in SUBSET Versions(K)
      <4>1. Min(hits) \in DOMAIN sources
        BY <3>1
      <4> DEFINE S == SUBSET Versions(K)
      <4>2. sources \in Seq(S)
        BY SMT
      <4> HIDE DEF hits, S
      <4>3. sources[Min(hits)] \in S
        BY <4>1, <4>2, SMT
      <4> QED BY <4>3 DEF S
    <3>3. Lookup(sources[Min(hits)], k, s) \in Nat
      <4> HIDE DEF hits
      <4> QED BY <3>2, <1>LookupType
    <3>4. FirstHit(sources, k, s) = Lookup(sources[Min(hits)], k, s)
      BY <2>3 DEF FirstHit
    <3> QED BY <3>3, <3>4
  <2> QED BY <2>2, <2>3
\* A prefix of a file's records.
<1>RecordPrefixType.
  ASSUME NEW V, NEW f \in WALFiles(V), NEW n \in Nat, n <= Len(f.recs)
  PROVE  SubSeq(f.recs, 1, n) \in Seq(BatchRecords(V))
  <2> USE <1>RecordPrefixType
  <2> DEFINE S == BatchRecords(V)
  <2>1. f.recs \in Seq(S)
    BY Zenon DEF WALFiles
  <2> HIDE DEF S
  <2>2. \A i \in 1..n : f.recs[i] \in S
    BY <2>1
  <2>3. SubSeq(f.recs, 1, n) \in Seq(S)
    BY <2>2
  <2> QED BY <2>3, Zenon DEF S
\* A failed append and a power failure leave a WAL file.
<1>WALFailureTypes.
  ASSUME NEW V, NEW f \in WALFiles(V)
  PROVE  /\ \A how \in {"none", "torn", "full"} :
              Len(f.recs) > 0 => AppendLeaves(f, how) \in WALFiles(V)
         /\ AfterPowerFailure(f) \subseteq WALFiles(V)
  <2> USE <1>WALFailureTypes
  <2> USE Zenon
  <2>1. Len(f.recs) \in Nat /\ f.synced \in Nat
    <3> DEFINE S == BatchRecords(V)
    <3>1. f.recs \in Seq(S) /\ f.synced \in Nat
      BY DEF WALFiles
    <3> HIDE DEF S
    <3> QED BY <3>1, SMT
  <2>2. ASSUME NEW how \in {"none", "torn", "full"}, Len(f.recs) > 0
        PROVE  AppendLeaves(f, how) \in WALFiles(V)
    <3>1. SubSeq(f.recs, 1, Len(f.recs) - 1) \in Seq(BatchRecords(V))
      BY <2>1, <2>2, <1>RecordPrefixType, SMT
    <3> QED BY <3>1 DEF AppendLeaves, WALFiles
  <2>3. ASSUME NEW g \in AfterPowerFailure(f) PROVE g \in WALFiles(V)
    <3>1. PICK n \in f.synced..Len(f.recs), t \in BOOLEAN :
            g = [recs |-> SubSeq(f.recs, 1, n), synced |-> n, torn |-> t]
      BY SMT DEF AfterPowerFailure
    <3>2. n \in Nat /\ n <= Len(f.recs)
      BY <2>1, SMT
    <3>3. SubSeq(f.recs, 1, n) \in Seq(BatchRecords(V))
      BY <3>2, <1>RecordPrefixType
    <3> QED BY <3>1, <3>2, <3>3 DEF WALFiles
  <2> QED BY <2>2, <2>3
\* Removing files from a directory, and adding one, gives a directory.
<1>DirectoryOperations.
  ASSUME NEW T, NEW f, IsDirectory(f, T)
  PROVE  /\ \A S : IsDirectory(Restricted(f, S), T)
         /\ \A S : \A g \in PartlyRemoved(f, S) : IsDirectory(g, T)
         /\ \A n \in Nat : \A x \in T :
              IsDirectory(Created(f, n, x), T)
         /\ \A n : \A x \in T : IsDirectory([f EXCEPT ![n] = x], T)
  <2> USE <1>DirectoryOperations
  <2> USE Zenon
  <2>1. /\ DOMAIN f \subseteq Nat /\ IsFiniteSet(DOMAIN f)
        /\ \A n \in DOMAIN f : f[n] \in T
    BY DEF IsDirectory, FiniteSubsets
  <2>2. ASSUME NEW S PROVE IsDirectory(Restricted(f, S), T)
    <3>1. DOMAIN Restricted(f, S) = DOMAIN f \cap S
      BY DEF Restricted
    <3>2. IsFiniteSet(DOMAIN f \cap S)
      BY <2>1, FiniteSubset
    <3> QED BY <2>1, <3>1, <3>2 DEF IsDirectory, FiniteSubsets, Restricted
  <2>3. ASSUME NEW S, NEW g \in PartlyRemoved(f, S) PROVE IsDirectory(g, T)
    BY <2>2 DEF PartlyRemoved
  <2>4. ASSUME NEW n \in Nat, NEW x \in T PROVE IsDirectory(Created(f, n, x), T)
    <3>1. DOMAIN Created(f, n, x) = DOMAIN f \cup {n}
      BY DEF Created
    <3>2. IsFiniteSet(DOMAIN f \cup {n})
      BY <2>1, FiniteSmall, FiniteUnion
    <3>3. Created(f, n, x) \in [DOMAIN f \cup {n} -> T]
      BY <2>1 DEF Created
    <3> QED BY <2>1, <3>1, <3>2, <3>3 DEF IsDirectory, FiniteSubsets
  <2>5. ASSUME NEW n, NEW x \in T PROVE IsDirectory([f EXCEPT ![n] = x], T)
    BY <2>1 DEF IsDirectory, FiniteSubsets
  <2> QED BY <2>2, <2>3, <2>4, <2>5
\* Opening a WAL file for append creates it if need be.
<1>OpenedForAppendType.
  ASSUME NEW f, IsDirectory(f, WALFiles(Version)), NEW n \in Nat
  PROVE  /\ IsDirectory(OpenedForAppend(f, n), WALFiles(Version))
         /\ DOMAIN OpenedForAppend(f, n) = DOMAIN f \cup {n}
         /\ \A m \in DOMAIN f : OpenedForAppend(f, n)[m] = f[m]
  <2> USE <1>OpenedForAppendType
  <2> USE Zenon
  <2>1. EmptyWAL \in WALFiles(Version)
    <3> DEFINE S == BatchRecords(Version)
    <3>1. <<>> \in Seq(S)
      BY SMT
    <3> HIDE DEF S
    <3> QED BY <3>1 DEF EmptyWAL, WALFiles, S
  <2>2. CASE n \in DOMAIN f
    BY <2>2 DEF OpenedForAppend
  <2>3. CASE n \notin DOMAIN f
    BY <2>1, <2>3, <1>DirectoryOperations, SMT DEF OpenedForAppend, Created
  <2> QED BY <2>2, <2>3
\* The union of some of a directory's tables is a finite set of versions.
<1>UnionOfTables.
  ASSUME WellOrdered, NEW f, IsDirectory(f, VersionSets), NEW S, S \subseteq DOMAIN f
  PROVE  UNION {f[n] : n \in S} \in VersionSets
  <2> USE <1>UnionOfTables
  <2> USE Zenon
  <2>1. IsFiniteSet(S)
    BY FiniteSubset DEF IsDirectory, FiniteSubsets
  <2>2. \A n \in S : f[n] \subseteq Version /\ IsFiniteSet(f[n])
    BY DEF IsDirectory, VersionSets, FiniteSubsets
  <2> DEFINE g == [n \in S |-> f[n]]
             R == {g[n] : n \in S}
  <2>3. IsFiniteSet(R)
    <3> HIDE DEF g
    <3> QED BY <2>1, FiniteImage
  <2>4. R = {f[n] : n \in S}
    BY SMT
  <2>5. IsFiniteSet(UNION R) /\ UNION R \subseteq Version
    <3>1. \A r \in R : IsFiniteSet(r) /\ r \subseteq Version
      BY <2>2
    <3> HIDE DEF R
    <3> QED BY <2>3, <3>1, FiniteUNION
  <2> QED BY <2>4, <2>5 DEF VersionSets, FiniteSubsets
\* The smallest active snapshot is a sequence number, or 0.
<1>MinActiveSnapshotType.
  ASSUME WellOrdered, snaps \in [Snaps -> Nat \cup {Inactive}]
  PROVE  MinActiveSnapshotSequence \in Nat
  <2> USE <1>MinActiveSnapshotType
  <2> DEFINE s == {snaps[i] : i \in Snaps} \ {Inactive, 0}
  <2>1. s \in SUBSET Nat
    OBVIOUS
  <2>2. s # {} => Min(s) \in Nat
    <3> HIDE DEF s
    <3> QED BY <2>1, MinProperties, Zenon
  <2> QED BY <2>2, Zenon DEF MinActiveSnapshotSequence
\* What a failed save leaves of the manifest.
<1>SaveLeavesType.
  ASSUME mtail \in Seq(Records), Len(mtail) > 0,
         NEW how \in {"none", "torn", "full"}
  PROVE  /\ SaveLeaves(how) \in Seq(Records)
         /\ Len(SaveLeaves(how)) >= Len(mtail) - 1
         /\ \A i \in DOMAIN SaveLeaves(how) :
              /\ i \in DOMAIN mtail
              /\ SaveLeaves(how)[i].wal = mtail[i].wal
              /\ SaveLeaves(how)[i].next = mtail[i].next
  <2> USE <1>SaveLeavesType
  <2> USE Zenon
  <2> DEFINE n == Len(mtail)
  <2>1. n \in Nat /\ n > 0 /\ DOMAIN mtail = 1..n /\ \A i \in 1..n : mtail[i] \in Records
    BY SMT
  <2>2. CASE how = "none"
    <3>1. SaveLeaves(how) = SubSeq(mtail, 1, n - 1)
      BY <2>2 DEF SaveLeaves
    <3>2. \A i \in 1..(n - 1) : mtail[i] \in Records
      BY <2>1, SMT
    <3>3. /\ SubSeq(mtail, 1, n - 1) \in Seq(Records)
          /\ Len(SubSeq(mtail, 1, n - 1)) = n - 1
          /\ \A i \in 1..(n - 1) : SubSeq(mtail, 1, n - 1)[i] = mtail[i]
      BY <2>1, <3>2, SMT
    <3>4. DOMAIN SubSeq(mtail, 1, n - 1) = 1..(n - 1)
      BY <3>3, SMT
    <3>5. \A i \in 1..(n - 1) : i \in 1..n
      BY <2>1, SMT
    <3> HIDE DEF n
    <3> QED BY <2>1, <3>1, <3>3, <3>4, <3>5, SMT
  <2>3. CASE how = "torn"
    <3>1. SaveLeaves(how) = [mtail EXCEPT ![n] = Tear(mtail[n])]
      BY <2>3 DEF SaveLeaves
    <3>2. n \in 1..n /\ mtail[n] \in Records
      BY <2>1, SMT
    <3>3. /\ Tear(mtail[n]) \in Records
          /\ Tear(mtail[n]).wal = mtail[n].wal
          /\ Tear(mtail[n]).next = mtail[n].next
      <4> HIDE DEF n
      <4> QED BY <3>2, TearType
    <3> DEFINE t == [mtail EXCEPT ![n] = Tear(mtail[n])]
    <3>4. t \in Seq(Records) /\ Len(t) = n /\ DOMAIN t = 1..n
      <4> DEFINE x == Tear(mtail[n])
      <4>1. x \in Records /\ n \in 1..n
        BY <3>2, <3>3
      <4> HIDE DEF x
      <4>2. [mtail EXCEPT ![n] = x] \in Seq(Records)
        BY <4>1, SMT
      <4>3. /\ Len([mtail EXCEPT ![n] = x]) = n
            /\ DOMAIN [mtail EXCEPT ![n] = x] = 1..n
        BY <2>1, <4>1, <4>2, SMTT(60)
      <4> QED BY <4>2, <4>3 DEF x
    <3>5. \A i \in 1..n : t[i].wal = mtail[i].wal /\ t[i].next = mtail[i].next
      BY <2>1, <3>3
    <3> HIDE DEF t, n
    <3> QED BY <2>1, <3>1, <3>4, <3>5, SMT DEF t
  <2>4. CASE how = "full"
    BY <2>1, <2>4, SMT DEF SaveLeaves
  <2> QED BY <2>2, <2>3, <2>4
\* A step that leaves alone what DiskTypeOK is about keeps it.
<1>KeepsDiskType.
  ASSUME DiskTypeOK, UNCHANGED <<wals, ssts, mbase, mtail, msynced>>
  PROVE  DiskTypeOK'
  BY <1>KeepsDiskType, Zenon DEF DiskTypeOK
\* A step that leaves alone what MemoryTypeOK is about keeps it.
<1>KeepsMemoryType.
  ASSUME MemoryTypeOK, UNCHANGED <<closed, bgError, active, activeWal,
                oldestWal, imm, tables, edit, persisted, snaps>>
  PROVE  MemoryTypeOK'
  BY <1>KeepsMemoryType, Zenon DEF MemoryTypeOK
\* A step that leaves alone what ThreadsTypeOK is about keeps it.
<1>KeepsThreadsType.
  ASSUME ThreadsTypeOK, UNCHANGED <<mu, pending, work, stop, worker, comp,
                closer>>
  PROVE  ThreadsTypeOK'
  BY <1>KeepsThreadsType, Zenon DEF ThreadsTypeOK
\* A step that leaves alone what ReadersTypeOK is about keeps it.
<1>KeepsReadersType.
  ASSUME ReadersTypeOK, UNCHANGED <<reader>>
  PROVE  ReadersTypeOK'
  BY <1>KeepsReadersType, Zenon DEF ReadersTypeOK
\* A step that leaves alone what ControlInv is about keeps it.
<1>KeepsControl.
  ASSUME ControlInv, UNCHANGED <<closed, bgError, imm, mu, stop, worker,
                comp, closer>>
  PROVE  ControlInv'
  BY <1>KeepsControl, Zenon DEF ControlInv
\* A step that leaves alone what ChecksInv is about keeps it.
<1>KeepsChecks.
  ASSUME ChecksInv, UNCHANGED <<closed, imm, edit, worker, comp>>
  PROVE  ChecksInv'
  BY <1>KeepsChecks, Zenon DEF ChecksInv, QueueUnchanged, InputsUnchanged
\* A step that leaves alone what FilesInv is about keeps it.
<1>KeepsFiles.
  ASSUME FilesInv, UNCHANGED <<closed, tables, edit, mu, pending, worker,
                comp>>
  PROVE  FilesInv'
  BY <1>KeepsFiles, Zenon DEF FilesInv
\* A step that leaves alone what ManifestInv is about keeps it.
<1>KeepsManifest.
  ASSUME ManifestInv, UNCHANGED <<mbase, mtail, closed, edit, mu, pending>>
  PROVE  ManifestInv'
  BY <1>KeepsManifest, Zenon DEF ManifestInv, Saving
\* A step that leaves alone what WALInv is about keeps it.
<1>KeepsWAL.
  ASSUME WALInv, UNCHANGED <<wals, closed, activeWal, oldestWal, imm, edit,
                mu, pending, worker>>
  PROVE  WALInv'
  BY <1>KeepsWAL, Zenon DEF WALInv
\* A step that changes nothing keeps the invariant.
<1>StutterIInv. IInv /\ UNCHANGED vars => IInv'
  <2> USE Zenon
  <2> SUFFICES ASSUME IInv, UNCHANGED vars PROVE IInv'
    BY SMT
  <2> USE DEF vars, disk, memory, bounds
  <2>1. TypeOK'
    BY <1>KeepsDiskType, <1>KeepsMemoryType, <1>KeepsThreadsType, <1>KeepsReadersType DEF IInv, TypeOK,
         BoundsTypeOK
  <2>2. ControlInv' /\ ChecksInv' /\ FilesInv'
    BY <1>KeepsControl, <1>KeepsChecks, <1>KeepsFiles DEF IInv
  <2>3. ManifestInv' /\ WALInv'
    BY <1>KeepsManifest, <1>KeepsWAL DEF IInv
  <2> QED BY <2>1, <2>2, <2>3 DEF IInv
\* The record that a save appends is a record of a version whose live WAL number
\* was handed out.
<1>SaveAppendsFacts.
  ASSUME IInv, NEW new \in Edits, new.wal < new.next, SaveAppends(new)
  PROVE  /\ mbase' = mbase /\ msynced' = msynced /\ pending' = new
         /\ mtail' \in Seq(Records) /\ Len(mtail') > 0
         /\ \A i \in DOMAIN mtail' : mtail'[i].wal < mtail'[i].next
  <2> USE <1>SaveAppendsFacts
  <2> USE Zenon
  <2> DEFINE r == BuildEditPayload(persisted, new)
  <2>1. mtail \in Seq(Records) /\ persisted \in Edits
    BY DEF IInv, TypeOK, DiskTypeOK, MemoryTypeOK
  <2>2. r \in Records /\ r.wal < r.next
    BY <2>1, BuildEditPayloadType
  <2>3. mtail' = Append(mtail, r)
    BY DEF SaveAppends
  <2>4. \A i \in DOMAIN mtail : mtail[i].wal < mtail[i].next
    BY DEF IInv, ManifestInv
  <2> HIDE DEF r
  <2>5. /\ Append(mtail, r) \in Seq(Records) /\ Len(Append(mtail, r)) = Len(mtail) + 1
        /\ \A i \in 1..Len(mtail) : Append(mtail, r)[i] = mtail[i]
        /\ Append(mtail, r)[Len(mtail) + 1] = r
    BY <2>1, <2>2, SMT
  <2>6. \A i \in 1..(Len(mtail) + 1) : i \in DOMAIN mtail \/ i = Len(mtail) + 1
    BY <2>1, SMT
  <2>7. DOMAIN mtail = 1..Len(mtail) /\ DOMAIN mtail' = 1..(Len(mtail) + 1)
    BY <2>1, <2>3, <2>5, SMTT(60)
  <2>8. \A i \in DOMAIN mtail' : mtail'[i].wal < mtail'[i].next
    BY <2>2, <2>3, <2>4, <2>5, <2>6, <2>7
  <2>9. Len(mtail') > 0
    BY <2>1, <2>3, <2>5, SMTT(60)
  <2> QED BY <2>3, <2>5, <2>8, <2>9 DEF SaveAppends
\* A successful save.
<1>SaveSucceedsFacts.
  ASSUME WellOrdered, IInv, SaveSucceeds
  PROVE  /\ mbase' \in Edits /\ mtail' \in Seq(Records) /\ msynced' \in Nat
         /\ mbase'.wal < mbase'.next
         /\ \A i \in DOMAIN mtail' : mtail'[i].wal < mtail'[i].next
         /\ edit' = pending /\ persisted' = pending /\ pending' = NoEdit
         /\ edit' \in Edits /\ persisted' \in Edits /\ pending' \in Edits
  <2> USE <1>SaveSucceedsFacts
  <2> USE Zenon
  <2>1. mbase \in Edits /\ mtail \in Seq(Records) /\ pending \in Edits
    BY DEF IInv, TypeOK, DiskTypeOK, ThreadsTypeOK
  <2>2. mbase.wal < mbase.next /\ \A i \in DOMAIN mtail : mtail[i].wal < mtail[i].next
    BY DEF IInv, ManifestInv
  <2>3. /\ mbase' \in Edits /\ mtail' \in Seq(Records) /\ msynced' \in Nat
        /\ mbase'.wal < mbase'.next
        /\ \A i \in DOMAIN mtail' : mtail'[i].wal < mtail'[i].next
    BY <2>1, <2>2, ReplayFacts DEF SaveSucceeds
  <2> QED BY <2>1, <2>3, IdleTypes DEF SaveSucceeds
\* What a failed save leaves.
<1>SaveLeavesFacts.
  ASSUME IInv, Saving, NEW how \in SaveFailures
  PROVE  /\ SaveLeaves(how) \in Seq(Records)
         /\ \A i \in DOMAIN SaveLeaves(how) : SaveLeaves(how)[i].wal < SaveLeaves(how)[i].next
  <2> USE <1>SaveLeavesFacts
  <2> USE Zenon
  <2>1. mtail \in Seq(Records)
    BY DEF IInv, TypeOK, DiskTypeOK
  <2>2. /\ \A i \in DOMAIN mtail : mtail[i].wal < mtail[i].next
        /\ Len(mtail) > 0
    BY DEF IInv, ManifestInv
  <2>3. how \in {"none", "torn", "full"}
    BY FailuresAreKnown
  <2> QED BY <2>1, <2>2, <2>3, <1>SaveLeavesType
\* A failed save.
<1>SaveFailsFacts.
  ASSUME IInv, Saving, SaveFails
  PROVE  /\ mtail' \in Seq(Records) /\ mbase' = mbase /\ msynced' = msynced
         /\ \A i \in DOMAIN mtail' : mtail'[i].wal < mtail'[i].next
         /\ edit' = edit /\ persisted' = persisted /\ pending' = NoEdit
         /\ bgError' = TRUE /\ mu' = "free"
         /\ faults' = faults + 1 /\ UNCHANGED <<crashes, opens, compacts>>
  <2> USE <1>SaveFailsFacts
  <2>1. PICK how \in SaveFailures : mtail' = SaveLeaves(how)
    BY Zenon DEF SaveFails
  <2> QED BY <2>1, <1>SaveLeavesFacts, Zenon DEF SaveFails, OneFault
\* See FileAdded.
<1>FilesReplaced.
  ASSUME NEW e \in Edits, NEW m \in Metas, NEW S
  PROVE  LET new == [e EXCEPT !.files = {x \in @ : x.num \notin S} \cup {m}]
         IN  /\ new \in Edits /\ new.wal = e.wal /\ new.next = e.next
             /\ Nums(new.files) = (Nums(e.files) \ S) \cup {m.num}
  <2> USE <1>FilesReplaced
  <2> USE Zenon
  <2> DEFINE G == {x \in e.files : x.num \notin S}
             F == G \cup {m}
             new == [e EXCEPT !.files = F]
  <2>1. e.files \in FileSets
    BY DEF Edits
  <2>2. G \in FileSets
    BY <2>1, FiniteSubset DEF FileSets
  <2>3. F \in FileSets
    BY <2>2, FiniteSmall, FiniteUnion DEF FileSets
  <2>4. Nums(F) = (Nums(e.files) \ S) \cup {m.num}
    BY DEF Nums
  <2> HIDE DEF F
  <2>5. new \in Edits /\ new.wal = e.wal /\ new.next = e.next /\ new.files = F
    BY <2>3 DEF Edits
  <2> HIDE DEF new
  <2>6. Nums(new.files) = (Nums(e.files) \ S) \cup {m.num}
    BY <2>4, <2>5
  <2> QED BY <2>5, <2>6 DEF new, F, G
\* A reader that keeps the MemTable it pinned keeps its type.
<1>FreezeReadersType.
  ASSUME ReadersTypeOK, active \in VersionSets, FreezeReaders
  PROVE  ReadersTypeOK'
  <2> USE <1>FreezeReadersType
  <2>1. ASSUME NEW r \in Readers
        PROVE  /\ reader[r] \in Gets
               /\ [reader[r] EXCEPT !.active = active, !.shared = FALSE] \in Gets
    BY ZenonT(60) DEF ReadersTypeOK, Gets
  <2>2. ASSUME NEW r \in Readers
        PROVE  reader'[r] \in Gets
    BY <2>1, Zenon DEF FreezeReaders
  <2> QED BY <2>2, Zenon DEF FreezeReaders, ReadersTypeOK
\* A MemTable joins the queue at its end.
<1>QueueGrows.
  ASSUME NEW q \in Seq(Immutables), NEW x \in Immutables
  PROVE  /\ Append(q, x) \in Seq(Immutables) /\ Append(q, x) # <<>>
         /\ (q # <<>> => Append(q, x)[1] = q[1])
         /\ \A i \in DOMAIN Append(q, x) : Append(q, x)[i].wal = x.wal
                                        \/ \E j \in DOMAIN q : Append(q, x)[i] = q[j]
  <2> USE <1>QueueGrows
  <2> USE Zenon
  <2>1. /\ Append(q, x) \in Seq(Immutables) /\ Len(Append(q, x)) = Len(q) + 1
        /\ \A i \in 1..Len(q) : Append(q, x)[i] = q[i]
        /\ Append(q, x)[Len(q) + 1] = x
    BY SMT
  <2>2. Len(q) \in Nat /\ DOMAIN q = 1..Len(q) /\ DOMAIN Append(q, x) = 1..(Len(q) + 1)
    BY <2>1, SMT
  <2>3. Append(q, x) # <<>> /\ (q # <<>> => Append(q, x)[1] = q[1])
    BY <2>1, <2>2, SMTT(60)
  <2>4. ASSUME NEW i \in DOMAIN Append(q, x)
        PROVE  Append(q, x)[i].wal = x.wal \/ \E j \in DOMAIN q : Append(q, x)[i] = q[j]
    <3>1. CASE i = Len(q) + 1
      BY <2>1, <3>1
    <3>2. CASE i \in 1..Len(q)
      BY <2>1, <2>2, <3>2
    <3> QED BY <2>2, <3>1, <3>2, SMTT(60)
  <2> QED BY <2>1, <2>3, <2>4
\* The worker wakes.
<1>WorkerWakesStep. ASSUME IInv, WorkerWakes PROVE IInv'
  <2> USE <1>WorkerWakesStep
  <2> USE Zenon
  <2> USE DEF WorkerWakes, vars, disk, memory, bounds
  <2>1. DiskTypeOK'
    BY <1>KeepsDiskType DEF IInv, TypeOK
  <2>2. MemoryTypeOK'
    BY <1>KeepsMemoryType DEF IInv, TypeOK
  <2>3. ThreadsTypeOK'
    BY IdleTypes, ZenonT(60) DEF IInv, TypeOK, ThreadsTypeOK, Workers,
      Compactions, Closers
  <2>4. ReadersTypeOK' /\ BoundsTypeOK'
    BY DEF IInv, TypeOK, ReadersTypeOK, BoundsTypeOK
  <2>5. ControlInv'
    BY IdleTypes DEF IInv, ControlInv, TypeOK, ThreadsTypeOK, Workers, Compactions, Closers
  <2>6. ChecksInv'
    BY IdleTypes DEF IInv, ControlInv, ChecksInv, QueueUnchanged, InputsUnchanged, TypeOK,
         ThreadsTypeOK, Workers, Compactions
  <2>7. FilesInv'
    BY IdleTypes DEF IInv, ControlInv, FilesInv, TypeOK, ThreadsTypeOK, Workers, Compactions
  <2>8. ManifestInv'
    BY <1>KeepsManifest DEF IInv
  <2>9. WALInv'
    BY IdleTypes DEF IInv, ControlInv, WALInv, TypeOK, ThreadsTypeOK, Workers, Compactions
  <2> QED BY <2>1, <2>2, <2>3, <2>4, <2>5, <2>6, <2>7, <2>8, <2>9 DEF IInv, TypeOK
\* The worker finds an empty queue: it exits only if Close has begun, after which
\* nothing is queued.
<1>WorkerFindsNothingStep. ASSUME IInv, WorkerFindsNothing PROVE IInv'
  <2> USE <1>WorkerFindsNothingStep
  <2> USE Zenon
  <2> USE DEF WorkerFindsNothing, vars, disk, memory, bounds
  <2>1. DiskTypeOK'
    BY <1>KeepsDiskType DEF IInv, TypeOK
  <2>2. MemoryTypeOK'
    BY <1>KeepsMemoryType DEF IInv, TypeOK
  <2>3. ThreadsTypeOK'
    BY IdleTypes DEF IInv, TypeOK, ThreadsTypeOK, Workers, Compactions, Closers
  <2>4. ReadersTypeOK' /\ BoundsTypeOK'
    BY DEF IInv, TypeOK, ReadersTypeOK, BoundsTypeOK
  <2>5. ControlInv'
    BY IdleTypes DEF IInv, ControlInv, TypeOK, ThreadsTypeOK, Workers, Compactions, Closers
  <2>6. ChecksInv'
    BY IdleTypes DEF IInv, ControlInv, ChecksInv, QueueUnchanged, InputsUnchanged, TypeOK,
         ThreadsTypeOK, Workers, Compactions
  <2>7. FilesInv'
    BY IdleTypes DEF IInv, ControlInv, FilesInv, TypeOK, ThreadsTypeOK, Workers, Compactions
  <2>8. ManifestInv'
    BY <1>KeepsManifest DEF IInv
  <2>9. WALInv'
    BY IdleTypes DEF IInv, ControlInv, WALInv, TypeOK, ThreadsTypeOK, Workers, Compactions
  <2> QED BY <2>1, <2>2, <2>3, <2>4, <2>5, <2>6, <2>7, <2>8, <2>9 DEF IInv, TypeOK
\* The worker gives up on the queue after an error.
<1>WorkerGivesUpStep. ASSUME IInv, WorkerGivesUp PROVE IInv'
  <2> USE <1>WorkerGivesUpStep
  <2> USE Zenon
  <2> USE DEF WorkerGivesUp, vars, disk, memory, bounds
  <2>1. DiskTypeOK'
    BY <1>KeepsDiskType DEF IInv, TypeOK
  <2>2. MemoryTypeOK'
    BY <1>KeepsMemoryType DEF IInv, TypeOK
  <2>3. ThreadsTypeOK'
    BY IdleTypes DEF IInv, TypeOK, ThreadsTypeOK, Workers, Compactions, Closers
  <2>4. ReadersTypeOK' /\ BoundsTypeOK'
    BY DEF IInv, TypeOK, ReadersTypeOK, BoundsTypeOK
  <2>5. ControlInv'
    BY IdleTypes DEF IInv, ControlInv, TypeOK, ThreadsTypeOK, Workers, Compactions, Closers
  <2>6. ChecksInv'
    BY IdleTypes DEF IInv, ControlInv, ChecksInv, QueueUnchanged, InputsUnchanged, TypeOK,
         ThreadsTypeOK, Workers, Compactions
  <2>7. FilesInv'
    BY IdleTypes DEF IInv, ControlInv, FilesInv, TypeOK, ThreadsTypeOK, Workers, Compactions
  <2>8. ManifestInv'
    BY <1>KeepsManifest DEF IInv
  <2>9. WALInv'
    BY IdleTypes DEF IInv, ControlInv, WALInv, TypeOK, ThreadsTypeOK, Workers, Compactions
  <2> QED BY <2>1, <2>2, <2>3, <2>4, <2>5, <2>6, <2>7, <2>8, <2>9 DEF IInv, TypeOK
\* The worker builds a table.
<1>FlushBuildsStep. ASSUME IInv, FlushBuilds PROVE IInv'
  <2> USE <1>FlushBuildsStep
  <2> USE Zenon
  <2> USE DEF FlushBuilds, vars, disk, memory, bounds
  <2>1. DiskTypeOK'
    <3>1. worker.num \in Nat /\ worker.ents \in VersionSets /\ IsDirectory(ssts, VersionSets)
      BY DEF IInv, TypeOK, DiskTypeOK, ThreadsTypeOK, Workers
    <3>2. IsDirectory(ssts', VersionSets)
      BY <3>1, <1>DirectoryOperations
    <3> QED BY <3>2 DEF IInv, TypeOK, DiskTypeOK
  <2>2. MemoryTypeOK'
    BY <1>KeepsMemoryType DEF IInv, TypeOK
  <2>3. ThreadsTypeOK'
    BY IdleTypes, SMT DEF IInv, TypeOK, ThreadsTypeOK, Workers, Compactions, Closers
  <2>4. ReadersTypeOK' /\ BoundsTypeOK'
    BY DEF IInv, TypeOK, ReadersTypeOK, BoundsTypeOK
  <2>5. ControlInv'
    BY IdleTypes DEF IInv, ControlInv, TypeOK, ThreadsTypeOK, Workers, Compactions, Closers
  <2>6. ChecksInv'
    BY IdleTypes DEF IInv, ControlInv, ChecksInv, QueueUnchanged, InputsUnchanged, TypeOK,
         ThreadsTypeOK, Workers, Compactions
  <2>7. FilesInv'
    BY IdleTypes DEF IInv, ControlInv, FilesInv, TypeOK, ThreadsTypeOK, Workers, Compactions
  <2>8. ManifestInv'
    BY <1>KeepsManifest DEF IInv
  <2>9. WALInv'
    BY IdleTypes DEF IInv, ControlInv, WALInv, TypeOK, ThreadsTypeOK, Workers, Compactions
  <2> QED BY <2>1, <2>2, <2>3, <2>4, <2>5, <2>6, <2>7, <2>8, <2>9 DEF IInv, TypeOK
\* The worker fails to build a table.
<1>FlushBuildFailsStep. ASSUME IInv, FlushBuildFails PROVE IInv'
  <2> USE <1>FlushBuildFailsStep
  <2> USE Zenon
  <2> USE DEF FlushBuildFails, vars, disk, memory, bounds, OneFault
  <2>1. DiskTypeOK'
    <3>1. worker.num \in Nat /\ worker.ents \in VersionSets /\ IsDirectory(ssts, VersionSets)
      BY DEF IInv, TypeOK, DiskTypeOK, ThreadsTypeOK, Workers
    <3>2. IsDirectory(ssts', VersionSets)
      BY <3>1, <1>DirectoryOperations
    <3> QED BY <3>2 DEF IInv, TypeOK, DiskTypeOK
  <2>2. MemoryTypeOK'
    BY DEF IInv, TypeOK, MemoryTypeOK
  <2>3. ThreadsTypeOK'
    BY IdleTypes DEF IInv, TypeOK, ThreadsTypeOK, Workers, Compactions, Closers
  <2>4. ReadersTypeOK' /\ BoundsTypeOK'
    BY SMT DEF IInv, TypeOK, ReadersTypeOK, BoundsTypeOK
  <2>5. ControlInv'
    BY IdleTypes DEF IInv, ControlInv, TypeOK, ThreadsTypeOK, Workers, Compactions, Closers
  <2>6. ChecksInv'
    BY IdleTypes DEF IInv, ControlInv, ChecksInv, QueueUnchanged, InputsUnchanged, TypeOK,
         ThreadsTypeOK, Workers, Compactions
  <2>7. FilesInv'
    BY IdleTypes DEF IInv, ControlInv, FilesInv, TypeOK, ThreadsTypeOK, Workers, Compactions
  <2>8. ManifestInv'
    BY <1>KeepsManifest DEF IInv
  <2>9. WALInv'
    BY IdleTypes DEF IInv, ControlInv, WALInv, TypeOK, ThreadsTypeOK, Workers, Compactions
  <2> QED BY <2>1, <2>2, <2>3, <2>4, <2>5, <2>6, <2>7, <2>8, <2>9 DEF IInv, TypeOK
\* The worker picks the head of the queue and takes a file number.
<1>WorkerPicksStep. ASSUME IInv, WorkerPicks PROVE IInv'
  <2> USE <1>WorkerPicksStep
  <2> USE Zenon
  <2> USE DEF WorkerPicks, vars, disk, memory, bounds
  <2>a. imm[1] \in Immutables /\ edit \in Edits
    BY SMT DEF IInv, TypeOK, MemoryTypeOK
  <2>b. /\ edit' \in Edits /\ edit'.next = edit.next + 1 /\ edit'.files = edit.files
        /\ edit'.wal = edit.wal /\ edit.next \in Nat /\ edit.wal \in Nat
    BY <2>a, SMT DEF Edits
  <2>c. ~closed
    BY DEF IInv, ControlInv
  <2>1. DiskTypeOK'
    BY <1>KeepsDiskType DEF IInv, TypeOK
  <2>2. MemoryTypeOK'
    BY <2>b DEF IInv, TypeOK, MemoryTypeOK
  <2>3. ThreadsTypeOK'
    <3>1. worker' \in Workers
      BY <2>a, <2>b DEF Workers, Immutables
    <3> QED BY <3>1 DEF IInv, TypeOK, ThreadsTypeOK
  <2>4. ReadersTypeOK' /\ BoundsTypeOK'
    BY DEF IInv, TypeOK, ReadersTypeOK, BoundsTypeOK
  <2>5. ControlInv'
    BY IdleTypes DEF IInv, ControlInv, TypeOK, ThreadsTypeOK, Workers, Compactions, Closers
  <2>6. ChecksInv'
    BY IdleTypes, <2>b DEF IInv, ControlInv, ChecksInv, QueueUnchanged, InputsUnchanged, TypeOK,
         ThreadsTypeOK, Workers, Compactions
  <2>7. FilesInv'
    BY IdleTypes, <2>b DEF IInv, ControlInv, FilesInv, TypeOK, ThreadsTypeOK, Workers,
         Compactions
  <2>8. ManifestInv'
    BY <2>b, <2>c, SMT DEF IInv, ManifestInv, Saving
  <2>9. WALInv'
    BY IdleTypes, <2>b, <2>c, SMTT(60) DEF IInv, ControlInv, WALInv, TypeOK,
      ThreadsTypeOK, Workers, Compactions, MemoryTypeOK
  <2> QED BY <2>1, <2>2, <2>3, <2>4, <2>5, <2>6, <2>7, <2>8, <2>9 DEF IInv, TypeOK
\* The save of the version with the flushed table fails.
<1>FlushFailsStep. ASSUME IInv, FlushFails PROVE IInv'
  <2> USE <1>FlushFailsStep
  <2> USE Zenon
  <2> USE DEF FlushFails, vars, disk, memory, bounds
  <2>a. Saving
    BY DEF Saving
  <2> USE <1>SaveFailsFacts, <2>a
  <2>1. DiskTypeOK'
    BY DEF IInv, TypeOK, DiskTypeOK
  <2>2. MemoryTypeOK'
    BY DEF IInv, TypeOK, MemoryTypeOK
  <2>3. ThreadsTypeOK'
    BY IdleTypes, ZenonT(60) DEF IInv, TypeOK, ThreadsTypeOK, Workers,
      Compactions, Closers
  <2>4. ReadersTypeOK' /\ BoundsTypeOK'
    <3>1. faults' = faults + 1 /\ UNCHANGED <<crashes, opens, compacts>>
      BY <1>SaveFailsFacts, <2>a
    <3> QED BY <3>1, SMT DEF IInv, TypeOK, ReadersTypeOK, BoundsTypeOK
  <2>5. ControlInv'
    BY IdleTypes DEF IInv, ControlInv, TypeOK, ThreadsTypeOK, Workers, Compactions, Closers
  <2>6. ChecksInv'
    BY IdleTypes DEF IInv, ControlInv, ChecksInv, QueueUnchanged, InputsUnchanged, TypeOK,
         ThreadsTypeOK, Workers, Compactions
  <2>7. FilesInv'
    BY IdleTypes DEF IInv, ControlInv, FilesInv, TypeOK, ThreadsTypeOK, Workers, Compactions
  <2>8. ManifestInv'
    BY DEF IInv, ManifestInv, Saving
  <2>9. WALInv'
    BY IdleTypes, ZenonT(60) DEF IInv, ControlInv, WALInv, TypeOK, ThreadsTypeOK,
      Workers, Compactions
  <2> QED BY <2>1, <2>2, <2>3, <2>4, <2>5, <2>6, <2>7, <2>8, <2>9 DEF IInv, TypeOK
\* The worker removes the WALs before the live one; the active one stays.
<1>WorkerPurgesStep. ASSUME IInv, WorkerPurges PROVE IInv'
  <2> USE <1>WorkerPurgesStep
  <2> USE Zenon
  <2> USE DEF WorkerPurges, vars, disk, memory, bounds
  <2>1. DiskTypeOK'
    <3>1. IsDirectory(wals, WALFiles(Version))
      BY DEF IInv, TypeOK, DiskTypeOK
    <3>2. IsDirectory(wals', WALFiles(Version))
      BY <3>1, <1>DirectoryOperations
    <3> QED BY <3>2 DEF IInv, TypeOK, DiskTypeOK
  <2>2. MemoryTypeOK'
    BY <1>KeepsMemoryType DEF IInv, TypeOK
  <2>3. ThreadsTypeOK'
    BY IdleTypes, SMT DEF IInv, TypeOK, ThreadsTypeOK, Workers, Compactions, Closers
  <2>4. ReadersTypeOK' /\ BoundsTypeOK'
    BY DEF IInv, TypeOK, ReadersTypeOK, BoundsTypeOK
  <2>5. ControlInv'
    BY IdleTypes DEF IInv, ControlInv, TypeOK, ThreadsTypeOK, Workers, Compactions, Closers
  <2>6. ChecksInv'
    BY IdleTypes DEF IInv, ControlInv, ChecksInv, QueueUnchanged, InputsUnchanged, TypeOK,
         ThreadsTypeOK, Workers, Compactions
  <2>7. FilesInv'
    BY IdleTypes DEF IInv, ControlInv, FilesInv, TypeOK, ThreadsTypeOK, Workers, Compactions
  <2>8. ManifestInv'
    BY <1>KeepsManifest DEF IInv
  <2>9. WALInv'
    <3>1. ~closed /\ worker.wal <= activeWal
      BY DEF IInv, ControlInv, WALInv
    <3>2. activeWal \in DOMAIN wals /\ worker.wal \in Nat /\ activeWal \in Nat
      BY <3>1 DEF IInv, TypeOK, MemoryTypeOK, ThreadsTypeOK, Workers, WALInv
    <3>3. \A n \in DOMAIN wals : n >= worker.wal => n \in DOMAIN wals' /\ wals'[n] = wals[n]
      BY <3>2 DEF Restricted
    <3>4. edit.next \in Nat /\ (mu = "rotate" => edit.next \in DOMAIN wals')
      BY <3>1, <3>2, <3>3, SMTT(60) DEF IInv, WALInv, TypeOK, MemoryTypeOK, Edits
    <3> QED
      BY <3>1, <3>2, <3>3, <3>4, IdleTypes DEF IInv, ControlInv, WALInv, IdleWorker
  <2> QED BY <2>1, <2>2, <2>3, <2>4, <2>5, <2>6, <2>7, <2>8, <2>9 DEF IInv, TypeOK
\* ... or some of them.
<1>WorkerPurgeFailsStep. ASSUME IInv, WorkerPurgeFails PROVE IInv'
  <2> USE <1>WorkerPurgeFailsStep
  <2> USE Zenon
  <2> USE DEF WorkerPurgeFails, vars, disk, memory, bounds, OneFault
  <2>1. DiskTypeOK'
    <3>1. IsDirectory(wals, WALFiles(Version))
      BY DEF IInv, TypeOK, DiskTypeOK
    <3>2. IsDirectory(wals', WALFiles(Version))
      BY <3>1, <1>DirectoryOperations
    <3> QED BY <3>2 DEF IInv, TypeOK, DiskTypeOK
  <2>2. MemoryTypeOK'
    BY DEF IInv, TypeOK, MemoryTypeOK
  <2>3. ThreadsTypeOK'
    BY IdleTypes DEF IInv, TypeOK, ThreadsTypeOK, Workers, Compactions, Closers
  <2>4. ReadersTypeOK' /\ BoundsTypeOK'
    BY SMT DEF IInv, TypeOK, ReadersTypeOK, BoundsTypeOK
  <2>5. ControlInv'
    BY IdleTypes DEF IInv, ControlInv, TypeOK, ThreadsTypeOK, Workers, Compactions, Closers
  <2>6. ChecksInv'
    BY IdleTypes DEF IInv, ControlInv, ChecksInv, QueueUnchanged, InputsUnchanged, TypeOK,
         ThreadsTypeOK, Workers, Compactions
  <2>7. FilesInv'
    BY IdleTypes DEF IInv, ControlInv, FilesInv, TypeOK, ThreadsTypeOK, Workers, Compactions
  <2>8. ManifestInv'
    BY <1>KeepsManifest DEF IInv
  <2>9. WALInv'
    <3>1. ~closed /\ worker.wal <= activeWal
      BY DEF IInv, ControlInv, WALInv
    <3>2. activeWal \in DOMAIN wals /\ worker.wal \in Nat /\ activeWal \in Nat
      BY <3>1 DEF IInv, TypeOK, MemoryTypeOK, ThreadsTypeOK, Workers, WALInv
    <3>3. \A n \in DOMAIN wals : n >= worker.wal => n \in DOMAIN wals' /\ wals'[n] = wals[n]
      <4>1. PICK R \in SUBSET {n \in DOMAIN wals : n < worker.wal} :
              wals' = Restricted(wals, DOMAIN wals \ R)
        BY DEF PartlyRemoved
      <4>2. \A n \in DOMAIN wals : n \in Nat
        BY DEF IInv, TypeOK, DiskTypeOK, IsDirectory, FiniteSubsets
      <4> QED BY <3>2, <4>1, <4>2, SMT DEF Restricted
    <3>4. edit.next \in Nat /\ (mu = "rotate" => edit.next \in DOMAIN wals')
      BY <3>1, <3>2, <3>3 DEF IInv, WALInv, TypeOK, MemoryTypeOK, Edits
    <3> QED
      BY <3>1, <3>2, <3>3, <3>4, IdleTypes DEF IInv, ControlInv, WALInv, IdleWorker
  <2> QED BY <2>1, <2>2, <2>3, <2>4, <2>5, <2>6, <2>7, <2>8, <2>9 DEF IInv, TypeOK
\* The worker publishes the table: the version it saves keeps alive the WAL of the
\* next MemTable in the queue, or of the active one.
<1>FlushPublishesStep. ASSUME WellOrdered, IInv, FlushPublishes PROVE IInv'
  <2> USE <1>FlushPublishesStep
  <2> USE Zenon
  <2> DEFINE m == MetaOf(worker.num, 0, worker.ents)
             new == [edit EXCEPT !.files = @ \cup {m}, !.wal = NextLiveWAL]
  <2>a. /\ edit \in Edits /\ oldestWal \in Nat /\ activeWal \in Nat /\ ~closed
        /\ edit.next \in Nat
    BY DEF FlushPublishes, IInv, TypeOK, MemoryTypeOK, ControlInv, Edits
  <2>b. NextLiveWAL \in Nat /\ NextLiveWAL <= activeWal /\ activeWal < edit.next
    <3>1. CASE Len(imm) > 1
      <4>1. imm \in Seq(Immutables)
        BY DEF IInv, TypeOK, MemoryTypeOK
      <4>2. 2 \in DOMAIN imm /\ imm[2] \in Immutables
        BY <3>1, <4>1, SMT
      <4> QED BY <2>a, <3>1, <4>2 DEF NextLiveWAL, Immutables, IInv, WALInv
    <3>2. CASE ~(Len(imm) > 1)
      BY <2>a, <3>2 DEF NextLiveWAL, IInv, WALInv
    <3> QED BY <3>1, <3>2
  <2>c. m \in Metas /\ m.num = worker.num
    BY MetaOfType, SMT DEF IInv, TypeOK, ThreadsTypeOK, Workers
  <2>h. SaveAppends(new)
    BY DEF FlushPublishes
  <2> HIDE DEF m
  <2>e. /\ new \in Edits /\ new.wal = NextLiveWAL /\ new.next = edit.next
        /\ Nums(new.files) = Nums(edit.files) \cup {m.num}
    <3> DEFINE w == NextLiveWAL
    <3>1. edit \in Edits /\ m \in Metas /\ w \in Nat
      BY <2>a, <2>b, <2>c
    <3> HIDE DEF w
    <3>2. LET x == [edit EXCEPT !.files = @ \cup {m}, !.wal = w]
          IN  /\ x \in Edits /\ x.wal = w /\ x.next = edit.next
              /\ Nums(x.files) = Nums(edit.files) \cup {m.num}
      BY ONLY <3>1, FileAdded, Zenon
    <3> QED BY <3>2 DEF w
  <2> HIDE DEF new
  <2>f. Nums(new.files) = Nums(edit.files) \cup {worker.num}
    BY <2>c, <2>e
  <2>g. new.wal < new.next
    BY <2>a, <2>b, <2>e, SMT
  <2> HIDE DEF new
  <2>i. /\ mbase' = mbase /\ msynced' = msynced /\ pending' = new
        /\ mtail' \in Seq(Records) /\ Len(mtail') > 0
        /\ \A i \in DOMAIN mtail' : mtail'[i].wal < mtail'[i].next
    BY <2>e, <2>g, <2>h, <1>SaveAppendsFacts
  <2> USE DEF FlushPublishes, vars, disk, memory, bounds
  <2>1. DiskTypeOK'
    BY <2>i DEF IInv, TypeOK, DiskTypeOK
  <2>2. MemoryTypeOK'
    BY <1>KeepsMemoryType DEF IInv, TypeOK
  <2>3. ThreadsTypeOK'
    BY IdleTypes, <2>e, <2>i DEF IInv, TypeOK, ThreadsTypeOK, Workers, Compactions, Closers
  <2>4. ReadersTypeOK' /\ BoundsTypeOK'
    BY DEF IInv, TypeOK, ReadersTypeOK, BoundsTypeOK
  <2>5. ControlInv'
    BY IdleTypes DEF IInv, ControlInv, TypeOK, ThreadsTypeOK, Workers, Compactions, Closers
  <2>6. ChecksInv'
    BY <1>KeepsChecks DEF IInv
  <2>7. FilesInv'
    BY IdleTypes, <2>f, <2>i DEF IInv, ControlInv, FilesInv, TypeOK, ThreadsTypeOK, Workers,
         Compactions
  <2>8. ManifestInv'
    BY <2>a, <2>e, <2>g, <2>i, SMTT(60) DEF IInv, ManifestInv, Saving
  <2>9. WALInv'
    BY IdleTypes, <2>b, <2>e, <2>i DEF IInv, ControlInv, WALInv, TypeOK, ThreadsTypeOK, Workers,
         Compactions
  <2> QED BY <2>1, <2>2, <2>3, <2>4, <2>5, <2>6, <2>7, <2>8, <2>9 DEF IInv, TypeOK
\* The version with the table is durable: the MemTable leaves the queue.
<1>FlushSucceedsStep. ASSUME WellOrdered, IInv, FlushSucceeds PROVE IInv'
  <2> USE <1>FlushSucceedsStep
  <2> USE Zenon
  <2> USE DEF FlushSucceeds, vars, disk, memory, bounds
  <2>a. worker.num \in Nat /\ worker.ents \in VersionSets /\ pending \in Edits
    BY DEF IInv, TypeOK, ThreadsTypeOK, Workers
  <2>b. ~closed /\ worker.pc = "publish" /\ imm # <<>> /\ comp.by # "worker"
    BY DEF IInv, ControlInv, ChecksInv, QueueUnchanged
  <2>c. /\ Tail(imm) \in Seq(Immutables)
        /\ \A i \in DOMAIN Tail(imm) : i + 1 \in DOMAIN imm /\ Tail(imm)[i] = imm[i + 1]
    BY <2>b, SMT DEF IInv, TypeOK, MemoryTypeOK
  <2>d. /\ mbase' \in Edits /\ mtail' \in Seq(Records) /\ msynced' \in Nat
        /\ mbase'.wal < mbase'.next
        /\ \A i \in DOMAIN mtail' : mtail'[i].wal < mtail'[i].next
        /\ edit' = pending /\ persisted' = pending /\ pending' = NoEdit
        /\ edit' \in Edits /\ persisted' \in Edits /\ pending' \in Edits
    BY <1>SaveSucceedsFacts
  <2>e. DOMAIN tables' = DOMAIN tables \cup {worker.num}
    BY DEF Created
  <2>f. IsDirectory(tables', VersionSets)
    BY <2>a, <1>DirectoryOperations DEF IInv, TypeOK, MemoryTypeOK
  <2>g. pending.wal \in Nat /\ worker' \in Workers
    BY <2>a, IdleTypes, ZenonT(60) DEF Edits, Workers
  <2>h. worker'.pc = "compact" /\ worker'.wal = pending.wal /\ worker'.num = 0
    BY DEF IdleWorker
  <2>i. comp.inputs \subseteq Nums(edit.files) => comp.inputs \subseteq Nums(pending.files)
    BY DEF IInv, FilesInv
  <2>1. DiskTypeOK'
    BY <2>d DEF IInv, TypeOK, DiskTypeOK
  <2>2. MemoryTypeOK'
    BY <2>c, <2>d, <2>f DEF IInv, TypeOK, MemoryTypeOK
  <2>3. ThreadsTypeOK'
    BY <2>d, <2>g DEF IInv, TypeOK, ThreadsTypeOK
  <2>4. ReadersTypeOK' /\ BoundsTypeOK'
    BY DEF IInv, TypeOK, ReadersTypeOK, BoundsTypeOK
  <2>5. ControlInv'
    BY IdleTypes, <2>b, <2>h DEF IInv, ControlInv, TypeOK, ThreadsTypeOK, Workers, Compactions,
         Closers
  <2>6. ChecksInv'
    BY IdleTypes, <2>b, <2>d, <2>h, <2>i DEF IInv, ControlInv, ChecksInv, QueueUnchanged,
         InputsUnchanged, TypeOK, ThreadsTypeOK, Workers, Compactions
  <2>7. FilesInv'
    BY IdleTypes, <2>b, <2>d, <2>e DEF IInv, ControlInv, FilesInv, TypeOK, ThreadsTypeOK,
         Workers, Compactions
  <2>8. ManifestInv'
    BY <2>b, <2>d DEF IInv, ManifestInv, Saving
  <2>9. WALInv'
    <3>1. /\ activeWal \in DOMAIN wals /\ activeWal < edit.next /\ oldestWal <= activeWal
          /\ \A i \in DOMAIN imm : imm[i].wal <= activeWal
          /\ pending.wal <= activeWal
      BY <2>b DEF IInv, WALInv
    <3>2. edit.next <= pending.next
      BY DEF IInv, ManifestInv, Saving
    <3>3. edit.next \in Nat /\ pending.next \in Nat /\ activeWal \in Nat
      BY <2>a DEF IInv, TypeOK, MemoryTypeOK, Edits
    <3> QED BY <2>b, <2>c, <2>d, <2>h, <3>1, <3>2, <3>3, SMTT(60) DEF WALInv
  <2> QED BY <2>1, <2>2, <2>3, <2>4, <2>5, <2>6, <2>7, <2>8, <2>9 DEF IInv, TypeOK
\* A compaction selects files of the version and takes a file number.
<1>SelectsFacts.
  ASSUME WellOrdered, IInv, NEW by \in {"user", "worker"}, NEW n \in 0..3, Selects(by, n)
  PROVE  /\ comp' \in Compactions /\ comp'.by = by /\ comp'.stage = "build"
         /\ comp'.attempts = n /\ comp'.inputs \subseteq Nums(edit.files)
         /\ edit' \in Edits /\ edit'.next = edit.next + 1 /\ edit'.wal = edit.wal
         /\ edit'.files = edit.files /\ edit.next \in Nat /\ edit.wal \in Nat
         /\ activeWal \in Nat /\ mu = "free" /\ ~closed
  <2> USE <1>SelectsFacts
  <2> USE Zenon
  <2> DEFINE ins == Nums(CompactionInputs)
             E == UNION {tables[x] : x \in ins}
  <2>1. /\ mu = "free" /\ ~closed
        /\ comp' = [by |-> by, stage |-> "build", inputs |-> ins, ents |-> E,
                    level |-> SourceLevel + 1, min |-> MinActiveSnapshotSequence,
                    num |-> edit.next, attempts |-> n]
        /\ edit' = [edit EXCEPT !.next = @ + 1]
    BY DEF Selects
  <2>2. edit \in Edits /\ IsDirectory(tables, VersionSets) /\ activeWal \in Nat
    BY DEF IInv, TypeOK, MemoryTypeOK
  <2>3. ins \subseteq Nums(edit.files)
    BY DEF CompactionInputs, AtLevel, Nums
  <2>4. Nums(edit.files) = DOMAIN tables
    BY <2>1 DEF IInv, FilesInv
  <2>5. DOMAIN tables \subseteq Nat
    BY <2>2 DEF IsDirectory, FiniteSubsets
  <2>6. ins \in SUBSET Nat
    BY <2>3, <2>4, <2>5
  <2> HIDE DEF ins
  <2>7. E \in VersionSets
    BY <2>2, <2>3, <2>4, <1>UnionOfTables
  <2> HIDE DEF E
  <2>8. MinActiveSnapshotSequence \in Nat
    BY <1>MinActiveSnapshotType DEF IInv, TypeOK, MemoryTypeOK
  <2>9. SourceLevel + 1 \in 0..2
    BY SMT DEF SourceLevel
  <2>10. /\ edit' \in Edits /\ edit'.next = edit.next + 1 /\ edit'.wal = edit.wal
         /\ edit'.files = edit.files /\ edit.next \in Nat /\ edit.wal \in Nat
    BY <2>1, <2>2, SMT DEF Edits
  <2>11. n \in 0..4
    BY SMT
  <2>12. comp' \in Compactions
    BY <2>1, <2>6, <2>7, <2>8, <2>9, <2>10, <2>11 DEF Compactions
  <2>13. /\ comp'.by = by /\ comp'.stage = "build" /\ comp'.attempts = n
         /\ comp'.inputs = ins
    BY <2>1
  <2> QED BY <2>1, <2>2, <2>3, <2>10, <2>12, <2>13
\* A client's Compact.
<1>UserCompactsStep. ASSUME WellOrdered, IInv, UserCompacts PROVE IInv'
  <2> USE <1>UserCompactsStep
  <2> USE Zenon
  <2>a. /\ comp' \in Compactions /\ comp'.by = "user" /\ comp'.stage = "build"
        /\ comp'.attempts = 0 /\ comp'.inputs \subseteq Nums(edit.files)
        /\ edit' \in Edits /\ edit'.next = edit.next + 1 /\ edit'.wal = edit.wal
        /\ edit'.files = edit.files /\ edit.next \in Nat /\ edit.wal \in Nat
        /\ activeWal \in Nat /\ mu = "free" /\ ~closed
        /\ UNCHANGED <<disk, closed, bgError, active, activeWal, oldestWal, imm,
                       tables, persisted, snaps, mu, pending, work, stop, worker,
                       closer, reader, faults, crashes, opens>>
    BY <1>SelectsFacts, SMT DEF UserCompacts, Selects
  <2> USE DEF UserCompacts, vars, disk, memory, bounds
  <2>1. DiskTypeOK'
    BY <2>a DEF IInv, TypeOK, DiskTypeOK
  <2>2. MemoryTypeOK'
    BY <2>a DEF IInv, TypeOK, MemoryTypeOK
  <2>3. ThreadsTypeOK'
    BY IdleTypes, <2>a DEF IInv, TypeOK, ThreadsTypeOK, Workers, Compactions, Closers
  <2>4. ReadersTypeOK' /\ BoundsTypeOK'
    BY <2>a, SMT DEF IInv, TypeOK, ReadersTypeOK, BoundsTypeOK
  <2>5. ControlInv'
    BY IdleTypes, <2>a DEF IInv, ControlInv, TypeOK, ThreadsTypeOK, Workers, Compactions, Closers
  <2>6. ChecksInv'
    BY IdleTypes, <2>a DEF IInv, ControlInv, ChecksInv, QueueUnchanged, InputsUnchanged, TypeOK,
         ThreadsTypeOK, Workers, Compactions
  <2>7. FilesInv'
    BY IdleTypes, <2>a DEF IInv, ControlInv, FilesInv, TypeOK, ThreadsTypeOK, Workers,
         Compactions
  <2>8. ManifestInv'
    BY <2>a, SMT DEF IInv, ManifestInv, Saving
  <2>9. WALInv'
    BY IdleTypes, <2>a, SMTT(60) DEF IInv, ControlInv, WALInv, TypeOK,
      ThreadsTypeOK, Workers, Compactions
  <2> QED BY <2>1, <2>2, <2>3, <2>4, <2>5, <2>6, <2>7, <2>8, <2>9 DEF IInv, TypeOK
\* The worker takes compaction_mu_.
<1>MaybeCompactStartsStep. ASSUME IInv, MaybeCompactStarts PROVE IInv'
  <2> USE <1>MaybeCompactStartsStep
  <2> USE Zenon
  <2> USE DEF MaybeCompactStarts, vars, disk, memory, bounds
  <2>1. DiskTypeOK'
    BY <1>KeepsDiskType DEF IInv, TypeOK
  <2>2. MemoryTypeOK'
    BY <1>KeepsMemoryType DEF IInv, TypeOK
  <2>3. ThreadsTypeOK'
    BY IdleTypes DEF IInv, TypeOK, ThreadsTypeOK, Workers, Compactions, Closers
  <2>4. ReadersTypeOK' /\ BoundsTypeOK'
    BY DEF IInv, TypeOK, ReadersTypeOK, BoundsTypeOK
  <2>5. ControlInv'
    BY IdleTypes DEF IInv, ControlInv, TypeOK, ThreadsTypeOK, Workers, Compactions, Closers
  <2>6. ChecksInv'
    BY IdleTypes DEF IInv, ControlInv, ChecksInv, QueueUnchanged, InputsUnchanged, TypeOK,
         ThreadsTypeOK, Workers, Compactions
  <2>7. FilesInv'
    BY IdleTypes DEF IInv, ControlInv, FilesInv, TypeOK, ThreadsTypeOK, Workers, Compactions
  <2>8. ManifestInv'
    BY <1>KeepsManifest DEF IInv
  <2>9. WALInv'
    BY <1>KeepsWAL DEF IInv
  <2> QED BY <2>1, <2>2, <2>3, <2>4, <2>5, <2>6, <2>7, <2>8, <2>9 DEF IInv, TypeOK
\* The worker finds a level that is over its limit.
<1>MaybeCompactSelectsStep. ASSUME WellOrdered, IInv, MaybeCompactSelects PROVE IInv'
  <2> USE <1>MaybeCompactSelectsStep
  <2> USE Zenon
  <2>a. /\ comp' \in Compactions /\ comp'.by = "worker" /\ comp'.stage = "build"
        /\ comp'.attempts = comp.attempts /\ comp'.inputs \subseteq Nums(edit.files)
        /\ edit' \in Edits /\ edit'.next = edit.next + 1 /\ edit'.wal = edit.wal
        /\ edit'.files = edit.files /\ edit.next \in Nat /\ edit.wal \in Nat
        /\ activeWal \in Nat /\ mu = "free" /\ ~closed
        /\ UNCHANGED <<disk, closed, bgError, active, activeWal, oldestWal, imm,
                       tables, persisted, snaps, mu, pending, work, stop, worker,
                       closer, reader, faults, crashes, opens>>
    <3>1. comp.attempts \in 0..3
      BY SMT DEF MaybeCompactSelects, IInv, TypeOK, ThreadsTypeOK, Compactions
    <3> QED BY <3>1, <1>SelectsFacts DEF MaybeCompactSelects, Selects
  <2> USE DEF MaybeCompactSelects, vars, disk, memory, bounds
  <2>1. DiskTypeOK'
    BY <2>a DEF IInv, TypeOK, DiskTypeOK
  <2>2. MemoryTypeOK'
    BY <2>a DEF IInv, TypeOK, MemoryTypeOK
  <2>3. ThreadsTypeOK'
    BY IdleTypes, <2>a DEF IInv, TypeOK, ThreadsTypeOK, Workers, Compactions, Closers
  <2>4. ReadersTypeOK' /\ BoundsTypeOK'
    BY <2>a DEF IInv, TypeOK, ReadersTypeOK, BoundsTypeOK
  <2>5. ControlInv'
    BY IdleTypes, <2>a DEF IInv, ControlInv, TypeOK, ThreadsTypeOK, Workers, Compactions, Closers
  <2>6. ChecksInv'
    BY IdleTypes, <2>a DEF IInv, ControlInv, ChecksInv, QueueUnchanged, InputsUnchanged, TypeOK,
         ThreadsTypeOK, Workers, Compactions
  <2>7. FilesInv'
    BY IdleTypes, <2>a DEF IInv, ControlInv, FilesInv, TypeOK, ThreadsTypeOK, Workers,
         Compactions
  <2>8. ManifestInv'
    BY <2>a, SMT DEF IInv, ManifestInv, Saving
  <2>9. WALInv'
    BY IdleTypes, <2>a, SMT DEF IInv, ControlInv, WALInv, TypeOK, ThreadsTypeOK, Workers,
         Compactions
  <2> QED BY <2>1, <2>2, <2>3, <2>4, <2>5, <2>6, <2>7, <2>8, <2>9 DEF IInv, TypeOK
\* The end of a compaction.
<1>CompactionEndsFacts.
  ASSUME IInv, CompactionEnds
  PROVE  /\ comp' = NoCompaction /\ comp'.by = "none" /\ comp'.stage = "idle"
         /\ worker' \in Workers /\ worker'.wal = worker.wal /\ worker'.num = worker.num
         /\ worker'.pc = (IF comp.by = "worker" THEN "purge" ELSE worker.pc)
  BY <1>CompactionEndsFacts, Zenon DEF CompactionEnds, NoCompaction, IInv, TypeOK, ThreadsTypeOK, Workers
\* The worker has nothing to compact, or has done enough.
<1>MaybeCompactEndsStep. ASSUME IInv, MaybeCompactEnds PROVE IInv'
  <2> USE <1>MaybeCompactEndsStep
  <2> USE Zenon
  <2> USE DEF MaybeCompactEnds, vars, disk, memory, bounds
  <2>e. /\ comp' = NoCompaction /\ comp'.by = "none" /\ comp'.stage = "idle"
        /\ worker' \in Workers /\ worker'.wal = worker.wal /\ worker'.num = worker.num
        /\ worker'.pc = (IF comp.by = "worker" THEN "purge" ELSE worker.pc)
    BY <1>CompactionEndsFacts DEF MaybeCompactEnds
  <2>1. DiskTypeOK'
    BY <1>KeepsDiskType DEF IInv, TypeOK
  <2>2. MemoryTypeOK'
    BY <1>KeepsMemoryType DEF IInv, TypeOK
  <2>3. ThreadsTypeOK'
    BY IdleTypes, <2>e DEF IInv, TypeOK, ThreadsTypeOK, Workers, Compactions, Closers
  <2>4. ReadersTypeOK' /\ BoundsTypeOK'
    BY DEF IInv, TypeOK, ReadersTypeOK, BoundsTypeOK
  <2>5. ControlInv'
    BY IdleTypes, <2>e DEF IInv, ControlInv, TypeOK, ThreadsTypeOK, Workers, Compactions, Closers
  <2>6. ChecksInv'
    BY IdleTypes, <2>e DEF IInv, ControlInv, ChecksInv, QueueUnchanged, InputsUnchanged, TypeOK,
         ThreadsTypeOK, Workers, Compactions
  <2>7. FilesInv'
    BY IdleTypes, <2>e DEF IInv, ControlInv, FilesInv, TypeOK, ThreadsTypeOK, Workers,
         Compactions
  <2>8. ManifestInv'
    BY <1>KeepsManifest DEF IInv
  <2>9. WALInv'
    BY IdleTypes, <2>e DEF IInv, ControlInv, WALInv, TypeOK, ThreadsTypeOK, Workers, Compactions
  <2> QED BY <2>1, <2>2, <2>3, <2>4, <2>5, <2>6, <2>7, <2>8, <2>9 DEF IInv, TypeOK
\* A failed build ends the compaction.
<1>CompactionBuildFailsStep. ASSUME IInv, CompactionBuildFails PROVE IInv'
  <2> USE <1>CompactionBuildFailsStep
  <2> USE Zenon
  <2> USE DEF CompactionBuildFails, vars, disk, memory, bounds, OneFault
  <2>e. /\ comp' = NoCompaction /\ comp'.by = "none" /\ comp'.stage = "idle"
        /\ worker' \in Workers /\ worker'.wal = worker.wal /\ worker'.num = worker.num
        /\ worker'.pc = (IF comp.by = "worker" THEN "purge" ELSE worker.pc)
    BY <1>CompactionEndsFacts DEF CompactionBuildFails
  <2>1. DiskTypeOK'
    BY <1>KeepsDiskType DEF IInv, TypeOK
  <2>2. MemoryTypeOK'
    BY DEF IInv, TypeOK, MemoryTypeOK
  <2>3. ThreadsTypeOK'
    BY IdleTypes, <2>e DEF IInv, TypeOK, ThreadsTypeOK, Workers, Compactions, Closers
  <2>4. ReadersTypeOK' /\ BoundsTypeOK'
    BY SMT DEF IInv, TypeOK, ReadersTypeOK, BoundsTypeOK
  <2>5. ControlInv'
    BY IdleTypes, <2>e, ZenonT(60) DEF IInv, ControlInv, TypeOK, ThreadsTypeOK,
      Workers, Compactions, Closers
  <2>6. ChecksInv'
    BY IdleTypes, <2>e DEF IInv, ControlInv, ChecksInv, QueueUnchanged, InputsUnchanged, TypeOK,
         ThreadsTypeOK, Workers, Compactions
  <2>7. FilesInv'
    BY IdleTypes, <2>e DEF IInv, ControlInv, FilesInv, TypeOK, ThreadsTypeOK, Workers,
         Compactions
  <2>8. ManifestInv'
    BY <1>KeepsManifest DEF IInv
  <2>9. WALInv'
    BY IdleTypes, <2>e DEF IInv, ControlInv, WALInv, TypeOK, ThreadsTypeOK, Workers, Compactions
  <2> QED BY <2>1, <2>2, <2>3, <2>4, <2>5, <2>6, <2>7, <2>8, <2>9 DEF IInv, TypeOK
\* A compaction builds its output.
<1>CompactionBuildsStep. ASSUME IInv, CompactionBuilds PROVE IInv'
  <2> USE <1>CompactionBuildsStep
  <2> USE Zenon
  <2> USE DEF CompactionBuilds, vars, disk, memory, bounds
  <2>a. IsDirectory(ssts, VersionSets) /\ comp.num \in Nat /\ comp.ents \in VersionSets
    BY DEF IInv, TypeOK, DiskTypeOK, ThreadsTypeOK, Compactions
  <2>b. CompactionOutput \in VersionSets
    BY <2>a, RetainedType DEF CompactionOutput
  <2>c. IsDirectory(ssts', VersionSets)
    BY <2>a, <2>b, <1>DirectoryOperations
  <2>d. /\ comp' \in Compactions /\ comp'.stage = "publish" /\ comp'.by = comp.by
        /\ comp'.attempts = comp.attempts /\ comp'.inputs = comp.inputs
        /\ comp'.num = comp.num
    BY DEF IInv, TypeOK, ThreadsTypeOK, Compactions
  <2>1. DiskTypeOK'
    BY <2>c DEF IInv, TypeOK, DiskTypeOK
  <2>2. MemoryTypeOK'
    BY <1>KeepsMemoryType DEF IInv, TypeOK
  <2>3. ThreadsTypeOK'
    BY <2>d DEF IInv, TypeOK, ThreadsTypeOK
  <2>4. ReadersTypeOK' /\ BoundsTypeOK'
    BY DEF IInv, TypeOK, ReadersTypeOK, BoundsTypeOK
  <2>5. ControlInv'
    <3>1. ~closed /\ mu # "compact"
      BY SMT DEF IInv, ControlInv, NoCompaction
    <3> QED BY <2>d, <3>1 DEF IInv, ControlInv
  <2>6. ChecksInv'
    BY IdleTypes DEF IInv, ControlInv, ChecksInv, QueueUnchanged, InputsUnchanged, TypeOK,
         ThreadsTypeOK, Workers, Compactions
  <2>7. FilesInv'
    BY IdleTypes DEF IInv, ControlInv, FilesInv, TypeOK, ThreadsTypeOK, Workers, Compactions
  <2>8. ManifestInv'
    BY <1>KeepsManifest DEF IInv
  <2>9. WALInv'
    BY <1>KeepsWAL DEF IInv
  <2> QED BY <2>1, <2>2, <2>3, <2>4, <2>5, <2>6, <2>7, <2>8, <2>9 DEF IInv, TypeOK
\* The inputs are removed; a compaction of the worker counts as an attempt.
<1>CompactionRemovesStep. ASSUME IInv, CompactionRemoves PROVE IInv'
  <2> USE <1>CompactionRemovesStep
  <2> USE Zenon
  <2> USE DEF CompactionRemoves, vars, disk, memory, bounds
  <2>a. comp.by \in {"user", "worker"} /\ comp \in Compactions
    BY DEF IInv, ControlInv, TypeOK, ThreadsTypeOK, Compactions
  <2>b. /\ comp' \in Compactions
        /\ comp'.by = (IF comp.by = "user" THEN "none" ELSE "worker")
        /\ comp'.stage = (IF comp.by = "user" THEN "idle" ELSE "check")
    <3>1. CASE comp.by = "user"
      BY <3>1, IdleTypes DEF NoCompaction
    <3>2. CASE comp.by = "worker"
      <4>1. comp.attempts + 1 \in 0..4
        BY <2>a, <3>2, SMT DEF IInv, ControlInv, Compactions
      <4> DEFINE a == comp.attempts + 1
                 c == [NoCompaction EXCEPT !.by = "worker", !.stage = "check"]
      <4>2. c \in Compactions /\ c.by = "worker" /\ c.stage = "check"
        BY IdleTypes DEF Compactions
      <4>3. comp' = [c EXCEPT !.attempts = a] /\ a \in 0..4
        BY <3>2, <4>1
      <4> HIDE DEF a, c
      <4>4. LET d == [c EXCEPT !.attempts = a]
            IN  d \in Compactions /\ d.by = "worker" /\ d.stage = "check"
        BY <4>2, <4>3 DEF Compactions
      <4> QED BY <3>2, <4>3, <4>4
    <3> QED BY <2>a, <3>1, <3>2
  <2>1. DiskTypeOK'
    <3>1. IsDirectory(ssts, VersionSets)
      BY DEF IInv, TypeOK, DiskTypeOK
    <3>2. IsDirectory(ssts', VersionSets)
      BY <3>1, <1>DirectoryOperations
    <3> QED BY <3>2 DEF IInv, TypeOK, DiskTypeOK
  <2>2. MemoryTypeOK'
    BY <1>KeepsMemoryType DEF IInv, TypeOK
  <2>3. ThreadsTypeOK'
    BY <2>b DEF IInv, TypeOK, ThreadsTypeOK
  <2>4. ReadersTypeOK' /\ BoundsTypeOK'
    BY DEF IInv, TypeOK, ReadersTypeOK, BoundsTypeOK
  <2>5. ControlInv'
    BY IdleTypes, <2>a, <2>b, SMTT(60) DEF IInv, ControlInv, TypeOK,
      ThreadsTypeOK, Workers, Compactions, Closers
  <2>6. ChecksInv'
    BY IdleTypes, <2>b DEF IInv, ControlInv, ChecksInv, QueueUnchanged, InputsUnchanged, TypeOK,
         ThreadsTypeOK, Workers, Compactions
  <2>7. FilesInv'
    BY IdleTypes, <2>b DEF IInv, ControlInv, FilesInv, TypeOK, ThreadsTypeOK, Workers,
         Compactions
  <2>8. ManifestInv'
    BY <1>KeepsManifest DEF IInv
  <2>9. WALInv'
    BY <1>KeepsWAL DEF IInv
  <2> QED BY <2>1, <2>2, <2>3, <2>4, <2>5, <2>6, <2>7, <2>8, <2>9 DEF IInv, TypeOK
\* ... or only some of them.
<1>CompactionRemoveFailsStep. ASSUME IInv, CompactionRemoveFails PROVE IInv'
  <2> USE <1>CompactionRemoveFailsStep
  <2> USE Zenon
  <2> USE DEF CompactionRemoveFails, vars, disk, memory, bounds, OneFault
  <2>e. /\ comp' = NoCompaction /\ comp'.by = "none" /\ comp'.stage = "idle"
        /\ worker' \in Workers /\ worker'.wal = worker.wal /\ worker'.num = worker.num
        /\ worker'.pc = (IF comp.by = "worker" THEN "purge" ELSE worker.pc)
    BY <1>CompactionEndsFacts DEF CompactionRemoveFails
  <2>1. DiskTypeOK'
    <3>1. IsDirectory(ssts, VersionSets)
      BY DEF IInv, TypeOK, DiskTypeOK
    <3>2. IsDirectory(ssts', VersionSets)
      BY <3>1, <1>DirectoryOperations
    <3> QED BY <3>2 DEF IInv, TypeOK, DiskTypeOK
  <2>2. MemoryTypeOK'
    BY DEF IInv, TypeOK, MemoryTypeOK
  <2>3. ThreadsTypeOK'
    BY IdleTypes, <2>e DEF IInv, TypeOK, ThreadsTypeOK, Workers, Compactions, Closers
  <2>4. ReadersTypeOK' /\ BoundsTypeOK'
    BY SMTT(60) DEF IInv, TypeOK, ReadersTypeOK, BoundsTypeOK
  <2>5. ControlInv'
    BY IdleTypes, <2>e, ZenonT(60) DEF IInv, ControlInv, TypeOK, ThreadsTypeOK,
      Workers, Compactions, Closers
  <2>6. ChecksInv'
    BY IdleTypes, <2>e DEF IInv, ControlInv, ChecksInv, QueueUnchanged, InputsUnchanged, TypeOK,
         ThreadsTypeOK, Workers, Compactions
  <2>7. FilesInv'
    <3>1. mu' = "free" /\ closed' = closed /\ edit' = edit /\ tables' = tables
      OBVIOUS
    <3>2. FilesInv
      BY DEF IInv
    <3>3. mu' \notin {"rotate", "close"} /\ mu' # "flush" /\ mu' # "compact"
      BY <3>1
    <3> HIDE DEF CompactionRemoveFails, vars, disk, memory, bounds, OneFault
    <3> QED BY <3>1, <3>2, <3>3 DEF FilesInv
  <2>8. ManifestInv'
    BY <1>KeepsManifest DEF IInv
  <2>9. WALInv'
    BY IdleTypes, <2>e DEF IInv, ControlInv, WALInv, TypeOK, ThreadsTypeOK, Workers, Compactions
  <2> QED BY <2>1, <2>2, <2>3, <2>4, <2>5, <2>6, <2>7, <2>8, <2>9 DEF IInv, TypeOK
\* A compaction publishes its output in place of its inputs.
<1>CompactionPublishesStep. ASSUME WellOrdered, IInv, CompactionPublishes PROVE IInv'
  <2> USE <1>CompactionPublishesStep
  <2> USE Zenon
  <2> DEFINE m == MetaOf(comp.num, comp.level, CompactionOutput)
             new == [edit EXCEPT !.files = {x \in @ : x.num \notin comp.inputs} \cup {m}]
  <2>a. edit \in Edits /\ edit.next \in Nat /\ ~closed
    BY DEF CompactionPublishes, InputsUnchanged, IInv, TypeOK, MemoryTypeOK, Edits
  <2>b. comp.num \in Nat /\ comp.level \in 0..2 /\ comp.ents \in VersionSets
    BY DEF IInv, TypeOK, ThreadsTypeOK, Compactions
  <2>c. CompactionOutput \in VersionSets
    BY <2>b, RetainedType DEF CompactionOutput
  <2>d. m \in Metas /\ m.num = comp.num
    BY <2>b, <2>c, MetaOfType
  <2>h. SaveAppends(new)
    BY DEF CompactionPublishes
  <2> HIDE DEF m
  <2>e. /\ new \in Edits /\ new.wal = edit.wal /\ new.next = edit.next
        /\ Nums(new.files) = (Nums(edit.files) \ comp.inputs) \cup {m.num}
    <3>1. edit \in Edits /\ m \in Metas
      BY <2>a, <2>d
    <3> QED BY ONLY <3>1, <1>FilesReplaced, Zenon DEF new
  <2> HIDE DEF new
  <2>f. Nums(new.files) = (Nums(edit.files) \ comp.inputs) \cup {comp.num}
    BY <2>d, <2>e
  <2>g. new.wal < new.next
    BY <2>a, <2>e DEF IInv, ManifestInv
  <2> HIDE DEF new
  <2>i. /\ mbase' = mbase /\ msynced' = msynced /\ pending' = new
        /\ mtail' \in Seq(Records) /\ Len(mtail') > 0
        /\ \A i \in DOMAIN mtail' : mtail'[i].wal < mtail'[i].next
    BY <2>e, <2>g, <2>h, <1>SaveAppendsFacts
  <2> USE DEF CompactionPublishes, vars, disk, memory, bounds
  <2>1. DiskTypeOK'
    BY <2>i DEF IInv, TypeOK, DiskTypeOK
  <2>2. MemoryTypeOK'
    BY <1>KeepsMemoryType DEF IInv, TypeOK
  <2>3. ThreadsTypeOK'
    BY IdleTypes, <2>e, <2>i DEF IInv, TypeOK, ThreadsTypeOK, Workers, Compactions, Closers
  <2>4. ReadersTypeOK' /\ BoundsTypeOK'
    BY DEF IInv, TypeOK, ReadersTypeOK, BoundsTypeOK
  <2>5. ControlInv'
    <3>1. /\ comp.stage = "publish" /\ mu' = "compact"
          /\ UNCHANGED <<memory, stop, worker, comp, closer>>
      BY DEF CompactionPublishes
    <3> QED BY <2>a, <3>1, SMT DEF IInv, ControlInv, memory
  <2>6. ChecksInv'
    BY <1>KeepsChecks DEF IInv
  <2>7. FilesInv'
    BY IdleTypes, <2>f, <2>i DEF IInv, ControlInv, FilesInv, TypeOK, ThreadsTypeOK, Workers,
         Compactions
  <2>8. ManifestInv'
    BY <2>a, <2>e, <2>g, <2>i, SMT DEF IInv, ManifestInv, Saving
  <2>9. WALInv'
    BY IdleTypes, <2>e, <2>i DEF IInv, ControlInv, WALInv, TypeOK, ThreadsTypeOK, Workers,
         Compactions
  <2> QED BY <2>1, <2>2, <2>3, <2>4, <2>5, <2>6, <2>7, <2>8, <2>9 DEF IInv, TypeOK
\* The version with the output is durable.
<1>CompactionSucceedsStep. ASSUME WellOrdered, IInv, CompactionSucceeds PROVE IInv'
  <2> USE <1>CompactionSucceedsStep
  <2> USE Zenon
  <2> USE DEF CompactionSucceeds, vars, disk, memory, bounds
  <2>a. /\ IsDirectory(tables, VersionSets) /\ comp.num \in Nat
        /\ comp.ents \in VersionSets /\ pending \in Edits /\ edit \in Edits
        /\ activeWal \in Nat
    BY DEF IInv, TypeOK, MemoryTypeOK, ThreadsTypeOK, Compactions
  <2>b. ~closed /\ comp.stage = "publish" /\ comp.by # "none"
    BY DEF IInv, ControlInv, ChecksInv, InputsUnchanged
  <2>c. CompactionOutput \in VersionSets
    BY <2>a, RetainedType DEF CompactionOutput
  <2>d. /\ mbase' \in Edits /\ mtail' \in Seq(Records) /\ msynced' \in Nat
        /\ mbase'.wal < mbase'.next
        /\ \A i \in DOMAIN mtail' : mtail'[i].wal < mtail'[i].next
        /\ edit' = pending /\ persisted' = pending /\ pending' = NoEdit
        /\ edit' \in Edits /\ persisted' \in Edits /\ pending' \in Edits
    BY <1>SaveSucceedsFacts
  <2>e. IsDirectory(tables', VersionSets)
    <3>1. IsDirectory(Restricted(tables, DOMAIN tables \ comp.inputs), VersionSets)
      BY <2>a, <1>DirectoryOperations
    <3> QED BY <2>a, <2>c, <3>1, <1>DirectoryOperations
  <2>f. DOMAIN tables' = (DOMAIN tables \ comp.inputs) \cup {comp.num}
    BY DEF Created, Restricted
  <2>g. /\ comp' \in Compactions /\ comp'.stage = "remove" /\ comp'.by = comp.by
        /\ comp'.attempts = comp.attempts
    BY DEF IInv, TypeOK, ThreadsTypeOK, Compactions
  <2>h. edit.next <= pending.next /\ pending.wal < pending.next
    BY DEF IInv, ManifestInv, Saving
  <2>i. edit.next \in Nat /\ pending.next \in Nat
    BY <2>a DEF Edits
  <2>1. DiskTypeOK'
    BY <2>d DEF IInv, TypeOK, DiskTypeOK
  <2>2. MemoryTypeOK'
    BY <2>d, <2>e DEF IInv, TypeOK, MemoryTypeOK
  <2>3. ThreadsTypeOK'
    BY <2>d, <2>g DEF IInv, TypeOK, ThreadsTypeOK
  <2>4. ReadersTypeOK' /\ BoundsTypeOK'
    BY DEF IInv, TypeOK, ReadersTypeOK, BoundsTypeOK
  <2>5. ControlInv'
    BY <2>b, <2>g DEF IInv, ControlInv
  <2>6. ChecksInv'
    BY IdleTypes, <2>g DEF IInv, ControlInv, ChecksInv, QueueUnchanged, InputsUnchanged, TypeOK,
         ThreadsTypeOK, Workers, Compactions
  <2>7. FilesInv'
    BY IdleTypes, <2>b, <2>d, <2>f DEF IInv, ControlInv, FilesInv, TypeOK, ThreadsTypeOK,
         Workers, Compactions
  <2>8. ManifestInv'
    BY <2>d, <2>h DEF IInv, ManifestInv, Saving
  <2>9. WALInv'
    <3>1. activeWal < edit.next
      BY <2>b DEF IInv, WALInv
    <3>2. activeWal < pending.next
      BY <2>a, <2>h, <2>i, <3>1, SMT
    <3> QED BY <2>b, <2>d, <3>2 DEF IInv, WALInv
  <2> QED BY <2>1, <2>2, <2>3, <2>4, <2>5, <2>6, <2>7, <2>8, <2>9 DEF IInv, TypeOK
\* The save of the version with the output fails.
<1>CompactionFailsStep. ASSUME IInv, CompactionFails PROVE IInv'
  <2> USE <1>CompactionFailsStep
  <2> USE Zenon
  <2>s. Saving /\ SaveFails
    BY DEF CompactionFails, Saving
  <2>u. /\ mu = "compact"
        /\ UNCHANGED <<wals, ssts, closed, active, activeWal, oldestWal, imm, tables,
                       snaps, work, stop, closer, reader>>
    BY DEF CompactionFails
  <2>f. /\ mtail' \in Seq(Records) /\ mbase' = mbase /\ msynced' = msynced
        /\ \A i \in DOMAIN mtail' : mtail'[i].wal < mtail'[i].next
        /\ edit' = edit /\ persisted' = persisted /\ pending' = NoEdit
        /\ bgError' = TRUE /\ mu' = "free"
        /\ faults' = faults + 1 /\ UNCHANGED <<crashes, opens, compacts>>
    BY <2>s, <1>SaveFailsFacts
  <2>e. /\ comp' = NoCompaction /\ comp'.by = "none" /\ comp'.stage = "idle"
        /\ worker' \in Workers /\ worker'.wal = worker.wal /\ worker'.num = worker.num
        /\ worker'.pc = (IF comp.by = "worker" THEN "purge" ELSE worker.pc)
    BY <1>CompactionEndsFacts DEF CompactionFails
  <2>1. DiskTypeOK'
    BY <2>u, <2>f DEF IInv, TypeOK, DiskTypeOK
  <2>2. MemoryTypeOK'
    BY <2>u, <2>f DEF IInv, TypeOK, MemoryTypeOK
  <2>3. ThreadsTypeOK'
    BY IdleTypes, <2>u, <2>f, <2>e DEF IInv, TypeOK, ThreadsTypeOK
  <2>4. ReadersTypeOK' /\ BoundsTypeOK'
    BY <2>u, <2>f, SMT DEF IInv, TypeOK, ReadersTypeOK, BoundsTypeOK
  <2>5. ControlInv'
    BY <2>u, <2>f, <2>e DEF IInv, ControlInv
  <2>6. ChecksInv'
    BY <2>u, <2>f, <2>e DEF IInv, ControlInv, ChecksInv, QueueUnchanged, InputsUnchanged
  <2>7. FilesInv'
    <3>1. mu' = "free" /\ closed' = closed /\ edit' = edit /\ tables' = tables
      BY <2>u, <2>f
    <3>2. FilesInv
      BY DEF IInv
    <3>3. mu' \notin {"rotate", "close"} /\ mu' # "flush" /\ mu' # "compact"
      BY <3>1
    <3> QED BY <3>1, <3>2, <3>3 DEF FilesInv
  <2>8. ManifestInv'
    BY <2>u, <2>f, ZenonT(60) DEF IInv, ManifestInv, Saving
  <2>9. WALInv'
    BY <2>u, <2>f, <2>e DEF IInv, ControlInv, WALInv
  <2> QED BY <2>1, <2>2, <2>3, <2>4, <2>5, <2>6, <2>7, <2>8, <2>9 DEF IInv, TypeOK
\* Nothing of the invariant but what concerns the disk survives a shutdown.
<1>ResetIInv.
  ASSUME ResetMemory, DiskTypeOK', ReadersTypeOK', BoundsTypeOK',
         mbase'.wal < mbase'.next,
         \A i \in DOMAIN mtail' : mtail'[i].wal < mtail'[i].next
  PROVE  IInv'
  <2> USE <1>ResetIInv
  <2> USE Zenon
  <2>1. MemoryTypeOK'
    BY IdleTypes DEF ResetMemory, MemoryTypeOK
  <2>2. ThreadsTypeOK'
    BY IdleTypes DEF ResetMemory, ThreadsTypeOK
  <2>3. ControlInv' /\ ChecksInv' /\ FilesInv' /\ WALInv'
    BY DEF ResetMemory, ControlInv, ChecksInv, FilesInv, WALInv, IdleWorker, NoCompaction,
         IdleCloser
  <2>4. ManifestInv'
    BY DEF ResetMemory, ManifestInv, Saving
  <2> QED BY <2>1, <2>2, <2>3, <2>4 DEF IInv, TypeOK
\* Close queues the active MemTable and stops the worker once the queue is empty.
<1>CloseBeginsStep. ASSUME IInv, CloseBegins PROVE IInv'
  <2> USE <1>CloseBeginsStep
  <2> USE Zenon
  <2> USE DEF CloseBegins, vars, disk, memory, bounds
  <2>a. /\ active \in VersionSets /\ oldestWal \in Nat /\ imm \in Seq(Immutables)
        /\ worker.pc # "off" /\ activeWal \in Nat
    BY DEF IInv, ControlInv, TypeOK, MemoryTypeOK
  <2>q. /\ imm' \in Seq(Immutables) /\ (imm # <<>> => imm' # <<>> /\ imm'[1] = imm[1])
        /\ \A i \in DOMAIN imm' : imm'[i].wal = oldestWal
                                 \/ \E j \in DOMAIN imm : imm'[i] = imm[j]
    <3>1. CASE active = {}
      BY <2>a, <3>1
    <3>2. CASE active # {}
      <4> DEFINE x == [ents |-> active, wal |-> oldestWal]
      <4>1. imm' = Append(imm, x)
        BY <3>2
      <4>2. x \in Immutables /\ x.wal = oldestWal
        BY <2>a DEF Immutables
      <4> HIDE DEF x
      <4> QED BY <2>a, <4>1, <4>2, <1>QueueGrows, SMT
    <3> QED BY <3>1, <3>2
  <2>c. closer' \in Closers /\ closer'.pc = "join"
    BY DEF Closers
  <2>1. DiskTypeOK'
    BY <1>KeepsDiskType DEF IInv, TypeOK
  <2>2. MemoryTypeOK'
    BY <2>q, IdleTypes DEF IInv, TypeOK, MemoryTypeOK
  <2>3. ThreadsTypeOK'
    BY <2>c DEF IInv, TypeOK, ThreadsTypeOK
  <2>4. ReadersTypeOK' /\ BoundsTypeOK'
    <3>1. ReadersTypeOK'
      BY <2>a, <1>FreezeReadersType DEF IInv, TypeOK
    <3> QED BY <3>1 DEF IInv, TypeOK, BoundsTypeOK
  <2>5. ControlInv'
    <3>1. ~stop
      BY DEF IInv, ControlInv
    <3> QED BY <2>a, <2>c, <3>1 DEF IInv, ControlInv
  <2>6. ChecksInv'
    BY <2>q DEF IInv, ChecksInv, QueueUnchanged, InputsUnchanged
  <2>7. FilesInv'
    BY <1>KeepsFiles DEF IInv
  <2>8. ManifestInv'
    BY <1>KeepsManifest DEF IInv
  <2>9. WALInv'
    <3>1. /\ oldestWal <= activeWal
          /\ \A i \in DOMAIN imm : imm[i].wal <= activeWal
      BY DEF IInv, WALInv
    <3>2. \A i \in DOMAIN imm' : imm'[i].wal <= activeWal
      BY <2>q, <3>1
    <3> QED BY <3>2 DEF IInv, WALInv
  <2> QED BY <2>1, <2>2, <2>3, <2>4, <2>5, <2>6, <2>7, <2>8, <2>9 DEF IInv, TypeOK
\* Close ends without a save.
<1>CloseEndsStep. ASSUME IInv, CloseEnds PROVE IInv'

  <2> USE <1>CloseEndsStep
  <2> USE Zenon
  <2>1. DiskTypeOK'
    BY DEF CloseEnds, disk, IInv, TypeOK, DiskTypeOK
  <2>2. /\ mbase'.wal < mbase'.next
        /\ \A i \in DOMAIN mtail' : mtail'[i].wal < mtail'[i].next
    BY DEF CloseEnds, disk, IInv, ManifestInv
  <2>3. ReadersTypeOK' /\ BoundsTypeOK'
    BY IdleTypes DEF CloseEnds, IInv, TypeOK, ReadersTypeOK, BoundsTypeOK, bounds
  <2>4. ResetMemory
    BY DEF CloseEnds
  <2> QED BY <2>1, <2>2, <2>3, <2>4, <1>ResetIInv
\* Close saves a version that needs none of the WALs.
<1>CloseSavesStep. ASSUME IInv, CloseSaves PROVE IInv'
  <2> USE <1>CloseSavesStep
  <2> USE Zenon
  <2> DEFINE new == [edit EXCEPT !.next = @ + 1, !.wal = edit.next]
  <2>a. edit \in Edits /\ edit.next \in Nat
    BY DEF IInv, TypeOK, MemoryTypeOK, Edits
  <2>h. SaveAppends(new)
    BY DEF CloseSaves
  <2>e. /\ new \in Edits /\ new.wal = edit.next /\ new.next = edit.next + 1
        /\ new.files = edit.files
    BY ONLY <2>a, NumberTaken, Zenon DEF new
  <2> HIDE DEF new
  <2>g. new.wal < new.next
    BY <2>a, <2>e, SMT
  <2> HIDE DEF new
  <2>i. /\ mbase' = mbase /\ msynced' = msynced /\ pending' = new
        /\ mtail' \in Seq(Records) /\ Len(mtail') > 0
        /\ \A i \in DOMAIN mtail' : mtail'[i].wal < mtail'[i].next
    BY <2>e, <2>g, <2>h, <1>SaveAppendsFacts
  <2> USE DEF CloseSaves, vars, disk, memory, bounds
  <2>1. DiskTypeOK'
    BY <2>i DEF IInv, TypeOK, DiskTypeOK
  <2>2. MemoryTypeOK'
    BY <1>KeepsMemoryType DEF IInv, TypeOK
  <2>3. ThreadsTypeOK'
    BY IdleTypes, <2>e, <2>i DEF IInv, TypeOK, ThreadsTypeOK, Workers, Compactions, Closers
  <2>4. ReadersTypeOK' /\ BoundsTypeOK'
    BY DEF IInv, TypeOK, ReadersTypeOK, BoundsTypeOK
  <2>5. ControlInv'
    <3>1. /\ Joined /\ mu' = "close" /\ UNCHANGED <<memory, stop, worker, comp, closer>>
      BY SMT
    <3> QED BY <3>1, SMT DEF Joined, IInv, ControlInv
  <2>6. ChecksInv'
    BY <1>KeepsChecks DEF IInv
  <2>7. FilesInv'
    BY IdleTypes, <2>e, <2>i DEF IInv, ControlInv, FilesInv, TypeOK, ThreadsTypeOK, Workers,
         Compactions
  <2>8. ManifestInv'
    BY <2>a, <2>e, <2>g, <2>i, SMT DEF IInv, ManifestInv, Saving
  <2>9. WALInv'
    BY IdleTypes, <2>e, <2>i DEF IInv, ControlInv, WALInv, TypeOK, ThreadsTypeOK, Workers,
         Compactions
  <2> QED BY <2>1, <2>2, <2>3, <2>4, <2>5, <2>6, <2>7, <2>8, <2>9 DEF IInv, TypeOK
\* The version is durable.
<1>CloseSavedStep. ASSUME WellOrdered, IInv, CloseSaved PROVE IInv'
  <2> USE <1>CloseSavedStep
  <2> USE Zenon
  <2> USE DEF CloseSaved, vars, disk, memory, bounds
  <2>a. /\ ~closed /\ pending \in Edits /\ edit \in Edits /\ activeWal \in Nat
        /\ edit.next \in Nat /\ pending.next \in Nat /\ closer.pc = "join"
    BY DEF IInv, ControlInv, TypeOK, MemoryTypeOK, ThreadsTypeOK, Edits
  <2>d. /\ mbase' \in Edits /\ mtail' \in Seq(Records) /\ msynced' \in Nat
        /\ mbase'.wal < mbase'.next
        /\ \A i \in DOMAIN mtail' : mtail'[i].wal < mtail'[i].next
        /\ edit' = pending /\ persisted' = pending /\ pending' = NoEdit
        /\ edit' \in Edits /\ persisted' \in Edits /\ pending' \in Edits
    BY <1>SaveSucceedsFacts
  <2>h. edit.next <= pending.next /\ pending.wal < pending.next
    BY DEF IInv, ManifestInv, Saving
  <2>1. DiskTypeOK'
    BY <2>d DEF IInv, TypeOK, DiskTypeOK
  <2>2. MemoryTypeOK'
    BY <2>d DEF IInv, TypeOK, MemoryTypeOK
  <2>3. ThreadsTypeOK'
    BY IdleTypes, <2>d, SMT DEF IInv, TypeOK, ThreadsTypeOK, Workers, Compactions, Closers
  <2>4. ReadersTypeOK' /\ BoundsTypeOK'
    BY DEF IInv, TypeOK, ReadersTypeOK, BoundsTypeOK
  <2>5. ControlInv'
    BY <2>a DEF IInv, ControlInv
  <2>6. ChecksInv'
    <3>1. Nums(pending.files) = Nums(edit.files)
      BY DEF IInv, FilesInv
    <3> QED BY <2>d, <3>1 DEF IInv, ChecksInv, QueueUnchanged, InputsUnchanged
  <2>7. FilesInv'
    BY IdleTypes, <2>a, <2>d DEF IInv, ControlInv, FilesInv, TypeOK, ThreadsTypeOK, Workers,
         Compactions
  <2>8. ManifestInv'
    BY <2>a, <2>d, <2>h DEF IInv, ManifestInv, Saving
  <2>9. WALInv'
    <3>1. activeWal < edit.next
      BY <2>a DEF IInv, WALInv
    <3>2. activeWal < pending.next
      BY <2>a, <2>h, <3>1, SMT
    <3> QED BY <2>a, <2>d, <3>2 DEF IInv, WALInv
  <2> QED BY <2>1, <2>2, <2>3, <2>4, <2>5, <2>6, <2>7, <2>8, <2>9 DEF IInv, TypeOK
\* The save fails and Close ends.
<1>CloseSaveFailsStep. ASSUME IInv, CloseSaveFails PROVE IInv'
  <2> USE <1>CloseSaveFailsStep
  <2> USE Zenon
  <2>a. Saving
    BY DEF CloseSaveFails, Saving
  <2>b. PICK how \in SaveFailures : mtail' = SaveLeaves(how)
    BY DEF CloseSaveFails
  <2>c. /\ mtail' \in Seq(Records)
        /\ \A i \in DOMAIN mtail' : mtail'[i].wal < mtail'[i].next
    BY <2>a, <2>b, <1>SaveLeavesFacts
  <2>1. DiskTypeOK'
    BY <2>c DEF CloseSaveFails, IInv, TypeOK, DiskTypeOK
  <2>2. /\ mbase'.wal < mbase'.next
        /\ \A i \in DOMAIN mtail' : mtail'[i].wal < mtail'[i].next
    BY <2>c DEF CloseSaveFails, IInv, ManifestInv
  <2>3. ReadersTypeOK' /\ BoundsTypeOK'
    BY IdleTypes, SMT DEF CloseSaveFails, IInv, TypeOK, ReadersTypeOK, BoundsTypeOK, bounds,
         OneFault
  <2>4. ResetMemory
    BY DEF CloseSaveFails
  <2> QED BY <2>1, <2>2, <2>3, <2>4, <1>ResetIInv
\* Close removes the WALs.
<1>ClosePurgesStep. ASSUME IInv, ClosePurges PROVE IInv'

  <2> USE <1>ClosePurgesStep
  <2> USE Zenon
  <2>1. DiskTypeOK'
    <3>1. IsDirectory(wals, WALFiles(Version))
      BY DEF IInv, TypeOK, DiskTypeOK
    <3>2. IsDirectory(wals', WALFiles(Version))
      BY <3>1, <1>DirectoryOperations DEF ClosePurges
    <3> QED BY <3>2 DEF ClosePurges, IInv, TypeOK, DiskTypeOK
  <2>2. /\ mbase'.wal < mbase'.next
        /\ \A i \in DOMAIN mtail' : mtail'[i].wal < mtail'[i].next
    BY DEF ClosePurges, disk, IInv, ManifestInv
  <2>3. ReadersTypeOK' /\ BoundsTypeOK'
    BY IdleTypes DEF ClosePurges, IInv, TypeOK, ReadersTypeOK, BoundsTypeOK, bounds
  <2>4. ResetMemory
    BY DEF ClosePurges
  <2> QED BY <2>1, <2>2, <2>3, <2>4, <1>ResetIInv, SMT
\* Close removes some of the WALs.
<1>ClosePurgeFailsStep. ASSUME IInv, ClosePurgeFails PROVE IInv'

  <2> USE <1>ClosePurgeFailsStep
  <2> USE Zenon
  <2>1. DiskTypeOK'
    <3>1. IsDirectory(wals, WALFiles(Version))
      BY SMT DEF IInv, TypeOK, DiskTypeOK
    <3>2. IsDirectory(wals', WALFiles(Version))
      BY <3>1, <1>DirectoryOperations DEF ClosePurgeFails
    <3> QED BY <3>2 DEF ClosePurgeFails, IInv, TypeOK, DiskTypeOK
  <2>2. /\ mbase'.wal < mbase'.next
        /\ \A i \in DOMAIN mtail' : mtail'[i].wal < mtail'[i].next
    BY DEF ClosePurgeFails, disk, IInv, ManifestInv
  <2>3. ReadersTypeOK' /\ BoundsTypeOK'
    BY IdleTypes, SMT DEF ClosePurgeFails, IInv, TypeOK, ReadersTypeOK, BoundsTypeOK, bounds,
         OneFault
  <2>4. ResetMemory
    BY DEF ClosePurgeFails
  <2> QED BY <2>1, <2>2, <2>3, <2>4, <1>ResetIInv, SMT
\* The manifest records that a power failure leaves.
<1>CrashLogFacts.
  ASSUME NEW log \in Seq(Records), \A i \in DOMAIN log : log[i].wal < log[i].next,
         NEW n \in 0..Len(log), NEW torn \in BOOLEAN, torn => n < Len(log)
  PROVE  LET left == SubSeq(log, 1, n) \o IF torn THEN <<Tear(log[n + 1])>> ELSE <<>>
         IN  /\ left \in Seq(Records)
             /\ \A i \in DOMAIN left : left[i].wal < left[i].next
  <2> USE <1>CrashLogFacts
  <2> USE Zenon
  <2> DEFINE p == SubSeq(log, 1, n)
             t == Tear(log[n + 1])
  <2>1. Len(log) \in Nat /\ DOMAIN log = 1..Len(log) /\ n \in Nat
    BY SMT
  <2>2. /\ p \in Seq(Records) /\ Len(p) = n
        /\ \A i \in 1..n : i \in DOMAIN log /\ p[i] = log[i]
    <3>1. 1 \in 1..(Len(log) + 1) /\ n \in (1 - 1)..Len(log)
      BY <2>1, SMT
    <3> QED BY <2>1, <3>1, SMT
  <2> HIDE DEF p
  <2>3. \A i \in DOMAIN p : p[i].wal < p[i].next
    BY <2>1, <2>2, SMT
  <2>4. CASE ~torn
    <3>1. p \o <<>> = p
      BY <2>2, SMT
    <3> QED BY <2>2, <2>3, <2>4, <3>1 DEF p
  <2>5. CASE torn
    <3>1. n + 1 \in DOMAIN log
      BY <2>1, <2>5, SMT
    <3>2. t \in Records /\ t.wal < t.next
      BY <3>1, TearType, SMT
    <3> HIDE DEF t
    <3> DEFINE q == p \o <<t>>
    <3>3. <<t>> \in Seq(Records) /\ Len(<<t>>) = 1 /\ <<t>>[1] = t
      BY <3>2, SMT
    <3>4. q \in Seq(Records)
      BY <2>2, <3>3, SMT
    <3>5. \A i \in DOMAIN q : q[i].wal < q[i].next
      <4>1. DOMAIN q = 1..(n + 1)
        BY <2>1, <2>2, <3>3, SMT
      <4>2. \A i \in 1..n : q[i] = p[i] /\ i \in DOMAIN p
        BY <2>1, <2>2, <3>3, SMT
      <4>3. q[n + 1] = t
        BY <2>1, <2>2, <3>3, SMT
      <4>4. \A i \in 1..(n + 1) : i \in 1..n \/ i = n + 1
        BY <2>1, SMT
      <4> HIDE DEF q
      <4> QED BY <2>3, <3>2, <4>1, <4>2, <4>3, <4>4
    <3>6. SubSeq(log, 1, n) \o (IF torn THEN <<Tear(log[n + 1])>> ELSE <<>>) = q
      BY <2>5 DEF p, t
    <3> HIDE DEF q
    <3> QED BY <3>4, <3>5, <3>6
  <2> QED BY <2>4, <2>5
\* A power failure.
<1>CrashStep. ASSUME WellOrdered, IInv, Crash PROVE IInv'
  <2> USE <1>CrashStep
  <2> USE Zenon
  <2>a. PICK n \in msynced..Len(mtail), torn \in BOOLEAN :
          LET log == SubSeq(mtail, 1, n) \o IF torn THEN <<Tear(mtail[n + 1])>> ELSE <<>>
          IN  /\ torn => n < Len(mtail)
              /\ mbase' = Replay(mbase, IntactPrefix(log))
              /\ mtail' = TornRest(log)
              /\ msynced' = Len(TornRest(log))
    BY DEF Crash
  <2> DEFINE log == SubSeq(mtail, 1, n) \o IF torn THEN <<Tear(mtail[n + 1])>> ELSE <<>>
  <2>b. /\ mbase \in Edits /\ mtail \in Seq(Records) /\ msynced \in Nat
        /\ IsDirectory(wals, WALFiles(Version))
    BY DEF IInv, TypeOK, DiskTypeOK
  <2>c. mbase.wal < mbase.next /\ \A i \in DOMAIN mtail : mtail[i].wal < mtail[i].next
    BY DEF IInv, ManifestInv
  <2>d. n \in 0..Len(mtail) /\ (torn => n < Len(mtail))
    BY <2>a, <2>b, SMTT(60)
  <2>e. log \in Seq(Records) /\ \A i \in DOMAIN log : log[i].wal < log[i].next
    BY <2>b, <2>c, <2>d, <1>CrashLogFacts
  <2>f. /\ mbase' = Replay(mbase, IntactPrefix(log))
        /\ mtail' = TornRest(log) /\ msynced' = Len(TornRest(log))
    BY <2>a
  <2> HIDE DEF log
  <2>g. /\ mbase' \in Edits /\ mbase'.wal < mbase'.next
        /\ mtail' \in Seq(Records) /\ msynced' \in Nat
        /\ \A i \in DOMAIN mtail' : mtail'[i].wal < mtail'[i].next
    BY <2>b, <2>c, <2>e, <2>f, ReplayFacts
  <2>h. IsDirectory(wals', WALFiles(Version))
    <3> DEFINE dirty == {m \in DOMAIN wals : Dirty(wals[m])}
    <3>1. PICK img \in [dirty -> UNION {AfterPowerFailure(wals[m]) : m \in dirty}] :
            /\ \A m \in dirty : img[m] \in AfterPowerFailure(wals[m])
            /\ wals' = [m \in DOMAIN wals |-> IF m \in dirty THEN img[m] ELSE wals[m]]
      BY DEF Crash
    <3>2. \A m \in DOMAIN wals : wals[m] \in WALFiles(Version)
      BY <2>b DEF IsDirectory
    <3>3. \A m \in DOMAIN wals : AfterPowerFailure(wals[m]) \subseteq WALFiles(Version)
      BY <3>2, <1>WALFailureTypes
    <3>4. dirty \subseteq DOMAIN wals
      BY SMT
    <3> HIDE DEF dirty
    <3>5. \A m \in DOMAIN wals : wals'[m] \in WALFiles(Version)
      BY <3>1, <3>2, <3>3, <3>4
    <3>6. wals' = [m \in DOMAIN wals |-> wals'[m]]
      BY <3>1
    <3> QED BY <2>b, <3>5, <3>6, DirectoryReplacement
  <2>1. DiskTypeOK'
    BY <2>g, <2>h DEF Crash, IInv, TypeOK, DiskTypeOK
  <2>2. /\ mbase'.wal < mbase'.next
        /\ \A i \in DOMAIN mtail' : mtail'[i].wal < mtail'[i].next
    BY <2>g
  <2>3. ReadersTypeOK' /\ BoundsTypeOK'
    BY IdleTypes, SMT DEF Crash, IInv, TypeOK, ReadersTypeOK, BoundsTypeOK, bounds
  <2>4. ResetMemory
    BY DEF Crash
  <2> QED BY <2>1, <2>2, <2>3, <2>4, <1>ResetIInv
\* Open recovers: the version it loads names files that exist, and it goes on
\* writing to the newest WAL.
<1>OpenStep. ASSUME WellOrdered, IInv, Open PROVE IInv'
  <2> USE <1>OpenStep
  <2> USE Zenon
  <2> DEFINE e == LoadedEdit
             live == LiveWALs(e)
             f == Truncated(live)
             w == NewestWAL
  <2>a. /\ e \in Edits /\ e.wal < e.next /\ e.wal \in Nat /\ e.next \in Nat
        /\ mbase' \in Edits /\ mtail' \in Seq(Records) /\ msynced' \in Nat
        /\ mbase'.wal < mbase'.next
        /\ \A i \in DOMAIN mtail' : mtail'[i].wal < mtail'[i].next
        /\ IsDirectory(f, WALFiles(Version)) /\ DOMAIN f = DOMAIN wals
        /\ w \in Nat /\ (w \in DOMAIN wals \/ w = e.wal)
        /\ \A n \in live : n \in Nat /\ n <= w
    BY RecoveryFacts DEF Open
  <2>b. /\ closed /\ closed' = FALSE /\ bgError' = FALSE /\ imm' = <<>> /\ activeWal' = w
        /\ stop' = FALSE /\ work' = FALSE
        /\ persisted' = e /\ worker' = [IdleWorker EXCEPT !.pc = "wait"]
        /\ opens' = opens + 1
        /\ FreezeReaders
        /\ UNCHANGED <<ssts, snaps, mu, pending, comp, closer, faults, crashes, compacts>>
    BY DEF Open
  <2>c. /\ wals' = OpenedForAppend(f, w)
        /\ active' = ReplayedVersions(wals, e)
        /\ oldestWal' = (IF live = {} THEN e.wal ELSE Min(live))
        /\ tables' = [n \in Nums(e.files) |-> ssts[n]]
        /\ Nums(e.files) \subseteq DOMAIN ssts
    BY DEF Open, Recoverable
  <2>d. edit' = [e EXCEPT !.next = Max({e.next, MaxSeenFileNumber + 1}),
                          !.last = RecoveredLast(wals, e)]
    BY DEF Open
  <2>e. /\ IsDirectory(wals, WALFiles(Version)) /\ IsDirectory(ssts, VersionSets)
        /\ mu = "free" /\ comp = NoCompaction /\ closer.pc = "idle"
    BY <2>b DEF IInv, TypeOK, DiskTypeOK, ControlInv
  <2>f. IsDirectory(wals', WALFiles(Version)) /\ DOMAIN wals' = DOMAIN wals \cup {w}
    <3> HIDE DEF f, w
    <3> QED BY <2>a, <2>c, <1>OpenedForAppendType, ZenonT(60)
  <2>g. active' \in VersionSets /\ RecoveredLast(wals, e) \in Nat
    <3> HIDE DEF e
    <3> QED BY <2>a, <2>c, <2>e, ReplayedVersionsType
  <2>h. IsDirectory(tables', VersionSets) /\ DOMAIN tables' = Nums(e.files)
    <3>1. DOMAIN ssts \subseteq Nat /\ IsFiniteSet(DOMAIN ssts)
          /\ \A n \in DOMAIN ssts : ssts[n] \in VersionSets
      BY <2>e DEF IsDirectory, FiniteSubsets
    <3> DEFINE N == Nums(e.files)
    <3>2. N \subseteq DOMAIN ssts /\ tables' = [n \in N |-> ssts[n]]
      BY <2>c
    <3> HIDE DEF N
    <3>3. IsFiniteSet(N)
      BY <3>1, <3>2, FiniteSubset
    <3>4. IsDirectory(tables', VersionSets) /\ DOMAIN tables' = N
      BY <3>1, <3>2, <3>3 DEF IsDirectory, FiniteSubsets
    <3> QED BY <3>4 DEF N
  <2>i. LET x == {0} \cup DOMAIN ssts \cup DOMAIN wals
        IN  x \in SUBSET Nat /\ IsFiniteSet(x) /\ x # {}
    <3>1. /\ DOMAIN ssts \subseteq Nat /\ IsFiniteSet(DOMAIN ssts)
          /\ DOMAIN wals \subseteq Nat /\ IsFiniteSet(DOMAIN wals)
      BY <2>e DEF IsDirectory, FiniteSubsets
    <3>2. IsFiniteSet({0} \cup DOMAIN ssts)
      BY <3>1, FiniteSmall, FiniteUnion
    <3>3. IsFiniteSet({0} \cup DOMAIN ssts \cup DOMAIN wals)
      BY <3>1, <3>2, FiniteUnion
    <3> QED BY <3>1, <3>3, SMT
  <2>j. MaxSeenFileNumber \in Nat /\ \A n \in DOMAIN wals : n <= MaxSeenFileNumber
    <3> DEFINE x == {0} \cup DOMAIN ssts \cup DOMAIN wals
    <3>1. x \in SUBSET Nat /\ IsFiniteSet(x) /\ x # {} /\ MaxSeenFileNumber = Max(x)
      BY <2>i DEF MaxSeenFileNumber
    <3>2. DOMAIN wals \subseteq x
      BY SMT
    <3> HIDE DEF x
    <3>3. Max(x) \in x /\ \A y \in x : y <= Max(x)
      BY <3>1, MaxProperties
    <3> QED BY <3>1, <3>2, <3>3, ZenonT(60)
  <2> DEFINE m == Max({e.next, MaxSeenFileNumber + 1})
  <2>k. m \in Nat /\ e.next <= m /\ MaxSeenFileNumber + 1 <= m
    <3> DEFINE S == {e.next, MaxSeenFileNumber + 1}
    <3>1. S \in SUBSET Nat /\ S # {} /\ e.next \in S /\ MaxSeenFileNumber + 1 \in S
      BY <2>a, <2>j, SMT
    <3>2. IsFiniteSet(S)
      <4>1. IsFiniteSet({e.next})
        BY FiniteSmall, ZenonT(60)
      <4>2. IsFiniteSet({e.next} \cup {MaxSeenFileNumber + 1})
        BY <4>1, FiniteSmall, FiniteUnion
      <4>3. S = {e.next} \cup {MaxSeenFileNumber + 1}
        BY SMT
      <4> QED BY <4>2, <4>3
    <3> HIDE DEF S
    <3>3. Max(S) \in S /\ \A y \in S : y <= Max(S)
      BY <3>1, <3>2, MaxProperties
    <3>4. Max(S) \in Nat /\ e.next <= Max(S) /\ MaxSeenFileNumber + 1 <= Max(S)
      BY <3>1, <3>3
    <3> QED BY <3>4 DEF S
  <2>l. edit' \in Edits /\ edit'.next = m /\ edit'.wal = e.wal /\ edit'.files = e.files
    <3> DEFINE s == RecoveredLast(wals, e)
    <3>1. edit' = [e EXCEPT !.next = m, !.last = s]
      BY <2>d
    <3>2. e \in Edits /\ m \in Nat /\ s \in Nat
      BY <2>a, <2>g, <2>k
    <3> HIDE DEF e, m, s
    <3> QED BY <3>1, <3>2, ZenonT(60) DEF Edits
  <2>m. /\ oldestWal' \in Nat /\ oldestWal' <= w
    <3> HIDE DEF live, w, e
    <3>1. CASE live = {}
      <4>1. e.wal <= w
        <5>1. w = e.wal
          BY <3>1 DEF live, w, e, NewestWAL
        <5> QED BY <2>a, <5>1, SMT
      <4> QED BY <2>a, <2>c, <3>1, <4>1
    <3>2. CASE live # {}
      <4>1. live \in SUBSET Nat
        BY <2>a
      <4>2. Min(live) \in live
        BY <3>2, <4>1, MinProperties
      <4> QED BY <2>a, <2>c, <3>2, <4>2, ZenonT(60)
    <3> QED BY <3>1, <3>2
  <2>n. w < m
    <3> HIDE DEF m, w, e
    <3> QED BY <2>a, <2>j, <2>k, SMT
  <2> HIDE DEF e, live, f, w, m
  <2>o. worker' \in Workers /\ worker'.pc = "wait"
    BY <2>b, IdleTypes DEF Workers
  <2>p. comp.stage = "idle" /\ comp.by = "none"
    BY <2>e DEF NoCompaction
  <2>1. DiskTypeOK'
    BY <2>a, <2>b, <2>f DEF IInv, TypeOK, DiskTypeOK
  <2>2. MemoryTypeOK'
    BY <2>a, <2>b, <2>g, <2>h, <2>l, <2>m, IdleTypes DEF IInv, TypeOK, MemoryTypeOK
  <2>3. ThreadsTypeOK'
    BY <2>b, <2>o, ZenonT(60) DEF IInv, TypeOK, ThreadsTypeOK
  <2>4. ReadersTypeOK' /\ BoundsTypeOK'
    <3>1. ReadersTypeOK'
      BY <2>b, <1>FreezeReadersType DEF IInv, TypeOK, MemoryTypeOK
    <3>2. BoundsTypeOK'
      BY <2>b, SMT DEF IInv, TypeOK, BoundsTypeOK
    <3> QED BY <3>1, <3>2
  <2>5. ControlInv' /\ ChecksInv'
    BY <2>b, <2>e, <2>o, <2>p DEF ControlInv, ChecksInv
  <2>6. FilesInv'
    BY <2>b, <2>e, <2>h, <2>l DEF FilesInv
  <2>7. ManifestInv'
    <3>1. edit'.wal < edit'.next
      BY <2>a, <2>k, <2>l, SMT
    <3> QED BY <2>a, <2>b, <2>e, <3>1 DEF ManifestInv, Saving
  <2>8. WALInv'
    BY <2>b, <2>e, <2>f, <2>l, <2>m, <2>n, <2>o, SMTT(60) DEF WALInv
  <2> QED BY <2>1, <2>2, <2>3, <2>4, <2>5, <2>6, <2>7, <2>8 DEF IInv, TypeOK
\* An Open that fails leaves the database closed and the files readable.
<1>OpenFailsStep. ASSUME WellOrdered, IInv, OpenFails PROVE IInv'
  <2> USE <1>OpenFailsStep
  <2> USE Zenon
  <2> DEFINE live == LiveWALs(LoadedEdit)
  <2>a. /\ closed /\ opens' = opens + 1 /\ faults' = faults + 1
        /\ UNCHANGED <<ssts, memory, mu, pending, work, stop, worker, comp, closer,
                       reader, crashes, compacts>>
    BY DEF OpenFails
  <2>b. /\ \A S : IsDirectory(Truncated(S), WALFiles(Version)) /\ DOMAIN Truncated(S) = DOMAIN wals
        /\ NewestWAL \in Nat
    BY RecoveryFacts
  <2>c. IsDirectory(OpenedForAppend(Truncated(live), NewestWAL), WALFiles(Version))
    <3> DEFINE f == Truncated(live)
               w == NewestWAL
    <3>1. IsDirectory(f, WALFiles(Version)) /\ w \in Nat
      BY <2>b
    <3> HIDE DEF f, w
    <3>2. IsDirectory(OpenedForAppend(f, w), WALFiles(Version))
      BY <3>1, <1>OpenedForAppendType, ZenonT(60)
    <3> QED BY <3>2 DEF f, w
  <2>d. /\ mbase' \in Edits /\ mtail' \in Seq(Records) /\ msynced' \in Nat
        /\ mbase'.wal < mbase'.next
        /\ \A i \in DOMAIN mtail' : mtail'[i].wal < mtail'[i].next
        /\ IsDirectory(wals', WALFiles(Version))
    <3>1. CASE UNCHANGED <<wals, mbase, mtail, msynced>>
      BY <3>1, ZenonT(60) DEF IInv, TypeOK, DiskTypeOK, ManifestInv
    <3>2. CASE LoadManifest /\ \E S \in SUBSET live : wals' = Truncated(S)
      <4>1. LoadManifest
        BY <3>2
      <4>2. PICK S \in SUBSET live : wals' = Truncated(S)
        BY <3>2
      <4>3. IsDirectory(wals', WALFiles(Version))
        BY <2>b, <4>2
      <4> QED BY <4>1, <4>3, RecoveryFacts, ZenonT(60)
    <3>3. CASE LoadManifest /\ wals' = OpenedForAppend(Truncated(live), NewestWAL)
      BY <2>c, <3>3, RecoveryFacts
    <3>4. \/ UNCHANGED <<wals, mbase, mtail, msynced>>
          \/ LoadManifest /\ \E S \in SUBSET live : wals' = Truncated(S)
          \/ LoadManifest /\ wals' = OpenedForAppend(Truncated(live), NewestWAL)
      BY DEF OpenFails
    <3> QED BY <3>1, <3>2, <3>3, <3>4
  <2> USE DEF memory
  <2>e. mu = "free" /\ worker.pc = "off" /\ comp.stage = "idle"
    BY <2>a, SMTT(60) DEF IInv, ControlInv, NoCompaction
  <2>1. DiskTypeOK'
    BY <2>a, <2>d DEF IInv, TypeOK, DiskTypeOK
  <2>2. MemoryTypeOK'
    BY <2>a DEF IInv, TypeOK, MemoryTypeOK
  <2>3. ThreadsTypeOK' /\ ReadersTypeOK'
    BY <2>a, <1>KeepsThreadsType, <1>KeepsReadersType DEF IInv, TypeOK
  <2>6. BoundsTypeOK'
    BY <2>a, SMT DEF IInv, TypeOK, BoundsTypeOK
  <2>4. ControlInv' /\ ChecksInv' /\ FilesInv'
    BY <2>a, <1>KeepsControl, <1>KeepsChecks, <1>KeepsFiles DEF IInv
  <2>5. ManifestInv' /\ WALInv'
    BY <2>a, <2>d, <2>e DEF ManifestInv, WALInv, Saving
  <2> QED BY <2>1, <2>2, <2>3, <2>4, <2>5, <2>6 DEF IInv, TypeOK
\* A step of a write changes no other thread, no open table and no file of the
\* version, and of the queue at most the tail.
<1>WriterKeeps.
  ASSUME IInv, ~closed, closer.pc = "idle", mu' \in {"free", "write", "rotate"},
         UNCHANGED <<closed, tables, stop, worker, comp, closer>>,
         bgError => bgError', work' \in BOOLEAN, pending' \in Edits,
         imm # <<>> => imm' # <<>> /\ imm'[1] = imm[1],
         Nums(edit'.files) = Nums(edit.files),
         mu' = "rotate" => Nums(pending'.files) = Nums(edit.files)
  PROVE  ThreadsTypeOK' /\ ControlInv' /\ ChecksInv' /\ FilesInv'
  <2> USE <1>WriterKeeps
  <2> USE Zenon
  <2>1. ThreadsTypeOK'
    BY DEF IInv, TypeOK, ThreadsTypeOK
  <2>2. ControlInv'
    BY DEF IInv, ControlInv
  <2>3. ChecksInv'
    BY DEF IInv, ChecksInv, QueueUnchanged, InputsUnchanged
  <2>4. FilesInv'
    BY DEF IInv, FilesInv
  <2> QED BY <2>1, <2>2, <2>3, <2>4
\* While a write waits for its record to be synced.
<1>InWriteFacts.
  ASSUME WellOrdered, IInv, mu = "write"
  PROVE  /\ ~closed /\ closer.pc = "idle" /\ activeWal \in DOMAIN wals /\ activeWal \in Nat
         /\ wals[activeWal] \in WALFiles(Version)
         /\ active \cup Appended \in VersionSets
         /\ AppliedEdit \in Edits /\ AppliedEdit.next = edit.next
         /\ AppliedEdit.wal = edit.wal /\ AppliedEdit.files = edit.files
         /\ edit.next \in Nat /\ edit.wal \in Nat
         /\ IsDirectory(SyncedWALs, WALFiles(Version))
         /\ DOMAIN SyncedWALs = DOMAIN wals
  <2> USE <1>InWriteFacts
  <2> USE Zenon
  <2>1. ~closed /\ closer.pc = "idle"
    BY DEF IInv, ControlInv
  <2>2. activeWal \in DOMAIN wals /\ Len(wals[activeWal].recs) > 0
    BY <2>1 DEF IInv, WALInv
  <2>3. /\ IsDirectory(wals, WALFiles(Version)) /\ activeWal \in Nat
        /\ active \in VersionSets /\ edit \in Edits
    BY DEF IInv, TypeOK, DiskTypeOK, MemoryTypeOK
  <2>4. wals[activeWal] \in WALFiles(Version)
    BY <2>2, <2>3 DEF IsDirectory
  <2>5. Appended \in BatchRecords(Version)
    <3> DEFINE f == wals[activeWal]
               S == BatchRecords(Version)
    <3>1. f.recs \in Seq(S) /\ Len(f.recs) > 0
      BY <2>2, <2>4 DEF WALFiles
    <3> HIDE DEF S
    <3>2. Len(f.recs) \in DOMAIN f.recs
      BY <3>1, SMT
    <3>3. f.recs[Len(f.recs)] \in S
      BY <3>1, <3>2, SMT
    <3> QED BY <3>3 DEF Appended, S
  <2>6. Appended \subseteq Version /\ IsFiniteSet(Appended)
    BY <2>5 DEF BatchRecords
  <2>7. active \cup Appended \in VersionSets
    BY <2>3, <2>6, FiniteUnion DEF VersionSets, FiniteSubsets
  <2>8. LastSeq(Appended) \in Nat
    BY <2>5, LastSeqType
  <2>9. /\ AppliedEdit \in Edits /\ AppliedEdit.next = edit.next
        /\ AppliedEdit.wal = edit.wal /\ AppliedEdit.files = edit.files
        /\ edit.next \in Nat /\ edit.wal \in Nat
    <3> DEFINE s == LastSeq(Appended)
    <3>1. AppliedEdit = [edit EXCEPT !.last = s]
      BY DEF AppliedEdit
    <3>2. s \in Nat
      BY <2>8
    <3> HIDE DEF s
    <3> QED BY <2>3, <3>1, <3>2 DEF Edits
  <2>10. SyncFile(wals[activeWal]) \in WALFiles(Version)
    BY <2>4, <2>5, WALOperationTypes
  <2>11. IsDirectory(SyncedWALs, WALFiles(Version)) /\ DOMAIN SyncedWALs = DOMAIN wals
    <3> DEFINE x == SyncFile(wals[activeWal])
    <3>1. SyncedWALs = [wals EXCEPT ![activeWal] = x]
      BY DEF SyncedWALs
    <3>2. x \in WALFiles(Version)
      BY <2>10
    <3> HIDE DEF x
    <3> QED BY <2>3, <3>1, <3>2, <1>DirectoryOperations, ZenonT(60)
  <2> QED BY <2>1, <2>2, <2>3, <2>4, <2>7, <2>9, <2>11
\* A write appends its record to the active WAL.
<1>WriteStep. ASSUME IInv, NEW b \in Batches, Write(b) PROVE IInv'
  <2> USE <1>WriteStep
  <2> USE Zenon
  <2> USE DEF Write, vars, disk, memory, bounds
  <2> DEFINE r == BatchVersions(b, edit.last + 1)
             x == AppendRecord(wals[activeWal], r)
  <2>a. /\ IsDirectory(wals, WALFiles(Version)) /\ edit.last + 1 \in Nat
        /\ activeWal \in DOMAIN wals
    BY SMTT(60) DEF IInv, TypeOK, DiskTypeOK, MemoryTypeOK, Edits, WALInv
  <2>b. r \in BatchRecords(Version)
    BY <2>a, BatchVersionsType
  <2>c. wals[activeWal] \in WALFiles(Version)
    BY <2>a DEF IsDirectory
  <2> HIDE DEF r
  <2>d. x \in WALFiles(Version) /\ Len(x.recs) = Len(wals[activeWal].recs) + 1
    BY <2>b, <2>c, WALOperationTypes
  <2>e. Len(wals[activeWal].recs) \in Nat
    <3>1. wals[activeWal].recs \in Seq(BatchRecords(Version))
      BY <2>c DEF WALFiles
    <3> QED BY <3>1, SMT
  <2>f. wals' = [wals EXCEPT ![activeWal] = x]
    BY DEF r
  <2> HIDE DEF x
  <2>g. IsDirectory(wals', WALFiles(Version)) /\ DOMAIN wals' = DOMAIN wals /\ wals'[activeWal] = x
    <3>1. DOMAIN wals' = DOMAIN wals /\ wals'[activeWal] = x
      BY <2>a, <2>f
    <3>2. IsDirectory([wals EXCEPT ![activeWal] = x], WALFiles(Version))
      BY ONLY <2>a, <2>d, <1>DirectoryOperations, Zenon
    <3> QED BY <2>f, <3>1, <3>2
  <2>1. DiskTypeOK'
    BY <2>g DEF IInv, TypeOK, DiskTypeOK
  <2>2. MemoryTypeOK'
    BY <1>KeepsMemoryType DEF IInv, TypeOK
  <2>3. ThreadsTypeOK' /\ ControlInv' /\ ChecksInv' /\ FilesInv'
    <3>1. pending \in Edits /\ work \in BOOLEAN
      BY DEF IInv, TypeOK, ThreadsTypeOK
    <3> QED BY <3>1, <1>WriterKeeps
  <2>4. ReadersTypeOK' /\ BoundsTypeOK'
    BY DEF IInv, TypeOK, ReadersTypeOK, BoundsTypeOK
  <2>8. ManifestInv'
    BY DEF IInv, ManifestInv, Saving
  <2>9. WALInv'
    BY <2>d, <2>e, <2>g, SMTT(60) DEF IInv, WALInv
  <2> QED BY <2>1, <2>2, <2>3, <2>4, <2>8, <2>9 DEF IInv, TypeOK
\* A failed append leaves some of the record.
<1>WriteFailsStep. ASSUME WellOrdered, IInv, WriteFails PROVE IInv'
  <2> USE <1>WriteFailsStep
  <2> USE Zenon
  <2> USE DEF WriteFails, vars, disk, memory, bounds, OneFault
  <2>a. /\ ~closed /\ closer.pc = "idle" /\ activeWal \in DOMAIN wals /\ activeWal \in Nat
        /\ wals[activeWal] \in WALFiles(Version)
        /\ active \cup Appended \in VersionSets
        /\ AppliedEdit \in Edits /\ AppliedEdit.next = edit.next
        /\ AppliedEdit.wal = edit.wal /\ AppliedEdit.files = edit.files
        /\ edit.next \in Nat /\ edit.wal \in Nat
        /\ IsDirectory(SyncedWALs, WALFiles(Version))
        /\ DOMAIN SyncedWALs = DOMAIN wals
    BY <1>InWriteFacts DEF WriteFails
  <2>b. PICK how \in AppendFailures :
          wals' = [wals EXCEPT ![activeWal] = AppendLeaves(wals[activeWal], how)]
    OBVIOUS
  <2> DEFINE x == AppendLeaves(wals[activeWal], how)
  <2>c. x \in WALFiles(Version)
    <3>1. Len(wals[activeWal].recs) > 0
      BY DEF IInv, WALInv
    <3> QED BY <2>a, <3>1, <1>WALFailureTypes, FailuresAreKnown
  <2> HIDE DEF x
  <2>d. IsDirectory(wals', WALFiles(Version)) /\ DOMAIN wals' = DOMAIN wals
    <3>1. IsDirectory(wals, WALFiles(Version))
      BY DEF IInv, TypeOK, DiskTypeOK
    <3>2. wals' = [wals EXCEPT ![activeWal] = x]
      BY <2>b DEF x
    <3> QED BY <2>c, <3>1, <3>2, <1>DirectoryOperations
  <2>1. DiskTypeOK'
    BY <2>d DEF IInv, TypeOK, DiskTypeOK
  <2>2. MemoryTypeOK'
    BY DEF IInv, TypeOK, MemoryTypeOK
  <2>3. ThreadsTypeOK' /\ ControlInv' /\ ChecksInv' /\ FilesInv'
    <3>1. pending \in Edits /\ work \in BOOLEAN
      BY DEF IInv, TypeOK, ThreadsTypeOK
    <3> QED BY <2>a, <3>1, <1>WriterKeeps
  <2>4. ReadersTypeOK' /\ BoundsTypeOK'
    BY SMT DEF IInv, TypeOK, ReadersTypeOK, BoundsTypeOK
  <2>8. ManifestInv'
    BY DEF IInv, ManifestInv, Saving
  <2>9. WALInv'
    BY <2>d DEF IInv, WALInv
  <2> QED BY <2>1, <2>2, <2>3, <2>4, <2>8, <2>9 DEF IInv, TypeOK
\* The batch is applied.
<1>WriteAppliesStep. ASSUME WellOrdered, IInv, WriteApplies PROVE IInv'
  <2> USE <1>WriteAppliesStep
  <2> USE Zenon
  <2> USE DEF WriteApplies, vars, disk, memory, bounds
  <2>a. /\ ~closed /\ closer.pc = "idle" /\ activeWal \in DOMAIN wals /\ activeWal \in Nat
        /\ wals[activeWal] \in WALFiles(Version)
        /\ active \cup Appended \in VersionSets
        /\ AppliedEdit \in Edits /\ AppliedEdit.next = edit.next
        /\ AppliedEdit.wal = edit.wal /\ AppliedEdit.files = edit.files
        /\ edit.next \in Nat /\ edit.wal \in Nat
        /\ IsDirectory(SyncedWALs, WALFiles(Version))
        /\ DOMAIN SyncedWALs = DOMAIN wals
    BY <1>InWriteFacts DEF WriteApplies
  <2>1. DiskTypeOK'
    BY <2>a DEF IInv, TypeOK, DiskTypeOK
  <2>2. MemoryTypeOK'
    BY <2>a DEF IInv, TypeOK, MemoryTypeOK
  <2>3. ThreadsTypeOK' /\ ControlInv' /\ ChecksInv' /\ FilesInv'
    <3>1. pending \in Edits /\ work \in BOOLEAN
      BY DEF IInv, TypeOK, ThreadsTypeOK
    <3>2. edit'.files = edit.files
      BY <2>a
    <3> QED BY <2>a, <3>1, <3>2, <1>WriterKeeps
  <2>4. ReadersTypeOK' /\ BoundsTypeOK'
    BY DEF IInv, TypeOK, ReadersTypeOK, BoundsTypeOK
  <2>8. ManifestInv'
    BY <2>a DEF IInv, ManifestInv, Saving
  <2>9. WALInv'
    BY <2>a DEF IInv, WALInv
  <2> QED BY <2>1, <2>2, <2>3, <2>4, <2>8, <2>9 DEF IInv, TypeOK
\* The batch is applied although the new WAL cannot be opened.
<1>SwitchFailsStep. ASSUME WellOrdered, IInv, SwitchFails PROVE IInv'
  <2> USE <1>SwitchFailsStep
  <2> USE Zenon
  <2>a. /\ ~closed /\ closer.pc = "idle" /\ activeWal \in DOMAIN wals /\ activeWal \in Nat
        /\ wals[activeWal] \in WALFiles(Version)
        /\ active \cup Appended \in VersionSets
        /\ AppliedEdit \in Edits /\ AppliedEdit.next = edit.next
        /\ AppliedEdit.wal = edit.wal /\ AppliedEdit.files = edit.files
        /\ edit.next \in Nat /\ edit.wal \in Nat
        /\ IsDirectory(SyncedWALs, WALFiles(Version))
        /\ DOMAIN SyncedWALs = DOMAIN wals
    BY <1>InWriteFacts DEF SwitchFails
  <2>b. /\ IsDirectory(OpenedForAppend(SyncedWALs, edit.next), WALFiles(Version))
        /\ DOMAIN OpenedForAppend(SyncedWALs, edit.next) = DOMAIN wals \cup {edit.next}
    <3> DEFINE f == SyncedWALs
    <3>1. IsDirectory(f, WALFiles(Version)) /\ edit.next \in Nat /\ DOMAIN f = DOMAIN wals
      BY <2>a
    <3> HIDE DEF f
    <3>2. /\ IsDirectory(OpenedForAppend(f, edit.next), WALFiles(Version))
          /\ DOMAIN OpenedForAppend(f, edit.next) = DOMAIN f \cup {edit.next}
      BY <3>1, <1>OpenedForAppendType, ZenonT(60)
    <3> QED BY <3>1, <3>2 DEF f
  <2> USE DEF SwitchFails, vars, disk, memory, bounds, OneFault
  <2>1. DiskTypeOK'
    BY <2>a, <2>b DEF IInv, TypeOK, DiskTypeOK
  <2>2. MemoryTypeOK'
    BY <2>a DEF IInv, TypeOK, MemoryTypeOK
  <2>3. ThreadsTypeOK' /\ ControlInv' /\ ChecksInv' /\ FilesInv'
    <3>1. pending \in Edits /\ work \in BOOLEAN
      BY DEF IInv, TypeOK, ThreadsTypeOK
    <3>2. edit'.files = edit.files
      BY <2>a
    <3> QED BY <2>a, <3>1, <3>2, <1>WriterKeeps
  <2>4. ReadersTypeOK' /\ BoundsTypeOK'
    BY SMT DEF IInv, TypeOK, ReadersTypeOK, BoundsTypeOK
  <2>8. ManifestInv'
    BY <2>a, ZenonT(60) DEF IInv, ManifestInv, Saving
  <2>9. WALInv'
    BY <2>a, <2>b DEF IInv, WALInv
  <2> QED BY <2>1, <2>2, <2>3, <2>4, <2>8, <2>9 DEF IInv, TypeOK
\* The batch is applied, the new WAL is there, and the save of the version that
\* counts it begins.
<1>WriteSwitchesStep. ASSUME WellOrdered, IInv, WriteSwitches PROVE IInv'
  <2> USE <1>WriteSwitchesStep
  <2> USE Zenon
  <2>a. /\ ~closed /\ closer.pc = "idle" /\ activeWal \in DOMAIN wals /\ activeWal \in Nat
        /\ active \cup Appended \in VersionSets
        /\ AppliedEdit \in Edits /\ AppliedEdit.next = edit.next
        /\ AppliedEdit.wal = edit.wal /\ AppliedEdit.files = edit.files
        /\ edit.next \in Nat /\ edit.wal \in Nat
        /\ IsDirectory(SyncedWALs, WALFiles(Version))
        /\ DOMAIN SyncedWALs = DOMAIN wals
    BY <1>InWriteFacts DEF WriteSwitches
  <2>b. /\ IsDirectory(OpenedForAppend(SyncedWALs, edit.next), WALFiles(Version))
        /\ DOMAIN OpenedForAppend(SyncedWALs, edit.next) = DOMAIN wals \cup {edit.next}
    <3> DEFINE f == SyncedWALs
    <3>1. IsDirectory(f, WALFiles(Version)) /\ edit.next \in Nat /\ DOMAIN f = DOMAIN wals
      BY <2>a
    <3> HIDE DEF f
    <3>2. /\ IsDirectory(OpenedForAppend(f, edit.next), WALFiles(Version))
          /\ DOMAIN OpenedForAppend(f, edit.next) = DOMAIN f \cup {edit.next}
      BY <3>1, <1>OpenedForAppendType
    <3> QED BY <3>1, <3>2, SMT DEF f
  <2> DEFINE new == [AppliedEdit EXCEPT !.next = @ + 1]
  <2>c. SaveAppends(new)
    BY DEF WriteSwitches
  <2>d. /\ new \in Edits /\ new.next = edit.next + 1 /\ new.wal = edit.wal
        /\ new.files = edit.files
    <3> DEFINE e == AppliedEdit
    <3>1. e \in Edits /\ e.next = edit.next /\ e.wal = edit.wal /\ e.files = edit.files
      BY <2>a
    <3> HIDE DEF e
    <3>2. LET x == [e EXCEPT !.next = @ + 1]
          IN  x \in Edits /\ x.next = e.next + 1 /\ x.wal = e.wal /\ x.files = e.files
      BY ONLY <3>1, NumberTaken, Zenon
    <3> QED BY <3>1, <3>2 DEF e
  <2>e. new.wal < new.next
    BY <2>a, <2>d, SMT DEF IInv, ManifestInv
  <2> HIDE DEF new
  <2>i. /\ mbase' = mbase /\ msynced' = msynced /\ pending' = new
        /\ mtail' \in Seq(Records) /\ Len(mtail') > 0
        /\ \A i \in DOMAIN mtail' : mtail'[i].wal < mtail'[i].next
    BY <2>c, <2>d, <2>e, IInv, <1>SaveAppendsFacts
  <2> USE DEF WriteSwitches, vars, disk, memory, bounds
  <2>1. DiskTypeOK'
    BY <2>b, <2>i DEF IInv, TypeOK, DiskTypeOK
  <2>2. MemoryTypeOK'
    BY <2>a DEF IInv, TypeOK, MemoryTypeOK
  <2>3. ThreadsTypeOK' /\ ControlInv' /\ ChecksInv' /\ FilesInv'
    <3>1. pending' \in Edits /\ work \in BOOLEAN
      BY <2>d, <2>i DEF IInv, TypeOK, ThreadsTypeOK
    <3>2. edit'.files = edit.files /\ pending'.files = edit.files
      BY <2>a, <2>d, <2>i
    <3> QED BY <2>a, <3>1, <3>2, <1>WriterKeeps
  <2>4. ReadersTypeOK' /\ BoundsTypeOK'
    BY DEF IInv, TypeOK, ReadersTypeOK, BoundsTypeOK
  <2>8. ManifestInv'
    BY <2>a, <2>d, <2>e, <2>i, SMTT(60) DEF IInv, ManifestInv, Saving
  <2>9. WALInv'
    <3>1. /\ mu' = "rotate" /\ DOMAIN wals' = DOMAIN wals \cup {edit.next} /\ edit' = AppliedEdit
          /\ UNCHANGED <<closed, activeWal, oldestWal, imm, worker>>
      BY <2>b
    <3> QED BY <2>a, <2>d, <2>i, <3>1 DEF IInv, WALInv
  <2> QED BY <2>1, <2>2, <2>3, <2>4, <2>8, <2>9 DEF IInv, TypeOK
\* The switch: the full MemTable joins the queue and the new WAL is the active one.
<1>RotateSucceedsStep. ASSUME WellOrdered, IInv, RotateSucceeds PROVE IInv'
  <2> USE <1>RotateSucceedsStep
  <2> USE Zenon
  <2> USE DEF RotateSucceeds, vars, disk, memory, bounds
  <2>a. /\ ~closed /\ closer.pc = "idle" /\ active \in VersionSets /\ pending \in Edits
        /\ activeWal \in Nat /\ oldestWal \in Nat
    BY DEF IInv, ControlInv, TypeOK, MemoryTypeOK, ThreadsTypeOK
  <2>b. edit.next \in Nat /\ pending.next = edit.next + 1 /\ edit.next \in DOMAIN wals
    BY DEF IInv, WALInv, TypeOK, MemoryTypeOK, Edits
  <2>c. activeWal' = edit.next /\ oldestWal' = edit.next
    BY <2>b, SMT
  <2>d. /\ mbase' \in Edits /\ mtail' \in Seq(Records) /\ msynced' \in Nat
        /\ mbase'.wal < mbase'.next
        /\ \A i \in DOMAIN mtail' : mtail'[i].wal < mtail'[i].next
        /\ edit' = pending /\ persisted' = pending /\ pending' = NoEdit
        /\ edit' \in Edits /\ persisted' \in Edits /\ pending' \in Edits
    BY <1>SaveSucceedsFacts
  <2>q. /\ imm' \in Seq(Immutables) /\ imm' # <<>>
        /\ (imm # <<>> => imm'[1] = imm[1])
        /\ \A i \in DOMAIN imm' : imm'[i].wal = oldestWal
                                 \/ \E j \in DOMAIN imm : imm'[i] = imm[j]
    <3> DEFINE x == [ents |-> active, wal |-> oldestWal]
    <3>1. imm' = Append(imm, x)
      BY SMT
    <3>2. imm \in Seq(Immutables) /\ x \in Immutables /\ x.wal = oldestWal
      BY DEF IInv, TypeOK, MemoryTypeOK, Immutables
    <3> HIDE DEF x
    <3> QED BY <3>1, <3>2, <1>QueueGrows, SMT
  <2>1. DiskTypeOK'
    BY <2>d DEF IInv, TypeOK, DiskTypeOK
  <2>2. MemoryTypeOK'
    BY <2>b, <2>c, <2>d, <2>q, IdleTypes DEF IInv, TypeOK, MemoryTypeOK
  <2>3. ThreadsTypeOK' /\ ControlInv' /\ ChecksInv' /\ FilesInv'
    <3>1. Nums(pending.files) = Nums(edit.files)
      BY DEF IInv, FilesInv
    <3> QED BY <2>a, <2>d, <2>q, <3>1, <1>WriterKeeps
  <2>4. ReadersTypeOK' /\ BoundsTypeOK'
    <3>1. ReadersTypeOK'
      BY <2>a, <1>FreezeReadersType DEF IInv, TypeOK
    <3> QED BY <3>1 DEF IInv, TypeOK, BoundsTypeOK
  <2>8. ManifestInv'
    <3>1. pending.wal < pending.next
      BY DEF IInv, ManifestInv, Saving
    <3> QED BY <2>d, <3>1, ZenonT(60) DEF ManifestInv, Saving
  <2>9. WALInv'
    <3>1. /\ activeWal < edit.next /\ oldestWal <= activeWal
          /\ \A i \in DOMAIN imm : imm[i].wal <= activeWal
          /\ (worker.pc \in {"compact", "purge"} => worker.wal <= activeWal)
      BY <2>a DEF IInv, WALInv
    <3>2. worker.wal \in Nat /\ \A i \in DOMAIN imm : imm[i].wal \in Nat
      <4>1. imm \in Seq(Immutables)
        BY DEF IInv, TypeOK, MemoryTypeOK
      <4>2. \A i \in DOMAIN imm : imm[i] \in Immutables
        BY <4>1, SMT
      <4>3. worker.wal \in Nat
        BY DEF IInv, TypeOK, ThreadsTypeOK, Workers
      <4> QED BY <4>2, <4>3 DEF Immutables
    <3>3. \A i \in DOMAIN imm' : imm'[i].wal <= edit.next
      BY <2>a, <2>b, <2>q, <3>1, <3>2, SMTT(60)
    <3>4. worker.pc \in {"compact", "purge"} => worker.wal <= edit.next
      BY <2>a, <2>b, <3>1, <3>2, SMTT(60)
    <3> QED BY <2>a, <2>b, <2>c, <2>d, <3>3, <3>4, SMTT(60) DEF WALInv
  <2> QED BY <2>1, <2>2, <2>3, <2>4, <2>8, <2>9 DEF IInv, TypeOK
\* The save fails: the write returns an error, applied all the same.
<1>RotateFailsStep. ASSUME IInv, RotateFails PROVE IInv'
  <2> USE <1>RotateFailsStep
  <2> USE Zenon
  <2> USE DEF RotateFails, vars, disk, memory, bounds
  <2>s. Saving
    BY DEF Saving
  <2>f. /\ mtail' \in Seq(Records) /\ mbase' = mbase /\ msynced' = msynced
        /\ \A i \in DOMAIN mtail' : mtail'[i].wal < mtail'[i].next
        /\ edit' = edit /\ persisted' = persisted /\ pending' = NoEdit
        /\ bgError' = TRUE /\ mu' = "free"
        /\ faults' = faults + 1 /\ UNCHANGED <<crashes, opens, compacts>>
    BY <2>s, <1>SaveFailsFacts
  <2>1. DiskTypeOK'
    BY <2>f DEF IInv, TypeOK, DiskTypeOK
  <2>2. MemoryTypeOK'
    BY <2>f DEF IInv, TypeOK, MemoryTypeOK
  <2>3. ThreadsTypeOK' /\ ControlInv' /\ ChecksInv' /\ FilesInv'
    <3>1. ~closed /\ closer.pc = "idle" /\ work \in BOOLEAN /\ NoEdit \in Edits
      BY IdleTypes DEF IInv, ControlInv, TypeOK, ThreadsTypeOK
    <3> QED BY <2>f, <3>1, <1>WriterKeeps
  <2>4. ReadersTypeOK' /\ BoundsTypeOK'
    BY <2>f, SMT DEF IInv, TypeOK, ReadersTypeOK, BoundsTypeOK
  <2>8. ManifestInv'
    BY <2>f, ZenonT(60) DEF IInv, ManifestInv, Saving
  <2>9. WALInv'
    BY <2>f DEF IInv, WALInv
  <2> QED BY <2>1, <2>2, <2>3, <2>4, <2>8, <2>9 DEF IInv, TypeOK
\* The parts of the memory a read pins have their types.
<1>PinnedTypes.
  ASSUME WellOrdered, IInv
  PROVE  /\ ReadPoints \subseteq Nat
         /\ [i \in DOMAIN imm |-> imm[Len(imm) + 1 - i].ents] \in Seq(VersionSets)
         /\ TableVersions \in VersionSets
         /\ MemoryVersions \in SUBSET Version
  <2> USE <1>PinnedTypes
  <2> USE Zenon
  <2>1. /\ edit \in Edits /\ snaps \in [Snaps -> Nat \cup {Inactive}]
        /\ imm \in Seq(Immutables) /\ IsDirectory(tables, VersionSets)
        /\ active \in VersionSets
    BY DEF IInv, TypeOK, MemoryTypeOK
  <2>2. ReadPoints \subseteq Nat
    <3>1. edit.last \in Nat
      BY <2>1 DEF Edits
    <3> QED BY <2>1, <3>1 DEF ReadPoints
  <2>3. \A i \in DOMAIN imm : imm[i].ents \in VersionSets
    <3>1. \A i \in DOMAIN imm : imm[i] \in Immutables
      BY <2>1, SMT
    <3> QED BY <3>1 DEF Immutables
  <2>4. [i \in DOMAIN imm |-> imm[Len(imm) + 1 - i].ents] \in Seq(VersionSets)
    <3>1. DOMAIN imm = 1..Len(imm) /\ Len(imm) \in Nat
      BY <2>1, SMT
    <3>2. \A i \in 1..Len(imm) : Len(imm) + 1 - i \in DOMAIN imm
      BY <3>1, SMT
    <3>3. \A i \in 1..Len(imm) : imm[Len(imm) + 1 - i].ents \in VersionSets
      BY <2>3, <3>2
    <3> QED BY <3>1, <3>3, SMT
  <2>5. TableVersions \in VersionSets
    BY <2>1, <1>UnionOfTables DEF TableVersions
  <2>6. MemoryVersions \in SUBSET Version
    <3>1. VersionSets \subseteq SUBSET Version
      BY DEF VersionSets, FiniteSubsets
    <3>2. active \subseteq Version /\ TableVersions \subseteq Version
      BY <2>1, <2>5, <3>1
    <3> DEFINE U == UNION {imm[i].ents : i \in DOMAIN imm}
    <3>3. U \subseteq Version
      BY <2>3, <3>1, SMT
    <3>4. MemoryVersions = active \cup TableVersions \cup U
      BY DEF MemoryVersions
    <3> HIDE DEF U
    <3> QED BY <3>2, <3>3, <3>4
  <2> QED BY <2>2, <2>4, <2>5, <2>6
\* A snapshot is taken.
<1>GetSnapshotStep. ASSUME IInv, NEW i \in Snaps, GetSnapshot(i) PROVE IInv'
  <2> USE <1>GetSnapshotStep
  <2> USE Zenon
  <2> USE DEF GetSnapshot, vars, disk, memory, bounds
  <2>a. edit.last \in Nat
    BY DEF IInv, TypeOK, MemoryTypeOK, Edits
  <2>1. DiskTypeOK'
    BY <1>KeepsDiskType DEF IInv, TypeOK
  <2>2. MemoryTypeOK'
    BY <2>a DEF IInv, TypeOK, MemoryTypeOK
  <2>3. ThreadsTypeOK'
    BY <1>KeepsThreadsType DEF IInv, TypeOK
  <2>4. ReadersTypeOK' /\ BoundsTypeOK'
    BY DEF IInv, TypeOK, ReadersTypeOK, BoundsTypeOK
  <2>5. ControlInv'
    BY <1>KeepsControl DEF IInv
  <2>6. ChecksInv'
    BY <1>KeepsChecks DEF IInv
  <2>7. FilesInv'
    BY <1>KeepsFiles DEF IInv
  <2>8. ManifestInv'
    BY <1>KeepsManifest DEF IInv
  <2>9. WALInv'
    BY <1>KeepsWAL DEF IInv
  <2> QED BY <2>1, <2>2, <2>3, <2>4, <2>5, <2>6, <2>7, <2>8, <2>9 DEF IInv, TypeOK
\* A snapshot is released.
<1>ReleaseSnapshotStep. ASSUME IInv, NEW i \in Snaps, ReleaseSnapshot(i) PROVE IInv'
  <2> USE <1>ReleaseSnapshotStep
  <2> USE Zenon
  <2> USE DEF ReleaseSnapshot, vars, disk, memory, bounds
  <2>1. DiskTypeOK'
    BY <1>KeepsDiskType DEF IInv, TypeOK
  <2>2. MemoryTypeOK'
    BY DEF IInv, TypeOK, MemoryTypeOK
  <2>3. ThreadsTypeOK'
    BY <1>KeepsThreadsType DEF IInv, TypeOK
  <2>4. ReadersTypeOK' /\ BoundsTypeOK'
    BY DEF IInv, TypeOK, ReadersTypeOK, BoundsTypeOK
  <2>5. ControlInv'
    BY <1>KeepsControl DEF IInv
  <2>6. ChecksInv'
    BY <1>KeepsChecks DEF IInv
  <2>7. FilesInv'
    BY <1>KeepsFiles DEF IInv
  <2>8. ManifestInv'
    BY <1>KeepsManifest DEF IInv
  <2>9. WALInv'
    BY <1>KeepsWAL DEF IInv
  <2> QED BY <2>1, <2>2, <2>3, <2>4, <2>5, <2>6, <2>7, <2>8, <2>9 DEF IInv, TypeOK
\* A step of a Get changes the state of that Get only, so it keeps the invariant
\* when the Get keeps its type.
<1>OnlyAGetMoves.
  ASSUME IInv, ReadersTypeOK',
         UNCHANGED <<disk, memory, mu, pending, work, stop, worker, comp, closer, bounds>>
  PROVE  IInv'
  <2> USE <1>OnlyAGetMoves
  <2> USE Zenon
  <2> USE DEF disk, memory, bounds
  <2>1. DiskTypeOK' /\ MemoryTypeOK'
    BY <1>KeepsDiskType, <1>KeepsMemoryType DEF IInv, TypeOK
  <2>2. ThreadsTypeOK' /\ BoundsTypeOK'
    BY <1>KeepsThreadsType DEF IInv, TypeOK, BoundsTypeOK
  <2>3. ControlInv' /\ ChecksInv'
    BY <1>KeepsControl, <1>KeepsChecks DEF IInv
  <2>4. FilesInv' /\ ManifestInv' /\ WALInv'
    BY <1>KeepsFiles, <1>KeepsManifest, <1>KeepsWAL DEF IInv
  <2> QED BY <2>1, <2>2, <2>3, <2>4 DEF IInv, TypeOK
\* A Get pins the version.
<1>GetPinsStep.
  ASSUME WellOrdered, IInv, NEW r \in Readers, NEW k \in Keys, GetPins(r, k)
  PROVE  IInv'
  <2> USE <1>GetPinsStep
  <2> USE Zenon
  <2> USE DEF GetPins
  <2>a. PICK s \in ReadPoints : reader' = [reader EXCEPT ![r] =
           [pc |-> "pinned", key |-> k, seq |-> s, active |-> {}, shared |-> TRUE,
            imms |-> [i \in DOMAIN imm |-> imm[Len(imm) + 1 - i].ents],
            tabs |-> TableVersions, want |-> Lookup(MemoryVersions, k, s),
            got |-> NotFound]]
    BY ZenonT(60)
  <2>b. s \in Nat /\ k \in Nat /\ NotFound \in Nat
    BY <1>PinnedTypes, KeysAreNumbers DEF NotFound
  <2>c. Lookup(MemoryVersions, k, s) \in Nat
    BY <2>b, <1>PinnedTypes, <1>LookupType, ZenonT(60) DEF Version
  <2> DEFINE I == [i \in DOMAIN imm |-> imm[Len(imm) + 1 - i].ents]
             W == Lookup(MemoryVersions, k, s)
             x == [pc |-> "pinned", key |-> k, seq |-> s, active |-> {}, shared |-> TRUE,
                   imms |-> I, tabs |-> TableVersions, want |-> W, got |-> NotFound]
  <2>d. I \in Seq(VersionSets) /\ W \in Nat /\ TableVersions \in VersionSets /\ {} \in VersionSets
    BY <2>c, <1>PinnedTypes, IdleTypes
  <2> HIDE DEF I, W
  <2>e. x \in Gets
    BY <2>b, <2>d, ZenonT(60) DEF Gets
  <2>f. reader' = [reader EXCEPT ![r] = x]
    BY <2>a, ZenonT(60) DEF I, W
  <2> HIDE DEF x
  <2>z. ReadersTypeOK'
    BY <2>e, <2>f, ZenonT(60) DEF IInv, TypeOK, ReadersTypeOK
  <2>u. UNCHANGED <<disk, memory, mu, pending, work, stop, worker, comp, closer, bounds>>
    BY DEF GetPins
  <2> QED BY <2>z, <2>u, <1>OnlyAGetMoves
\* A Get searches the MemTables.
<1>GetReadsMemTablesStep.
  ASSUME WellOrdered, IInv, NEW r \in Readers, GetReadsMemTables(r)
  PROVE  IInv'
  <2> USE <1>GetReadsMemTablesStep
  <2> USE Zenon
  <2> USE DEF GetReadsMemTables
  <2> DEFINE p == reader[r]
             M == PinnedMemTables(r)
             G == FirstHit(M, p.key, p.seq)
  <2>a. p \in Gets /\ active \in VersionSets
    BY DEF IInv, TypeOK, ReadersTypeOK, MemoryTypeOK
  <2>b. /\ p.imms \in Seq(VersionSets) /\ p.active \in VersionSets /\ p.seq \in Nat
    BY <2>a DEF Gets
  <2>c. M \in Seq(SUBSET Versions(Keys))
    <3>1. VersionSets \subseteq SUBSET Versions(Keys)
      BY DEF VersionSets, FiniteSubsets, Version
    <3> DEFINE S == SUBSET Versions(Keys)
               a == IF p.shared THEN active ELSE p.active
    <3>2. a \in S
      BY <2>a, <2>b, <3>1
    <3>3. p.imms \in Seq(S)
      BY <2>b, <3>1, SMT
    <3>4. M = <<a>> \o p.imms
      BY DEF PinnedMemTables
    <3> HIDE DEF S, a
    <3>5. <<a>> \o p.imms \in Seq(S)
      BY <3>2, <3>3, SMT
    <3> QED BY <3>4, <3>5 DEF S
  <2> HIDE DEF M
  <2>d. G \in Nat
    BY <2>b, <2>c, <1>FirstHitType
  <2>e. PICK pc \in {"done", "tables"} : reader' = [reader EXCEPT ![r] =
          [p EXCEPT !.pc = pc, !.got = G, !.active = {}, !.shared = FALSE, !.imms = <<>>]]
    BY DEF M
  <2> HIDE DEF G
  <2> DEFINE x == [p EXCEPT !.pc = pc, !.got = G, !.active = {}, !.shared = FALSE,
                            !.imms = <<>>]
  <2>f. x \in Gets
    <3>1. {} \in VersionSets /\ <<>> \in Seq(VersionSets)
      BY IdleTypes
    <3> QED BY <2>a, <2>d, <3>1 DEF Gets
  <2> HIDE DEF x
  <2>z. ReadersTypeOK'
    BY <2>e, <2>f DEF x, IInv, TypeOK, ReadersTypeOK
  <2>u. UNCHANGED <<disk, memory, mu, pending, work, stop, worker, comp, closer, bounds>>
    BY DEF GetReadsMemTables
  <2> QED BY <2>z, <2>u, <1>OnlyAGetMoves
\* A Get searches the tables.
<1>GetReadsTablesStep.
  ASSUME WellOrdered, IInv, NEW r \in Readers, GetReadsTables(r)
  PROVE  IInv'
  <2> USE <1>GetReadsTablesStep
  <2> USE Zenon
  <2> USE DEF GetReadsTables
  <2> DEFINE p == reader[r]
             G == Lookup(p.tabs, p.key, p.seq)
  <2>a. p \in Gets
    BY DEF IInv, TypeOK, ReadersTypeOK
  <2>b. p.tabs \in SUBSET Versions(Keys) /\ p.seq \in Nat
    BY <2>a DEF Gets, VersionSets, FiniteSubsets, Version
  <2>c. G \in Nat
    BY <2>b, <1>LookupType
  <2> DEFINE x == [p EXCEPT !.pc = "done", !.tabs = {}, !.got = G]
  <2>d. reader' = [reader EXCEPT ![r] = x]
    BY SMT
  <2> HIDE DEF G
  <2>e. x \in Gets
    BY <2>a, <2>c, IdleTypes DEF Gets
  <2> HIDE DEF x
  <2>z. ReadersTypeOK'
    BY <2>d, <2>e DEF IInv, TypeOK, ReadersTypeOK
  <2>u. UNCHANGED <<disk, memory, mu, pending, work, stop, worker, comp, closer, bounds>>
    BY DEF GetReadsTables
  <2> QED BY <2>z, <2>u, <1>OnlyAGetMoves
\* A Get returns.
<1>GetReturnsStep. ASSUME IInv, NEW r \in Readers, GetReturns(r) PROVE IInv'
  <2> USE <1>GetReturnsStep
  <2> USE Zenon
  <2>z. ReadersTypeOK'
    BY IdleTypes DEF GetReturns, IInv, TypeOK, ReadersTypeOK
  <2>u. UNCHANGED <<disk, memory, mu, pending, work, stop, worker, comp, closer, bounds>>
    BY DEF GetReturns
  <2> QED BY <2>z, <2>u, <1>OnlyAGetMoves
<1> SUFFICES ASSUME WellOrdered, IInv, [Next]_vars PROVE IInv'
  OBVIOUS
<1>1. CASE Open \/ OpenFails \/ CloseBegins \/ UserCompacts \/ Crash
  BY <1>1, <1>OpenStep, <1>OpenFailsStep, <1>CloseBeginsStep, <1>UserCompactsStep, <1>CrashStep
<1>2. CASE CloseSteps
  BY <1>2, <1>CloseEndsStep, <1>CloseSavesStep, <1>CloseSavedStep, <1>CloseSaveFailsStep,
    <1>ClosePurgesStep, <1>ClosePurgeFailsStep DEF CloseSteps
<1>3. CASE WriteSteps
  BY <1>3, <1>WriteFailsStep, <1>WriteAppliesStep, <1>WriteSwitchesStep,
    <1>SwitchFailsStep, <1>RotateSucceedsStep, <1>RotateFailsStep DEF WriteSteps
<1>4. CASE WorkerSteps
  BY <1>4, <1>WorkerWakesStep, <1>WorkerFindsNothingStep, <1>WorkerGivesUpStep,
    <1>WorkerPicksStep, <1>FlushBuildsStep, <1>FlushBuildFailsStep, <1>FlushPublishesStep,
    <1>FlushSucceedsStep, <1>FlushFailsStep, <1>WorkerPurgesStep, <1>WorkerPurgeFailsStep
    DEF WorkerSteps
<1>5. CASE CompactionSteps
  BY <1>5, <1>MaybeCompactStartsStep, <1>MaybeCompactSelectsStep,
    <1>MaybeCompactEndsStep, <1>CompactionBuildsStep, <1>CompactionBuildFailsStep,
    <1>CompactionPublishesStep, <1>CompactionSucceedsStep, <1>CompactionFailsStep,
    <1>CompactionRemovesStep, <1>CompactionRemoveFailsStep DEF CompactionSteps
<1>6. CASE \E b \in Batches : Write(b)
  BY <1>6, <1>WriteStep
<1>7. CASE \E i \in Snaps : GetSnapshot(i) \/ ReleaseSnapshot(i)
  BY <1>7, <1>GetSnapshotStep, <1>ReleaseSnapshotStep
<1>8. CASE \E r \in Readers : GetSteps(r) \/ \E k \in Keys : GetPins(r, k)
  BY <1>8, <1>GetReadsMemTablesStep, <1>GetReadsTablesStep, <1>GetReturnsStep, <1>GetPinsStep
    DEF GetSteps
<1>9. CASE UNCHANGED vars
  BY <1>9, <1>StutterIInv
<1> QED BY <1>1, <1>2, <1>3, <1>4, <1>5, <1>6, <1>7, <1>8, <1>9 DEF Next

\* What the three checks that threads make after they have waited rest on.
LEMMA ChecksFollow == IInv => PublishChecksHold
<1> USE Zenon
<1> SUFFICES ASSUME IInv PROVE PublishChecksHold
  BY SMT
<1>1. worker.pc = "publish" => QueueUnchanged
  BY DEF IInv, ChecksInv
<1>2. comp.stage = "publish" => InputsUnchanged
  BY DEF IInv, ChecksInv
<1>3. Joined /\ ~bgError => imm = <<>>
  BY DEF IInv, ControlInv, Joined
<1> QED BY <1>1, <1>2, <1>3, SMT DEF PublishChecksHold

=============================================================================
