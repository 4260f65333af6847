-------------------------- MODULE Manifest_proofs ---------------------------
(***************************************************************************)
(* The properties of Manifest, for any number of DB objects, tables, I/O   *)
(* errors, crashes and opens.                                              *)
(***************************************************************************)
EXTENDS Manifest, TLAPS

WF == INSTANCE WellFoundedInduction

-----------------------------------------------------------------------------
(***************************************************************************)
(* The inductive invariant.                                                *)
(***************************************************************************)
FileNumbers == 1..MaxFile
TableMetas == [num : FileNumbers, level : {0}]
TableVersions == [next : Nat \ {0}, wal : {1}, last : {0}, files : SUBSET TableMetas]
LogRecords == [torn : BOOLEAN, next : Nat \ {0}, wal : {1}, last : {0},
               del : SUBSET FileNumbers, add : SUBSET TableMetas]
TableJobs == [num : FileNumbers, inputs : SUBSET FileNumbers]

\* How many records of a log are read, and the version that its first k lead to.
Cut(log) == Len(IntactPrefix(log))
VersionOf(log, k) == Replay(NoVersion, SubSeq(log, 1, k))
TablesOf(log, k) == Nums(VersionOf(log, k).files)

\* The lengths of MANIFEST that Open may read, now or after a power failure.
ReadableOf(m) == {k \in 0..Cut(m.recs) : k >= m.synced \/ k = Cut(m.recs)}

\* The same of the MANIFEST that is there.
Intact == Cut(manifest.recs)
VersionAt(k) == VersionOf(manifest.recs, k)
Tables(k) == TablesOf(manifest.recs, k)
Readable == ReadableOf(manifest)

\* The flushes whose data a set of tables holds.
Data(S) == UNION {ssts[n] : n \in S}

ManifestFiles == [name : {"absent", "linked", "durable"}, recs : Seq(LogRecords),
                  synced : Nat, stale : BOOLEAN]

ManifestOK(m) ==
  /\ m \in ManifestFiles
  /\ m.synced <= Len(m.recs)
  /\ m.name = "absent" => m.recs = <<>>
  /\ m.stale => m.recs # <<>>

CurrentOK(c) == c = NoFile \/ c \in [name : {"linked", "durable"}, content : {"synced"}]

DirectoryInv ==
  /\ ssts = [n \in DOMAIN ssts |-> ssts[n]] /\ DOMAIN ssts \subseteq FileNumbers
  /\ ManifestOK(manifest) /\ CurrentOK(current)

\* A version that Open may read has its tables, holds what was acknowledged and has
\* nothing that was replaced.
Keeps(k) ==
  /\ k > 0
  /\ Tables(k) \subseteq DOMAIN ssts
  /\ acked \subseteq Data(Tables(k))
  /\ obsolete \cap Tables(k) = {}
  /\ \A n \in obsolete : n < VersionAt(k).next

HistoryInv ==
  /\ committed \in BOOLEAN /\ damaged \in BOOLEAN /\ obsolete \subseteq FileNumbers
  /\ ~committed => acked = {} /\ obsolete = {}
  /\ committed => manifest.name = "durable" /\ current.name = "durable"
  /\ committed /\ ~damaged => \A k \in Readable : Keeps(k)

Written == {"sync", "dirsync", "tmp", "renamed"}
Saving == {"append"} \cup Written
Objects == [pc : {"load", "open"} \cup Saving, edit : TableVersions,
            persisted : TableVersions, built : SUBSET TableJobs,
            saving : TableJobs \cup {NoJob}, garbage : SUBSET FileNumbers,
            error : BOOLEAN]

Loading == [Closed EXCEPT !.pc = "load"]

\* Who holds the lock is in Open, at rest or in a Save, of the first version or of
\* a job.
ObjectOK(s) ==
  /\ s \in Objects
  /\ s.garbage \subseteq obsolete
  /\ s.pc = "load" => s = Loading
  /\ s.pc = "open" => s.saving = NoJob
  /\ s.pc \in Saving /\ s.saving # NoJob => s.saving \in s.built
  /\ s.pc \in Saving /\ s.saving = NoJob =>
       ~committed /\ s.built = {} /\ s.persisted = NoVersion

\* What it knows of the tables and of the log.
VersionsOK(s) ==
  LET P == Nums(s.persisted.files)
      E == Nums(s.edit.files)
  IN  /\ Tables(Intact) \subseteq DOMAIN ssts
      /\ P \subseteq DOMAIN ssts
      /\ Data(P) \subseteq Data(Tables(Intact))
      /\ obsolete \cap P = {}
      /\ \A n \in DOMAIN ssts \cup obsolete : n < s.edit.next
      /\ E = IF s.pc = "open" THEN P
             ELSE IF s.saving = NoJob THEN DOMAIN ssts
             ELSE (P \ s.saving.inputs) \cup {s.saving.num}

\* A job's table has what the tables that it replaces have.
JobOK(s, j) ==
  /\ j.num \in DOMAIN ssts
  /\ j.num \notin obsolete \cup Nums(s.persisted.files)
  /\ j.inputs \subseteq Nums(s.persisted.files)
  /\ Data(j.inputs) \subseteq ssts[j.num]

JobsOK(s) ==
  \A j \in s.built :
    /\ JobOK(s, j)
    /\ \A h \in s.built : h # j => h.num # j.num /\ (h.inputs = {}) # (j.inputs = {})

\* The record is appended: the log ends with the version being saved.
SaveOK(s) ==
  LET P == Nums(s.persisted.files)
      E == Nums(s.edit.files)
  IN  /\ Intact = Len(manifest.recs) /\ Intact > 0
      /\ Data(E) \subseteq Data(Tables(Intact))
      /\ (P \ E) \cap Tables(Intact) = {}
      /\ VersionAt(Intact).next = s.edit.next
      /\ s.pc # "sync" => manifest.synced = Len(manifest.recs)

\* The names that a Save has made.
NamesOK(s) ==
  /\ s.pc \in Written => manifest.name # "absent"
  /\ s.pc \in {"tmp", "renamed"} => manifest.name = "durable"
  /\ s.pc = "tmp" => current.name = "absent"
  /\ s.pc = "renamed" => current.name # "absent"

OwnerOK(s) ==
  /\ ObjectOK(s) /\ NamesOK(s)
  /\ ~damaged => /\ s.pc # "load" => VersionsOK(s)
                 /\ JobsOK(s)
                 /\ s.pc \in Written => SaveOK(s)

\* Who does not hold the lock has nothing.
ObjectsInv ==
  /\ owner \in Instances \cup {None}
  /\ db = [i \in Instances |-> db[i]]
  /\ \A i \in Instances : i # owner => db[i] = Closed
  /\ \A i \in Instances : i = owner => OwnerOK(db[i])

IInv == DirectoryInv /\ HistoryInv /\ ObjectsInv

-----------------------------------------------------------------------------
(***************************************************************************)
(* Bounded sets of numbers.                                                *)
(***************************************************************************)

\* A bounded set of natural numbers that is not empty has a largest element.
LEMMA BoundedMax ==
  ASSUME NEW L \in Nat, NEW S \in SUBSET (0..L), S # {}
  PROVE  Max(S) \in S /\ \A y \in S : y <= Max(S)
<1> USE Zenon
<1>n. \A y \in S : y \in Nat /\ y <= L
  BY SMT
<1> DEFINE T == {L - x : x \in S}
<1>1. T \in SUBSET Nat /\ T # {}
  <2>1. \A x \in S : x \in Nat /\ x <= L
    BY SMT
  <2>2. \A x \in S : L - x \in Nat
    BY <2>1, SMT
  <2> QED BY <2>2
<1>2. PICK z \in T : \A y \in T : <<y, z>> \notin WF!OpToRel(<, Nat)
  <2> HIDE DEF T
  <2> QED BY <1>1, WF!NatLessThanWellFounded, WF!WFMin
<1>3. ASSUME NEW y \in T PROVE z <= y
  <2>1. z \in Nat /\ y \in Nat /\ ~(y < z)
    <3> HIDE DEF T
    <3> QED BY <1>1, <1>2, <1>3 DEF WF!OpToRel
  <2> QED BY <2>1, SMT
<1>4. PICK x \in S : z = L - x
  BY <1>2
<1>t. \A y \in S : z <= L - y
  BY <1>3
<1> HIDE DEF T
<1>5. \A y \in S : y <= x
  <2> SUFFICES ASSUME NEW y \in S PROVE y <= x
    BY SMT
  <2>1. L - x <= L - y /\ y \in Nat /\ x \in Nat
    BY <1>4, <1>n, <1>t
  <2> QED BY <2>1, SMT
<1>6. \E m \in S : \A y \in S : m >= y
  BY <1>5, SMT
<1>7. Max(S) \in S /\ \A y \in S : Max(S) >= y
  BY <1>6 DEF Max
<1>8. \A a, b \in Nat : a >= b => b <= a
  BY SMT
<1> QED BY <1>7, <1>8, <1>n

\* The smaller of two numbers.
LEMMA MinOfTwo ==
  ASSUME NEW a \in Nat, NEW b \in Nat
  PROVE  Min({a, b}) = IF a <= b THEN a ELSE b
<1>1. \E m \in {a, b} : \A y \in {a, b} : m <= y
  OBVIOUS
<1>2. Min({a, b}) \in {a, b} /\ \A y \in {a, b} : Min({a, b}) <= y
  BY <1>1, Zenon DEF Min
<1> DEFINE m == Min({a, b})
<1> HIDE DEF m
<1>3. m \in {a, b} /\ m <= a /\ m <= b
  BY <1>2, Zenon DEF m
<1>4. m = IF a <= b THEN a ELSE b
  BY <1>3
<1> QED BY <1>4 DEF m

-----------------------------------------------------------------------------
(***************************************************************************)
(* Logs.                                                                   *)
(***************************************************************************)

\* The first records of a log.
LEMMA FirstRecords ==
  ASSUME NEW log \in Seq(LogRecords), NEW n \in 0..Len(log)
  PROVE  /\ SubSeq(log, 1, n) \in Seq(LogRecords) /\ Len(SubSeq(log, 1, n)) = n
         /\ \A i \in 1..n : i \in DOMAIN log /\ SubSeq(log, 1, n)[i] = log[i]
<1> DEFINE s == SubSeq(log, 1, n)
<1>1. \A i \in 1..n : log[i] \in LogRecords /\ i \in DOMAIN log
  OBVIOUS
<1>2. n \in Int /\ n - 1 + 1 = n /\ (1 <= n \/ n = 0)
  OBVIOUS
<1>3. s \in Seq(LogRecords) /\ Len(s) = n /\ \A i \in 1..n : s[i] = log[i]
  BY <1>1, <1>2
<1> QED BY <1>1, <1>3, Zenon

\* Logs with the same first records.
LEMMA SameFirstRecords ==
  ASSUME NEW a \in Seq(LogRecords), NEW b \in Seq(LogRecords), NEW n \in Nat,
         n <= Len(a), n <= Len(b), \A i \in 1..n : a[i] = b[i]
  PROVE  SubSeq(a, 1, n) = SubSeq(b, 1, n)
<1> DEFINE s == SubSeq(a, 1, n)
           t == SubSeq(b, 1, n)
<1>1. n \in 0..Len(a) /\ n \in 0..Len(b)
  OBVIOUS
<1>2. s \in Seq(LogRecords) /\ Len(s) = n /\ \A i \in 1..n : s[i] = a[i]
  BY <1>1, FirstRecords, Zenon
<1>3. t \in Seq(LogRecords) /\ Len(t) = n /\ \A i \in 1..n : t[i] = b[i]
  BY <1>1, FirstRecords, Zenon
<1> HIDE DEF s, t
<1>4. s = t
  BY <1>2, <1>3
<1> QED BY <1>4 DEF s, t

\* A log is read up to its first torn record.
LEMMA LogIsCut ==
  ASSUME NEW log \in Seq(LogRecords)
  PROVE  LET n == Len(IntactPrefix(log))
         IN  /\ n \in 0..Len(log) /\ Len(log) \in Nat
             /\ IntactPrefix(log) = SubSeq(log, 1, n) /\ IntactPrefix(log) \in Seq(LogRecords)
             /\ \A i \in 1..n : ~log[i].torn
             /\ n < Len(log) => log[n + 1].torn
<1> USE Zenon
<1> DEFINE L == Len(log)
           I == {k \in 0..L : \A j \in 1..k : ~log[j].torn}
           n == Max(I)
<1>1. L \in Nat
  BY SMT
<1>2. n \in I /\ \A k \in I : k <= n
  <2>1. I \in SUBSET (0..L) /\ 0 \in I
    BY <1>1, SMT
  <2> HIDE DEF I, L
  <2> QED BY <1>1, <2>1, BoundedMax
<1>3. IntactPrefix(log) = SubSeq(log, 1, n)
  BY DEF IntactPrefix
<1> HIDE DEF n
<1>4. n \in 0..L /\ n \in Nat /\ \A i \in 1..n : ~log[i].torn
  BY <1>1, <1>2, SMT
<1>5. n < L => log[n + 1].torn
  <2> SUFFICES ASSUME n < L, ~log[n + 1].torn PROVE FALSE
    BY SMT
  <2>1. n + 1 \in 0..L /\ ~(n + 1 <= n)
    <3> HIDE DEF L
    <3> QED BY <1>1, <1>4, SMT
  <2>2. \A j \in 1..(n + 1) : j = n + 1 \/ j \in 1..n
    BY <1>4, SMT
  <2>3. n + 1 \in I
    BY <1>4, <2>1, <2>2
  <2> QED BY <1>2, <2>1, <2>3
<1>6. SubSeq(log, 1, n) \in Seq(LogRecords) /\ Len(SubSeq(log, 1, n)) = n
  BY <1>4, FirstRecords
<1>7. Len(IntactPrefix(log)) = n
  BY <1>3, <1>6
<1> QED BY <1>1, <1>3, <1>4, <1>5, <1>6, <1>7

\* A number is the length of the part that is read when the records up to it are
\* intact and the next one, if there is one, is torn.
LEMMA CutIsAt ==
  ASSUME NEW log \in Seq(LogRecords), NEW n \in 0..Len(log),
         \A i \in 1..n : ~log[i].torn, n < Len(log) => log[n + 1].torn
  PROVE  Len(IntactPrefix(log)) = n
<1> USE Zenon
<1> DEFINE k == Len(IntactPrefix(log))
<1>1. /\ k \in 0..Len(log) /\ Len(log) \in Nat /\ \A i \in 1..k : ~log[i].torn
      /\ k < Len(log) => log[k + 1].torn
  BY LogIsCut
<1> HIDE DEF k
<1>2. ~(k < n)
  <2> SUFFICES ASSUME k < n PROVE FALSE
    BY SMT
  <2>1. k + 1 \in 1..n /\ k < Len(log)
    BY <1>1, SMT
  <2> QED BY <1>1, <2>1
<1>3. ~(n < k)
  <2> SUFFICES ASSUME n < k PROVE FALSE
    BY SMT
  <2>1. n + 1 \in 1..k /\ n < Len(log)
    BY <1>1, SMT
  <2> QED BY <1>1, <2>1
<1>4. k = n
  BY <1>1, <1>2, <1>3, SMT
<1> QED BY <1>4, SMT DEF k

\* Nothing is left over when all records are read.
LEMMA RestIsEmpty ==
  ASSUME NEW log \in Seq(LogRecords)
  PROVE  TornRest(log) = <<>> <=> Len(IntactPrefix(log)) = Len(log)
<1> USE Zenon
<1> DEFINE n == Len(IntactPrefix(log))
           L == Len(log)
<1>1. n \in 0..L /\ L \in Nat /\ \A i \in 1..L : log[i] \in LogRecords
  BY LogIsCut, SMT
<1>2. TornRest(log) = SubSeq(log, n + 1, L)
  BY DEF TornRest
<1> HIDE DEF n
<1>3. n = L => SubSeq(log, n + 1, L) = <<>>
  BY <1>1, SMT
<1>4. n < L => Len(SubSeq(log, n + 1, L)) # 0
  <2> SUFFICES ASSUME n < L PROVE Len(SubSeq(log, n + 1, L)) # 0
    OBVIOUS
  <2>1. PICK k \in Nat : k = n + 1
    BY <1>1, SMT
  <2>2. k \in 1..L
    BY <1>1, <2>1, SMT
  <2>3. Len(SubSeq(log, k, L)) = L - k + 1
    BY <1>1, <2>2, SMT
  <2>4. L - k + 1 # 0
    BY <1>1, <2>2, SMT
  <2>5. Len(SubSeq(log, k, L)) # 0
    BY <2>3, <2>4
  <2> QED BY <2>1, <2>5
<1>5. n = L \/ n < L
  BY <1>1, SMT
<1>6. Len(<<>>) = 0
  BY SMT
<1>7. n = L <=> TornRest(log) = <<>>
  <2>1. n < L => n # L
    BY <1>1, SMT
  <2> QED BY <1>2, <1>3, <1>4, <1>5, <1>6, <2>1
<1> QED BY <1>7 DEF n

\* A record appended to an intact log is read; behind a torn record, or torn
\* itself, it is not.
LEMMA AppendedRecord ==
  ASSUME NEW log \in Seq(LogRecords), NEW r \in LogRecords
  PROVE  LET a == Append(log, r)
         IN  /\ a \in Seq(LogRecords) /\ Len(a) = Len(log) + 1 /\ a # <<>>
             /\ Cut(log) < Len(log) \/ r.torn => Cut(a) = Cut(log)
             /\ Cut(log) = Len(log) /\ ~r.torn => Cut(a) = Len(a)
             /\ \A k \in 0..Len(log) : SubSeq(a, 1, k) = SubSeq(log, 1, k)
             /\ SubSeq(a, 1, Len(a)) = a /\ SubSeq(log, 1, Len(log)) = log
<1> USE Zenon
<1> DEFINE a == Append(log, r)
           L == Len(log)
           n == Cut(log)
<1>1. /\ L \in Nat /\ a \in Seq(LogRecords) /\ Len(a) = L + 1 /\ a[L + 1] = r
      /\ \A i \in 1..L : a[i] = log[i]
      /\ a # <<>>
  BY SMT
<1>2. /\ n \in 0..L /\ n \in Nat /\ \A i \in 1..n : ~log[i].torn
      /\ n < L => log[n + 1].torn
  <2>1. /\ n \in 0..L /\ \A i \in 1..n : ~log[i].torn
        /\ n < L => log[n + 1].torn
    BY LogIsCut DEF Cut
  <2> QED BY <1>1, <2>1, SMT
<1> HIDE DEF a, n, L
<1>3. n < L \/ r.torn => Cut(a) = n
  <2> SUFFICES ASSUME n < L \/ r.torn PROVE Cut(a) = n
    BY SMT
  <2>1. n \in 0..Len(a) /\ \A i \in 1..n : i \in 1..L
    BY <1>1, <1>2, SMT
  <2>2. n < L => n + 1 \in 1..L
    BY <1>1, <1>2, SMT
  <2>3. n = L \/ n < L
    BY <1>1, <1>2, SMT
  <2>4. a[n + 1].torn
    BY <1>1, <1>2, <2>2, <2>3
  <2>5. \A i \in 1..n : ~a[i].torn
    BY <1>1, <1>2, <2>1
  <2> QED BY <1>1, <2>1, <2>4, <2>5, CutIsAt DEF Cut
<1>4. n = L /\ ~r.torn => Cut(a) = Len(a)
  <2> SUFFICES ASSUME n = L, ~r.torn PROVE Cut(a) = Len(a)
    BY SMT
  <2>1. /\ Len(a) \in 0..Len(a) /\ ~(Len(a) < Len(a))
        /\ \A i \in 1..Len(a) : i \in 1..n \/ i = L + 1
    BY <1>1, <1>2, SMT
  <2>2. \A i \in 1..Len(a) : ~a[i].torn
    BY <1>1, <1>2, <2>1
  <2> QED BY <1>1, <2>1, <2>2, CutIsAt DEF Cut
<1>5. ASSUME NEW k \in 0..L PROVE SubSeq(a, 1, k) = SubSeq(log, 1, k)
  <2>1. k \in Nat /\ k <= Len(a) /\ k <= Len(log) /\ \A i \in 1..k : i \in 1..L
    BY <1>1, SMT DEF L
  <2> QED BY <1>1, <2>1, SameFirstRecords
<1>6. \A s \in Seq(LogRecords) : SubSeq(s, 1, Len(s)) = s
  BY SMT
<1> QED BY <1>1, <1>3, <1>4, <1>5, <1>6 DEF a, n, L

\* What is read of a log whose first n records are those of another and whose
\* next record, if there is one, is torn: a power failure leaves such a log.
LEMMA TornCopy ==
  ASSUME NEW log \in Seq(LogRecords), NEW new \in Seq(LogRecords), NEW n \in 0..Len(log),
         Len(new) \in {n, n + 1}, \A i \in 1..n : new[i] = log[i],
         Len(new) = n + 1 => new[n + 1].torn
  PROVE  /\ Cut(new) = IF n <= Cut(log) THEN n ELSE Cut(log)
         /\ \A k \in 0..Cut(new) : SubSeq(new, 1, k) = SubSeq(log, 1, k)
<1> USE Zenon
<1> DEFINE L == Len(log)
           c == Cut(log)
           d == IF n <= c THEN n ELSE c
<1>1. /\ c \in 0..L /\ L \in Nat /\ \A i \in 1..c : ~log[i].torn
      /\ c < L => log[c + 1].torn
  BY LogIsCut DEF Cut
<1>2. n \in 0..L /\ Len(new) \in Nat
  BY SMT
<1> HIDE DEF c, L
<1>3. d \in 0..n /\ d \in 0..c /\ d <= Len(new) /\ d \in Nat
  BY <1>1, <1>2, SMT
<1>4. \A i \in 1..d : i \in 1..n /\ i \in 1..c
  BY <1>3, <1>1, <1>2, SMT
<1>5. d < Len(new) => new[d + 1].torn
  <2>1. CASE n <= c
    <3>1. d = n /\ (d < Len(new) => Len(new) = n + 1)
      BY <2>1, <1>1, <1>2, SMT
    <3> QED BY <3>1
  <2>2. CASE ~(n <= c)
    <3>1. d = c /\ c < L /\ c + 1 \in 1..n
      BY <2>2, <1>1, <1>2, SMT
    <3> QED BY <3>1, <1>1
  <2> QED BY <2>1, <2>2
<1>6. Cut(new) = d
  <2>1. \A i \in 1..d : ~new[i].torn
    BY <1>1, <1>4
  <2>2. d \in 0..Len(new)
    BY <1>3, <1>2, SMT
  <2> HIDE DEF d
  <2> QED BY <1>5, <2>1, <2>2, CutIsAt DEF Cut
<1>7. ASSUME NEW k \in 0..Cut(new) PROVE SubSeq(new, 1, k) = SubSeq(log, 1, k)
  <2>1. k \in 0..d
    BY <1>6, <1>7
  <2>2. k \in Nat /\ k <= Len(new) /\ k <= Len(log) /\ \A i \in 1..k : i \in 1..n
    BY <2>1, <1>1, <1>2, <1>3, SMT DEF L
  <2> QED BY <2>2, SameFirstRecords
<1> QED BY <1>6, <1>7 DEF d, c

-----------------------------------------------------------------------------
(***************************************************************************)
(* The versions of a log.                                                  *)
(***************************************************************************)

\* A record drops files and adds its own.
LEMMA ReplayAppend ==
  ASSUME NEW base, NEW log \in Seq(LogRecords), NEW r \in LogRecords
  PROVE  \A m : m \in Replay(base, Append(log, r)).files
                <=> (m \in Replay(base, log).files /\ m.num \notin Dropped(r)) \/ m \in r.add
<1> USE Zenon
<1> DEFINE n == Len(log)
           a == Append(log, r)
           S(m, i) == \A j \in (i+1)..n : m.num \notin Dropped(log[j])
           T(m, i) == \A j \in (i+1)..(n+1) : m.num \notin Dropped(a[j])
           F == Replay(base, log).files
           G == Replay(base, a).files
<1>1. /\ n \in Nat /\ Len(a) = n + 1 /\ a[n + 1] = r
      /\ \A i \in 1..n : a[i] = log[i]
  BY SMT
<1>2. \A m : m \in F <=> (m \in base.files /\ S(m, 0)) \/ \E i \in 1..n : m \in log[i].add /\ S(m, i)
  <2>1. F = {m \in base.files : S(m, 0)} \cup UNION {{m \in log[i].add : S(m, i)} : i \in 1..n}
    BY SMT DEF Replay
  <2> DEFINE A == {m \in base.files : S(m, 0)}
             B(i) == {m \in log[i].add : S(m, i)}
  <2>2. \A m : m \in A <=> m \in base.files /\ S(m, 0)
    BY SMT
  <2>3. \A m, i : m \in B(i) <=> m \in log[i].add /\ S(m, i)
    BY SMT
  <2>4. F = A \cup UNION {B(i) : i \in 1..n}
    BY <2>1
  <2> HIDE DEF F, S, n, A, B
  <2>5. \A m : m \in F <=> m \in A \/ \E i \in 1..n : m \in B(i)
    BY <2>4
  <2> QED BY <2>2, <2>3, <2>5
<1>3. \A m : m \in G <=> (m \in base.files /\ T(m, 0)) \/ \E i \in 1..(n+1) : m \in a[i].add /\ T(m, i)
  <2>1. G = {m \in base.files : T(m, 0)} \cup UNION {{m \in a[i].add : T(m, i)} : i \in 1..(n+1)}
    <3>1. G = Replay(base, a).files /\ Len(a) = n + 1
      BY <1>1
    <3> HIDE DEF a, n, G
    <3> QED BY <3>1, SMT DEF Replay
  <2> DEFINE A == {m \in base.files : T(m, 0)}
             B(i) == {m \in a[i].add : T(m, i)}
  <2>2. \A m : m \in A <=> m \in base.files /\ T(m, 0)
    BY SMT
  <2>3. \A m, i : m \in B(i) <=> m \in a[i].add /\ T(m, i)
    OBVIOUS
  <2>4. G = A \cup UNION {B(i) : i \in 1..(n+1)}
    BY <2>1
  <2> HIDE DEF G, T, n, a, A, B
  <2>5. \A m : m \in G <=> m \in A \/ \E i \in 1..(n+1) : m \in B(i)
    BY <2>4
  <2> QED BY <2>2, <2>3, <2>5
<1> HIDE DEF F, G, a, n
<1>4. \A m : \A i \in 0..n : T(m, i) <=> S(m, i) /\ m.num \notin Dropped(r)
  <2> SUFFICES ASSUME NEW m, NEW i \in 0..n
               PROVE  T(m, i) <=> S(m, i) /\ m.num \notin Dropped(r)
    OBVIOUS
  <2>1. \A j : j \in (i+1)..(n+1) <=> j \in (i+1)..n \/ j = n + 1
    BY <1>1, SMT
  <2>2. \A j \in (i+1)..n : j \in 1..n
    BY <1>1, SMT
  <2> QED BY <1>1, <2>1, <2>2
<1>5. \A m : T(m, n + 1)
  <2>1. \A j \in (n+1+1)..(n+1) : FALSE
    BY <1>1, SMT
  <2> QED BY <2>1
<1>6. /\ \A i : i \in 1..(n+1) <=> i \in 1..n \/ i = n + 1
      /\ 0 \in 0..n /\ \A i \in 1..n : i \in 0..n
  BY <1>1, SMT
<1> HIDE DEF S, T
<1>7. \A m : m \in G <=> (m \in F /\ m.num \notin Dropped(r)) \/ m \in r.add
  <2> TAKE m
  <2>1. (m \in base.files /\ T(m, 0)) <=> (m \in base.files /\ S(m, 0)) /\ m.num \notin Dropped(r)
    BY <1>4, <1>6
  <2>2. (\E i \in 1..(n+1) : m \in a[i].add /\ T(m, i))
          <=> \/ (\E i \in 1..n : m \in log[i].add /\ S(m, i)) /\ m.num \notin Dropped(r)
              \/ m \in r.add
    BY <1>1, <1>4, <1>5, <1>6
  <2> QED BY <1>2, <1>3, <2>1, <2>2
<1> QED BY <1>7 DEF F, G, a

\* The numbers of files that are not dropped, and of those that are added.
LEMMA AppendedTables ==
  ASSUME NEW log \in Seq(LogRecords), NEW r \in LogRecords, Cut(log) = Len(log)
  PROVE  LET a == Append(log, r)
         IN  /\ TablesOf(a, Len(a)) = (TablesOf(log, Len(log)) \ Dropped(r)) \cup Nums(r.add)
             /\ VersionOf(a, Len(a)).next = r.next
<1> USE Zenon
<1> DEFINE a == Append(log, r)
           F == Replay(NoVersion, log).files
           G == Replay(NoVersion, a).files
<1>1. SubSeq(a, 1, Len(a)) = a /\ SubSeq(log, 1, Len(log)) = log
  <2>1. \A s \in Seq(LogRecords) : SubSeq(s, 1, Len(s)) = s
    BY SMT
  <2>2. a \in Seq(LogRecords)
    BY SMT
  <2> QED BY <2>1, <2>2
<1>2. \A m : m \in G <=> (m \in F /\ m.num \notin Dropped(r)) \/ m \in r.add
  BY ReplayAppend
<1>3. Len(a) # 0 /\ a[Len(a)] = r
  BY SMT
<1>4. VersionOf(a, Len(a)).next = r.next
  <2> HIDE DEF a
  <2>1. Replay(NoVersion, a).next = r.next
    BY <1>3, SMT DEF Replay
  <2> QED BY <1>1, <2>1 DEF VersionOf
<1>5. TablesOf(a, Len(a)) = Nums(G) /\ TablesOf(log, Len(log)) = Nums(F)
  BY <1>1 DEF TablesOf, VersionOf
<1> HIDE DEF a, F, G
<1>6. \A x : x \in Nums(G) <=> x \in (Nums(F) \ Dropped(r)) \cup Nums(r.add)
  BY <1>2 DEF Nums
<1>7. Nums(G) = (Nums(F) \ Dropped(r)) \cup Nums(r.add)
  BY <1>6
<1> QED BY <1>4, <1>5, <1>7 DEF a

\* A log of typed records leads to typed versions.
LEMMA VersionsAreTyped ==
  ASSUME NEW log \in Seq(LogRecords), NEW k \in 0..Len(log)
  PROVE  VersionOf(log, k) \in TableVersions /\ TablesOf(log, k) \subseteq FileNumbers
<1> USE Zenon
<1> DEFINE s == SubSeq(log, 1, k)
           S(m, i) == \A j \in (i+1)..Len(s) : m.num \notin Dropped(s[j])
           A == {m \in NoVersion.files : S(m, 0)}
           B(i) == {m \in s[i].add : S(m, i)}
           F == A \cup UNION {B(i) : i \in 1..Len(s)}
           nx == IF Len(s) = 0 THEN NoVersion.next ELSE s[Len(s)].next
           wl == IF Len(s) = 0 THEN NoVersion.wal ELSE s[Len(s)].wal
           ls == IF Len(s) = 0 THEN NoVersion.last ELSE s[Len(s)].last
<1>1. s \in Seq(LogRecords) /\ Len(s) = k /\ \A i \in 1..k : s[i] \in LogRecords
  <2>1. s \in Seq(LogRecords) /\ Len(s) = k
    BY FirstRecords
  <2> HIDE DEF s
  <2> QED BY <2>1, SMT
<1>2. NoVersion = [next |-> 1, wal |-> 1, last |-> 0, files |-> {}]
  <2>1. {[num |-> n, level |-> 0] : n \in {}} = {}
    BY SMT
  <2> QED BY <2>1 DEF NoVersion, Version
<1>3. VersionOf(log, k) = [next |-> nx, wal |-> wl, last |-> ls, files |-> F]
  BY DEF VersionOf, Replay
<1> HIDE DEF S, s
<1>4. F \in SUBSET TableMetas
  <2>1. A = {}
    BY <1>2, SMT
  <2>2. ASSUME NEW i \in 1..Len(s) PROVE B(i) \subseteq TableMetas
    <3>1. s[i].add \subseteq TableMetas
      BY <1>1, SMT DEF LogRecords
    <3> QED BY <3>1, SMT
  <2> HIDE DEF A, B
  <2> QED BY <2>1, <2>2
<1>5. nx \in Nat \ {0} /\ wl = 1 /\ ls = 0
  <2>1. CASE k = 0
    BY <2>1, <1>1, <1>2, SMT
  <2>2. CASE k # 0
    <3>1. s[k] \in LogRecords
      BY <1>1, <2>2, SMT
    <3>2. s[k].next \in Nat \ {0} /\ s[k].wal = 1 /\ s[k].last = 0
      BY <3>1, SMT DEF LogRecords
    <3> QED BY <3>2, <1>1, <2>2
  <2> QED BY <2>1, <2>2
<1> HIDE DEF F, nx, wl, ls
<1>6. VersionOf(log, k) \in TableVersions /\ VersionOf(log, k).files = F
  BY <1>3, <1>4, <1>5, SMT DEF TableVersions
<1>7. Nums(F) \subseteq FileNumbers
  <2>1. \A m \in TableMetas : m.num \in FileNumbers
    BY SMT DEF TableMetas
  <2> QED BY <1>4, <2>1 DEF Nums
<1> QED BY <1>6, <1>7 DEF TablesOf

\* The version made of a set of tables.
LEMMA VersionTypes ==
  ASSUME NEW S \in SUBSET FileNumbers, NEW n \in Nat \ {0}
  PROVE  /\ Version(S, n) \in TableVersions /\ Nums(Version(S, n).files) = S
         /\ Version(S, n).next = n
<1> USE Zenon
<1> DEFINE F == {[num |-> k, level |-> 0] : k \in S}
<1>1. Version(S, n) = [next |-> n, wal |-> 1, last |-> 0, files |-> F]
  BY DEF Version
<1>2. \A k \in S : [num |-> k, level |-> 0] \in TableMetas /\ [num |-> k, level |-> 0].num = k
  BY SMT DEF TableMetas
<1>3. F \in SUBSET TableMetas
  BY <1>2
<1>4. Nums(F) = S
  <2>1. \A x : x \in Nums(F) <=> x \in S
    BY <1>2 DEF Nums
  <2> QED BY <2>1
<1> HIDE DEF F
<1>5. Version(S, n) \in TableVersions /\ Version(S, n).files = F /\ Version(S, n).next = n
  BY <1>1, <1>3, SMT DEF TableVersions
<1> QED BY <1>4, <1>5

-----------------------------------------------------------------------------
(***************************************************************************)
(* What a power failure, a sync and a truncation leave of MANIFEST.        *)
(***************************************************************************)
\* Whatever is read of m2 may be read of m.
Narrows(m, m2) ==
  \A k \in ReadableOf(m2) : k \in ReadableOf(m) /\ SubSeq(m2.recs, 1, k) = SubSeq(m.recs, 1, k)

\* The fields of MANIFEST.
LEMMA ManifestFields ==
  ASSUME NEW m, ManifestOK(m)
  PROVE  /\ m = [name |-> m.name, recs |-> m.recs, synced |-> m.synced, stale |-> m.stale]
         /\ m.name \in {"absent", "linked", "durable"} /\ m.recs \in Seq(LogRecords)
         /\ m.synced \in Nat /\ m.stale \in BOOLEAN /\ Len(m.recs) \in Nat
         /\ Cut(m.recs) \in 0..Len(m.recs) /\ Cut(m.recs) \in Nat
         /\ m.synced \in 0..Len(m.recs)
         /\ Cut(m.recs) \in ReadableOf(m)
<1> USE Zenon
<1>1. m \in ManifestFiles /\ m.synced <= Len(m.recs)
  BY DEF ManifestOK
<1>2. /\ m = [name |-> m.name, recs |-> m.recs, synced |-> m.synced, stale |-> m.stale]
      /\ m.name \in {"absent", "linked", "durable"} /\ m.recs \in Seq(LogRecords)
      /\ m.synced \in Nat /\ m.stale \in BOOLEAN
  BY <1>1, SMT DEF ManifestFiles
<1>3. Cut(m.recs) \in 0..Len(m.recs) /\ Len(m.recs) \in Nat
  BY <1>2, LogIsCut DEF Cut
<1>4. Cut(m.recs) \in Nat /\ m.synced \in 0..Len(m.recs) /\ Cut(m.recs) \in 0..Cut(m.recs)
  BY <1>1, <1>2, <1>3, SMT
<1>5. Cut(m.recs) \in ReadableOf(m)
  BY <1>4 DEF ReadableOf
<1> QED BY <1>2, <1>3, <1>4, <1>5

\* Of the whole of a log only the records before a torn one are read.
LEMMA AllSynced ==
  ASSUME NEW m, ManifestOK(m), m.synced = Len(m.recs)
  PROVE  \A k \in ReadableOf(m) : k = Cut(m.recs)
<1>1. Cut(m.recs) \in 0..Len(m.recs) /\ Len(m.recs) \in Nat
  BY ManifestFields, Zenon
<1> QED BY <1>1 DEF ReadableOf

\* What Open reads.
LEMMA LoadedIsCut ==
  ASSUME NEW m, ManifestOK(m)
  PROVE  /\ LoadedVersion(m) = VersionOf(m.recs, Cut(m.recs))
         /\ IntactPrefix(m.recs) # <<>> <=> Cut(m.recs) > 0
<1> USE Zenon
<1>1. m.recs \in Seq(LogRecords)
  BY ManifestFields
<1>2. IntactPrefix(m.recs) = SubSeq(m.recs, 1, Cut(m.recs)) /\ IntactPrefix(m.recs) \in Seq(LogRecords)
  BY <1>1, LogIsCut DEF Cut
<1>3. LoadedVersion(m) = VersionOf(m.recs, Cut(m.recs))
  BY <1>2 DEF LoadedVersion, VersionOf
<1>4. \A s \in Seq(LogRecords) : s # <<>> <=> Len(s) > 0
  BY SMT
<1> QED BY <1>2, <1>3, <1>4 DEF Cut

\* A torn record is a record.
LEMMA TornRecord ==
  ASSUME NEW r \in LogRecords PROVE Tear(r) \in LogRecords /\ Tear(r).torn
BY Zenon DEF Tear, LogRecords

\* The log that a power failure leaves of m: the first n records, n >= synced, and
\* perhaps part of the next one.
LogImage(m, l) ==
  \E n \in m.synced..Len(m.recs) :
    /\ Len(l) \in {n, n + 1}
    /\ \A i \in 1..n : l[i] = m.recs[i]
    /\ Len(l) = n + 1 => l[n + 1].torn

\* The images of MANIFEST: no file when the name is not durable, or such a log.
LEMMA ImagesOfManifest ==
  ASSUME NEW m, ManifestOK(m), NEW m2 \in Images(m)
  PROVE  \/ /\ m.name # "durable"
            /\ m2 = [name |-> "absent", recs |-> <<>>, synced |-> 0, stale |-> FALSE]
         \/ /\ m.name # "absent"
            /\ \E l \in Seq(LogRecords) :
                 /\ m2 = [name |-> "durable", recs |-> l, synced |-> Len(l), stale |-> FALSE]
                 /\ LogImage(m, l)
<1> USE Zenon
<1> DEFINE g == [name |-> "absent", recs |-> <<>>, synced |-> 0, stale |-> FALSE]
           L == Len(m.recs)
           next(n) == Tear(IF n < L THEN m.recs[n + 1] ELSE m.recs[n])
           cut(n, torn) == SubSeq(m.recs, 1, n) \o (IF torn THEN <<next(n)>> ELSE <<>>)
           A == {cut(n, FALSE) : n \in m.synced..L}
           B == {cut(n, TRUE) : n \in m.synced..(L - 1)}
           C == IF m.stale THEN {cut(m.synced, TRUE)} ELSE {}
           logs == A \cup B \cup C
           file(l) == [name |-> "durable", recs |-> l, synced |-> Len(l), stale |-> FALSE]
           left == {file(l) : l \in logs}
<1>0. /\ m.name \in {"absent", "linked", "durable"} /\ m.recs \in Seq(LogRecords)
      /\ L \in Nat /\ m.synced \in 0..L /\ m.synced \in Nat /\ m.stale \in BOOLEAN
  BY ManifestFields
<1>1. Images(m) = CASE m.name = "absent" -> {g} [] m.name = "linked" -> left \cup {g}
                    [] m.name = "durable" -> left
  BY DEF Images
<1>2. \/ m.name # "durable" /\ m2 = g
      \/ m.name # "absent" /\ \E l \in logs : m2 = file(l)
  <2> HIDE DEF g, logs, file
  <2>1. CASE m.name = "absent"
    BY <1>1, <2>1, SMT
  <2>2. CASE m.name = "linked"
    BY <1>1, <2>2, SMT
  <2>3. CASE m.name = "durable"
    BY <1>1, <2>3, SMT
  <2> QED BY <1>0, <2>1, <2>2, <2>3
<1>3. ASSUME NEW n \in 0..L
      PROVE  /\ cut(n, FALSE) \in Seq(LogRecords) /\ Len(cut(n, FALSE)) = n
             /\ \A i \in 1..n : cut(n, FALSE)[i] = m.recs[i]
  <2> DEFINE s == SubSeq(m.recs, 1, n)
  <2>1. s \in Seq(LogRecords) /\ Len(s) = n /\ \A i \in 1..n : s[i] = m.recs[i]
    BY <1>0, FirstRecords
  <2> HIDE DEF s
  <2>2. s \o <<>> = s
    BY <2>1, SMT
  <2>3. cut(n, FALSE) = s
    BY <2>2 DEF s
  <2> HIDE DEF cut
  <2> QED BY <2>1, <2>3
<1>4. ASSUME NEW n \in 0..L, L # 0
      PROVE  /\ cut(n, TRUE) \in Seq(LogRecords) /\ Len(cut(n, TRUE)) = n + 1
             /\ \A i \in 1..n : cut(n, TRUE)[i] = m.recs[i]
             /\ cut(n, TRUE)[n + 1].torn
  <2> DEFINE s == SubSeq(m.recs, 1, n)
             t == next(n)
  <2>1. s \in Seq(LogRecords) /\ Len(s) = n /\ \A i \in 1..n : s[i] = m.recs[i]
    BY <1>0, FirstRecords
  <2>2. t \in LogRecords /\ t.torn
    <3>1. (IF n < L THEN m.recs[n + 1] ELSE m.recs[n]) \in LogRecords
      BY <1>0, <1>4, SMT
    <3> QED BY <3>1, TornRecord
  <2>3. cut(n, TRUE) = s \o <<t>>
    OBVIOUS
  <2> HIDE DEF s, t, cut
  <2>4. /\ s \o <<t>> \in Seq(LogRecords) /\ Len(s \o <<t>>) = n + 1
        /\ \A i \in 1..n : (s \o <<t>>)[i] = s[i]
        /\ (s \o <<t>>)[n + 1] = t
    BY <2>1, <2>2, SMT
  <2> QED BY <2>1, <2>2, <2>3, <2>4
<1> HIDE DEF cut
<1>a. \A l \in A : \E n \in m.synced..L : l = cut(n, FALSE)
  OBVIOUS
<1>b. \A l \in B : \E n \in m.synced..(L - 1) : l = cut(n, TRUE)
  OBVIOUS
<1>c. \A l \in C : m.stale /\ l = cut(m.synced, TRUE)
  OBVIOUS
<1> HIDE DEF A, B, C
<1>5. ASSUME NEW l \in logs PROVE l \in Seq(LogRecords) /\ LogImage(m, l)
  <2> USE DEF LogImage
  <2>1. CASE l \in A
    <3>1. PICK n \in m.synced..L : l = cut(n, FALSE)
      BY <1>a, <2>1
    <3>2. n \in 0..L /\ n # n + 1
      BY <1>0, <3>1, SMT
    <3> HIDE DEF logs
    <3>3. l \in Seq(LogRecords) /\ Len(l) = n /\ \A i \in 1..n : l[i] = m.recs[i]
      BY <1>3, <3>1, <3>2
    <3> QED BY <3>1, <3>2, <3>3
  <2>2. CASE l \in B
    <3>1. PICK n \in m.synced..(L - 1) : l = cut(n, TRUE)
      BY <1>b, <2>2
    <3>2. n \in 0..L /\ L # 0 /\ n \in m.synced..L
      BY <1>0, <3>1, SMT
    <3> HIDE DEF logs
    <3>3. /\ l \in Seq(LogRecords) /\ Len(l) = n + 1 /\ \A i \in 1..n : l[i] = m.recs[i]
          /\ l[n + 1].torn
      BY <1>4, <3>1, <3>2
    <3> QED BY <3>2, <3>3
  <2>3. CASE l \in C
    <3> DEFINE n == m.synced
    <3>1. m.stale /\ l = cut(n, TRUE)
      BY <1>c, <2>3
    <3>2. m.recs # <<>>
      BY <3>1 DEF ManifestOK
    <3>3. n \in 0..L /\ L # 0 /\ n \in m.synced..L
      BY <1>0, <3>2, SMT
    <3> HIDE DEF logs, n
    <3>4. /\ l \in Seq(LogRecords) /\ Len(l) = n + 1 /\ \A i \in 1..n : l[i] = m.recs[i]
          /\ l[n + 1].torn
      BY <1>4, <3>1, <3>3
    <3> QED BY <3>3, <3>4
  <2> QED BY <2>1, <2>2, <2>3
<1> HIDE DEF logs
<1> QED BY <1>2, <1>5

\* After a power failure there is no MANIFEST, or one of which a version is read
\* that could be read before.
LEMMA PowerFailureNarrows ==
  ASSUME NEW m, ManifestOK(m), NEW m2 \in Images(m)
  PROVE  /\ ManifestOK(m2) /\ m2.synced = Len(m2.recs)
         /\ m.name = "durable" => m2.name = "durable"
         /\ m2.name = "absent" \/ (m2.name = "durable" /\ Narrows(m, m2))
<1> USE Zenon
<1>0. /\ m.recs \in Seq(LogRecords) /\ Len(m.recs) \in Nat /\ m.synced \in 0..Len(m.recs)
      /\ Cut(m.recs) \in 0..Len(m.recs)
  BY ManifestFields
<1> DEFINE g == [name |-> "absent", recs |-> <<>>, synced |-> 0, stale |-> FALSE]
<1>1. CASE m.name # "durable" /\ m2 = g
  <2>1. g.name = "absent" /\ g.recs = <<>> /\ g.synced = 0 /\ g.stale = FALSE /\ Len(<<>>) = 0
    BY SMT
  <2>2. <<>> \in Seq(LogRecords)
    BY SMT
  <2>3. g \in ManifestFiles
    BY <2>2, SMT DEF ManifestFiles
  <2>4. 0 <= 0
    BY SMT
  <2> HIDE DEF g
  <2>5. ManifestOK(g)
    BY <2>1, <2>3, <2>4 DEF ManifestOK
  <2> QED BY <1>1, <2>1, <2>5
<1>2. CASE /\ m.name # "absent"
           /\ \E l \in Seq(LogRecords) :
                /\ m2 = [name |-> "durable", recs |-> l, synced |-> Len(l), stale |-> FALSE]
                /\ LogImage(m, l)
  <2>1. PICK l \in Seq(LogRecords) :
               /\ m2 = [name |-> "durable", recs |-> l, synced |-> Len(l), stale |-> FALSE]
               /\ LogImage(m, l)
    BY <1>2
  <2>2. m2.name = "durable" /\ m2.recs = l /\ m2.synced = Len(l) /\ m2.stale = FALSE
    BY <2>1, SMT
  <2>3. Len(l) \in Nat /\ Len(l) <= Len(l)
    BY SMT
  <2>4. m2 \in ManifestFiles
    BY <2>1, <2>3, SMT DEF ManifestFiles
  <2>5. ManifestOK(m2)
    <3>1. "durable" # "absent"
      BY SMT
    <3> QED BY <2>2, <2>3, <2>4, <3>1 DEF ManifestOK
  <2>6. PICK n \in m.synced..Len(m.recs) :
               /\ Len(l) \in {n, n + 1} /\ \A i \in 1..n : l[i] = m.recs[i]
               /\ Len(l) = n + 1 => l[n + 1].torn
    BY <2>1 DEF LogImage
  <2>7. n \in 0..Len(m.recs) /\ n >= m.synced
    BY <1>0, <2>6, SMT
  <2>8. /\ Cut(l) = IF n <= Cut(m.recs) THEN n ELSE Cut(m.recs)
        /\ \A k \in 0..Cut(l) : SubSeq(l, 1, k) = SubSeq(m.recs, 1, k)
    <3>1. /\ m.recs \in Seq(LogRecords) /\ l \in Seq(LogRecords) /\ n \in 0..Len(m.recs)
          /\ Len(l) \in {n, n + 1} /\ \A i \in 1..n : l[i] = m.recs[i]
          /\ Len(l) = n + 1 => l[n + 1].torn
      BY <1>0, <2>1, <2>6, <2>7
    <3>2. Cut(l) = IF n <= Cut(m.recs) THEN n ELSE Cut(m.recs)
      BY <3>1, TornCopy
    <3>3. \A k \in 0..Cut(l) : SubSeq(l, 1, k) = SubSeq(m.recs, 1, k)
      BY ONLY <3>1, TornCopy
    <3> QED BY <3>2, <3>3
  <2>9. Cut(l) \in ReadableOf(m) /\ Cut(l) \in 0..Cut(l)
    <3>1. Cut(l) \in 0..Cut(m.recs) /\ (Cut(l) >= m.synced \/ Cut(l) = Cut(m.recs))
      BY <1>0, <2>7, <2>8, SMT
    <3>2. Cut(l) \in 0..Cut(l)
      BY <1>0, <3>1, SMT
    <3> QED BY <3>1, <3>2 DEF ReadableOf
  <2>10. \A k \in ReadableOf(m2) : k = Cut(l)
    BY <2>2, <2>5, AllSynced
  <2>11. Narrows(m, m2)
    BY <2>2, <2>8, <2>9, <2>10 DEF Narrows
  <2> QED BY <2>2, <2>5, <2>11
<1> QED BY <1>1, <1>2, ImagesOfManifest

\* fsync leaves one length that can be read, the one that is read now.
LEMMA SyncNarrows ==
  ASSUME NEW m, ManifestOK(m)
  PROVE  /\ ManifestOK(FsyncFile(m)) /\ Narrows(m, FsyncFile(m))
         /\ FsyncFile(m).recs = m.recs /\ FsyncFile(m).name = m.name
         /\ FsyncFile(m).synced = Len(m.recs)
<1> USE Zenon
<1> DEFINE f == FsyncFile(m)
<1>0. /\ m = [name |-> m.name, recs |-> m.recs, synced |-> m.synced, stale |-> m.stale]
      /\ m.name \in {"absent", "linked", "durable"} /\ m.recs \in Seq(LogRecords)
      /\ Len(m.recs) \in Nat /\ Cut(m.recs) \in 0..Len(m.recs) /\ Cut(m.recs) \in ReadableOf(m)
  BY ManifestFields
<1>1. f = [name |-> m.name, recs |-> m.recs, synced |-> Len(m.recs), stale |-> FALSE]
  <2>1. m = [name |-> m.name, recs |-> m.recs, synced |-> m.synced, stale |-> m.stale]
    BY <1>0
  <2>2. f = [m EXCEPT !.synced = Len(m.recs), !.stale = FALSE]
    BY DEF FsyncFile
  <2> HIDE DEF f
  <2> QED BY <2>1, <2>2
<1>2. f.name = m.name /\ f.recs = m.recs /\ f.synced = Len(m.recs) /\ f.stale = FALSE
  BY <1>1, SMT
<1>3. f \in ManifestFiles
  BY <1>0, <1>1, SMT DEF ManifestFiles
<1>4. Len(m.recs) <= Len(m.recs)
  BY <1>0, SMT
<1> HIDE DEF f
<1>5. ManifestOK(f)
  BY <1>2, <1>3, <1>4 DEF ManifestOK
<1>6. Narrows(m, f)
  BY <1>0, <1>2, <1>5, AllSynced DEF Narrows
<1> QED BY <1>2, <1>5, <1>6 DEF f

\* Cutting the torn tail off changes nothing that can be read.
LEMMA TruncationNarrows ==
  ASSUME NEW m, ManifestOK(m), Cut(m.recs) > 0, Present(m)
  PROVE  /\ ManifestOK(Truncated(m)) /\ Narrows(m, Truncated(m))
         /\ Truncated(m).name = m.name /\ Cut(Truncated(m).recs) = Cut(m.recs)
<1> USE Zenon
<1> DEFINE f == Truncated(m)
           c == Cut(m.recs)
           l == IntactPrefix(m.recs)
           s == IF m.synced <= c THEN m.synced ELSE c
<1>0. /\ m = [name |-> m.name, recs |-> m.recs, synced |-> m.synced, stale |-> m.stale]
      /\ m.name \in {"absent", "linked", "durable"} /\ m.recs \in Seq(LogRecords)
      /\ Len(m.recs) \in Nat /\ c \in 0..Len(m.recs) /\ c \in Nat /\ m.synced \in Nat
  BY ManifestFields
<1>1. l = SubSeq(m.recs, 1, c) /\ Len(l) = c
  BY <1>0, LogIsCut DEF Cut
<1>2. l \in Seq(LogRecords) /\ \A i \in 1..c : l[i] = m.recs[i]
  BY <1>0, <1>1, FirstRecords
<1>3. Cut(l) = c /\ \A k \in 0..c : SubSeq(l, 1, k) = SubSeq(m.recs, 1, k)
  <2>1. c # c + 1 /\ c <= c
    BY <1>0, SMT
  <2>2. Cut(l) = IF c <= Cut(m.recs) THEN c ELSE Cut(m.recs)
    BY <1>0, <1>1, <1>2, <2>1, TornCopy
  <2>3. Cut(l) = c
    BY <2>1, <2>2
  <2>4. \A k \in 0..Cut(l) : SubSeq(l, 1, k) = SubSeq(m.recs, 1, k)
    <3> HIDE DEF l, c
    <3> QED BY ONLY <1>0, <1>1, <1>2, <2>1, TornCopy, Zenon
  <2> QED BY <2>3, <2>4
<1>4. Min({m.synced, c}) = s
  BY <1>0, MinOfTwo
<1>5. f = [name |-> m.name, recs |-> l, synced |-> s, stale |-> TRUE]
  <2>1. f = [m EXCEPT !.recs = l, !.stale = TRUE, !.synced = Min({m.synced, c})]
    BY DEF Truncated, Cut
  <2> HIDE DEF f, l, s, c
  <2> QED BY <1>0, <1>4, <2>1
<1>6. f.name = m.name /\ f.recs = l /\ f.synced = s /\ f.stale = TRUE
  BY <1>5, SMT
<1> HIDE DEF f, l
<1>7. s \in Nat /\ s <= c
  BY <1>0, SMT
<1>8. f \in ManifestFiles
  BY <1>0, <1>2, <1>5, <1>7, SMT DEF ManifestFiles
<1>9. l # <<>>
  <2>1. Len(l) # 0
    BY <1>0, <1>1, SMT
  <2> QED BY <2>1, SMT
<1>10. ManifestOK(f)
  BY <1>1, <1>6, <1>7, <1>8, <1>9 DEF ManifestOK, Present
<1>11. Narrows(m, f)
  <2> SUFFICES ASSUME NEW k \in ReadableOf(f)
               PROVE  k \in ReadableOf(m) /\ SubSeq(l, 1, k) = SubSeq(m.recs, 1, k)
    BY <1>6 DEF Narrows
  <2>1. k \in 0..c /\ (k >= s \/ k = c)
    BY <1>3, <1>6 DEF ReadableOf
  <2>2. k >= m.synced \/ k = c
    BY <1>0, <2>1, SMT
  <2> QED BY <1>3, <2>1, <2>2 DEF ReadableOf
<1> QED BY <1>3, <1>6, <1>10, <1>11 DEF f, l

-----------------------------------------------------------------------------
(***************************************************************************)
(* How steps keep the parts of the invariant.                              *)
(***************************************************************************)

\* What is read of both is the same.
LEMMA NarrowVersions ==
  ASSUME NEW m, NEW m2, Narrows(m, m2), NEW k \in ReadableOf(m2)
  PROVE  /\ k \in ReadableOf(m) /\ VersionOf(m2.recs, k) = VersionOf(m.recs, k)
         /\ TablesOf(m2.recs, k) = TablesOf(m.recs, k)
<1> USE Zenon
<1>1. k \in ReadableOf(m) /\ SubSeq(m2.recs, 1, k) = SubSeq(m.recs, 1, k)
  BY DEF Narrows
<1>2. VersionOf(m2.recs, k) = VersionOf(m.recs, k)
  BY <1>1 DEF VersionOf
<1> QED BY <1>1, <1>2 DEF TablesOf

\* Narrowing composes.
LEMMA NarrowsTwice ==
  ASSUME NEW a, NEW b, NEW c, Narrows(a, b), Narrows(b, c) PROVE Narrows(a, c)
BY Zenon DEF Narrows

\* A MANIFEST with the same records, of which as much is synced.
LEMMA SameRecords ==
  ASSUME NEW m, NEW m2, m2.recs = m.recs, m2.synced = m.synced PROVE Narrows(m, m2)
<1>1. ReadableOf(m2) = ReadableOf(m)
  BY Zenon DEF ReadableOf
<1> QED BY <1>1, Zenon DEF Narrows

\* The tables and what was acknowledged stay, and no more can be read than before.
LEMMA HistoryStays ==
  ASSUME HistoryInv, UNCHANGED <<ssts, history>>,
         committed => /\ manifest'.name = "durable" /\ current'.name = "durable"
                      /\ Narrows(manifest, manifest')
  PROVE  HistoryInv'
<1> USE Zenon
<1>1. ssts' = ssts /\ acked' = acked /\ obsolete' = obsolete /\ committed' = committed /\ damaged' = damaged
  BY SMT DEF history
<1>2. ASSUME committed, ~damaged, NEW k \in ReadableOf(manifest') PROVE Keeps(k)'
  <2>1. /\ k \in ReadableOf(manifest) /\ VersionOf(manifest'.recs, k) = VersionOf(manifest.recs, k)
        /\ TablesOf(manifest'.recs, k) = TablesOf(manifest.recs, k)
    BY <1>2, NarrowVersions
  <2>2. Keeps(k)
    BY <1>2, <2>1 DEF HistoryInv, Readable
  <2> QED BY <1>1, <2>1, <2>2 DEF Keeps, Tables, VersionAt, Data
<1> QED BY <1>1, <1>2 DEF HistoryInv, Readable

\* A step that leaves the directory and the history alone.
LEMMA DirectoryStays ==
  ASSUME DirectoryInv, HistoryInv, UNCHANGED <<directory, history>>
  PROVE  DirectoryInv' /\ HistoryInv'
<1> USE Zenon
<1>1. ssts' = ssts /\ manifest' = manifest /\ current' = current
  BY SMT DEF directory
<1>2. Narrows(manifest, manifest')
  BY <1>1, SameRecords
<1>3. committed => manifest'.name = "durable" /\ current'.name = "durable"
  BY <1>1 DEF HistoryInv
<1>4. UNCHANGED <<ssts, history>>
  BY <1>1, SMT
<1>5. HistoryInv'
  BY <1>2, <1>3, <1>4, HistoryStays
<1>6. DirectoryInv'
  BY <1>1 DEF DirectoryInv
<1> QED BY <1>5, <1>6

\* Only the holder of the lock does anything.
LEMMA OnlyTheOwner ==
  ASSUME ObjectsInv, NEW i \in Instances, db[i] # Closed
  PROVE  owner = i /\ OwnerOK(db[i]) /\ \A j \in Instances : j # i => db[j] = Closed
BY Zenon DEF ObjectsInv

\* A step that gives one object the lock, or leaves it with it, and changes only
\* that object.
LEMMA OwnerSteps ==
  ASSUME ObjectsInv, NEW i \in Instances, NEW s,
         \A j \in Instances : j # i => db[j] = Closed,
         owner' = i, db' = [db EXCEPT ![i] = s], OwnerOK(s)'
  PROVE  ObjectsInv'
<1> USE Zenon
<1>1. db = [j \in Instances |-> db[j]]
  BY DEF ObjectsInv
<1>2. db' = [j \in Instances |-> IF j = i THEN s ELSE db[j]]
  BY <1>1, SMT
<1>3. db'[i] = s /\ \A j \in Instances : j # i => db'[j] = Closed
  BY <1>2, SMT
<1>4. db' = [j \in Instances |-> db'[j]]
  BY <1>2
<1>5. OwnerOK(db[i])'
  <2>1. ObjectOK(s)' => ObjectOK(db[i])'
    BY <1>3 DEF ObjectOK
  <2>2. NamesOK(s)' => NamesOK(db[i])'
    BY <1>3 DEF NamesOK
  <2>3. VersionsOK(s)' => VersionsOK(db[i])'
    BY <1>3 DEF VersionsOK
  <2>4. JobsOK(s)' => JobsOK(db[i])'
    BY <1>3 DEF JobsOK, JobOK
  <2>5. SaveOK(s)' => SaveOK(db[i])'
    BY <1>3 DEF SaveOK
  <2> QED BY <1>3, <2>1, <2>2, <2>3, <2>4, <2>5 DEF OwnerOK
<1> QED BY <1>3, <1>4, <1>5 DEF ObjectsInv

\* A step after which nobody holds the lock.
LEMMA ReleaseSteps ==
  ASSUME ObjectsInv, NEW i \in Instances, owner \in {i, None}, Releases(i)
  PROVE  ObjectsInv'
<1> USE Zenon
<1>1. None \notin Instances
  BY ManifestParameters
<1>2. db = [j \in Instances |-> db[j]] /\ \A j \in Instances : j # owner => db[j] = Closed
  BY DEF ObjectsInv
<1>3. db' = [j \in Instances |-> IF j = i THEN Closed ELSE db[j]] /\ owner' = None
  BY <1>2, SMT DEF Releases
<1>4. \A j \in Instances : db'[j] = Closed
  <2>1. \A j \in Instances : j # i => db[j] = Closed
    BY <1>1, <1>2
  <2> QED BY <1>3, <2>1, SMT
<1>5. db' = [j \in Instances |-> db'[j]]
  BY <1>3, SMT
<1> QED BY <1>1, <1>3, <1>4, <1>5 DEF ObjectsInv

\* An object has these fields.
Shaped(s) == s = [pc |-> s.pc, edit |-> s.edit, persisted |-> s.persisted, built |-> s.built,
                  saving |-> s.saving, garbage |-> s.garbage, error |-> s.error]

\* The fields of an object that holds the lock.
LEMMA ObjectFields ==
  ASSUME NEW s \in Objects
  PROVE  /\ Shaped(s)
         /\ s.pc \in {"load", "open"} \cup Saving
         /\ s.edit \in TableVersions /\ s.persisted \in TableVersions
         /\ s.built \subseteq TableJobs /\ s.saving \in TableJobs \cup {NoJob}
         /\ s.garbage \subseteq FileNumbers /\ s.error \in BOOLEAN
BY DEF Objects, Shaped

\* It is one of the objects when its fields are what they should be.
LEMMA FieldsOfObject ==
  ASSUME NEW s, Shaped(s), s.pc \in {"load", "open"} \cup Saving, s.edit \in TableVersions,
         s.persisted \in TableVersions, s.built \in SUBSET TableJobs,
         s.saving \in TableJobs \cup {NoJob}, s.garbage \in SUBSET FileNumbers, s.error \in BOOLEAN
  PROVE  s \in Objects
BY DEF Objects, Shaped

\* An object with one field changed.
WithPc(s, x) == [s EXCEPT !.pc = x]
WithEdit(s, x) == [s EXCEPT !.edit = x]
WithPersisted(s, x) == [s EXCEPT !.persisted = x]
WithBuilt(s, x) == [s EXCEPT !.built = x]
WithSaving(s, x) == [s EXCEPT !.saving = x]
WithGarbage(s, x) == [s EXCEPT !.garbage = x]
WithError(s, x) == [s EXCEPT !.error = x]

\* The state of an object changes.
LEMMA PcChanges ==
  ASSUME NEW s, Shaped(s), NEW x
  PROVE  LET t == WithPc(s, x)
         IN  /\ Shaped(t) /\ t.pc = x
             /\ t.edit = s.edit /\ t.persisted = s.persisted /\ t.built = s.built
             /\ t.saving = s.saving /\ t.garbage = s.garbage /\ t.error = s.error
BY DEF Shaped, WithPc

\* edit_ changes.
LEMMA EditChanges ==
  ASSUME NEW s, Shaped(s), NEW x
  PROVE  LET t == WithEdit(s, x)
         IN  /\ Shaped(t) /\ t.edit = x
             /\ t.pc = s.pc /\ t.persisted = s.persisted /\ t.built = s.built
             /\ t.saving = s.saving /\ t.garbage = s.garbage /\ t.error = s.error
BY DEF Shaped, WithEdit

\* persisted_edit_ changes.
LEMMA PersistedChanges ==
  ASSUME NEW s, Shaped(s), NEW x
  PROVE  LET t == WithPersisted(s, x)
         IN  /\ Shaped(t) /\ t.persisted = x
             /\ t.pc = s.pc /\ t.edit = s.edit /\ t.built = s.built
             /\ t.saving = s.saving /\ t.garbage = s.garbage /\ t.error = s.error
BY DEF Shaped, WithPersisted

\* The tables that are built change.
LEMMA BuiltChanges ==
  ASSUME NEW s, Shaped(s), NEW x
  PROVE  LET t == WithBuilt(s, x)
         IN  /\ Shaped(t) /\ t.built = x
             /\ t.pc = s.pc /\ t.edit = s.edit /\ t.persisted = s.persisted
             /\ t.saving = s.saving /\ t.garbage = s.garbage /\ t.error = s.error
BY DEF Shaped, WithBuilt

\* The job that is saved changes.
LEMMA SavingChanges ==
  ASSUME NEW s, Shaped(s), NEW x
  PROVE  LET t == WithSaving(s, x)
         IN  /\ Shaped(t) /\ t.saving = x
             /\ t.pc = s.pc /\ t.edit = s.edit /\ t.persisted = s.persisted
             /\ t.built = s.built /\ t.garbage = s.garbage /\ t.error = s.error
BY DEF Shaped, WithSaving

\* The files to remove change.
LEMMA GarbageChanges ==
  ASSUME NEW s, Shaped(s), NEW x
  PROVE  LET t == WithGarbage(s, x)
         IN  /\ Shaped(t) /\ t.garbage = x
             /\ t.pc = s.pc /\ t.edit = s.edit /\ t.persisted = s.persisted
             /\ t.built = s.built /\ t.saving = s.saving /\ t.error = s.error
BY DEF Shaped, WithGarbage

\* The background error changes.
LEMMA ErrorChanges ==
  ASSUME NEW s, Shaped(s), NEW x
  PROVE  LET t == WithError(s, x)
         IN  /\ Shaped(t) /\ t.error = x
             /\ t.pc = s.pc /\ t.edit = s.edit /\ t.persisted = s.persisted
             /\ t.built = s.built /\ t.saving = s.saving /\ t.garbage = s.garbage
BY DEF Shaped, WithError

\* The tables of a version.
LEMMA VersionFields ==
  ASSUME NEW e \in TableVersions
  PROVE  /\ Nums(e.files) \subseteq FileNumbers /\ e.next \in Nat \ {0}
         /\ e = [next |-> e.next, wal |-> e.wal, last |-> e.last, files |-> e.files]
         /\ e.wal = 1 /\ e.last = 0 /\ e.files \subseteq TableMetas
<1>1. /\ e.files \subseteq TableMetas /\ e.next \in Nat \ {0} /\ e.wal = 1 /\ e.last = 0
      /\ e = [next |-> e.next, wal |-> e.wal, last |-> e.last, files |-> e.files]
  BY DEF TableVersions
<1>2. \A m \in TableMetas : m.num \in FileNumbers
  BY DEF TableMetas
<1>3. Nums(e.files) \subseteq FileNumbers
  BY <1>1, <1>2, Zenon DEF Nums
<1> QED BY <1>1, <1>3, Zenon

\* Closing an object: only the owner can, and the directory has its part already.
LEMMA CloseSteps ==
  ASSUME IInv, NEW i \in Instances, db[i] # Closed, Releases(i), DirectoryInv', HistoryInv'
  PROVE  IInv'
<1> USE Zenon
<1>1. ObjectsInv /\ owner = i
  BY OnlyTheOwner DEF IInv
<1>2. ObjectsInv'
  BY <1>1, ReleaseSteps
<1> QED BY <1>2 DEF IInv

\* The numbers that Open goes on with are above those of all files.
LEMMA RecoveredVersion ==
  ASSUME NEW e \in TableVersions, DOMAIN ssts \subseteq FileNumbers
  PROVE  /\ Recovered(e) \in TableVersions /\ Recovered(e).files = e.files
         /\ e.next <= Recovered(e).next
         /\ \A n \in DOMAIN ssts : n < Recovered(e).next
<1> USE Zenon
<1> DEFINE S == {e.next} \cup {n + 1 : n \in DOMAIN ssts}
           L == e.next + MaxFile + 1
           x == Max(S)
<1>1. /\ e.next \in Nat \ {0} /\ MaxFile \in Nat /\ e.files \subseteq TableMetas
      /\ e = [next |-> e.next, wal |-> e.wal, last |-> e.last, files |-> e.files]
      /\ e.wal = 1 /\ e.last = 0
  BY VersionFields, ManifestParameters
<1>2. \A n \in DOMAIN ssts : n \in Nat /\ 1 <= n /\ n <= MaxFile
  <2>1. \A n \in 1..MaxFile : n \in Nat /\ 1 <= n /\ n <= MaxFile
    BY <1>1, SMT
  <2> QED BY <2>1 DEF FileNumbers
<1>3. L \in Nat /\ e.next \in 0..L /\ \A n \in DOMAIN ssts : n + 1 \in 0..L
  BY <1>1, <1>2, SMT
<1>4. S \in SUBSET (0..L) /\ S # {}
  <2> HIDE DEF L
  <2> QED BY <1>3
<1>5. x \in S /\ \A y \in S : y <= x
  <2> HIDE DEF S, L
  <2> QED BY <1>3, <1>4, BoundedMax
<1>6. x \in 0..L
  BY <1>4, <1>5
<1>7. e.next <= x /\ \A n \in DOMAIN ssts : n + 1 <= x
  <2> HIDE DEF x
  <2> QED BY <1>5
<1>8. Recovered(e) = [e EXCEPT !.next = x]
  BY DEF Recovered
<1> HIDE DEF x, S
<1>9. x \in Nat \ {0} /\ \A n \in DOMAIN ssts : n < x
  BY <1>1, <1>2, <1>3, <1>6, <1>7, SMT
<1>10. Recovered(e) = [next |-> x, wal |-> e.wal, last |-> e.last, files |-> e.files]
  BY <1>1, <1>8, SMT
<1>11. Recovered(e) \in TableVersions /\ Recovered(e).files = e.files /\ Recovered(e).next = x
  BY <1>1, <1>9, <1>10, SMT DEF TableVersions
<1> QED BY <1>7, <1>9, <1>11

\* Syncing the directory makes the names durable that are there.
LEMMA DirectorySync ==
  ASSUME NEW m, NEW c, ManifestOK(m), CurrentOK(c), FsyncDirectory(m, c)
  PROVE  /\ ManifestOK(manifest') /\ CurrentOK(current') /\ Narrows(m, manifest')
         /\ manifest'.recs = m.recs /\ manifest'.synced = m.synced
         /\ m.name # "absent" => manifest'.name = "durable"
         /\ m.name = "absent" => manifest'.name = "absent"
         /\ c.name # "absent" => current'.name = "durable"
         /\ c.name = "absent" => current'.name = "absent"
<1> USE Zenon
<1>1. /\ m = [name |-> m.name, recs |-> m.recs, synced |-> m.synced, stale |-> m.stale]
      /\ m \in ManifestFiles
  BY ManifestFields DEF ManifestOK
<1>2. ASSUME m.name # "absent"
      PROVE  /\ ManifestOK(manifest') /\ Narrows(m, manifest') /\ manifest'.name = "durable"
             /\ manifest'.recs = m.recs /\ manifest'.synced = m.synced
  <2>1. manifest' = [m EXCEPT !.name = "durable"]
    BY <1>2 DEF FsyncDirectory, Present
  <2>2. manifest' = [name |-> "durable", recs |-> m.recs, synced |-> m.synced, stale |-> m.stale]
    BY <1>1, <2>1, SMT
  <2>3. /\ manifest'.name = "durable" /\ manifest'.recs = m.recs /\ manifest'.synced = m.synced
        /\ manifest'.stale = m.stale
    BY <2>2, SMT
  <2>4. manifest' \in ManifestFiles
    BY <1>1, <2>2, SMT DEF ManifestFiles
  <2>5. ManifestOK(manifest')
    <3>1. "durable" # "absent"
      BY SMT
    <3> QED BY <2>3, <2>4, <3>1 DEF ManifestOK
  <2> QED BY <1>2, <2>3, <2>5, SameRecords
<1>3. ASSUME m.name = "absent"
      PROVE  /\ ManifestOK(manifest') /\ Narrows(m, manifest') /\ manifest'.name = "absent"
             /\ manifest'.recs = m.recs /\ manifest'.synced = m.synced
  <2>1. manifest' = m
    BY <1>3 DEF FsyncDirectory, Present
  <2> QED BY <1>3, <2>1, SameRecords
<1>4. ASSUME c.name # "absent" PROVE CurrentOK(current') /\ current'.name = "durable"
  <2>1. c \in [name : {"linked", "durable"}, content : {"synced"}]
    <3>1. NoFile.name = "absent"
      BY SMT DEF NoFile
    <3> QED BY <1>4, <3>1 DEF CurrentOK
  <2>2. current' = [c EXCEPT !.name = "durable"]
    BY <1>4 DEF FsyncDirectory, Present
  <2>3. current' \in [name : {"linked", "durable"}, content : {"synced"}] /\ current'.name = "durable"
    BY <2>1, <2>2, SMT
  <2> QED BY <1>4, <2>3 DEF CurrentOK
<1>5. ASSUME c.name = "absent" PROVE CurrentOK(current') /\ current'.name = "absent"
  <2>1. current' = c
    BY <1>5 DEF FsyncDirectory, Present
  <2> QED BY <1>5, <2>1
<1> QED BY <1>2, <1>3, <1>4, <1>5

-----------------------------------------------------------------------------
(***************************************************************************)
(* Open.                                                                   *)
(***************************************************************************)

\* The objects that are closed and that have just taken the lock.
LEMMA NewObjects ==
  /\ Closed.pc = "closed" /\ Loading \in Objects /\ Loading.pc = "load"
  /\ Loading.built = {} /\ Loading.garbage = {} /\ Loading.saving = NoJob
  /\ Loading.persisted = NoVersion /\ Loading.edit = NoVersion
  /\ Shaped(Loading)
  /\ NoVersion \in TableVersions /\ Nums(NoVersion.files) = {} /\ NoVersion.next = 1
  /\ "load" \notin Saving /\ "open" \notin Saving
<1> USE Zenon
<1>1. NoVersion \in TableVersions /\ Nums(NoVersion.files) = {} /\ NoVersion.next = 1
  <2>1. {} \in SUBSET FileNumbers /\ 1 \in Nat \ {0}
    BY SMT
  <2> QED BY <2>1, VersionTypes DEF NoVersion
<1>2. /\ Shaped(Closed) /\ Closed.built = {} /\ Closed.garbage = {} /\ Closed.saving = NoJob
      /\ Closed.persisted = NoVersion /\ Closed.edit = NoVersion /\ Closed.error = FALSE
  BY DEF Closed, Shaped
<1>4. /\ Shaped(Loading)
      /\ Loading.pc = "load" /\ Loading.built = {} /\ Loading.garbage = {} /\ Loading.saving = NoJob
      /\ Loading.persisted = NoVersion /\ Loading.edit = NoVersion /\ Loading.error = FALSE
  <2>1. Loading = WithPc(Closed, "load")
    BY DEF Loading, WithPc
  <2> QED BY <1>2, <2>1, PcChanges, SMT
<1>3. /\ "load" \in {"load", "open"} \cup Saving /\ {} \in SUBSET TableJobs
      /\ NoJob \in TableJobs \cup {NoJob} /\ {} \in SUBSET FileNumbers /\ FALSE \in BOOLEAN
  OBVIOUS
<1>6. Loading \in Objects
  BY <1>1, <1>3, <1>4, FieldsOfObject
<1>5. Closed.pc = "closed" /\ "load" \notin Saving /\ "open" \notin Saving
  BY SMT DEF Closed, Saving, Written
<1> QED BY <1>1, <1>2, <1>4, <1>5, <1>6

\* Open takes the lock that nobody holds.
LEMMA OpenLocksStep ==
  ASSUME IInv, NEW i \in Instances, OpenLocks(i) PROVE IInv'
<1> USE Zenon
<1>1. DirectoryInv' /\ HistoryInv'
  BY DirectoryStays DEF IInv, OpenLocks
<1>2. owner = None /\ owner' = i /\ db' = [db EXCEPT ![i] = Loading]
  BY DEF OpenLocks, Loading
<1>3. \A j \in Instances : db[j] = Closed
  BY <1>2, ManifestParameters DEF IInv, ObjectsInv
<1>4. OwnerOK(Loading)'
  <2>1. PICK s : s = Loading
    OBVIOUS
  <2>2. ObjectOK(s)'
    <3>1. s.garbage \subseteq obsolete' /\ s.pc = "load" /\ s \in Objects /\ s.pc \notin Saving
      BY <2>1, NewObjects
    <3>2. "load" # "open"
      BY SMT
    <3> QED BY <2>1, <3>1, <3>2 DEF ObjectOK
  <2>3. NamesOK(s)' /\ s.pc \notin Written
    <3>1. "load" \notin Written /\ "load" \notin {"tmp", "renamed"} /\ "load" # "renamed" /\ "load" # "tmp"
      BY SMT DEF Written
    <3> QED BY <2>1, <3>1, NewObjects DEF NamesOK
  <2>4. JobsOK(s)'
    BY <2>1, NewObjects DEF JobsOK
  <2>5. OwnerOK(s)'
    BY <2>1, <2>2, <2>3, <2>4, NewObjects DEF OwnerOK
  <2> QED BY <2>1, <2>5 DEF OwnerOK, ObjectOK, NamesOK, JobsOK
<1>5. ObjectsInv'
  BY <1>2, <1>3, <1>4, OwnerSteps DEF IInv
<1> QED BY <1>1, <1>5 DEF IInv

\* An object at "load" is the owner and has nothing else.
LEMMA LoadingObject ==
  ASSUME IInv, NEW i \in Instances, db[i].pc = "load"
  PROVE  /\ owner = i /\ db[i] = Loading /\ db[i] # Closed
         /\ \A j \in Instances : j # i => db[j] = Closed
<1> USE Zenon
<1>1. db[i] # Closed
  <2>1. "load" # "closed"
    BY SMT
  <2> QED BY <2>1, NewObjects
<1>2. owner = i /\ OwnerOK(db[i]) /\ \A j \in Instances : j # i => db[j] = Closed
  BY <1>1, OnlyTheOwner DEF IInv
<1> QED BY <1>1, <1>2 DEF OwnerOK, ObjectOK

\* The file is not opened: nothing changed.
LEMMA LoadFailsStep ==
  ASSUME IInv, NEW i \in Instances, LoadFails(i) PROVE IInv'
<1> USE Zenon
<1>1. DirectoryInv' /\ HistoryInv'
  BY DirectoryStays DEF IInv, LoadFails
<1>2. db[i] # Closed /\ Releases(i)
  BY LoadingObject DEF LoadFails
<1> QED BY <1>1, <1>2, CloseSteps

\* A MANIFEST that can be read: its length is above 0.
LEMMA CanReplayFacts ==
  ASSUME NEW m, NEW c, ManifestOK(m), CanReplay(m, c)
  PROVE  Present(m) /\ Cut(m.recs) > 0
BY LoadedIsCut, Zenon DEF CanReplay

\* The torn tail is cut off but not synced, or not at all.
LEMMA TruncateFailsStep ==
  ASSUME IInv, NEW i \in Instances, TruncateFails(i) PROVE IInv'
<1> USE Zenon
<1>1. ManifestOK(manifest) /\ Present(manifest) /\ Cut(manifest.recs) > 0
  BY CanReplayFacts DEF IInv, DirectoryInv, TruncateFails
<1>2. ManifestOK(manifest') /\ Narrows(manifest, manifest') /\ manifest'.name = manifest.name
  <2>1. CASE manifest' = manifest
    BY <1>1, <2>1, SameRecords
  <2>2. CASE manifest' = Truncated(manifest)
    BY <1>1, <2>2, TruncationNarrows
  <2> QED BY <2>1, <2>2 DEF TruncateFails
<1>3. ssts' = ssts /\ current' = current /\ UNCHANGED <<ssts, history>>
  BY SMT DEF TruncateFails
<1>4. DirectoryInv'
  BY <1>2, <1>3 DEF IInv, DirectoryInv
<1>5. committed => manifest'.name = "durable" /\ current'.name = "durable"
  BY <1>2, <1>3 DEF IInv, HistoryInv
<1>6. HistoryInv'
  BY <1>2, <1>3, <1>5, HistoryStays DEF IInv
<1>7. db[i] # Closed /\ Releases(i)
  BY LoadingObject DEF TruncateFails
<1> QED BY <1>4, <1>6, <1>7, CloseSteps

\* What Open makes of MANIFEST when it can read it.
LEMMA LoadedManifest ==
  ASSUME IInv, NEW i \in Instances, LoadSucceeds(i)
  PROVE  /\ DirectoryInv' /\ HistoryInv'
         /\ LoadedVersion(manifest) = VersionAt(Intact)
         /\ Intact' = Intact /\ VersionAt(Intact)' = VersionAt(Intact) /\ Tables(Intact)' = Tables(Intact)
         /\ Tables(Intact) \subseteq DOMAIN ssts
<1> USE Zenon
<1>1. ManifestOK(manifest) /\ CurrentOK(current) /\ Present(manifest) /\ Cut(manifest.recs) > 0
  BY CanReplayFacts DEF IInv, DirectoryInv, LoadSucceeds
<1>2. /\ ManifestOK(manifest') /\ Narrows(manifest, manifest') /\ CurrentOK(current')
      /\ manifest.name = "durable" => manifest'.name = "durable"
      /\ current.name = "durable" => current'.name = "durable"
      /\ Cut(manifest'.recs) = Cut(manifest.recs)
  <2>1. CASE UNCHANGED <<manifest, current>>
    <3>1. manifest' = manifest /\ current' = current
      BY <2>1, SMT
    <3> QED BY <1>1, <3>1, SameRecords
  <2>2. CASE FsyncDirectory(FsyncFile(Truncated(manifest)), current)
    <3> DEFINE t == Truncated(manifest)
               f == FsyncFile(t)
    <3>1. /\ ManifestOK(t) /\ Narrows(manifest, t) /\ t.name = manifest.name
          /\ Cut(t.recs) = Cut(manifest.recs)
      BY <1>1, TruncationNarrows
    <3> HIDE DEF t
    <3>2. ManifestOK(f) /\ Narrows(t, f) /\ f.recs = t.recs /\ f.name = t.name
      BY <3>1, SyncNarrows
    <3>3. FsyncDirectory(f, current)
      BY <2>2 DEF t
    <3> HIDE DEF f
    <3>4. /\ ManifestOK(manifest') /\ CurrentOK(current') /\ Narrows(f, manifest')
          /\ manifest'.recs = f.recs
      BY <1>1, <3>2, <3>3, DirectorySync
    <3>5. /\ f.name # "absent" => manifest'.name = "durable"
          /\ current.name # "absent" => current'.name = "durable"
      BY <1>1, <3>2, <3>3, DirectorySync
    <3>6. Narrows(manifest, manifest')
      BY <3>1, <3>2, <3>4, NarrowsTwice
    <3>7. "durable" # "absent"
      BY SMT
    <3> QED BY <3>1, <3>2, <3>4, <3>5, <3>6, <3>7
  <2> QED BY <2>1, <2>2 DEF LoadSucceeds
<1>3. ssts' = ssts /\ UNCHANGED <<ssts, history>>
  BY SMT DEF LoadSucceeds
<1>4. DirectoryInv'
  BY <1>2, <1>3 DEF IInv, DirectoryInv
<1>5. HistoryInv'
  BY <1>2, <1>3, HistoryStays DEF IInv, HistoryInv
<1>6. LoadedVersion(manifest) = VersionAt(Intact)
  BY <1>1, LoadedIsCut DEF VersionAt, Intact
<1>7. Intact' = Intact
  BY <1>2 DEF Intact
<1>8. /\ VersionOf(manifest'.recs, Cut(manifest'.recs)) = VersionOf(manifest.recs, Cut(manifest'.recs))
      /\ TablesOf(manifest'.recs, Cut(manifest'.recs)) = TablesOf(manifest.recs, Cut(manifest'.recs))
  BY <1>2, NarrowVersions, ManifestFields
<1>9. VersionAt(Intact)' = VersionAt(Intact) /\ Tables(Intact)' = Tables(Intact)
  BY <1>2, <1>8 DEF VersionAt, Tables, Intact
<1>10. Tables(Intact) \subseteq DOMAIN ssts
  BY <1>6 DEF LoadSucceeds, FilesExist, Tables, TablesOf, VersionAt
<1> QED BY <1>4, <1>5, <1>6, <1>7, <1>9, <1>10

\* Open has read the log: edit_ and persisted_edit_ are what it leads to.
LEMMA LoadSucceedsStep ==
  ASSUME IInv, NEW i \in Instances, LoadSucceeds(i) PROVE IInv'
<1> USE Zenon
<1> DEFINE V == VersionAt(Intact)
           T == Tables(Intact)
<1>1. /\ DirectoryInv' /\ HistoryInv' /\ LoadedVersion(manifest) = V
      /\ VersionAt(Intact)' = V /\ Tables(Intact)' = T /\ T \subseteq DOMAIN ssts
  BY LoadedManifest
<1>2. /\ db[i].pc = "load" /\ owner = i /\ \A j \in Instances : j # i => db[j] = Closed
      /\ owner' = i /\ ssts' = ssts
      /\ obsolete' = obsolete /\ committed' = committed /\ damaged' = damaged
  BY LoadingObject, SMT DEF LoadSucceeds, history
<1>3. PICK v : v = V
  OBVIOUS
<1>4. PICK x : x = Recovered(v)
  OBVIOUS
<1>5. /\ v \in TableVersions /\ Nums(v.files) = T
  <2>1. ManifestOK(manifest)
    BY DEF IInv, DirectoryInv
  <2>2. Cut(manifest.recs) \in 0..Len(manifest.recs) /\ manifest.recs \in Seq(LogRecords)
    BY <2>1, ManifestFields
  <2> QED BY <1>3, <2>2, VersionsAreTyped DEF VersionAt, Tables, TablesOf, Intact
<1>6. /\ x \in TableVersions /\ x.files = v.files /\ v.next <= x.next
      /\ \A n \in DOMAIN ssts : n < x.next
  BY <1>4, <1>5, RecoveredVersion DEF IInv, DirectoryInv
<1>7. PICK s1 : s1 = WithPc(db[i], "open")
  OBVIOUS
<1>a. PICK s2 : s2 = WithEdit(s1, x)
  OBVIOUS
<1>b. PICK s : s = WithPersisted(s2, v)
  OBVIOUS
<1>8. db' = [db EXCEPT ![i] = s]
  <2>1. db' = [db EXCEPT ![i] = [db[i] EXCEPT !.pc = "open", !.edit = x, !.persisted = v]]
    BY <1>1, <1>3, <1>4 DEF LoadSucceeds, Opened
  <2>2. [db[i] EXCEPT !.pc = "open", !.edit = x, !.persisted = v] = s
    BY <1>7, <1>a, <1>b, SMT DEF WithPc, WithEdit, WithPersisted
  <2> QED BY <2>1, <2>2
<1>9. /\ s \in Objects /\ s.pc = "open" /\ s.edit = x /\ s.persisted = v /\ s.built = {}
      /\ s.saving = NoJob /\ s.garbage = {}
  <2>1. /\ Shaped(db[i]) /\ db[i] \in Objects /\ db[i].built = {} /\ db[i].garbage = {}
        /\ db[i].saving = NoJob
    BY <1>2, LoadingObject, NewObjects
  <2>2. /\ Shaped(s1) /\ s1.pc = "open" /\ s1.built = {} /\ s1.garbage = {} /\ s1.saving = NoJob
        /\ s1.error = db[i].error
    BY <1>7, <2>1, PcChanges, SMT
  <2>3. /\ Shaped(s2) /\ s2.pc = "open" /\ s2.built = {} /\ s2.garbage = {} /\ s2.saving = NoJob
        /\ s2.error = db[i].error /\ s2.edit = x
    BY <1>a, <2>2, EditChanges, SMT
  <2>4. /\ Shaped(s) /\ s.pc = "open" /\ s.built = {} /\ s.garbage = {} /\ s.saving = NoJob
        /\ s.error = db[i].error /\ s.edit = x /\ s.persisted = v
    BY <1>b, <2>3, PersistedChanges, SMT
  <2>5. /\ "open" \in {"load", "open"} \cup Saving /\ {} \in SUBSET TableJobs
        /\ NoJob \in TableJobs \cup {NoJob} /\ {} \in SUBSET FileNumbers
    OBVIOUS
  <2>6. s.error \in BOOLEAN
    BY <2>1, <2>4, ObjectFields
  <2>7. s \in Objects
    BY <1>5, <1>6, <2>4, <2>5, <2>6, FieldsOfObject
  <2> QED BY <2>4, <2>7
<1>10. OwnerOK(s)'
  <2>1. "open" # "load" /\ "open" \notin Written /\ "open" \notin Saving
        /\ "open" \notin {"tmp", "renamed"} /\ "open" # "tmp" /\ "open" # "renamed"
    BY SMT DEF Written, Saving
  <2>2. ObjectOK(s)'
    BY <1>9, <2>1 DEF ObjectOK
  <2>3. NamesOK(s)'
    BY <1>9, <2>1 DEF NamesOK
  <2>4. JobsOK(s)'
    BY <1>9 DEF JobsOK
  <2>5. ASSUME ~damaged PROVE VersionsOK(s)'
    <3>1. obsolete \cap T = {} /\ \A n \in obsolete : n < v.next
      <4>1. CASE committed
        <5>1. Intact \in Readable
          BY ManifestFields DEF IInv, DirectoryInv, Intact, Readable
        <5> QED BY <1>3, <2>5, <4>1, <5>1 DEF IInv, HistoryInv, Keeps
      <4>2. CASE ~committed
        BY <4>2 DEF IInv, HistoryInv
      <4> QED BY <4>1, <4>2
    <3>2. \A n \in obsolete : n < x.next
      <4>1. \A n \in obsolete : n \in FileNumbers
        BY DEF IInv, HistoryInv
      <4>2. \A n \in FileNumbers : n \in Nat
        BY ManifestParameters, SMT DEF FileNumbers
      <4>3. x.next \in Nat /\ v.next \in Nat
        BY <1>5, <1>6, VersionFields
      <4>4. \A n, a, b \in Nat : n < a /\ a <= b => n < b
        BY SMT
      <4> QED BY <1>6, <3>1, <4>1, <4>2, <4>3, <4>4
    <3>3. \A n \in DOMAIN ssts \cup obsolete : n < x.next
      BY <1>6, <3>2
    <3>4. Nums(x.files) = T
      BY <1>5, <1>6
    <3>5. Data(T)' = Data(Tables(Intact))'
      BY <1>1 DEF Data
    <3> HIDE DEF T
    <3> QED BY <1>1, <1>2, <1>5, <1>9, <3>1, <3>3, <3>4, <3>5 DEF VersionsOK, Data
  <2> QED BY <1>2, <1>9, <2>1, <2>2, <2>3, <2>4, <2>5 DEF OwnerOK
<1>11. ObjectsInv'
  BY <1>2, <1>8, <1>10, OwnerSteps DEF IInv
<1> QED BY <1>1, <1>11 DEF IInv

\* Without MANIFEST and CURRENT the tables of the directory become the version.
LEMMA ScanSavesStep ==
  ASSUME IInv, NEW i \in Instances, ScanSaves(i) PROVE IInv'
<1> USE Zenon
<1>1. DirectoryInv' /\ HistoryInv'
  BY DirectoryStays DEF IInv, ScanSaves
<1>2. /\ db[i].pc = "load" /\ owner = i /\ \A j \in Instances : j # i => db[j] = Closed
  BY LoadingObject DEF ScanSaves
<1>3. /\ owner' = i /\ ssts' = ssts /\ manifest' = manifest
      /\ obsolete' = obsolete /\ committed' = committed
  BY <1>2, SMT DEF ScanSaves, directory, history
<1>4. manifest.name = "absent" /\ current.name = "absent"
  BY DEF ScanSaves, Exists, Present
<1>5. ~committed /\ obsolete = {}
  <2>1. "durable" # "absent"
    BY SMT
  <2> QED BY <1>4, <2>1 DEF IInv, HistoryInv
<1> DEFINE D == DOMAIN ssts
           x == Max({0} \cup D)
<1>6. D \in SUBSET FileNumbers /\ MaxFile \in Nat
  BY ManifestParameters DEF IInv, DirectoryInv
<1>7. x \in Nat /\ \A n \in D : n <= x /\ n \in Nat
  <2>1. {0} \cup D \in SUBSET (0..MaxFile) /\ {0} \cup D # {}
    <3>1. \A n \in FileNumbers : n \in 0..MaxFile
      BY <1>6, SMT DEF FileNumbers
    <3>2. 0 \in 0..MaxFile
      BY <1>6, SMT
    <3> HIDE DEF D
    <3> QED BY <1>6, <3>1, <3>2
  <2>2. x \in {0} \cup D /\ \A y \in {0} \cup D : y <= x
    <3> HIDE DEF D
    <3> QED BY <1>6, <2>1, BoundedMax
  <2>3. \A n \in 0..MaxFile : n \in Nat
    BY <1>6, SMT
  <2> HIDE DEF x, D
  <2> QED BY <2>1, <2>2, <2>3
<1> HIDE DEF x
<1>8. 1 + x \in Nat \ {0} /\ \A n \in D : n < 1 + x
  BY <1>7, SMT
<1>9. PICK e : e = Version(D, 1 + x)
  OBVIOUS
<1>10. e \in TableVersions /\ Nums(e.files) = D /\ e.next = 1 + x
  BY <1>6, <1>8, <1>9, VersionTypes
<1>11. PICK s1 : s1 = WithPc(db[i], "append")
  OBVIOUS
<1>a. PICK s : s = WithEdit(s1, e)
  OBVIOUS
<1>12. db' = [db EXCEPT ![i] = s]
  <2>1. db' = [db EXCEPT ![i] = [db[i] EXCEPT !.pc = "append", !.edit = e]]
    BY <1>9 DEF ScanSaves, Scanned, x
  <2>2. [db[i] EXCEPT !.pc = "append", !.edit = e] = s
    BY <1>11, <1>a, SMT DEF WithPc, WithEdit
  <2> QED BY <2>1, <2>2
<1>13. /\ s \in Objects /\ s.pc = "append" /\ s.edit = e /\ s.persisted = NoVersion /\ s.built = {}
       /\ s.saving = NoJob /\ s.garbage = {}
  <2>1. /\ Shaped(db[i]) /\ db[i] \in Objects /\ db[i].built = {} /\ db[i].garbage = {}
        /\ db[i].saving = NoJob /\ db[i].persisted = NoVersion
    BY <1>2, LoadingObject, NewObjects
  <2>2. /\ Shaped(s1) /\ s1.pc = "append" /\ s1.built = {} /\ s1.garbage = {} /\ s1.saving = NoJob
        /\ s1.error = db[i].error /\ s1.persisted = NoVersion
    BY <1>11, <2>1, PcChanges, SMT
  <2>3. /\ Shaped(s) /\ s.pc = "append" /\ s.built = {} /\ s.garbage = {} /\ s.saving = NoJob
        /\ s.error = db[i].error /\ s.edit = e /\ s.persisted = NoVersion
    BY <1>a, <2>2, EditChanges, SMT
  <2>5. /\ "append" \in {"load", "open"} \cup Saving /\ {} \in SUBSET TableJobs
        /\ NoJob \in TableJobs \cup {NoJob} /\ {} \in SUBSET FileNumbers
    BY DEF Saving
  <2>6. s.error \in BOOLEAN /\ NoVersion \in TableVersions
    BY <2>1, <2>3, ObjectFields, NewObjects
  <2>7. s \in Objects
    BY <1>10, <2>3, <2>5, <2>6, FieldsOfObject
  <2> QED BY <2>3, <2>7
<1>14. OwnerOK(s)'
  <2>1. "append" # "load" /\ "append" \notin Written /\ "append" # "open"
        /\ "append" \notin {"tmp", "renamed"} /\ "append" # "tmp" /\ "append" # "renamed"
    BY SMT DEF Written
  <2>2. ObjectOK(s)'
    BY <1>3, <1>5, <1>13, <2>1 DEF ObjectOK
  <2>3. NamesOK(s)'
    BY <1>13, <2>1 DEF NamesOK
  <2>4. JobsOK(s)'
    BY <1>13 DEF JobsOK
  <2>5. Tables(Intact)' = {}
    <3>1. manifest.recs = <<>> /\ ManifestOK(manifest)
      BY <1>4 DEF IInv, DirectoryInv, ManifestOK
    <3>2. Cut(manifest.recs) \in 0..Len(manifest.recs)
      BY <3>1, ManifestFields
    <3>3. Cut(manifest.recs) = 0
      BY <3>1, <3>2, SMT
    <3>4. SubSeq(<<>>, 1, 0) = <<>> /\ Len(<<>>) = 0 /\ 1..0 = {}
      BY SMT
    <3>5. TablesOf(<<>>, 0) = Nums(Replay(NoVersion, <<>>).files)
      BY <3>4 DEF TablesOf, VersionOf
    <3>6. NoVersion.files = {}
      <4>1. NoVersion.files = {[num |-> n, level |-> 0] : n \in {}}
        BY DEF NoVersion, Version
      <4> QED BY <4>1, SMT
    <3>7. Replay(NoVersion, <<>>).files = {}
      <4>1. Replay(NoVersion, <<>>).files
              = {m \in NoVersion.files : \A j \in (0 + 1)..0 : m.num \notin Dropped(<<>>[j])}
                \cup UNION {{m \in <<>>[k].add : \A j \in (k + 1)..0 : m.num \notin Dropped(<<>>[j])} : k \in 1..0}
        BY <3>4, SMT DEF Replay
      <4> QED BY <3>4, <3>6, <4>1, SMT
    <3>8. Nums({}) = {}
      BY SMT DEF Nums
    <3> QED BY <1>3, <3>1, <3>3, <3>5, <3>7, <3>8 DEF Tables, Intact
  <2>6. VersionsOK(s)'
    <3>1. Nums(NoVersion.files) = {}
      BY NewObjects
    <3> QED BY <1>3, <1>5, <1>8, <1>10, <1>13, <2>1, <2>5, <3>1 DEF VersionsOK, Data
  <2> QED BY <1>13, <2>1, <2>2, <2>3, <2>4, <2>6 DEF OwnerOK
<1>15. ObjectsInv'
  BY <1>2, <1>3, <1>12, <1>14, OwnerSteps DEF IInv
<1> QED BY <1>1, <1>15 DEF IInv

-----------------------------------------------------------------------------
(***************************************************************************)
(* Save.                                                                   *)
(***************************************************************************)

\* An object that does something is the owner.
LEMMA WorkingObject ==
  ASSUME IInv, NEW i \in Instances, db[i].pc # "closed"
  PROVE  /\ owner = i /\ OwnerOK(db[i]) /\ db[i] \in Objects /\ db[i] # Closed /\ Shaped(db[i])
         /\ \A j \in Instances : j # i => db[j] = Closed
<1> USE Zenon
<1>1. db[i] # Closed
  BY NewObjects
<1>2. owner = i /\ OwnerOK(db[i]) /\ \A j \in Instances : j # i => db[j] = Closed
  BY <1>1, OnlyTheOwner DEF IInv
<1>3. db[i] \in Objects
  BY <1>2 DEF OwnerOK, ObjectOK
<1> QED BY <1>1, <1>2, <1>3, ObjectFields

\* The states of a Save.
LEMMA SaveStates ==
  /\ \A pc \in Saving : pc # "closed" /\ pc # "load" /\ pc # "open"
  /\ \A pc \in Written : pc \in Saving /\ pc # "append"
  /\ Written = {"sync", "dirsync", "tmp", "renamed"} /\ "append" \in Saving /\ "append" \notin Written
BY DEF Saving, Written

\* The version being saved: its tables are there, none of them was replaced, and
\* those that it adds have the data of those that it drops.
LEMMA SavedTables ==
  ASSUME HistoryInv, NEW s, OwnerOK(s), ~damaged, s.pc \in Saving
  PROVE  LET P == Nums(s.persisted.files)
             E == Nums(s.edit.files)
         IN  /\ E \subseteq DOMAIN ssts /\ obsolete \cap E = {}
             /\ Data(P \ E) \subseteq Data(E \ P)
             /\ s.saving # NoJob =>
                  /\ s.saving \in s.built /\ JobOK(s, s.saving)
                  /\ E = (P \ s.saving.inputs) \cup {s.saving.num}
<1> USE Zenon
<1> DEFINE P == Nums(s.persisted.files)
           E == Nums(s.edit.files)
           j == s.saving
<1>1. s.pc # "load" /\ s.pc # "open"
  BY SaveStates
<1>2. VersionsOK(s) /\ JobsOK(s) /\ ObjectOK(s)
  BY <1>1 DEF OwnerOK
<1>3. /\ P \subseteq DOMAIN ssts /\ obsolete \cap P = {}
      /\ E = IF j = NoJob THEN DOMAIN ssts ELSE (P \ j.inputs) \cup {j.num}
  BY <1>1, <1>2 DEF VersionsOK
<1>4. CASE j = NoJob
  <2>1. ~committed /\ P = {}
    BY <1>2, <1>4, NewObjects DEF ObjectOK
  <2>2. obsolete = {}
    BY <2>1 DEF HistoryInv
  <2> QED BY <1>3, <1>4, <2>1, <2>2 DEF Data
<1>5. CASE j # NoJob
  <2>1. j \in s.built /\ JobOK(s, j)
    BY <1>2, <1>5 DEF ObjectOK, JobsOK
  <2>2. E = (P \ j.inputs) \cup {j.num}
    BY <1>3, <1>5
  <2>3. /\ j.num \in DOMAIN ssts /\ j.num \notin obsolete /\ j.num \notin P
        /\ j.inputs \subseteq P /\ Data(j.inputs) \subseteq ssts[j.num]
    BY <2>1 DEF JobOK
  <2> HIDE DEF P, E, j
  <2>4. E \subseteq DOMAIN ssts /\ obsolete \cap E = {} /\ P \ E \subseteq j.inputs /\ j.num \in E \ P
    BY <1>3, <2>2, <2>3
  <2>5. Data(P \ E) \subseteq Data(j.inputs) /\ ssts[j.num] \subseteq Data(E \ P)
    BY <2>4 DEF Data
  <2> QED BY <2>1, <2>2, <2>3, <2>4, <2>5 DEF P, E, j
<1> QED BY <1>4, <1>5

\* The record of a Save.
LEMMA SavedRecord ==
  ASSUME NEW old \in TableVersions, NEW new \in TableVersions
  PROVE  LET P == Nums(old.files)
             E == Nums(new.files)
             r == BuildEditPayload(old, new)
         IN  /\ r \in LogRecords /\ r.torn = FALSE /\ r.next = new.next
             /\ Nums(r.add) = E \ P /\ Dropped(r) = (P \ E) \cup (E \ P)
<1> USE Zenon
<1> DEFINE P == Nums(old.files)
           E == Nums(new.files)
           A == {m \in new.files : m.num \notin P}
           r == BuildEditPayload(old, new)
<1>1. r = [torn |-> FALSE, next |-> new.next, wal |-> new.wal, last |-> new.last,
           del |-> P \ E, add |-> A]
  BY DEF BuildEditPayload
<1>2. /\ P \in SUBSET FileNumbers /\ new.next \in Nat \ {0} /\ new.wal = 1 /\ new.last = 0
      /\ new.files \subseteq TableMetas
  BY VersionFields
<1>3. A \in SUBSET TableMetas /\ P \ E \in SUBSET FileNumbers
  BY <1>2
<1>4. Nums(A) = E \ P
  <2>1. \A n : n \in Nums(A) <=> n \in E \ P
    BY DEF Nums
  <2> QED BY <2>1
<1> HIDE DEF P, E, A, r
<1>5. r \in LogRecords
  BY <1>1, <1>2, <1>3, SMT DEF LogRecords
<1>6. r.torn = FALSE /\ r.next = new.next /\ r.add = A /\ r.del = P \ E
  BY <1>1
<1>7. Dropped(r) = (P \ E) \cup (E \ P)
  BY <1>4, <1>6 DEF Dropped
<1> QED BY <1>4, <1>5, <1>6, <1>7 DEF P, E, r

\* MANIFEST with one more record.
LEMMA AppendedManifest ==
  ASSUME NEW m, ManifestOK(m), NEW r \in LogRecords
  PROVE  LET a == Append1(m, r)
         IN  /\ ManifestOK(a) /\ a.recs = Append(m.recs, r) /\ a.synced = m.synced
             /\ a.name # "absent" /\ (m.name = "durable" => a.name = "durable")
<1> USE Zenon
<1> DEFINE a == Append1(m, r)
           x == IF m.name = "absent" THEN "linked" ELSE m.name
           l == Append(m.recs, r)
<1>1. /\ m = [name |-> m.name, recs |-> m.recs, synced |-> m.synced, stale |-> m.stale]
      /\ m.name \in {"absent", "linked", "durable"} /\ m.recs \in Seq(LogRecords)
      /\ m.synced \in Nat /\ m.stale \in BOOLEAN /\ m.synced \in 0..Len(m.recs) /\ Len(m.recs) \in Nat
  BY ManifestFields
<1>2. l \in Seq(LogRecords) /\ Len(l) = Len(m.recs) + 1 /\ l # <<>>
  BY <1>1, AppendedRecord
<1>3. a = [name |-> x, recs |-> l, synced |-> m.synced, stale |-> m.stale]
  <2>1. a = [m EXCEPT !.name = x, !.recs = l]
    BY DEF Append1
  <2>2. m = [name |-> m.name, recs |-> m.recs, synced |-> m.synced, stale |-> m.stale]
    BY <1>1
  <2> HIDE DEF a, x, l
  <2> QED BY <2>1, <2>2
<1>4. a.name = x /\ a.recs = l /\ a.synced = m.synced /\ a.stale = m.stale
  BY <1>3, SMT
<1>5. x \in {"linked", "durable"} /\ x # "absent" /\ (m.name = "durable" => x = "durable")
  BY <1>1, SMT
<1> HIDE DEF a, l, x
<1>6. a \in ManifestFiles
  BY <1>1, <1>2, <1>3, <1>5, SMT DEF ManifestFiles
<1>7. m.synced <= Len(l)
  BY <1>1, <1>2, SMT
<1>8. ManifestOK(a)
  BY <1>2, <1>4, <1>5, <1>6, <1>7 DEF ManifestOK
<1> QED BY <1>4, <1>5, <1>8 DEF a, l

\* The log after a Save has appended its record to an intact log.
LEMMA SavedLog ==
  ASSUME IInv, NEW i \in Instances, SaveAppends(i), ~damaged, TornRest(manifest.recs) = <<>>
  PROVE  LET P == Nums(db[i].persisted.files)
             E == Nums(db[i].edit.files)
         IN  /\ Intact' = Len(manifest.recs) + 1 /\ Len(manifest.recs)' = Len(manifest.recs) + 1
             /\ Intact = Len(manifest.recs) /\ Intact \in Nat
             /\ Tables(Intact)' = (Tables(Intact) \ (P \ E)) \cup (E \ P)
             /\ VersionAt(Intact)'.next = db[i].edit.next
             /\ \A k \in Readable' : k = Intact' \/ k \in Readable
             /\ \A k \in Readable : Tables(k)' = Tables(k) /\ VersionAt(k)' = VersionAt(k)
<1> USE Zenon
<1> DEFINE s == db[i]
           P == Nums(s.persisted.files)
           E == Nums(s.edit.files)
           r == BuildEditPayload(s.persisted, s.edit)
           log == manifest.recs
           a == Append(log, r)
<1>1. s.edit \in TableVersions /\ s.persisted \in TableVersions
  <2>1. s.pc # "closed"
    BY SaveStates DEF SaveAppends, At
  <2> QED BY <2>1, WorkingObject, ObjectFields
<1>2. r \in LogRecords /\ r.torn = FALSE /\ r.next = s.edit.next /\ Nums(r.add) = E \ P
      /\ Dropped(r) = (P \ E) \cup (E \ P)
  BY <1>1, SavedRecord
<1>3. ManifestOK(manifest)
  BY DEF IInv, DirectoryInv
<1>4. log \in Seq(LogRecords) /\ Len(log) \in Nat /\ manifest.synced \in 0..Len(log)
  BY <1>3, ManifestFields
<1>5. manifest'.recs = a /\ manifest'.synced = manifest.synced
  <2>1. manifest' = Append1(manifest, r)
    BY DEF SaveAppends
  <2> HIDE DEF r
  <2> QED BY <1>2, <1>3, <2>1, AppendedManifest
<1>6. Cut(log) = Len(log)
  BY <1>4, RestIsEmpty DEF Cut
<1> HIDE DEF r
<1>7. /\ Len(a) = Len(log) + 1 /\ Cut(a) = Len(a)
      /\ \A k \in 0..Len(log) : SubSeq(a, 1, k) = SubSeq(log, 1, k)
  BY <1>2, <1>4, <1>6, AppendedRecord
<1>8. /\ TablesOf(a, Len(a)) = (TablesOf(log, Len(log)) \ Dropped(r)) \cup Nums(r.add)
      /\ VersionOf(a, Len(a)).next = r.next
  BY <1>2, <1>4, <1>6, AppendedTables
<1> HIDE DEF a, log, P, E, s
<1>9. TablesOf(a, Len(a)) = (TablesOf(log, Len(log)) \ (P \ E)) \cup (E \ P)
  BY <1>2, <1>8, SMT
<1>10. Intact = Len(log) /\ Intact' = Len(a) /\ Len(manifest.recs)' = Len(a)
  BY <1>5, <1>6, <1>7 DEF Intact, log
<1>11. Tables(Intact)' = (Tables(Intact) \ (P \ E)) \cup (E \ P) /\ VersionAt(Intact)'.next = s.edit.next
  BY <1>2, <1>5, <1>8, <1>9, <1>10 DEF Tables, VersionAt, log
<1>12. \A k \in Readable' : k = Intact' \/ k \in Readable
  <2> SUFFICES ASSUME NEW k \in ReadableOf(manifest') PROVE k = Len(a) \/ k \in ReadableOf(manifest)
    BY <1>10 DEF Readable
  <2>1. k \in 0..Len(a) /\ (k >= manifest.synced \/ k = Len(a))
    BY <1>5, <1>7 DEF ReadableOf
  <2>2. k = Len(a) \/ (k \in 0..Len(log) /\ k >= manifest.synced)
    BY <1>4, <1>7, <2>1, SMT
  <2> QED BY <1>6, <2>2 DEF ReadableOf, log
<1>13. \A k \in Readable : Tables(k)' = Tables(k) /\ VersionAt(k)' = VersionAt(k)
  <2> SUFFICES ASSUME NEW k \in ReadableOf(manifest) PROVE Tables(k)' = Tables(k) /\ VersionAt(k)' = VersionAt(k)
    BY DEF Readable
  <2>1. SubSeq(a, 1, k) = SubSeq(log, 1, k)
    BY <1>6, <1>7 DEF ReadableOf, log
  <2> QED BY <1>5, <2>1 DEF Tables, VersionAt, TablesOf, VersionOf, log
<1> QED BY <1>4, <1>7, <1>10, <1>11, <1>12, <1>13 DEF P, E, s, log

\* The history is kept by the appended record: what it drops is in what it adds.
LEMMA SaveAppendsHistory ==
  ASSUME IInv, NEW i \in Instances, SaveAppends(i), ~damaged, TornRest(manifest.recs) = <<>>
  PROVE  /\ Tables(Intact)' \subseteq DOMAIN ssts
         /\ Data(Tables(Intact)) \subseteq Data(Tables(Intact)')
         /\ committed => \A k \in Readable' : Keeps(k)'
<1> USE Zenon
<1> DEFINE s == db[i]
           P == Nums(s.persisted.files)
           E == Nums(s.edit.files)
           T == Tables(Intact)
           U == (T \ (P \ E)) \cup (E \ P)
<1>1. s.pc = "append" /\ s.pc \in Saving /\ s.pc # "closed" /\ s.pc # "load"
  BY SaveStates DEF SaveAppends, At
<1>2. OwnerOK(s)
  BY <1>1, WorkingObject
<1>3. VersionsOK(s)
  BY <1>1, <1>2 DEF OwnerOK
<1>4. T \subseteq DOMAIN ssts /\ P \subseteq DOMAIN ssts /\ \A n \in obsolete : n < s.edit.next
  BY <1>3 DEF VersionsOK
<1>5. E \subseteq DOMAIN ssts /\ obsolete \cap E = {} /\ Data(P \ E) \subseteq Data(E \ P)
  BY <1>1, <1>2, SavedTables DEF IInv
<1>6. /\ Tables(Intact)' = U /\ Intact \in Nat /\ Intact' = Intact + 1
      /\ VersionAt(Intact)'.next = s.edit.next
      /\ \A k \in Readable' : k = Intact' \/ k \in Readable
      /\ \A k \in Readable : Tables(k)' = Tables(k) /\ VersionAt(k)' = VersionAt(k)
  BY SavedLog
<1>7. ssts' = ssts /\ acked' = acked /\ obsolete' = obsolete
  BY SMT DEF SaveAppends
<1> HIDE DEF T, P, E, s
<1>8. U \subseteq DOMAIN ssts
  BY <1>4, <1>5
<1>9. Data(T) \subseteq Data(U)
  <2> SUFFICES ASSUME NEW x, NEW n \in T, x \in ssts[n] PROVE x \in Data(U)
    BY DEF Data
  <2>1. CASE n \in P \ E
    <3>1. x \in Data(E \ P)
      BY <1>5, <2>1 DEF Data
    <3> QED BY <3>1 DEF Data
  <2>2. CASE n \notin P \ E
    BY <2>2 DEF Data
  <2> QED BY <2>1, <2>2
<1>10. ASSUME committed, NEW k \in Readable' PROVE Keeps(k)'
  <2>1. CASE k \in Readable
    <3>1. Keeps(k)
      BY <1>10, <2>1 DEF IInv, HistoryInv
    <3>2. Tables(k)' = Tables(k) /\ VersionAt(k)' = VersionAt(k)
      BY <1>6, <2>1
    <3>3. Data(Tables(k))' = Data(Tables(k))
      BY <1>7, <3>2 DEF Data
    <3> QED BY <1>7, <3>1, <3>2, <3>3 DEF Keeps
  <2>2. CASE k = Intact'
    <3>1. Intact \in Readable
      BY ManifestFields DEF IInv, DirectoryInv, Intact, Readable
    <3>2. Keeps(Intact)
      BY <1>10, <3>1 DEF IInv, HistoryInv
    <3>3. acked \subseteq Data(T) /\ obsolete \cap T = {}
      BY <3>2 DEF Keeps, T
    <3>4. obsolete \cap U = {} /\ acked \subseteq Data(U)
      BY <1>5, <1>9, <3>3
    <3>5. Intact + 1 > 0
      BY <1>6, SMT
    <3>6. Tables(k)' = U /\ VersionAt(k)'.next = s.edit.next /\ k > 0
      BY <1>6, <2>2, <3>5 DEF Tables, VersionAt
    <3> HIDE DEF U
    <3> QED BY <1>4, <1>7, <1>8, <3>4, <3>6 DEF Keeps, Data
  <2> QED BY <1>6, <1>10, <2>1, <2>2
<1>11. Data(Tables(Intact)) \subseteq Data(Tables(Intact)')
  BY <1>6, <1>9 DEF T
<1> QED BY <1>6, <1>8, <1>10, <1>11

\* Jobs that are left while the tables and the durable version stay.
LEMMA JobsStay ==
  ASSUME NEW s, NEW t, JobsOK(s), t.built \subseteq s.built, t.persisted = s.persisted,
         ssts' = ssts, obsolete' = obsolete
  PROVE  JobsOK(t)'
<1> USE Zenon
<1>1. ASSUME NEW j \in t.built PROVE JobOK(t, j)'
  <2>1. JobOK(s, j)
    BY DEF JobsOK
  <2>2. Data(j.inputs)' = Data(j.inputs)
    BY DEF Data
  <2> QED BY <2>1, <2>2 DEF JobOK
<1> QED BY <1>1 DEF JobsOK

\* A Save goes on: only the state of the object changes.
LEMMA SaveGoesOn ==
  ASSUME NEW s, NEW t, NEW pc \in Saving, ObjectOK(s), s.pc \in Saving, t = WithPc(s, pc),
         obsolete' = obsolete, committed' = committed
  PROVE  /\ ObjectOK(t)' /\ t.pc = pc /\ t.edit = s.edit /\ t.persisted = s.persisted
         /\ t.built = s.built /\ t.saving = s.saving
<1> USE Zenon
<1>1. s \in Objects
  BY DEF ObjectOK
<1>2. /\ Shaped(t) /\ t.pc = pc /\ t.edit = s.edit /\ t.persisted = s.persisted /\ t.built = s.built
      /\ t.saving = s.saving /\ t.garbage = s.garbage /\ t.error = s.error
  BY <1>1, ObjectFields, PcChanges, SMT
<1>3. t \in Objects
  <2>1. /\ s.edit \in TableVersions /\ s.persisted \in TableVersions
        /\ s.built \in SUBSET TableJobs /\ s.saving \in TableJobs \cup {NoJob}
        /\ s.garbage \in SUBSET FileNumbers /\ s.error \in BOOLEAN
    BY <1>1, ObjectFields
  <2> QED BY <1>2, <2>1, FieldsOfObject
<1>4. pc # "load" /\ pc # "open"
  BY SaveStates
<1> QED BY <1>2, <1>3, <1>4 DEF ObjectOK

\* The record is in the log.
LEMMA SaveAppendsObject ==
  ASSUME IInv, NEW i \in Instances, SaveAppends(i), ~damaged', NEW s, s = db[i], NEW t,
         t.pc = "sync", t.edit = s.edit, t.persisted = s.persisted, t.built = s.built,
         t.saving = s.saving
  PROVE  VersionsOK(t)' /\ JobsOK(t)' /\ SaveOK(t)'
<1> USE Zenon
<1>1. ~damaged /\ TornRest(manifest.recs) = <<>> /\ ssts' = ssts /\ obsolete' = obsolete
  BY DEF SaveAppends
<1>2. s.pc = "append" /\ s.pc \in Saving /\ s.pc # "closed" /\ s.pc # "load" /\ s.pc # "open"
  BY SaveStates DEF SaveAppends, At
<1>3. OwnerOK(s) /\ VersionsOK(s) /\ JobsOK(s)
  BY <1>1, <1>2, WorkingObject DEF OwnerOK
<1> DEFINE P == Nums(s.persisted.files)
           E == Nums(s.edit.files)
           T == Tables(Intact)
<1>4. PICK U : U = Tables(Intact)'
  OBVIOUS
<1>5. /\ Intact' = Len(manifest.recs)' /\ Intact' > 0
      /\ U = (T \ (P \ E)) \cup (E \ P) /\ VersionAt(Intact)'.next = s.edit.next
  <2>1. /\ Intact' = Len(manifest.recs) + 1 /\ Len(manifest.recs)' = Len(manifest.recs) + 1
        /\ Intact = Len(manifest.recs) /\ Intact \in Nat
        /\ U = (T \ (P \ E)) \cup (E \ P) /\ VersionAt(Intact)'.next = s.edit.next
    BY <1>1, <1>4, SavedLog
  <2>2. \A n \in Nat : n + 1 > 0
    BY SMT
  <2> QED BY <2>1, <2>2
<1>6. U \subseteq DOMAIN ssts /\ Data(T) \subseteq Data(U)
  BY <1>1, <1>4, SaveAppendsHistory
<1>7. /\ P \subseteq DOMAIN ssts /\ Data(P) \subseteq Data(T) /\ obsolete \cap P = {}
      /\ \A n \in DOMAIN ssts \cup obsolete : n < s.edit.next
      /\ E = IF s.saving = NoJob THEN DOMAIN ssts ELSE (P \ s.saving.inputs) \cup {s.saving.num}
  BY <1>2, <1>3 DEF VersionsOK
<1>8. \A S : Data(S)' = Data(S)
  BY <1>1 DEF Data
<1>9. t.pc # "open" /\ Nums(t.persisted.files) = P /\ Nums(t.edit.files) = E
  OBVIOUS
<1>10. JobsOK(t)'
  BY <1>1, <1>3, JobsStay
<1> HIDE DEF P, E, T
<1>11. Data(P) \subseteq Data(U) /\ (P \ E) \cap U = {}
  BY <1>5, <1>6, <1>7
<1>12. Data(E) \subseteq Data(U)
  <2> SUFFICES ASSUME NEW x, NEW n \in E, x \in ssts[n] PROVE x \in Data(U)
    BY DEF Data
  <2>1. CASE n \in P
    BY <1>11, <2>1 DEF Data
  <2>2. CASE n \notin P
    BY <1>5, <2>2 DEF Data
  <2> QED BY <2>1, <2>2
<1>13. VersionsOK(t)'
  BY <1>1, <1>4, <1>6, <1>7, <1>8, <1>9, <1>11 DEF VersionsOK
<1>14. SaveOK(t)'
  BY <1>4, <1>5, <1>8, <1>9, <1>11, <1>12 DEF SaveOK
<1> QED BY <1>10, <1>13, <1>14

\* Save writes its record.
LEMMA SaveAppendsStep ==
  ASSUME IInv, NEW i \in Instances, SaveAppends(i) PROVE IInv'
<1> USE Zenon
<1>1. PICK s : s = db[i]
  OBVIOUS
<1>2. PICK t : t = WithPc(s, "sync")
  OBVIOUS
<1>3. /\ s.pc = "append" /\ s.pc \in Saving /\ s.pc # "closed" /\ s.pc # "load"
      /\ "sync" \in Saving /\ "sync" \in Written /\ "sync" # "load"
      /\ "sync" \notin {"tmp", "renamed"} /\ "sync" # "tmp" /\ "sync" # "renamed"
  BY <1>1, SaveStates, SMT DEF SaveAppends, At, Written
<1>4. /\ owner' = owner /\ ssts' = ssts /\ current' = current
      /\ acked' = acked /\ obsolete' = obsolete /\ committed' = committed
      /\ damaged' = (damaged \/ TornRest(manifest.recs) # <<>>)
      /\ db' = [db EXCEPT ![i] = t]
  BY <1>1, <1>2 DEF SaveAppends, Goes, WithPc
<1>5. /\ owner = i /\ OwnerOK(s) /\ s \in Objects
      /\ \A j \in Instances : j # i => db[j] = Closed
  BY <1>1, <1>3, WorkingObject
<1>6. /\ ManifestOK(manifest') /\ manifest'.name # "absent"
      /\ manifest.name = "durable" => manifest'.name = "durable"
  <2>1. PICK r : r = BuildEditPayload(s.persisted, s.edit)
    OBVIOUS
  <2>2. r \in LogRecords
    BY <1>5, <2>1, ObjectFields, SavedRecord
  <2>3. manifest' = Append1(manifest, r)
    BY <1>1, <2>1 DEF SaveAppends
  <2>4. ManifestOK(manifest)
    BY DEF IInv, DirectoryInv
  <2> QED BY <2>2, <2>3, <2>4, AppendedManifest
<1>7. DirectoryInv'
  BY <1>4, <1>6 DEF IInv, DirectoryInv
<1>8. HistoryInv'
  <2>1. /\ committed \in BOOLEAN /\ damaged \in BOOLEAN /\ obsolete \subseteq FileNumbers
        /\ ~committed => acked = {} /\ obsolete = {}
        /\ committed => manifest.name = "durable" /\ current.name = "durable"
    BY DEF IInv, HistoryInv
  <2>2. damaged' \in BOOLEAN
    BY <1>4, <2>1
  <2>3. committed /\ ~damaged' => \A k \in Readable' : Keeps(k)'
    BY <1>4, SaveAppendsHistory
  <2> QED BY <1>4, <1>6, <2>1, <2>2, <2>3 DEF HistoryInv
<1>9. OwnerOK(t)'
  <2>1. /\ ObjectOK(t)' /\ t.pc = "sync" /\ t.edit = s.edit /\ t.persisted = s.persisted
        /\ t.built = s.built /\ t.saving = s.saving
    BY <1>2, <1>3, <1>4, <1>5, SaveGoesOn DEF OwnerOK
  <2>2. NamesOK(t)'
    BY <1>3, <1>6, <2>1 DEF NamesOK
  <2>3. ~damaged' => VersionsOK(t)' /\ JobsOK(t)' /\ SaveOK(t)'
    BY <1>1, <2>1, SaveAppendsObject
  <2> QED BY <2>1, <2>2, <2>3 DEF OwnerOK
<1>10. ObjectsInv'
  BY <1>4, <1>5, <1>9, OwnerSteps DEF IInv
<1> QED BY <1>7, <1>8, <1>10 DEF IInv

\* The fields of an object whose Save has ended.
LEMMA DoneFields ==
  ASSUME NEW s \in Objects, NEW x \in TableVersions, NEW t,
         t = WithEdit(WithPc(WithSaving(WithBuilt(s, s.built \ {s.saving}), NoJob), "open"), x)
  PROVE  /\ Shaped(t) /\ t.pc = "open" /\ t.edit = x /\ t.persisted = s.persisted
         /\ t.built = s.built \ {s.saving} /\ t.saving = NoJob /\ t.garbage = s.garbage
         /\ t.error = s.error /\ t \in Objects
<1> USE Zenon
<1>1. PICK a : a = WithBuilt(s, s.built \ {s.saving})
  OBVIOUS
<1>2. PICK b : b = WithSaving(a, NoJob)
  OBVIOUS
<1>3. PICK c : c = WithPc(b, "open")
  OBVIOUS
<1>4. Shaped(s)
  BY ObjectFields
<1>5. /\ Shaped(a) /\ a.built = s.built \ {s.saving} /\ a.pc = s.pc /\ a.edit = s.edit
      /\ a.persisted = s.persisted /\ a.saving = s.saving /\ a.garbage = s.garbage /\ a.error = s.error
  BY <1>1, <1>4, BuiltChanges, SMT
<1>6. /\ Shaped(b) /\ b.built = s.built \ {s.saving} /\ b.pc = s.pc /\ b.edit = s.edit
      /\ b.persisted = s.persisted /\ b.saving = NoJob /\ b.garbage = s.garbage /\ b.error = s.error
  BY <1>2, <1>5, SavingChanges, SMT
<1>7. /\ Shaped(c) /\ c.built = s.built \ {s.saving} /\ c.pc = "open" /\ c.edit = s.edit
      /\ c.persisted = s.persisted /\ c.saving = NoJob /\ c.garbage = s.garbage /\ c.error = s.error
  BY <1>3, <1>6, PcChanges, SMT
<1>8. t = WithEdit(c, x)
  BY <1>1, <1>2, <1>3
<1>9. /\ Shaped(t) /\ t.built = s.built \ {s.saving} /\ t.pc = "open" /\ t.edit = x
      /\ t.persisted = s.persisted /\ t.saving = NoJob /\ t.garbage = s.garbage /\ t.error = s.error
  BY ONLY <1>7, <1>8, EditChanges, SMT
<1>10. t \in Objects
  <2>1. /\ s.persisted \in TableVersions /\ s.built \ {s.saving} \in SUBSET TableJobs
        /\ s.garbage \in SUBSET FileNumbers /\ s.error \in BOOLEAN
    BY ObjectFields
  <2>2. "open" \in {"load", "open"} \cup Saving /\ NoJob \in TableJobs \cup {NoJob}
    OBVIOUS
  <2> QED BY <1>9, <2>1, <2>2, FieldsOfObject
<1> QED BY <1>9, <1>10

\* A Save that fails takes its job back: edit_ has the tables that are durable again.
LEMMA SaveFailsStep ==
  ASSUME IInv, NEW i \in Instances, db[i].pc \in Saving, SaveFails(i), DirectoryInv', HistoryInv',
         UNCHANGED <<ssts, history>>, Intact' = Intact, Tables(Intact)' = Tables(Intact)
  PROVE  IInv'
<1> USE Zenon
<1>1. PICK s : s = db[i]
  OBVIOUS
<1>2. /\ owner = i /\ OwnerOK(s) /\ s \in Objects /\ s # Closed
      /\ s.pc \in Saving /\ s.pc # "open" /\ s.pc # "load"
      /\ \A j \in Instances : j # i => db[j] = Closed
  BY <1>1, SaveStates, WorkingObject
<1>3. CASE s.saving = NoJob
  <2>1. Releases(i)
    BY <1>1, <1>3 DEF SaveFails, Bootstraps
  <2> QED BY <1>1, <1>2, <2>1, CloseSteps
<1>4. CASE s.saving # NoJob
  <2> DEFINE P == Nums(s.persisted.files)
             E == Nums(s.edit.files)
  <2>j. PICK j : j = s.saving
    OBVIOUS
  <2>1. PICK x : x = Version((E \ {j.num}) \cup j.inputs, s.edit.next)
    OBVIOUS
  <2>2. PICK u : u = WithEdit(WithPc(WithSaving(WithBuilt(s, s.built \ {j}), NoJob), "open"), x)
    OBVIOUS
  <2>e. PICK e : e = TRUE
    OBVIOUS
  <2>3. PICK t : t = WithError(u, e)
    OBVIOUS
  <2>4. owner' = i /\ db' = [db EXCEPT ![i] = t]
    <3>1. /\ owner' = owner
          /\ db' = [db EXCEPT ![i] = [[s EXCEPT !.built = @ \ {j}, !.saving = NoJob, !.pc = "open"]
                                        EXCEPT !.edit = x, !.error = TRUE]]
      BY <1>1, <1>4, <2>j, <2>1 DEF SaveFails, Bootstraps, JobDone, Unpublished
    <3>2. [[s EXCEPT !.built = @ \ {j}, !.saving = NoJob, !.pc = "open"]
            EXCEPT !.edit = x, !.error = TRUE] = t
      BY <2>2, <2>e, <2>3 DEF WithEdit, WithPc, WithSaving, WithBuilt, WithError
    <3> QED BY <1>2, <3>1, <3>2
  <2>5. /\ s.edit \in TableVersions /\ s.edit.next \in Nat \ {0} /\ E \subseteq FileNumbers
        /\ j \in TableJobs /\ j.num \in FileNumbers /\ j.inputs \subseteq FileNumbers
    <3>1. s.edit \in TableVersions /\ j \in TableJobs
      BY <1>2, <1>4, <2>j, ObjectFields
    <3>2. j.num \in FileNumbers /\ j.inputs \subseteq FileNumbers
      BY <3>1, SMT DEF TableJobs
    <3> QED BY <3>1, <3>2, VersionFields
  <2>6. /\ x \in TableVersions /\ Nums(x.files) = (E \ {j.num}) \cup j.inputs
        /\ x.next = s.edit.next
    <3>1. (E \ {j.num}) \cup j.inputs \in SUBSET FileNumbers
      BY <2>5
    <3> QED BY <2>1, <2>5, <3>1, VersionTypes
  <2>7. /\ Shaped(u) /\ u.pc = "open" /\ u.edit = x /\ u.persisted = s.persisted
        /\ u.built = s.built \ {j} /\ u.saving = NoJob /\ u.garbage = s.garbage /\ u \in Objects
    BY <1>2, <2>j, <2>2, <2>6, DoneFields, SMT
  <2>8. /\ Shaped(t) /\ t.pc = "open" /\ t.edit = x /\ t.persisted = s.persisted
        /\ t.built = s.built \ {j} /\ t.saving = NoJob /\ t.garbage = s.garbage /\ t.error = e
    BY ONLY <2>3, <2>7, ErrorChanges, SMT
  <2>9. t \in Objects
    <3>1. /\ s.persisted \in TableVersions /\ s.built \ {j} \in SUBSET TableJobs
          /\ s.garbage \in SUBSET FileNumbers /\ e \in BOOLEAN
      BY <1>2, <2>e, ObjectFields
    <3>2. "open" \in {"load", "open"} \cup Saving /\ NoJob \in TableJobs \cup {NoJob}
      OBVIOUS
    <3> QED BY <2>6, <2>8, <3>1, <3>2, FieldsOfObject
  <2>10. OwnerOK(t)'
    <3>1. /\ "open" # "load" /\ "open" \notin Written /\ "open" \notin Saving
          /\ "open" \notin {"tmp", "renamed"} /\ "open" # "tmp" /\ "open" # "renamed"
      BY SMT DEF Written, Saving
    <3>2. ObjectOK(t)'
      BY <1>2, <2>8, <2>9, <3>1 DEF OwnerOK, ObjectOK, history
    <3>3. NamesOK(t)'
      BY <2>8, <3>1 DEF NamesOK
    <3>4. ASSUME ~damaged PROVE JobsOK(t)'
      <4>1. JobsOK(s) /\ t.built \subseteq s.built /\ obsolete' = obsolete
        BY <1>2, <2>8, <3>4 DEF OwnerOK, history
      <4> QED BY <2>8, <4>1, JobsStay
    <3>5. ASSUME ~damaged PROVE VersionsOK(t)'
      <4>1. /\ s.saving \in s.built /\ JobOK(s, j) /\ E = (P \ j.inputs) \cup {j.num}
        BY <1>2, <1>4, <2>j, <3>5, SavedTables DEF IInv
      <4>2. j.num \notin P /\ j.inputs \subseteq P
        BY <4>1 DEF JobOK
      <4>3. (E \ {j.num}) \cup j.inputs = P
        <5> HIDE DEF P, E
        <5> QED BY <4>1, <4>2
      <4>4. VersionsOK(s)
        BY <1>2, <3>5 DEF OwnerOK
      <4>5. \A S : Data(S)' = Data(S)
        BY DEF Data
      <4>6. Nums(t.edit.files) = P /\ t.edit.next = s.edit.next /\ Nums(t.persisted.files) = P
        BY <2>6, <2>8, <4>3
      <4> HIDE DEF P, E
      <4>7. PICK T : T = Tables(Intact) /\ T = Tables(Intact)'
        OBVIOUS
      <4>8. /\ T \subseteq DOMAIN ssts /\ P \subseteq DOMAIN ssts /\ Data(P) \subseteq Data(T)
            /\ obsolete \cap P = {} /\ \A n \in DOMAIN ssts \cup obsolete : n < s.edit.next
        BY <4>4, <4>7 DEF VersionsOK, P
      <4> QED BY <2>8, <4>5, <4>6, <4>7, <4>8 DEF VersionsOK, history
    <3>6. damaged' = damaged
      BY SMT DEF history
    <3> QED BY <2>8, <3>1, <3>2, <3>3, <3>4, <3>5, <3>6 DEF OwnerOK
  <2>11. ObjectsInv'
    BY <1>2, <2>4, <2>10, OwnerSteps DEF IInv
  <2> QED BY <2>11 DEF IInv
<1> QED BY <1>3, <1>4

\* Appending the record fails.
LEMMA SaveAppendFailsStep ==
  ASSUME IInv, NEW i \in Instances, SaveAppendFails(i) PROVE IInv'
\* A torn record changes nothing that can be read.
<1>TornAppend.
  ASSUME NEW m, ManifestOK(m), NEW r \in LogRecords, r.torn, NEW a, a = Append1(m, r)
  PROVE  /\ ManifestOK(a) /\ Narrows(m, a) /\ (m.name = "durable" => a.name = "durable")
         /\ Cut(a.recs) = Cut(m.recs)
         /\ \A k \in 0..Cut(m.recs) : SubSeq(a.recs, 1, k) = SubSeq(m.recs, 1, k)
  <2> USE <1>TornAppend
  <2> USE Zenon
  <2>1. /\ ManifestOK(a) /\ a.recs = Append(m.recs, r) /\ a.synced = m.synced
        /\ (m.name = "durable" => a.name = "durable")
    BY AppendedManifest
  <2>2. m.recs \in Seq(LogRecords) /\ Cut(m.recs) \in 0..Len(m.recs) /\ Len(m.recs) \in Nat
    BY ManifestFields
  <2>3. Cut(a.recs) = Cut(m.recs) /\ \A k \in 0..Len(m.recs) : SubSeq(a.recs, 1, k) = SubSeq(m.recs, 1, k)
    <3>1. PICK log : log = m.recs
      OBVIOUS
    <3>2. /\ Cut(Append(log, r)) = Cut(log)
          /\ \A k \in 0..Len(log) : SubSeq(Append(log, r), 1, k) = SubSeq(log, 1, k)
      BY ONLY <2>2, <3>1, AppendedRecord, r \in LogRecords, r.torn, Zenon
    <3> QED BY <2>1, <3>1, <3>2
  <2>4. \A k \in 0..Cut(m.recs) : k \in 0..Len(m.recs)
    BY <2>2, SMT
  <2>5. Narrows(m, a)
    BY <2>1, <2>3, <2>4 DEF Narrows, ReadableOf
  <2> QED BY <2>1, <2>3, <2>4, <2>5
\* The file is created but nothing is written.
<1>LinkedManifest.
  ASSUME NEW m, ManifestOK(m), NEW a, a = [m EXCEPT !.name = IF @ = "absent" THEN "linked" ELSE @]
  PROVE  /\ ManifestOK(a) /\ (m.name = "durable" => a.name = "durable")
         /\ a.recs = m.recs /\ a.synced = m.synced
  <2> USE <1>LinkedManifest
  <2> USE Zenon
  <2>1. /\ m = [name |-> m.name, recs |-> m.recs, synced |-> m.synced, stale |-> m.stale]
        /\ m.name \in {"absent", "linked", "durable"} /\ m.recs \in Seq(LogRecords)
        /\ m.synced \in Nat /\ m.stale \in BOOLEAN /\ m.synced <= Len(m.recs)
        /\ m.stale => m.recs # <<>>
    BY ManifestFields DEF ManifestOK
  <2>2. PICK n : n = IF m.name = "absent" THEN "linked" ELSE m.name
    OBVIOUS
  <2>3. n \in {"linked", "durable"} /\ (m.name = "durable" => n = "durable")
    BY <2>1, <2>2, SMT
  <2>4. a = [m EXCEPT !.name = n]
    BY <2>2
  <2>5. a = [name |-> n, recs |-> m.recs, synced |-> m.synced, stale |-> m.stale]
    BY ONLY <2>1, <2>4, SMT
  <2>6. a.name = n /\ a.recs = m.recs /\ a.synced = m.synced /\ a.stale = m.stale
    BY ONLY <2>5, SMT
  <2>7. a \in ManifestFiles
    BY ONLY <2>1, <2>3, <2>5, SMT DEF ManifestFiles
  <2>8. n # "absent"
    BY <2>3, SMT
  <2> QED BY <2>1, <2>3, <2>6, <2>7, <2>8 DEF ManifestOK
<1> USE Zenon
<1>1. db[i].pc = "append" /\ db[i].pc \in Saving /\ db[i].pc # "closed"
  BY SaveStates DEF SaveAppendFails, At
<1>2. SaveFails(i) /\ UNCHANGED <<ssts, current, history>>
  BY DEF SaveAppendFails
<1>3. ManifestOK(manifest)
  BY DEF IInv, DirectoryInv
<1>4. /\ ManifestOK(manifest') /\ Narrows(manifest, manifest')
      /\ manifest.name = "durable" => manifest'.name = "durable"
      /\ Intact' = Intact /\ Tables(Intact)' = Tables(Intact)
  <2>1. CASE manifest' = manifest
    <3>1. Narrows(manifest, manifest')
      BY <2>1, SameRecords
    <3> QED BY <1>3, <2>1, <3>1 DEF Intact, Tables
  <2>2. CASE manifest' = [manifest EXCEPT !.name = IF @ = "absent" THEN "linked" ELSE @]
    <3>1. /\ ManifestOK(manifest') /\ (manifest.name = "durable" => manifest'.name = "durable")
          /\ manifest'.recs = manifest.recs /\ manifest'.synced = manifest.synced
      BY <1>3, <2>2, <1>LinkedManifest
    <3>2. Narrows(manifest, manifest')
      BY <3>1, SameRecords
    <3> QED BY <3>1, <3>2 DEF Intact, Tables
  <2>3. CASE manifest' = Append1(manifest, Tear(BuildEditPayload(db[i].persisted, db[i].edit)))
    <3>1. PICK r : r = BuildEditPayload(db[i].persisted, db[i].edit)
      OBVIOUS
    <3>2. r \in LogRecords
      BY <1>1, <3>1, WorkingObject, ObjectFields, SavedRecord
    <3>3. PICK q : q = Tear(r)
      OBVIOUS
    <3>4. q \in LogRecords /\ q.torn
      BY <3>2, <3>3, TornRecord
    <3>5. PICK a : a = Append1(manifest, q)
      OBVIOUS
    <3>6. manifest' = a
      BY <2>3, <3>1, <3>3, <3>5
    <3>7. /\ ManifestOK(a) /\ Narrows(manifest, a) /\ (manifest.name = "durable" => a.name = "durable")
          /\ Cut(a.recs) = Cut(manifest.recs)
          /\ \A k \in 0..Cut(manifest.recs) : SubSeq(a.recs, 1, k) = SubSeq(manifest.recs, 1, k)
      BY <1>3, <3>4, <3>5, <1>TornAppend
    <3>8. Cut(manifest.recs) \in 0..Cut(manifest.recs)
      <4>1. Cut(manifest.recs) \in Nat
        BY <1>3, ManifestFields
      <4> QED BY <4>1, SMT
    <3>9. SubSeq(a.recs, 1, Cut(a.recs)) = SubSeq(manifest.recs, 1, Cut(manifest.recs))
      BY <3>7, <3>8
    <3>10. Intact' = Intact /\ Tables(Intact)' = Tables(Intact)
      BY <3>6, <3>7, <3>9 DEF Intact, Tables, TablesOf, VersionOf
    <3> QED BY <3>6, <3>7, <3>10
  <2> QED BY <2>1, <2>2, <2>3 DEF SaveAppendFails
<1>5. DirectoryInv'
  BY <1>2, <1>4 DEF IInv, DirectoryInv
<1>6. HistoryInv'
  <2>1. /\ HistoryInv
        /\ committed => manifest.name = "durable" /\ current.name = "durable"
    BY DEF IInv, HistoryInv
  <2> QED BY <1>2, <1>4, <2>1, HistoryStays
<1> QED BY <1>1, <1>2, <1>4, <1>5, <1>6, SaveFailsStep

\* Syncing or installing CURRENT fails.
LEMMA SaveStepFailsStep ==
  ASSUME IInv, NEW i \in Instances, SaveStepFails(i) PROVE IInv'
<1> USE Zenon
<1>1. db[i].pc \in Saving
  BY SaveStates DEF SaveStepFails
<1>2. SaveFails(i) /\ UNCHANGED <<ssts, history>> /\ UNCHANGED <<directory, history>>
  BY DEF SaveStepFails, directory
<1>3. Intact' = Intact /\ Tables(Intact)' = Tables(Intact)
  BY <1>2 DEF Intact, Tables, directory
<1>4. DirectoryInv' /\ HistoryInv'
  BY <1>2, DirectoryStays DEF IInv
<1> QED BY <1>1, <1>2, <1>3, <1>4, SaveFailsStep

\* A Save whose record is written goes on.
LEMMA SaveMoves ==
  ASSUME NEW s, NEW t, NEW pc \in Written, OwnerOK(s), s.pc \in Written, t = WithPc(s, pc),
         UNCHANGED <<ssts, history>>, manifest'.recs = manifest.recs,
         ~damaged /\ pc # "sync" => manifest'.synced = Len(manifest.recs),
         pc = "tmp" => current'.name = "absent", pc = "renamed" => current'.name # "absent",
         manifest'.name # "absent", pc \in {"tmp", "renamed"} => manifest'.name = "durable"
  PROVE  OwnerOK(t)'
<1> USE Zenon
<1>1. /\ pc \in Saving /\ pc # "load" /\ pc # "open"
      /\ s.pc \in Saving /\ s.pc # "load" /\ s.pc # "open"
  BY SaveStates
<1>2. obsolete' = obsolete /\ committed' = committed /\ damaged' = damaged /\ ssts' = ssts
  BY SMT DEF history
<1>3. /\ ObjectOK(t)' /\ t.pc = pc /\ t.edit = s.edit /\ t.persisted = s.persisted
      /\ t.built = s.built /\ t.saving = s.saving
  BY <1>1, <1>2, SaveGoesOn DEF OwnerOK
<1>4. NamesOK(t)'
  BY <1>3 DEF NamesOK
<1>5. /\ Intact' = Intact /\ Tables(Intact)' = Tables(Intact) /\ VersionAt(Intact)' = VersionAt(Intact)
      /\ Len(manifest.recs)' = Len(manifest.recs)
  BY DEF Intact, Tables, VersionAt
<1>6. \A S : Data(S)' = Data(S)
  BY <1>2 DEF Data
<1>7. ASSUME ~damaged PROVE VersionsOK(t)' /\ JobsOK(t)' /\ SaveOK(t)'
  <2>1. VersionsOK(s) /\ JobsOK(s) /\ SaveOK(s)
    BY <1>1, <1>7 DEF OwnerOK
  <2>2. JobsOK(t)'
    BY <1>2, <1>3, <2>1, JobsStay
  <2>3. PICK T : T = Tables(Intact) /\ T = Tables(Intact)'
    BY <1>5
  <2>4. VersionsOK(t)'
    BY <1>1, <1>2, <1>3, <1>6, <2>1, <2>3 DEF VersionsOK
  <2>5. SaveOK(t)'
    BY <1>3, <1>5, <1>6, <1>7, <2>1, <2>3 DEF SaveOK
  <2> QED BY <2>2, <2>4, <2>5
<1> QED BY <1>2, <1>3, <1>4, <1>7 DEF OwnerOK

\* The record is synced.
LEMMA SaveSyncsStep ==
  ASSUME IInv, NEW i \in Instances, SaveSyncs(i) PROVE IInv'
<1> USE Zenon
<1>1. PICK s : s = db[i]
  OBVIOUS
<1>2. PICK t : t = WithPc(s, "dirsync")
  OBVIOUS
<1>3. /\ s.pc = "sync" /\ s.pc \in Written /\ s.pc # "closed" /\ "dirsync" \in Written
      /\ "dirsync" \notin {"tmp", "renamed"} /\ "dirsync" # "tmp" /\ "dirsync" # "renamed"
  BY <1>1, SMT DEF SaveSyncs, At, Written
<1>4. /\ owner' = owner /\ UNCHANGED <<ssts, history>> /\ ssts' = ssts /\ current' = current
      /\ manifest' = FsyncFile(manifest) /\ db' = [db EXCEPT ![i] = t]
  BY <1>1, <1>2 DEF SaveSyncs, Goes, WithPc
<1>5. /\ owner = i /\ OwnerOK(s) /\ \A j \in Instances : j # i => db[j] = Closed
  BY <1>1, <1>3, WorkingObject
<1>6. /\ ManifestOK(manifest') /\ Narrows(manifest, manifest') /\ manifest'.recs = manifest.recs
      /\ manifest'.name = manifest.name /\ manifest'.synced = Len(manifest.recs)
  <2>1. ManifestOK(manifest)
    BY DEF IInv, DirectoryInv
  <2> QED BY <1>4, <2>1, SyncNarrows
<1>7. DirectoryInv'
  BY <1>4, <1>6 DEF IInv, DirectoryInv
<1>8. HistoryInv'
  <2>1. /\ HistoryInv
        /\ committed => manifest.name = "durable" /\ current.name = "durable"
    BY DEF IInv, HistoryInv
  <2> QED BY <1>4, <1>6, <2>1, HistoryStays
<1>9. manifest.name # "absent"
  BY <1>3, <1>5 DEF OwnerOK, NamesOK
<1>10. OwnerOK(t)'
  BY <1>2, <1>3, <1>4, <1>5, <1>6, <1>9, SaveMoves
<1>11. ObjectsInv'
  BY <1>4, <1>5, <1>10, OwnerSteps DEF IInv
<1> QED BY <1>7, <1>8, <1>11 DEF IInv

\* CURRENT is installed.
LEMMA WriteCurrentFileStep ==
  ASSUME IInv, NEW i \in Instances, WriteCurrentFile(i) PROVE IInv'
<1> USE Zenon
<1>1. PICK s : s = db[i]
  OBVIOUS
<1>2. PICK t : t = WithPc(s, "renamed")
  OBVIOUS
<1>3. /\ s.pc = "tmp" /\ s.pc \in Written /\ s.pc # "closed" /\ "renamed" \in Written
      /\ "renamed" \in {"tmp", "renamed"} /\ "renamed" # "tmp" /\ "tmp" \in {"tmp", "renamed"}
      /\ "tmp" # "sync"
  BY <1>1, SMT DEF WriteCurrentFile, At, Written
<1>4. /\ owner' = owner /\ UNCHANGED <<ssts, history>> /\ ssts' = ssts /\ manifest' = manifest
      /\ current' = [name |-> "linked", content |-> "synced"] /\ db' = [db EXCEPT ![i] = t]
  BY <1>1, <1>2 DEF WriteCurrentFile, Goes, WithPc
<1>5. /\ owner = i /\ OwnerOK(s) /\ \A j \in Instances : j # i => db[j] = Closed
  BY <1>1, <1>3, WorkingObject
<1>6. CurrentOK(current') /\ current'.name # "absent" /\ current'.name = "linked"
  BY <1>4, SMT DEF CurrentOK
<1>7. manifest.name = "durable" /\ current.name = "absent" /\ manifest.name # "absent"
  <2>1. manifest.name = "durable" /\ current.name = "absent"
    BY <1>3, <1>5 DEF OwnerOK, NamesOK
  <2> QED BY <2>1, SMT
<1>8. ~committed
  <2>1. committed => current.name = "durable"
    BY DEF IInv, HistoryInv
  <2> QED BY <1>7, <2>1, SMT
<1>9. DirectoryInv'
  BY <1>4, <1>6 DEF IInv, DirectoryInv
<1>10. HistoryInv'
  <2>1. HistoryInv
    BY DEF IInv
  <2> QED BY <1>4, <1>8, <2>1, HistoryStays
<1>11. OwnerOK(t)'
  <2>1. ~damaged => manifest.synced = Len(manifest.recs)
    BY <1>3, <1>5 DEF OwnerOK, SaveOK
  <2> QED BY <1>2, <1>3, <1>4, <1>5, <1>6, <1>7, <2>1, SaveMoves
<1>12. ObjectsInv'
  BY <1>4, <1>5, <1>11, OwnerSteps DEF IInv
<1> QED BY <1>9, <1>10, <1>12 DEF IInv

\* The object after Save has returned OK.
Returned(s, x, G) ==
  [[s EXCEPT !.built = @ \ {s.saving}, !.saving = NoJob, !.pc = "open"]
     EXCEPT !.edit = x, !.persisted = s.edit, !.garbage = G]

\* Save returns OK.  Nothing but the version that was saved can be read any more.
LEMMA SaveReturnsStep ==
  ASSUME IInv, NEW i \in Instances, db[i].pc \in {"dirsync", "renamed"}, SaveReturns(i),
         FsyncDirectory(manifest, current), Present(current), UNCHANGED <<ssts, owner>>
  PROVE  IInv'
\* It is at rest, and the version that it saved is the durable one.
<1>ReturnedObject.
  ASSUME NEW s \in Objects, NEW x \in TableVersions, NEW G \in SUBSET FileNumbers, NEW t,
         t = Returned(s, x, G)
  PROVE  /\ t \in Objects /\ t.pc = "open" /\ t.edit = x /\ t.persisted = s.edit
         /\ t.built = s.built \ {s.saving} /\ t.saving = NoJob /\ t.garbage = G
  <2> USE <1>ReturnedObject
  <2> USE Zenon
  <2>1. PICK u : u = WithEdit(WithPc(WithSaving(WithBuilt(s, s.built \ {s.saving}), NoJob), "open"), x)
    OBVIOUS
  <2>2. PICK e : e = s.edit
    OBVIOUS
  <2>3. PICK v : v = WithPersisted(u, e)
    OBVIOUS
  <2>4. t = WithGarbage(v, G)
    BY <2>1, <2>2, <2>3 DEF Returned, WithEdit, WithPc, WithSaving, WithBuilt, WithPersisted,
         WithGarbage
  <2>5. PICK B : B = s.built \ {s.saving}
    OBVIOUS
  <2>6. /\ Shaped(u) /\ u.pc = "open" /\ u.edit = x /\ u.built = B /\ u.saving = NoJob
        /\ u.error = s.error
    BY ONLY s \in Objects, x \in TableVersions, <2>1, <2>5, DoneFields, SMT
  <2>7. /\ Shaped(v) /\ v.pc = "open" /\ v.edit = x /\ v.built = B /\ v.saving = NoJob
        /\ v.error = s.error /\ v.persisted = e
    BY ONLY <2>3, <2>6, PersistedChanges, SMT
  <2>8. /\ Shaped(t) /\ t.pc = "open" /\ t.edit = x /\ t.built = B /\ t.saving = NoJob
        /\ t.error = s.error /\ t.persisted = e /\ t.garbage = G
    BY ONLY <2>4, <2>7, GarbageChanges, SMT
  <2>9. t \in Objects
    <3>1. e \in TableVersions /\ B \in SUBSET TableJobs /\ s.error \in BOOLEAN
      BY <2>2, <2>5, ObjectFields
    <3>2. "open" \in {"load", "open"} \cup Saving /\ NoJob \in TableJobs \cup {NoJob}
      OBVIOUS
    <3> QED BY <2>8, <3>1, <3>2, FieldsOfObject
  <2> QED BY <2>2, <2>5, <2>8, <2>9
\* The jobs that are left when one is saved: a flush and a compaction do not get in
\* each other's way.
<1>JobsAfterSave.
  ASSUME HistoryInv, NEW s, OwnerOK(s), ~damaged, s.pc \in Saving, NEW t, ssts' = ssts,
         t.built = s.built \ {s.saving}, t.persisted = s.edit,
         obsolete' = obsolete \cup (Nums(s.persisted.files) \ Nums(s.edit.files))
  PROVE  JobsOK(t)'
  <2> USE <1>JobsAfterSave
  <2> USE Zenon
  <2> DEFINE P == Nums(s.persisted.files)
             E == Nums(s.edit.files)
             g == s.saving
  <2>1. JobsOK(s)
    BY DEF OwnerOK
  <2>2. ASSUME NEW j \in t.built PROVE JobOK(t, j)'
    <3>1. j \in s.built /\ j # g
      BY <2>2
    <3>2. /\ g \in s.built /\ E = (P \ g.inputs) \cup {g.num}
      <4>1. g # NoJob
        BY <3>1 DEF OwnerOK, ObjectOK
      <4> QED BY <4>1, SavedTables
    <3>3. /\ j.num \in DOMAIN ssts /\ j.num \notin obsolete /\ j.num \notin P
          /\ j.inputs \subseteq P /\ Data(j.inputs) \subseteq ssts[j.num]
      BY <2>1, <3>1 DEF JobsOK, JobOK
    <3>4. g.num # j.num /\ (g.inputs = {}) # (j.inputs = {})
      BY <2>1, <3>1, <3>2 DEF JobsOK
    <3>5. Data(j.inputs)' = Data(j.inputs)
      BY DEF Data
    <3>6. j.num \notin obsolete' \cup E /\ j.inputs \subseteq E
      <4> HIDE DEF P, E, g
      <4>1. j.num \notin E
        BY <3>2, <3>3, <3>4
      <4>2. j.inputs \subseteq E
        <5>1. CASE j.inputs = {}
          BY <5>1
        <5>2. CASE j.inputs # {}
          <6>1. g.inputs = {}
            BY <3>4, <5>2
          <6> QED BY <3>2, <3>3, <6>1
        <5> QED BY <5>1, <5>2
      <4>3. obsolete' = obsolete \cup (P \ E)
        BY DEF P, E
      <4> QED BY <3>3, <4>1, <4>2, <4>3
    <3> QED BY <3>3, <3>5, <3>6 DEF JobOK
  <2> QED BY <2>1, <2>2 DEF JobsOK
<1> USE Zenon
<1>1. PICK s : s = db[i]
  OBVIOUS
<1>2. /\ s.pc \in Written /\ s.pc \in Saving /\ s.pc # "closed" /\ s.pc # "load" /\ s.pc # "open"
      /\ s.pc # "sync" /\ s.pc \in {"dirsync", "renamed"}
  <2>1. s.pc \in {"dirsync", "renamed"} /\ s.pc # "sync" /\ s.pc \in Written
    BY <1>1, SMT DEF Written
  <2> QED BY <2>1, SaveStates
<1>3. /\ owner = i /\ OwnerOK(s) /\ s \in Objects /\ \A j \in Instances : j # i => db[j] = Closed
  BY <1>1, <1>2, WorkingObject
<1>4. PICK P : P = Nums(s.persisted.files)
  OBVIOUS
<1>5. PICK E : E = Nums(s.edit.files)
  OBVIOUS
<1>6. PICK x : x = IF s.saving = NoJob THEN Recovered(s.edit) ELSE s.edit
  OBVIOUS
<1>7. PICK t : t = [[s EXCEPT !.built = @ \ {s.saving}, !.saving = NoJob, !.pc = "open"]
                      EXCEPT !.edit = x, !.persisted = s.edit, !.garbage = s.garbage \cup (P \ E)]
  OBVIOUS
<1>8. /\ db' = [db EXCEPT ![i] = t] /\ acked' = Data(E) /\ obsolete' = obsolete \cup (P \ E)
      /\ committed' = TRUE /\ damaged' = damaged /\ ssts' = ssts /\ owner' = i
  <2>1. [[s EXCEPT !.built = @ \ {s.saving}, !.saving = NoJob, !.pc = "open"]
           EXCEPT !.edit = x, !.persisted = s.edit, !.garbage = @ \cup (P \ E)] = t
    BY <1>3, <1>7, ObjectFields, SMT DEF Shaped
  <2> QED BY <1>1, <1>3, <1>4, <1>5, <1>6, <2>1 DEF SaveReturns, JobDone, Bootstraps, Data
<1>9. /\ s.edit \in TableVersions /\ s.persisted \in TableVersions /\ s.garbage \subseteq FileNumbers
      /\ P \subseteq FileNumbers /\ E \subseteq FileNumbers
  <2>1. s.edit \in TableVersions /\ s.persisted \in TableVersions /\ s.garbage \subseteq FileNumbers
    BY <1>3, ObjectFields
  <2> QED BY <1>4, <1>5, <2>1, VersionFields
<1>10. /\ x \in TableVersions /\ x.files = s.edit.files /\ s.edit.next <= x.next
  <2>1. s.edit.next \in Nat
    BY <1>9, VersionFields
  <2>2. s.edit.next <= s.edit.next
    BY <2>1, SMT
  <2>3. DOMAIN ssts \subseteq FileNumbers
    BY DEF IInv, DirectoryInv
  <2> QED BY <1>6, <1>9, <2>2, <2>3, RecoveredVersion
<1>11. /\ t \in Objects /\ t.pc = "open" /\ t.edit = x /\ t.persisted = s.edit
       /\ t.built = s.built \ {s.saving} /\ t.saving = NoJob /\ t.garbage = s.garbage \cup (P \ E)
  <2>1. PICK G \in SUBSET FileNumbers : G = s.garbage \cup (P \ E)
    BY <1>9
  <2>2. t = Returned(s, x, G)
    BY <1>7, <2>1 DEF Returned
  <2>3. s \in Objects /\ x \in TableVersions /\ G \in SUBSET FileNumbers
    BY <1>3, <1>10, <2>1
  <2>4. /\ t \in Objects /\ t.pc = "open" /\ t.edit = x /\ t.persisted = s.edit
        /\ t.built = s.built \ {s.saving} /\ t.saving = NoJob /\ t.garbage = G
    BY ONLY <2>2, <2>3, <1>ReturnedObject, SMT
  <2> QED BY <2>1, <2>4
<1>12. /\ ManifestOK(manifest') /\ CurrentOK(current') /\ manifest'.recs = manifest.recs
       /\ manifest'.synced = manifest.synced /\ manifest'.name = "durable" /\ current'.name = "durable"
  <2>1. ManifestOK(manifest) /\ CurrentOK(current) /\ current.name # "absent"
    BY DEF IInv, DirectoryInv, Present
  <2>2. manifest.name # "absent"
    BY <1>2, <1>3 DEF OwnerOK, NamesOK
  <2> QED BY <2>1, <2>2, DirectorySync
<1>13. DirectoryInv'
  BY <1>8, <1>12 DEF IInv, DirectoryInv
<1>14. PICK T : T = Tables(Intact) /\ T = Tables(Intact)'
  <2>1. Tables(Intact)' = Tables(Intact)
    BY <1>12 DEF Tables, Intact
  <2> QED BY <2>1
<1>15. \A S : Data(S)' = Data(S)
  BY <1>8 DEF Data
<1>16. ASSUME ~damaged
       PROVE  /\ T \subseteq DOMAIN ssts /\ P \subseteq DOMAIN ssts /\ E \subseteq DOMAIN ssts
              /\ obsolete \cap E = {} /\ obsolete \cap T = {} /\ (P \ E) \cap T = {}
              /\ Data(E) \subseteq Data(T) /\ Intact > 0 /\ VersionAt(Intact).next = s.edit.next
              /\ manifest.synced = Len(manifest.recs)
              /\ \A n \in DOMAIN ssts \cup obsolete : n < s.edit.next
  <2>1. VersionsOK(s) /\ SaveOK(s)
    BY <1>2, <1>3, <1>16 DEF OwnerOK
  <2>2. E \subseteq DOMAIN ssts /\ obsolete \cap E = {}
    BY <1>2, <1>3, <1>5, <1>16, SavedTables DEF IInv
  <2>3. obsolete \cap T = {}
    <3>1. CASE committed
      <4>1. Intact \in Readable
        BY ManifestFields DEF IInv, DirectoryInv, Intact, Readable
      <4> QED BY <1>14, <1>16, <3>1, <4>1 DEF IInv, HistoryInv, Keeps
    <3>2. CASE ~committed
      BY <3>2 DEF IInv, HistoryInv
    <3> QED BY <3>1, <3>2
  <2>4. /\ T \subseteq DOMAIN ssts /\ P \subseteq DOMAIN ssts
        /\ \A n \in DOMAIN ssts \cup obsolete : n < s.edit.next
    BY <1>4, <1>14, <2>1 DEF VersionsOK
  <2>5. /\ (P \ E) \cap T = {} /\ Data(E) \subseteq Data(T) /\ Intact > 0
        /\ VersionAt(Intact).next = s.edit.next /\ manifest.synced = Len(manifest.recs)
    BY <1>2, <1>4, <1>5, <1>14, <2>1 DEF SaveOK
  <2> QED BY <2>2, <2>3, <2>4, <2>5
<1>17. HistoryInv'
  <2>1. /\ committed' \in BOOLEAN /\ damaged' \in BOOLEAN /\ obsolete' \subseteq FileNumbers
    BY <1>8, <1>9 DEF IInv, HistoryInv
  <2>2. ASSUME ~damaged, NEW k \in Readable' PROVE Keeps(k)'
    <3>1. manifest'.synced = Len(manifest'.recs)
      BY <1>12, <1>16, <2>2
    <3>2. k = Cut(manifest'.recs)
      BY <1>12, <2>2, <3>1, AllSynced DEF Readable
    <3>3. k = Intact /\ Tables(k)' = T /\ VersionAt(k)' = VersionAt(Intact)
      BY <1>12, <1>14, <3>2 DEF Intact, Tables, VersionAt
    <3>4. \A n \in obsolete \cup (P \ E) : n < s.edit.next
      BY <1>16, <2>2
    <3>5. obsolete' \cap T = {} /\ acked' \subseteq Data(T)
      BY <1>8, <1>16, <2>2
    <3>6. k > 0 /\ VersionAt(k)'.next = s.edit.next
      BY <1>16, <2>2, <3>3
    <3> QED BY <1>8, <1>15, <1>16, <2>2, <3>3, <3>4, <3>5, <3>6 DEF Keeps
  <2> QED BY <1>8, <1>12, <2>1, <2>2 DEF HistoryInv
<1>18. OwnerOK(t)'
  <2>1. /\ "open" # "load" /\ "open" \notin Written /\ "open" \notin Saving
        /\ "open" \notin {"tmp", "renamed"} /\ "open" # "tmp" /\ "open" # "renamed"
    BY SMT DEF Written, Saving
  <2>2. ObjectOK(t)'
    <3>1. s.garbage \subseteq obsolete
      BY <1>3 DEF OwnerOK, ObjectOK
    <3>2. t.garbage \subseteq obsolete'
      BY <1>8, <1>11, <3>1
    <3> QED BY <1>11, <2>1, <3>2 DEF ObjectOK
  <2>3. NamesOK(t)'
    BY <1>11, <2>1 DEF NamesOK
  <2>4. ASSUME ~damaged PROVE JobsOK(t)'
    <3>1. obsolete' = obsolete \cup (Nums(s.persisted.files) \ Nums(s.edit.files))
      BY <1>4, <1>5, <1>8
    <3> QED BY <1>2, <1>3, <1>8, <1>11, <2>4, <3>1, <1>JobsAfterSave DEF IInv
  <2>5. ASSUME ~damaged PROVE VersionsOK(t)'
    <3>1. \A n \in DOMAIN ssts \cup obsolete \cup (P \ E) : n < x.next
      <4>1. \A n \in DOMAIN ssts \cup obsolete \cup (P \ E) : n < s.edit.next /\ n \in FileNumbers
        BY <1>9, <1>16, <2>5 DEF IInv, DirectoryInv, HistoryInv
      <4>2. \A n \in FileNumbers : n \in Nat
        BY ManifestParameters, SMT DEF FileNumbers
      <4>3. x.next \in Nat /\ s.edit.next \in Nat
        BY <1>9, <1>10, VersionFields
      <4>4. \A n, a, b \in Nat : n < a /\ a <= b => n < b
        BY SMT
      <4> QED BY <1>10, <4>1, <4>2, <4>3, <4>4
    <3>2. Nums(t.edit.files) = E /\ Nums(t.persisted.files) = E /\ t.edit.next = x.next
      BY <1>5, <1>10, <1>11
    <3>3. \A n \in DOMAIN ssts' \cup obsolete' : n < x.next
      BY <1>8, <3>1
    <3>4. obsolete' \cap E = {}
      BY <1>8, <1>16, <2>5
    <3> QED BY <1>8, <1>11, <1>14, <1>15, <1>16, <2>5, <3>2, <3>3, <3>4 DEF VersionsOK
  <2> QED BY <1>8, <1>11, <2>1, <2>2, <2>3, <2>4, <2>5 DEF OwnerOK
<1>19. ObjectsInv'
  BY <1>3, <1>8, <1>18, OwnerSteps DEF IInv
<1> QED BY <1>13, <1>17, <1>19 DEF IInv

\* The directory is synced: with CURRENT there Save returns, without it goes on.
LEMMA SaveSyncsDirectoryStep ==
  ASSUME IInv, NEW i \in Instances, SaveSyncsDirectory(i) PROVE IInv'
<1> USE Zenon
<1>1. PICK s : s = db[i]
  OBVIOUS
<1>2. /\ s.pc = "dirsync" /\ s.pc \in Written /\ s.pc # "closed" /\ s.pc # "sync"
      /\ "dirsync" \in {"dirsync", "renamed"}
  BY <1>1, SMT DEF SaveSyncsDirectory, At, Written
<1>3. CASE Present(current)
  <2>1. /\ SaveReturns(i) /\ FsyncDirectory(manifest, current) /\ UNCHANGED <<ssts, owner>>
    BY <1>3, SMT DEF SaveSyncsDirectory
  <2>2. db[i].pc \in {"dirsync", "renamed"}
    BY <1>1, <1>2
  <2> QED BY <1>3, <2>1, <2>2, SaveReturnsStep
<1>4. CASE ~Present(current)
  <2>1. PICK t : t = WithPc(s, "tmp")
    OBVIOUS
  <2>2. "tmp" \in Written /\ "tmp" # "renamed"
    BY SMT DEF Written
  <2>3. /\ owner' = owner /\ ssts' = ssts /\ UNCHANGED <<ssts, history>>
        /\ FsyncDirectory(manifest, current) /\ db' = [db EXCEPT ![i] = t] /\ current' = current
    BY <1>1, <1>4, <2>1 DEF SaveSyncsDirectory, Goes, WithPc, FsyncDirectory
  <2>4. /\ owner = i /\ OwnerOK(s) /\ \A j \in Instances : j # i => db[j] = Closed
    BY <1>1, <1>2, WorkingObject
  <2>5. ManifestOK(manifest) /\ CurrentOK(current) /\ manifest.name # "absent"
    BY <1>2, <2>4 DEF IInv, DirectoryInv, OwnerOK, NamesOK
  <2>6. /\ ManifestOK(manifest') /\ CurrentOK(current') /\ manifest'.recs = manifest.recs
        /\ manifest'.synced = manifest.synced /\ manifest'.name = "durable"
    BY <2>3, <2>5, DirectorySync
  <2>7. current'.name = "absent" /\ ~committed
    BY <1>4, <2>3 DEF Present, IInv, HistoryInv
  <2>8. DirectoryInv'
    BY <2>3, <2>6 DEF IInv, DirectoryInv
  <2>9. HistoryInv'
    BY <2>3, <2>7, HistoryStays DEF IInv
  <2>10. OwnerOK(t)'
    <3>1. ~damaged /\ "tmp" # "sync" => manifest'.synced = Len(manifest.recs)
      BY <1>2, <2>4, <2>6 DEF OwnerOK, SaveOK
    <3> QED BY <1>2, <2>1, <2>2, <2>3, <2>4, <2>6, <2>7, <3>1, SaveMoves
  <2>11. ObjectsInv'
    BY <2>3, <2>4, <2>10, OwnerSteps DEF IInv
  <2> QED BY <2>8, <2>9, <2>11 DEF IInv
<1> QED BY <1>3, <1>4

\* Save returns after CURRENT was installed.
LEMMA SaveEndsStep ==
  ASSUME IInv, NEW i \in Instances, SaveEnds(i) PROVE IInv'
<1>1. db[i].pc = "renamed" /\ db[i].pc # "closed" /\ "renamed" \in {"tmp", "renamed"}
  BY DEF SaveEnds, At
<1>2. /\ SaveReturns(i) /\ FsyncDirectory(manifest, current) /\ UNCHANGED <<ssts, owner>>
      /\ db[i].pc \in {"dirsync", "renamed"}
  BY <1>1 DEF SaveEnds
<1>3. Present(current)
  BY <1>1, WorkingObject, Zenon DEF OwnerOK, NamesOK, Present
<1> QED BY <1>2, <1>3, SaveReturnsStep, Zenon

-----------------------------------------------------------------------------
(***************************************************************************)
(* Flush and compaction.                                                   *)
(***************************************************************************)

\* The object when it begins to publish a job.
Publishing(s, j, e) == [s EXCEPT !.pc = "append", !.saving = j, !.edit = e]

\* A job is published: Save begins with the version that has its table instead of
\* its inputs.
LEMMA PublishesStep ==
  ASSUME IInv, NEW i \in Instances, Publishes(i) PROVE IInv'
\* It has changed nothing but the version that it saves.
<1>PublishingObject.
  ASSUME NEW s \in Objects, NEW j \in TableJobs, NEW e \in TableVersions, NEW t,
         t = Publishing(s, j, e)
  PROVE  /\ t \in Objects /\ t.pc = "append" /\ t.saving = j /\ t.edit = e
         /\ t.persisted = s.persisted /\ t.built = s.built /\ t.garbage = s.garbage
  <2> USE <1>PublishingObject
  <2> USE Zenon
  <2>1. PICK u : u = WithPc(s, "append")
    OBVIOUS
  <2>2. PICK v : v = WithSaving(u, j)
    OBVIOUS
  <2>3. t = WithEdit(v, e)
    BY <2>1, <2>2 DEF Publishing, WithPc, WithSaving, WithEdit
  <2>4. Shaped(s)
    BY ObjectFields
  <2>5. /\ Shaped(u) /\ u.pc = "append" /\ u.persisted = s.persisted /\ u.built = s.built
        /\ u.garbage = s.garbage /\ u.error = s.error
    BY ONLY <2>1, <2>4, PcChanges, SMT
  <2>6. /\ Shaped(v) /\ v.pc = "append" /\ v.persisted = s.persisted /\ v.built = s.built
        /\ v.garbage = s.garbage /\ v.error = s.error /\ v.saving = j
    BY ONLY <2>2, <2>5, SavingChanges, SMT
  <2>7. /\ Shaped(t) /\ t.pc = "append" /\ t.persisted = s.persisted /\ t.built = s.built
        /\ t.garbage = s.garbage /\ t.error = s.error /\ t.saving = j /\ t.edit = e
    BY ONLY <2>3, <2>6, EditChanges, SMT
  <2>8. t \in Objects
    <3>1. /\ s.persisted \in TableVersions /\ s.built \in SUBSET TableJobs
          /\ s.garbage \in SUBSET FileNumbers /\ s.error \in BOOLEAN
      BY ObjectFields
    <3>2. "append" \in {"load", "open"} \cup Saving /\ j \in TableJobs \cup {NoJob}
      BY DEF Saving
    <3> QED BY <2>7, <3>1, <3>2, FieldsOfObject
  <2> QED BY <2>7, <2>8
<1> USE Zenon
<1>1. PICK s : s = db[i]
  OBVIOUS
<1>2. PICK j \in s.built :
        db' = [db EXCEPT ![i] = Publishing(s, j, Version((Nums(s.edit.files) \ j.inputs) \cup {j.num},
                                                          s.edit.next))]
  <2>1. \E j \in db[i].built :
          db' = [db EXCEPT ![i] = [db[i] EXCEPT !.pc = "append", !.saving = j,
                   !.edit = Version((Nums(db[i].edit.files) \ j.inputs) \cup {j.num}, db[i].edit.next)]]
    BY DEF Publishes
  <2> QED BY <1>1, <2>1 DEF Publishing
<1>3. PICK S : S = (Nums(s.edit.files) \ j.inputs) \cup {j.num}
  OBVIOUS
<1>4. PICK e : e = Version(S, s.edit.next)
  OBVIOUS
<1>5. PICK t : t = Publishing(s, j, e)
  OBVIOUS
<1>6. /\ db' = [db EXCEPT ![i] = t] /\ owner' = owner /\ UNCHANGED <<directory, history>>
      /\ ssts' = ssts /\ manifest' = manifest /\ current' = current /\ obsolete' = obsolete
      /\ committed' = committed /\ damaged' = damaged
  <2>1. owner' = owner /\ UNCHANGED <<directory, history>>
    BY SMT DEF Publishes
  <2> QED BY <1>2, <1>3, <1>4, <1>5, <2>1 DEF directory, history
<1>7. /\ s.pc = "open" /\ s.pc # "closed" /\ s.pc # "load" /\ "append" # "load" /\ "append" # "open"
      /\ "append" \notin Written /\ "append" \notin {"tmp", "renamed"} /\ "append" # "tmp"
      /\ "append" # "renamed"
  BY <1>1, SMT DEF Publishes, Written
<1>8. /\ owner = i /\ OwnerOK(s) /\ s \in Objects /\ \A h \in Instances : h # i => db[h] = Closed
  BY <1>1, <1>7, WorkingObject
<1>9. j \in TableJobs /\ j.num \in FileNumbers /\ j.inputs \subseteq FileNumbers /\ j # NoJob
  <2>1. j \in TableJobs
    BY <1>2, <1>8, ObjectFields
  <2>2. j.num \in FileNumbers /\ j.inputs \subseteq FileNumbers
    BY <2>1, SMT DEF TableJobs
  <2>3. j.num # 0 /\ NoJob.num = 0
    BY <2>2, ManifestParameters, SMT DEF FileNumbers, NoJob
  <2> QED BY <2>1, <2>2, <2>3
<1>10. /\ e \in TableVersions /\ Nums(e.files) = S /\ e.next = s.edit.next
  <2>1. s.edit \in TableVersions
    BY <1>8, ObjectFields
  <2>2. s.edit.next \in Nat \ {0} /\ S \in SUBSET FileNumbers
    BY <1>3, <1>9, <2>1, VersionFields
  <2> QED BY <1>4, <2>2, VersionTypes
<1>11. /\ t \in Objects /\ t.pc = "append" /\ t.saving = j /\ t.edit = e
       /\ t.persisted = s.persisted /\ t.built = s.built /\ t.garbage = s.garbage
  BY ONLY <1>5, <1>8, <1>9, <1>10, <1>PublishingObject, SMT
<1>12. OwnerOK(t)'
  <2>1. ObjectOK(t)'
    <3>1. s.garbage \subseteq obsolete
      BY <1>8 DEF OwnerOK, ObjectOK
    <3> QED BY <1>2, <1>6, <1>7, <1>9, <1>11, <3>1 DEF ObjectOK
  <2>2. NamesOK(t)'
    BY <1>7, <1>11 DEF NamesOK
  <2>3. ASSUME ~damaged PROVE VersionsOK(t)'
    <3>1. VersionsOK(s)
      BY <1>7, <1>8, <2>3 DEF OwnerOK
    <3>2. Nums(s.edit.files) = Nums(s.persisted.files)
      BY <1>7, <3>1 DEF VersionsOK
    <3>3. Nums(t.edit.files) = (Nums(t.persisted.files) \ t.saving.inputs) \cup {t.saving.num}
      BY <1>3, <1>10, <1>11, <3>2
    <3>4. Tables(Intact)' = Tables(Intact) /\ \A Q : Data(Q)' = Data(Q)
      BY <1>6 DEF Tables, Intact, Data
    <3> QED BY <1>6, <1>7, <1>9, <1>10, <1>11, <3>1, <3>3, <3>4 DEF VersionsOK
  <2>4. ASSUME ~damaged PROVE JobsOK(t)'
    BY <1>6, <1>8, <1>11, <2>4, JobsStay DEF OwnerOK
  <2> QED BY <1>6, <1>7, <1>11, <2>1, <2>2, <2>3, <2>4 DEF OwnerOK
<1>13. ObjectsInv'
  BY <1>6, <1>8, <1>12, OwnerSteps DEF IInv
<1>14. DirectoryInv' /\ HistoryInv'
  BY <1>6, DirectoryStays DEF IInv
<1> QED BY <1>13, <1>14 DEF IInv

\* The object when a table is built.
Building(s, e, B) == [s EXCEPT !.edit = e, !.built = B]

\* It has one more job, and the next file number has gone up.
LEMMA BuildingObject ==
  ASSUME NEW s \in Objects, NEW e \in TableVersions, NEW B \in SUBSET TableJobs, NEW t,
         t = Building(s, e, B)
  PROVE  /\ t \in Objects /\ t.pc = s.pc /\ t.saving = s.saving /\ t.edit = e
         /\ t.persisted = s.persisted /\ t.built = B /\ t.garbage = s.garbage
<1> USE Zenon
<1>1. PICK u : u = WithEdit(s, e)
  OBVIOUS
<1>2. t = WithBuilt(u, B)
  BY <1>1 DEF Building, WithBuilt, WithEdit
<1>3. Shaped(s)
  BY ObjectFields
<1>4. /\ Shaped(u) /\ u.pc = s.pc /\ u.persisted = s.persisted /\ u.saving = s.saving
      /\ u.garbage = s.garbage /\ u.error = s.error /\ u.edit = e
  BY ONLY <1>1, <1>3, EditChanges, SMT
<1>5. /\ Shaped(t) /\ t.pc = s.pc /\ t.persisted = s.persisted /\ t.saving = s.saving
      /\ t.garbage = s.garbage /\ t.error = s.error /\ t.edit = e /\ t.built = B
  BY ONLY <1>2, <1>4, BuiltChanges, SMT
<1>6. t \in Objects
  <2>1. /\ s.persisted \in TableVersions /\ s.pc \in {"load", "open"} \cup Saving
        /\ s.saving \in TableJobs \cup {NoJob}
        /\ s.garbage \in SUBSET FileNumbers /\ s.error \in BOOLEAN
    BY ObjectFields
  <2> QED BY <1>5, <2>1, FieldsOfObject
<1> QED BY <1>5, <1>6

\* The version after a file number was given out.
LEMMA NextNumber ==
  ASSUME NEW e \in TableVersions, e.next <= MaxFile
  PROVE  /\ [e EXCEPT !.next = e.next + 1] \in TableVersions
         /\ [e EXCEPT !.next = e.next + 1].files = e.files
         /\ [e EXCEPT !.next = e.next + 1].next = e.next + 1
         /\ e.next \in FileNumbers
<1>1. e.next \in Nat \ {0} /\ MaxFile \in Nat
  BY ManifestParameters, VersionFields, Zenon
<1>2. e.next + 1 \in Nat \ {0} /\ e.next \in FileNumbers
  BY <1>1 DEF FileNumbers
<1>3. PICK n \in Nat \ {0} : n = e.next + 1
  BY <1>2
<1>4. /\ [e EXCEPT !.next = n] \in TableVersions /\ [e EXCEPT !.next = n].files = e.files
      /\ [e EXCEPT !.next = n].next = n
  BY DEF TableVersions
<1> QED BY <1>2, <1>3, <1>4, Zenon

\* The tables after one more is built: the others stay, and it has the data of its
\* inputs.
LEMMA BuiltTable ==
  ASSUME NEW n, NEW inputs, DirectoryInv, inputs \subseteq DOMAIN ssts, n \notin DOMAIN ssts,
         ssts' = [m \in DOMAIN ssts \cup {n} |->
                    IF m # n THEN ssts[m]
                    ELSE IF inputs = {} THEN {n} ELSE UNION {ssts[k] : k \in inputs}]
  PROVE  /\ DOMAIN ssts' = DOMAIN ssts \cup {n}
         /\ \A m \in DOMAIN ssts : ssts'[m] = ssts[m]
         /\ \A S \in SUBSET DOMAIN ssts : Data(S)' = Data(S)
         /\ Data(inputs)' \subseteq ssts'[n]
<1> USE Zenon
<1> DEFINE D == DOMAIN ssts
<1>1. DOMAIN ssts' = D \cup {n}
  OBVIOUS
<1>2. \A m \in D : ssts'[m] = ssts[m]
  OBVIOUS
<1>3. \A S \in SUBSET D : Data(S)' = Data(S)
  BY <1>2 DEF Data
<1>4. ssts'[n] = IF inputs = {} THEN {n} ELSE Data(inputs)
  BY DEF Data
<1>5. inputs = {} => Data(inputs) = {}
  BY DEF Data
<1> QED BY <1>1, <1>2, <1>3, <1>4, <1>5

\* A flush or a compaction builds a table with a number that was never used.
LEMMA BuildsStep ==
  ASSUME IInv, NEW i \in Instances, NEW inputs \in SUBSET Nums(db[i].edit.files), Builds(i, inputs)
  PROVE  IInv'
<1> USE Zenon
<1>1. PICK s : s = db[i]
  OBVIOUS
<1>2. PICK n : n = s.edit.next
  OBVIOUS
<1>3. PICK e : e = [s.edit EXCEPT !.next = n + 1]
  OBVIOUS
<1>4. PICK b : b = [num |-> n, inputs |-> inputs]
  OBVIOUS
<1>5. PICK B : B = s.built \cup {b}
  OBVIOUS
<1>6. PICK t : t = Building(s, e, B)
  OBVIOUS
<1>7. /\ s.pc = "open" /\ n <= MaxFile
      /\ \A j \in s.built : (j.inputs = {}) # (inputs = {})
      /\ ssts' = [m \in DOMAIN ssts \cup {n} |->
                    IF m # n THEN ssts[m]
                    ELSE IF inputs = {} THEN {n} ELSE UNION {ssts[k] : k \in inputs}]
      /\ manifest' = manifest /\ current' = current /\ owner' = owner /\ UNCHANGED history
  BY <1>1, <1>2 DEF Builds
<1>8. db' = [db EXCEPT ![i] = t]
  <2>1. db' = [db EXCEPT ![i] = [db[i] EXCEPT !.edit = [db[i].edit EXCEPT !.next = db[i].edit.next + 1],
                                   !.built = db[i].built \cup {[num |-> db[i].edit.next, inputs |-> inputs]}]]
    BY DEF Builds
  <2> QED BY <1>1, <1>2, <1>3, <1>4, <1>5, <1>6, <2>1 DEF Building
<1>9. /\ owner = i /\ OwnerOK(s) /\ s \in Objects /\ \A h \in Instances : h # i => db[h] = Closed
  BY <1>1, <1>7, WorkingObject
<1>10. acked' = acked /\ obsolete' = obsolete /\ committed' = committed /\ damaged' = damaged
  BY <1>7 DEF history
<1>11. /\ e \in TableVersions /\ e.files = s.edit.files /\ e.next = n + 1 /\ n \in FileNumbers
       /\ inputs \subseteq FileNumbers
  <2>1. s.edit \in TableVersions
    BY <1>9, ObjectFields
  <2> QED BY <1>1, <1>2, <1>3, <1>7, <2>1, NextNumber, VersionFields
<1>12. b \in TableJobs /\ b.num = n /\ b.inputs = inputs
  <2>1. inputs \in SUBSET FileNumbers
    BY <1>11
  <2> QED BY <1>4, <1>11, <2>1, SMT DEF TableJobs
<1>13. /\ t \in Objects /\ t.pc = s.pc /\ t.saving = s.saving /\ t.edit = e
       /\ t.persisted = s.persisted /\ t.built = B /\ t.garbage = s.garbage
  <2>1. B \in SUBSET TableJobs
    BY <1>5, <1>9, <1>12, ObjectFields
  <2> QED BY ONLY <1>6, <1>9, <1>11, <2>1, BuildingObject, SMT
<1>14. DirectoryInv'
  <2>1. ssts' = [m \in DOMAIN ssts' |-> ssts'[m]] /\ DOMAIN ssts' = DOMAIN ssts \cup {n}
    BY <1>7
  <2> QED BY <1>7, <1>11, <2>1 DEF IInv, DirectoryInv
<1>15. PICK P : P = Nums(s.persisted.files)
  OBVIOUS
<1>16. ASSUME ~damaged
       PROVE  /\ VersionsOK(s) /\ JobsOK(s) /\ P \subseteq DOMAIN ssts /\ inputs \subseteq P
              /\ n \notin DOMAIN ssts /\ n \notin obsolete
              /\ \A m \in DOMAIN ssts \cup obsolete : m < n
              /\ Nums(s.edit.files) = P
  <2>1. s.pc # "load" /\ s.pc = "open"
    BY <1>7, SMT
  <2>2. VersionsOK(s) /\ JobsOK(s)
    BY <1>9, <1>16, <2>1 DEF OwnerOK
  <2>3. P \subseteq DOMAIN ssts /\ \A m \in DOMAIN ssts \cup obsolete : m < n
    BY <1>2, <1>15, <2>2 DEF VersionsOK
  <2>4. Nums(s.edit.files) = P
    BY <1>15, <2>1, <2>2 DEF VersionsOK
  <2>5. ~(n < n)
    BY <1>11, SMT DEF FileNumbers
  <2> QED BY <1>1, <2>2, <2>3, <2>4, <2>5
<1>17. ASSUME ~damaged
       PROVE  /\ DOMAIN ssts' = DOMAIN ssts \cup {n}
              /\ \A m \in DOMAIN ssts : ssts'[m] = ssts[m]
              /\ \A S \in SUBSET DOMAIN ssts : Data(S)' = Data(S)
              /\ Data(inputs)' \subseteq ssts'[n]
  <2>1. inputs \subseteq DOMAIN ssts /\ n \notin DOMAIN ssts /\ DirectoryInv
    BY <1>16, <1>17 DEF IInv
  <2> QED BY <1>7, <2>1, BuiltTable
<1>18. HistoryInv'
  <2>1. /\ \A k : VersionAt(k)' = VersionAt(k) /\ Tables(k)' = Tables(k)
        /\ Readable' = Readable
    BY <1>7 DEF VersionAt, Tables, Readable
  <2>2. ASSUME committed, ~damaged, NEW k \in Readable PROVE Keeps(k)'
    <3>1. Keeps(k)
      BY <2>2 DEF IInv, HistoryInv
    <3>2. Data(Tables(k))' = Data(Tables(k)) /\ Tables(k) \subseteq DOMAIN ssts'
      <4>1. PICK S : S = Tables(k) /\ S = Tables(k)'
        BY <2>1
      <4> QED BY <1>17, <2>1, <2>2, <3>1, <4>1 DEF Keeps, Data
    <3> QED BY <1>10, <2>1, <3>1, <3>2 DEF Keeps
  <2> QED BY <1>7, <1>10, <2>1, <2>2 DEF IInv, HistoryInv
<1>19. ASSUME ~damaged PROVE VersionsOK(t)'
  <2>1. PICK S : S = Tables(Intact) /\ S = Tables(Intact)'
    BY <1>7 DEF Tables, Intact
  <2>2. /\ S \subseteq DOMAIN ssts /\ Data(P) \subseteq Data(S) /\ obsolete \cap P = {}
    BY <1>15, <1>16, <1>19, <2>1 DEF VersionsOK
  <2>3. \A m \in DOMAIN ssts' \cup obsolete' : m < n + 1
    <3>1. \A m \in DOMAIN ssts \cup obsolete \cup {n} : m \in Nat /\ (m < n \/ m = n)
      <4>1. \A m \in FileNumbers : m \in Nat
        BY ManifestParameters, SMT DEF FileNumbers
      <4> QED BY <1>11, <1>16, <1>19, <4>1 DEF IInv, DirectoryInv, HistoryInv
    <3>2. \A m \in Nat : m < n \/ m = n => m < n + 1
      BY <1>11, SMT DEF FileNumbers
    <3> QED BY <1>10, <1>17, <1>19, <3>1, <3>2
  <2>4. Data(P)' \subseteq Data(S)'
    BY <1>16, <1>17, <1>19, <2>2 DEF Data
  <2>5. /\ Nums(t.persisted.files) = P /\ Nums(t.edit.files) = P /\ t.edit.next = n + 1
        /\ t.pc = "open"
    BY <1>7, <1>11, <1>13, <1>15, <1>16, <1>19
  <2>6. Data(Tables(Intact))' = Data(S)'
    BY <2>1 DEF Data
  <2> QED BY <1>10, <1>16, <1>17, <1>19, <2>1, <2>2, <2>3, <2>4, <2>5, <2>6 DEF VersionsOK
<1>20. ASSUME ~damaged PROVE JobsOK(t)'
  <2>1. ASSUME NEW j \in s.built PROVE JobOK(t, j)' /\ j.num # n
    <3>1. JobOK(s, j)
      BY <1>16, <1>20 DEF JobsOK
    <3>2. j.inputs \in SUBSET DOMAIN ssts
      BY <1>15, <1>16, <1>20, <3>1 DEF JobOK
    <3>3. Data(j.inputs)' = Data(j.inputs)
      BY <1>17, <1>20, <3>2
    <3> QED BY <1>10, <1>13, <1>16, <1>17, <1>20, <3>1, <3>3 DEF JobOK
  <2>2. JobOK(t, b)'
    <3>1. Data(b.inputs)' = Data(inputs)'
      BY <1>12 DEF Data
    <3> QED BY <1>10, <1>12, <1>13, <1>15, <1>16, <1>17, <1>20, <3>1 DEF JobOK
  <2>3. \A j \in s.built : (j.inputs = {}) # (b.inputs = {}) /\ (b.inputs = {}) # (j.inputs = {})
    BY <1>7, <1>12
  <2>4. \A j, h \in s.built : h # j => h.num # j.num /\ (h.inputs = {}) # (j.inputs = {})
    BY <1>16, <1>20 DEF JobsOK
  <2>5. ASSUME NEW j \in B
        PROVE  /\ JobOK(t, j)'
               /\ \A h \in B : h # j => h.num # j.num /\ (h.inputs = {}) # (j.inputs = {})
    <3>1. CASE j \in s.built
      <4>1. \A h \in s.built : h # j => h.num # j.num /\ (h.inputs = {}) # (j.inputs = {})
        BY <2>4, <3>1
      <4>2. b.num # j.num /\ (b.inputs = {}) # (j.inputs = {})
        BY <1>12, <2>1, <2>3, <3>1
      <4> QED BY <1>5, <2>1, <3>1, <4>1, <4>2
    <3>2. CASE j = b
      <4>1. \A h \in s.built : h.num # b.num /\ (h.inputs = {}) # (b.inputs = {})
        BY <1>12, <2>1, <2>3
      <4> QED BY <1>5, <2>2, <3>2, <4>1
    <3> QED BY <1>5, <3>1, <3>2
  <2> QED BY <1>13, <2>5 DEF JobsOK
<1>21. OwnerOK(t)'
  <2>1. "open" # "load" /\ "open" \notin Saving /\ "open" \notin Written
    BY SMT DEF Saving, Written
  <2>2. ObjectOK(t)'
    BY <1>7, <1>9, <1>10, <1>13, <2>1 DEF OwnerOK, ObjectOK
  <2>3. NamesOK(t)'
    BY <1>7, <1>9, <1>13 DEF OwnerOK, NamesOK
  <2> QED BY <1>7, <1>10, <1>13, <1>19, <1>20, <2>1, <2>2, <2>3 DEF OwnerOK
<1>22. ObjectsInv'
  BY <1>7, <1>8, <1>9, <1>21, OwnerSteps DEF IInv
<1> QED BY <1>14, <1>18, <1>22 DEF IInv

\* A flush builds a table of its own.
LEMMA FlushesStep ==
  ASSUME IInv, NEW i \in Instances, Flushes(i) PROVE IInv'
<1> USE Zenon
<1>1. {} \in SUBSET Nums(db[i].edit.files)
  OBVIOUS
<1>2. Builds(i, {})
  BY DEF Flushes
<1> QED BY <1>1, <1>2, BuildsStep

\* A compaction builds a table of those of its inputs.
LEMMA CompactsStep ==
  ASSUME IInv, NEW i \in Instances, Compacts(i) PROVE IInv'
<1>1. PICK inputs \in SUBSET Nums(db[i].edit.files) : Builds(i, inputs)
  BY Zenon DEF Compacts
<1> QED BY <1>1, BuildsStep, Zenon

\* The files that a compaction removes are in no version that can be read, and in
\* none that is being saved.
LEMMA RemovesInputsStep ==
  ASSUME IInv, NEW i \in Instances, RemovesInputs(i) PROVE IInv'
<1> USE Zenon
<1>1. PICK s : s = db[i]
  OBVIOUS
<1>2. PICK G : G = s.garbage
  OBVIOUS
<1>3. PICK t : t = WithGarbage(s, {})
  OBVIOUS
<1>4. /\ G # {} /\ ssts' = [n \in DOMAIN ssts \ G |-> ssts[n]] /\ db' = [db EXCEPT ![i] = t]
      /\ manifest' = manifest /\ current' = current /\ owner' = owner /\ UNCHANGED history
  BY <1>1, <1>2, <1>3 DEF RemovesInputs, WithGarbage
<1>5. acked' = acked /\ obsolete' = obsolete /\ committed' = committed /\ damaged' = damaged
  BY <1>4 DEF history
<1>6. db[i] # Closed
  <2>1. Closed.garbage = {}
    BY SMT DEF Closed
  <2> QED BY <1>1, <1>2, <1>4, <2>1
<1>7. /\ owner = i /\ OwnerOK(s) /\ s \in Objects /\ \A h \in Instances : h # i => db[h] = Closed
  BY <1>1, <1>6, OnlyTheOwner DEF IInv, OwnerOK, ObjectOK
<1>8. G \subseteq obsolete /\ committed
  <2>1. G \subseteq obsolete
    BY <1>2, <1>7 DEF OwnerOK, ObjectOK
  <2> QED BY <1>4, <2>1 DEF IInv, HistoryInv
<1>9. /\ Shaped(t) /\ t.garbage = {} /\ t.pc = s.pc /\ t.edit = s.edit /\ t.persisted = s.persisted
      /\ t.built = s.built /\ t.saving = s.saving /\ t.error = s.error
  <2>1. Shaped(s)
    BY <1>7, ObjectFields
  <2> QED BY ONLY <1>3, <2>1, GarbageChanges, SMT
<1>10. t \in Objects
  <2>1. /\ s.pc \in {"load", "open"} \cup Saving /\ s.edit \in TableVersions
        /\ s.persisted \in TableVersions /\ s.built \in SUBSET TableJobs
        /\ s.saving \in TableJobs \cup {NoJob} /\ s.error \in BOOLEAN
    BY <1>7, ObjectFields
  <2> QED BY <1>9, <2>1, FieldsOfObject
<1>11. /\ DOMAIN ssts' = DOMAIN ssts \ G
       /\ \A n \in DOMAIN ssts \ G : ssts'[n] = ssts[n]
       /\ ssts' = [n \in DOMAIN ssts' |-> ssts'[n]]
  BY <1>4
<1>12. \A S \in SUBSET (DOMAIN ssts \ G) : Data(S)' = Data(S)
  BY <1>11 DEF Data
<1>13. DirectoryInv'
  BY <1>4, <1>11 DEF IInv, DirectoryInv
<1>14. /\ \A k : VersionAt(k)' = VersionAt(k) /\ Tables(k)' = Tables(k)
       /\ Readable' = Readable /\ Intact' = Intact /\ Intact \in Readable
  <2>1. Intact \in Readable
    BY ManifestFields DEF IInv, DirectoryInv, Intact, Readable
  <2> QED BY <1>4, <2>1 DEF VersionAt, Tables, Readable, Intact
<1>15. ASSUME ~damaged, NEW k \in Readable
       PROVE  /\ Tables(k) \subseteq DOMAIN ssts \ G /\ Data(Tables(k))' = Data(Tables(k))
              /\ Keeps(k)
  <2>1. Keeps(k)
    BY <1>8, <1>15 DEF IInv, HistoryInv
  <2>2. PICK S : S = Tables(k) /\ S = Tables(k)'
    BY <1>14
  <2>3. S \in SUBSET (DOMAIN ssts \ G)
    BY <1>8, <2>1, <2>2 DEF Keeps
  <2>4. Data(S)' = Data(S)
    BY <1>12, <2>3
  <2> QED BY <2>1, <2>2, <2>3, <2>4 DEF Data
<1>16. HistoryInv'
  <2>1. ASSUME ~damaged, NEW k \in Readable PROVE Keeps(k)'
    BY <1>5, <1>11, <1>14, <1>15, <2>1 DEF Keeps
  <2> QED BY <1>4, <1>5, <1>14, <2>1 DEF IInv, HistoryInv
<1>17. PICK P : P = Nums(s.persisted.files)
  OBVIOUS
<1>18. PICK E : E = Nums(s.edit.files)
  OBVIOUS
<1>19. ASSUME ~damaged, s.pc # "load" PROVE VersionsOK(t)' /\ P \subseteq DOMAIN ssts \ G
  <2>1. VersionsOK(s)
    BY <1>7, <1>19 DEF OwnerOK
  <2>2. P \in SUBSET (DOMAIN ssts \ G)
    BY <1>8, <1>17, <2>1 DEF VersionsOK
  <2>3. Data(P)' = Data(P)
    BY <1>12, <2>2
  <2>4. Tables(Intact)' = Tables(Intact) /\ Data(Tables(Intact))' = Data(Tables(Intact))
        /\ Tables(Intact) \subseteq DOMAIN ssts \ G
    BY <1>14, <1>15, <1>19 DEF Tables, Data
  <2>5. /\ Data(P) \subseteq Data(Tables(Intact)) /\ obsolete \cap P = {}
        /\ \A n \in DOMAIN ssts \cup obsolete : n < s.edit.next
        /\ E = IF s.pc = "open" THEN P
               ELSE IF s.saving = NoJob THEN DOMAIN ssts
               ELSE (P \ s.saving.inputs) \cup {s.saving.num}
    BY <1>17, <1>18, <2>1 DEF VersionsOK
  <2>6. s.pc \in Saving => s.saving # NoJob
    BY <1>7, <1>8 DEF OwnerOK, ObjectOK
  <2>7. s.pc = "open" \/ s.pc \in Saving
    BY <1>7, <1>19, ObjectFields
  <2>8. E = IF t.pc = "open" THEN P
            ELSE IF t.saving = NoJob THEN DOMAIN ssts'
            ELSE (P \ t.saving.inputs) \cup {t.saving.num}
    BY <1>9, <2>5, <2>6, <2>7
  <2>9. /\ Nums(t.persisted.files) = P /\ Nums(t.edit.files) = E
        /\ \A n \in DOMAIN ssts' \cup obsolete' : n < t.edit.next
    BY <1>5, <1>9, <1>11, <1>17, <1>18, <2>5
  <2>10. P \subseteq DOMAIN ssts' /\ Tables(Intact)' \subseteq DOMAIN ssts'
    BY <1>11, <2>2, <2>4
  <2> QED BY <1>5, <2>2, <2>3, <2>4, <2>5, <2>8, <2>9, <2>10 DEF VersionsOK
<1>20. ASSUME ~damaged PROVE JobsOK(t)'
  <2>1. JobsOK(s)
    BY <1>7, <1>20 DEF OwnerOK
  <2>2. ASSUME NEW j \in s.built PROVE JobOK(t, j)'
    <3>1. JobOK(s, j)
      BY <2>1, <2>2 DEF JobsOK
    <3>2. s.pc # "load"
      <4>1. Loading.built = {}
        BY NewObjects
      <4> QED BY <1>7, <2>2, <4>1 DEF OwnerOK, ObjectOK
    <3>3. j.inputs \in SUBSET (DOMAIN ssts \ G)
      BY <1>17, <1>19, <1>20, <3>1, <3>2 DEF JobOK
    <3>4. Data(j.inputs)' = Data(j.inputs)
      BY <1>12, <3>3
    <3>5. j.num \in DOMAIN ssts \ G
      BY <1>8, <3>1 DEF JobOK
    <3> QED BY <1>5, <1>9, <1>11, <3>1, <3>4, <3>5 DEF JobOK
  <2> QED BY <1>9, <2>1, <2>2 DEF JobsOK
<1>21. ASSUME ~damaged, s.pc \in Written PROVE SaveOK(t)'
  <2>1. SaveOK(s) /\ s.pc \in Saving
    BY <1>7, <1>21, SaveStates DEF OwnerOK
  <2>2. E \subseteq DOMAIN ssts /\ obsolete \cap E = {}
    BY <1>7, <1>18, <1>21, <2>1, SavedTables DEF IInv
  <2>3. E \in SUBSET (DOMAIN ssts \ G)
    BY <1>8, <2>2
  <2>4. Data(E)' = Data(E)
    BY <1>12, <2>3
  <2>5. Tables(Intact)' = Tables(Intact) /\ Data(Tables(Intact))' = Data(Tables(Intact))
        /\ VersionAt(Intact)' = VersionAt(Intact)
    BY <1>14, <1>15, <1>21 DEF Tables, Data, VersionAt
  <2>6. Nums(t.persisted.files) = P /\ Nums(t.edit.files) = E /\ t.edit.next = s.edit.next
    BY <1>9, <1>17, <1>18
  <2> QED BY <1>4, <1>9, <1>14, <1>17, <1>18, <2>1, <2>4, <2>5, <2>6 DEF SaveOK
<1>22. OwnerOK(t)'
  <2>1. ObjectOK(t)'
    <3>1. s.pc # "load"
      <4>1. Loading.garbage = {}
        BY NewObjects
      <4> QED BY <1>2, <1>4, <1>7, <4>1 DEF OwnerOK, ObjectOK
    <3> QED BY <1>5, <1>7, <1>9, <1>10, <3>1 DEF OwnerOK, ObjectOK
  <2>2. NamesOK(t)'
    BY <1>4, <1>7, <1>9 DEF OwnerOK, NamesOK
  <2> QED BY <1>5, <1>9, <1>19, <1>20, <1>21, <2>1, <2>2 DEF OwnerOK
<1>23. ObjectsInv'
  BY <1>4, <1>7, <1>22, OwnerSteps DEF IInv
<1> QED BY <1>13, <1>16, <1>23 DEF IInv

-----------------------------------------------------------------------------
(***************************************************************************)
(* Close and the crashes.                                                  *)
(***************************************************************************)

\* Close releases the lock.
LEMMA CloseStep ==
  ASSUME IInv, NEW i \in Instances, Close(i) PROVE IInv'
<1> USE Zenon
<1>1. DirectoryInv' /\ HistoryInv'
  BY DirectoryStays DEF IInv, Close
<1>2. db[i].pc # "closed" /\ Releases(i)
  BY SMT DEF Close
<1>3. db[i] # Closed
  BY <1>2, NewObjects
<1> QED BY <1>1, <1>2, <1>3, CloseSteps

\* A process that is killed loses the lock; the directory stays.
LEMMA KilledStep ==
  ASSUME IInv, NEW i \in Instances, Killed(i) PROVE IInv'
<1> USE Zenon
<1>1. DirectoryInv' /\ HistoryInv'
  BY DirectoryStays DEF IInv, Killed
<1>2. db[i].pc # "closed" /\ Releases(i)
  BY SMT DEF Killed
<1>3. db[i] # Closed
  BY <1>2, NewObjects
<1> QED BY <1>1, <1>2, <1>3, CloseSteps

\* CURRENT after a power failure: its content is synced before it has its name.
LEMMA CrashedCurrent ==
  ASSUME NEW c, CurrentOK(c), NEW c2 \in CurrentImages(c)
  PROVE  /\ CurrentOK(c2)
         /\ c.name = "durable" => c2.name = "durable"
<1> USE Zenon
<1> DEFINE synced == [name |-> "durable", content |-> "synced"]
<1>1. CurrentOK(synced) /\ CurrentOK(NoFile) /\ synced.name = "durable"
  BY SMT DEF CurrentOK
<1>2. CASE c = NoFile
  <2>1. c.name = "absent" /\ c.name # "durable" /\ c.name # "linked"
    BY <1>2, SMT DEF NoFile
  <2>2. CurrentImages(c) = {NoFile}
    BY <2>1 DEF CurrentImages
  <2> QED BY <1>1, <2>1, <2>2
<1>3. CASE c \in [name : {"linked", "durable"}, content : {"synced"}]
  <2>1. c.name \in {"linked", "durable"} /\ c.content = "synced" /\ c.content # "written" /\ c.name # "absent"
    BY <1>3, SMT
  <2>2. \A x \in IF c.content = "written" THEN {"synced", "empty"} ELSE {c.content} : x = "synced"
    BY <2>1
  <2>3. CASE c.name = "durable"
    <3>1. c.name # "linked"
      BY <2>3, SMT
    <3>2. CurrentImages(c) = {[name |-> "durable", content |-> s] :
                 s \in IF c.content = "written" THEN {"synced", "empty"} ELSE {c.content}}
      BY <2>1, <2>3, <3>1 DEF CurrentImages
    <3>3. c2 = synced
      BY <2>2, <3>2
    <3> QED BY <1>1, <3>3
  <2>4. CASE c.name = "linked"
    <3>1. c.name # "durable"
      BY <2>4, SMT
    <3>2. CurrentImages(c) = {[name |-> "durable", content |-> s] :
                 s \in IF c.content = "written" THEN {"synced", "empty"} ELSE {c.content}} \cup {NoFile}
      BY <2>1, <2>4, <3>1 DEF CurrentImages
    <3>3. c2 = synced \/ c2 = NoFile
      BY <2>2, <3>2
    <3> QED BY <1>1, <3>1, <3>3
  <2> QED BY <2>1, <2>3, <2>4
<1> QED BY <1>2, <1>3 DEF CurrentOK

\* A directory that a crash can leave: once a Save has returned OK both files are
\* there, and what is read of MANIFEST could have been read before.
LEMMA CrashedDirectory ==
  ASSUME IInv, NEW m \in Images(manifest) \cup {manifest},
         NEW c \in CurrentImages(current) \cup {current}
  PROVE  /\ m.name = "absent" \/ Narrows(manifest, m)
         /\ ManifestOK(m) /\ CurrentOK(c)
         /\ committed => m.name = "durable" /\ c.name = "durable" /\ Narrows(manifest, m)
<1> USE Zenon
<1>1. /\ ManifestOK(manifest) /\ CurrentOK(current) /\ Narrows(manifest, manifest)
      /\ committed => manifest.name = "durable" /\ current.name = "durable"
  BY SameRecords DEF IInv, DirectoryInv, HistoryInv
<1>2. /\ ManifestOK(m) /\ (m.name = "absent" \/ Narrows(manifest, m))
      /\ manifest.name = "durable" => m.name = "durable"
  BY <1>1, PowerFailureNarrows
<1>3. CurrentOK(c) /\ (current.name = "durable" => c.name = "durable")
  BY <1>1, CrashedCurrent
<1>4. m.name = "durable" => m.name # "absent"
  BY SMT
<1> QED BY <1>1, <1>2, <1>3, <1>4

\* Power fails.
LEMMA PowerFailsStep ==
  ASSUME IInv, PowerFails PROVE IInv'
<1> USE Zenon
<1>1. /\ manifest' \in Images(manifest) /\ current' \in CurrentImages(current)
      /\ owner' = None /\ db' = [i \in Instances |-> Closed] /\ ssts' = ssts
      /\ UNCHANGED <<ssts, history>>
  BY SMT DEF PowerFails
<1>2. PICK m : m = manifest'
  OBVIOUS
<1>3. PICK c : c = current'
  OBVIOUS
<1>4. /\ ManifestOK(m) /\ CurrentOK(c)
      /\ committed => m.name = "durable" /\ c.name = "durable" /\ Narrows(manifest, m)
  BY <1>1, <1>2, <1>3, CrashedDirectory
<1>5. DirectoryInv'
  BY <1>1, <1>2, <1>3, <1>4 DEF IInv, DirectoryInv
<1>6. HistoryInv'
  BY <1>1, <1>2, <1>3, <1>4, HistoryStays DEF IInv
<1>7. ObjectsInv'
  <2>1. None \notin Instances
    BY ManifestParameters
  <2>2. \A i \in Instances : db'[i] = Closed
    BY <1>1
  <2>3. db' = [i \in Instances |-> db'[i]]
    BY <1>1, <2>2
  <2> QED BY <1>1, <2>1, <2>2, <2>3 DEF ObjectsInv
<1> QED BY <1>5, <1>6, <1>7 DEF IInv

-----------------------------------------------------------------------------
(***************************************************************************)
(* The theorems.                                                           *)
(***************************************************************************)

\* A directory without MANIFEST, whatever SSTables it has.
LEMMA InitIInv == Init => IInv
<1> USE Zenon
<1> SUFFICES ASSUME Init PROVE IInv
  BY SMT
<1>1. DirectoryInv
  <2>1. PICK S \in FirstTables : ssts = [n \in S |-> {n}]
    BY DEF Init
  <2>2. DOMAIN ssts = S /\ S \subseteq FileNumbers
    BY <2>1, ManifestParameters DEF FileNumbers
  <2>3. ssts = [n \in DOMAIN ssts |-> ssts[n]]
    BY <2>1, <2>2
  <2>4. manifest = [name |-> "absent", recs |-> <<>>, synced |-> 0, stale |-> FALSE]
    BY DEF Init
  <2>5. ManifestOK(manifest)
    <3>1. <<>> \in Seq(LogRecords) /\ Len(<<>>) = 0 /\ 0 <= 0
      BY SMT
    <3>2. manifest \in ManifestFiles
      BY <2>4, <3>1, SMT DEF ManifestFiles
    <3> QED BY <2>4, <3>1, <3>2 DEF ManifestOK
  <2>6. CurrentOK(current)
    BY DEF Init, CurrentOK
  <2> QED BY <2>2, <2>3, <2>5, <2>6 DEF DirectoryInv
<1>2. HistoryInv
  BY DEF Init, HistoryInv
<1>3. ObjectsInv
  <2>1. None \notin Instances
    BY ManifestParameters
  <2>2. owner = None /\ db = [i \in Instances |-> Closed]
    BY DEF Init
  <2>3. \A i \in Instances : db[i] = Closed
    BY <2>2
  <2>4. db = [i \in Instances |-> db[i]]
    BY <2>2, <2>3
  <2> QED BY <2>1, <2>2, <2>3, <2>4 DEF ObjectsInv
<1> QED BY <1>1, <1>2, <1>3 DEF IInv

\* A step that changes nothing.
LEMMA StutterIInv == ASSUME IInv, UNCHANGED vars PROVE IInv'
<1> USE Zenon
<1>1. /\ ssts' = ssts /\ manifest' = manifest /\ current' = current /\ owner' = owner /\ db' = db
      /\ UNCHANGED <<directory, history>>
  BY SMT DEF vars, directory, history
<1>2. DirectoryInv' /\ HistoryInv'
  BY <1>1, DirectoryStays DEF IInv
<1>3. ObjectsInv'
  <2>1. /\ acked' = acked /\ obsolete' = obsolete /\ committed' = committed /\ damaged' = damaged
    BY SMT DEF vars
  <2>2. CASE owner \in Instances
    <3>1. PICK i \in Instances : i = owner
      BY <2>2
    <3>2. PICK s : s = db[i]
      OBVIOUS
    <3>3. db' = [db EXCEPT ![i] = s] /\ OwnerOK(s) /\ \A j \in Instances : j # i => db[j] = Closed
      <4>1. db = [j \in Instances |-> db[j]]
        BY DEF IInv, ObjectsInv
      <4>2. [db EXCEPT ![i] = s] = db
        BY <3>2, <4>1, SMT
      <4> QED BY <1>1, <3>1, <3>2, <4>2 DEF IInv, ObjectsInv
    <3>4. /\ Tables(Intact)' = Tables(Intact) /\ VersionAt(Intact)' = VersionAt(Intact)
          /\ Intact' = Intact /\ \A S : Data(S)' = Data(S)
      BY <1>1 DEF Tables, Intact, VersionAt, Data
    <3>5. VersionsOK(s) => VersionsOK(s)'
      BY <1>1, <2>1, <3>4 DEF VersionsOK
    <3>6. JobsOK(s) => JobsOK(s)'
      BY <1>1, <2>1, JobsStay
    <3>7. SaveOK(s) => SaveOK(s)'
      BY <1>1, <2>1, <3>4 DEF SaveOK
    <3>8. OwnerOK(s)'
      BY <1>1, <2>1, <3>3, <3>5, <3>6, <3>7 DEF OwnerOK, ObjectOK, NamesOK
    <3> QED BY <1>1, <3>1, <3>3, <3>8, OwnerSteps DEF IInv
  <2>3. CASE owner \notin Instances
    BY <1>1, <2>3 DEF IInv, ObjectsInv
  <2> QED BY <2>2, <2>3
<1> QED BY <1>2, <1>3 DEF IInv

\* Every step of the system keeps the invariant.
LEMMA NextIInv == IInv /\ [Next]_vars => IInv'
<1> USE Zenon
<1> SUFFICES ASSUME IInv, [Next]_vars PROVE IInv'
  BY SMT
<1>1. CASE PowerFails
  BY <1>1, PowerFailsStep
<1>2. ASSUME NEW i \in Instances,
             \/ OpenLocks(i) \/ LoadSucceeds(i) \/ LoadFails(i) \/ TruncateFails(i) \/ ScanSaves(i)
      PROVE  IInv'
  BY <1>2, OpenLocksStep, LoadSucceedsStep, LoadFailsStep, TruncateFailsStep, ScanSavesStep
<1>3. ASSUME NEW i \in Instances,
             \/ SaveAppends(i) \/ SaveAppendFails(i) \/ SaveSyncs(i) \/ SaveSyncsDirectory(i)
             \/ WriteCurrentFile(i) \/ SaveEnds(i) \/ SaveStepFails(i)
      PROVE  IInv'
  BY <1>3, SaveAppendsStep, SaveAppendFailsStep, SaveSyncsStep, SaveSyncsDirectoryStep,
       WriteCurrentFileStep, SaveEndsStep, SaveStepFailsStep
<1>4. ASSUME NEW i \in Instances,
             \/ Flushes(i) \/ Compacts(i) \/ Publishes(i) \/ RemovesInputs(i) \/ Close(i) \/ Killed(i)
      PROVE  IInv'
  BY <1>4, FlushesStep, CompactsStep, PublishesStep, RemovesInputsStep, CloseStep, KilledStep
<1>5. CASE UNCHANGED vars
  BY <1>5, StutterIInv
<1> QED BY <1>1, <1>2, <1>3, <1>4, <1>5 DEF Next

\* The inductive invariant holds in every state.
THEOREM Invariance == Spec => []IInv
<1>1. Init => IInv
  BY InitIInv
<1>2. IInv /\ [Next]_vars => IInv'
  BY NextIInv
<1> QED BY <1>1, <1>2, PTL DEF Spec

\* TypeOK, and with it mutual exclusion: an object that is not closed holds the
\* flock of LOCK, so two objects never use one directory.
THEOREM TypeCorrect == Spec => []TypeOK
<1> USE Zenon
<1>1. IInv => TypeOK
  <2> SUFFICES ASSUME IInv PROVE TypeOK
    BY SMT
  <2>1. /\ DOMAIN ssts \subseteq 1..MaxFile /\ obsolete \subseteq 1..MaxFile
        /\ committed \in BOOLEAN /\ damaged \in BOOLEAN /\ owner \in Instances \cup {None}
    BY DEF IInv, DirectoryInv, HistoryInv, ObjectsInv, FileNumbers
  <2>2. manifest.name \in {"absent", "linked", "durable"} /\ manifest.synced \in 0..Len(manifest.recs)
    BY ManifestFields DEF IInv, DirectoryInv
  <2>3. current.name \in {"absent", "linked", "durable"}
    <3>1. CurrentOK(current)
      BY DEF IInv, DirectoryInv
    <3> QED BY <3>1, SMT DEF CurrentOK, NoFile
  <2>4. ASSUME NEW i \in Instances
        PROVE  /\ db[i].built \subseteq Jobs
               /\ db[i].pc # "closed" <=> owner = i
    <3>1. CASE owner = i
      <4>1. db[i] \in Objects
        BY <3>1 DEF IInv, ObjectsInv, OwnerOK, ObjectOK
      <4>2. db[i].built \subseteq TableJobs /\ db[i].pc \in {"load", "open"} \cup Saving
        BY <4>1, ObjectFields
      <4>3. TableJobs \subseteq Jobs
        <5>1. FileNumbers \subseteq Nat
          BY ManifestParameters, SMT DEF FileNumbers
        <5> QED BY <5>1 DEF TableJobs, Jobs
      <4>4. db[i].pc # "closed"
        BY <4>2, SMT DEF Saving, Written
      <4> QED BY <3>1, <4>2, <4>3, <4>4
    <3>2. CASE owner # i
      <4>1. db[i] = Closed
        BY <3>2 DEF IInv, ObjectsInv
      <4>2. Closed.pc = "closed" /\ Closed.built = {}
        BY SMT DEF Closed
      <4> QED BY <3>2, <4>1, <4>2
    <3> QED BY <3>1, <3>2
  <2> QED BY <2>1, <2>2, <2>3, <2>4 DEF TypeOK
<1> QED BY <1>1, Invariance, PTL

\* The version that Open reads in a directory that a crash can leave once a Save has
\* returned OK is one that was readable, and Present is so of both files.
LEMMA CommittedCrash ==
  ASSUME IInv, committed, ~damaged, NEW m \in Images(manifest) \cup {manifest},
         NEW c \in CurrentImages(current) \cup {current}
  PROVE  /\ CanReplay(m, c) /\ Exists(m, c)
         /\ \E k \in Readable : Keeps(k) /\ Nums(LoadedVersion(m).files) = Tables(k)
<1> USE Zenon
<1>1. /\ ManifestOK(m) /\ CurrentOK(c) /\ m.name = "durable" /\ c.name = "durable"
      /\ Narrows(manifest, m)
  BY CrashedDirectory
<1>2. PICK k : k = Cut(m.recs)
  OBVIOUS
<1>3. k \in ReadableOf(m)
  BY <1>1, <1>2, ManifestFields
<1>4. k \in Readable /\ TablesOf(m.recs, k) = Tables(k)
  BY <1>1, <1>3, NarrowVersions DEF Readable, Tables
<1>5. Keeps(k)
  BY <1>4 DEF IInv, HistoryInv
<1>6. /\ LoadedVersion(m) = VersionOf(m.recs, k) /\ IntactPrefix(m.recs) # <<>>
  BY <1>1, <1>2, <1>5, LoadedIsCut DEF Keeps
<1>7. Nums(LoadedVersion(m).files) = Tables(k)
  BY <1>4, <1>6 DEF TablesOf
<1>8. Present(m) /\ Present(c)
  BY <1>1, SMT DEF Present
<1>9. c.content # "empty"
  BY <1>1, SMT DEF CurrentOK, NoFile
<1> QED BY <1>4, <1>5, <1>6, <1>7, <1>8, <1>9 DEF CanReplay, Exists

\* CommittedDirectoriesOpen: whatever process is killed or power failure happens
\* after a Save has returned OK, and between whichever two system calls of Open, of
\* Save, of a flush or of a compaction, Open finds CURRENT, MANIFEST and the tables.
THEOREM CommittedDirectoriesAlwaysOpen == Spec => []CommittedDirectoriesOpen
<1> USE Zenon
<1>1. IInv => CommittedDirectoriesOpen
  <2> SUFFICES ASSUME IInv, committed, ~damaged, NEW d \in Crashed
               PROVE  CanReplay(d[1], d[2]) /\ FilesExist(d[1])
    BY DEF CommittedDirectoriesOpen
  <2>1. PICK m \in Images(manifest) \cup {manifest}, c \in CurrentImages(current) \cup {current} :
          d = <<m, c>>
    BY SMT DEF Crashed
  <2>2. d[1] = m /\ d[2] = c
    BY <2>1, SMT
  <2>3. CanReplay(m, c) /\ \E k \in Readable : Keeps(k) /\ Nums(LoadedVersion(m).files) = Tables(k)
    BY <2>1, CommittedCrash
  <2>4. FilesExist(m)
    BY <2>3 DEF FilesExist, Keeps
  <2> QED BY <2>2, <2>3, <2>4
<1> QED BY <1>1, Invariance, PTL

\* PublishedDataSurvives: the version that is found after any crash holds the data
\* of every flush in the version of the last Save that returned OK, although Save
\* logs only differences and records of failed Saves are replayed too.
THEOREM PublishedDataAlwaysSurvives == Spec => []PublishedDataSurvives
<1> USE Zenon
<1>1. IInv => PublishedDataSurvives
  <2> SUFFICES ASSUME IInv, committed, ~damaged, NEW d \in Crashed
               PROVE  acked \subseteq UNION {ssts[n] : n \in TablesAfter(d[1], d[2]) \cap DOMAIN ssts}
    BY DEF PublishedDataSurvives
  <2>1. PICK m \in Images(manifest) \cup {manifest}, c \in CurrentImages(current) \cup {current} :
          d = <<m, c>>
    BY SMT DEF Crashed
  <2>2. d[1] = m /\ d[2] = c
    BY <2>1, SMT
  <2>3. PICK k \in Readable : /\ Exists(m, c) /\ Keeps(k)
                              /\ Nums(LoadedVersion(m).files) = Tables(k)
    BY <2>1, CommittedCrash
  <2>4. TablesAfter(m, c) = Tables(k)
    BY <2>3 DEF TablesAfter
  <2>5. Tables(k) \cap DOMAIN ssts = Tables(k) /\ acked \subseteq UNION {ssts[n] : n \in Tables(k)}
    BY <2>3 DEF Keeps, Data
  <2> QED BY <2>2, <2>4, <2>5
<1> QED BY <1>1, Invariance, PTL

\* NothingComesBack: no crash brings back a table that a published compaction has
\* replaced, neither through the log nor through the scan of the directory.
THEOREM NothingEverComesBack == Spec => []NothingComesBack
<1> USE Zenon
<1>1. IInv => NothingComesBack
  <2> SUFFICES ASSUME IInv, ~damaged, NEW d \in Crashed
               PROVE  obsolete \cap TablesAfter(d[1], d[2]) = {}
    BY DEF NothingComesBack
  <2>1. CASE ~committed
    <3>1. obsolete = {}
      BY <2>1 DEF IInv, HistoryInv
    <3> QED BY <3>1
  <2>2. CASE committed
    <3>1. PICK m \in Images(manifest) \cup {manifest}, c \in CurrentImages(current) \cup {current} :
            d = <<m, c>>
      BY SMT DEF Crashed
    <3>2. d[1] = m /\ d[2] = c
      BY <3>1, SMT
    <3>3. PICK k \in Readable : /\ Exists(m, c) /\ Keeps(k)
                                /\ Nums(LoadedVersion(m).files) = Tables(k)
      BY <2>2, <3>1, CommittedCrash
    <3>4. TablesAfter(m, c) = Tables(k)
      BY <3>3 DEF TablesAfter
    <3> QED BY <3>2, <3>3, <3>4 DEF Keeps
  <2> QED BY <2>1, <2>2
<1> QED BY <1>1, Invariance, PTL
=============================================================================
