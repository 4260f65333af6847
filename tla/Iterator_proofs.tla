-------------------------- MODULE Iterator_proofs ---------------------------
(***************************************************************************)
(* An iterator shows exactly what point reads would find, for any tables   *)
(* and MemTables, cut into blocks in any way, with any blocks unreadable.  *)
(***************************************************************************)
EXTENDS Iterator, TLAPS

WF == INSTANCE WellFoundedInduction

-----------------------------------------------------------------------------
(***************************************************************************)
(* The inductive invariant.                                                *)
(***************************************************************************)

\* The places of a child that the iterator still has to show once all keys below
\* low are done.
Hits(c, s, low) == {q \in Places(c) : Entry(c, q).key >= low /\ Entry(c, q).seq <= s}

\* A child stands at the first of them.
StandsAt(c, s, p, low) ==
  IF p = AtEnd THEN Hits(c, s, low) = {}
  ELSE p \in Hits(c, s, low) /\ \A q \in Hits(c, s, low) : NotBefore(q, p)

\* No key from a on and below b has a live version.
NothingLive(a, b) ==
  \A k \in Nat : a <= k /\ k < b => Lookup(Contents, k, readSeq) = NotFound

PinnedInv == \E l \in Layouts : children = l.children /\ readSeq = l.readSeq

ControlInv ==
  /\ pc \in {"new", "advance", "idle"}
  /\ bound \in Nat
  /\ pc = "new" => ~valid /\ ok /\ bound = 0

\* All children are done with the keys below low.
ChildrenAt(low) ==
  /\ DOMAIN pos = DOMAIN children
  /\ heap = {j \in DOMAIN children : pos[j] # AtEnd}
  /\ \A j \in DOMAIN children : StandsAt(children[j], readSeq, pos[j], low)

\* The loop has found nothing from the bound up to low.
Searching == \E low \in Nat : bound <= low /\ ChildrenAt(low) /\ NothingLive(bound, low)

\* The loop has stopped at the first live key, or there is none.
Shows ==
  /\ current.key \in Nat /\ bound <= current.key
  /\ ChildrenAt(current.key + 1) /\ NothingLive(bound, current.key)
  /\ current.key \in Keys
  /\ current.seq = Lookup(Contents, current.key, readSeq)
  /\ current.seq # NotFound

IInv ==
  /\ PinnedInv /\ ControlInv
  /\ ok /\ pc = "advance" => ~valid /\ Searching
  /\ ok /\ pc = "idle" /\ valid => Shows
  /\ ok /\ pc = "idle" /\ ~valid =>
       \A k \in Nat : bound <= k => Lookup(Contents, k, readSeq) = NotFound

-----------------------------------------------------------------------------
(***************************************************************************)
(* Places.                                                                 *)
(***************************************************************************)

\* A set of numbers has a least one.
LEMMA LeastNumber ==
  ASSUME NEW S \in SUBSET Nat, S # {}
  PROVE  \E n \in S : \A m \in S : n <= m
<1>1. PICK n \in S : \A m \in S : <<m, n>> \notin WF!OpToRel(<, Nat)
  BY WF!NatLessThanWellFounded, WF!WFMin, Zenon
<1>2. \A m \in S : m \in Nat /\ n \in Nat /\ ~(m < n)
  BY <1>1, Zenon DEF WF!OpToRel
<1> QED BY <1>2

\* Min of a set of numbers is the least one.
LEMMA LeastIsMin ==
  ASSUME NEW S \in SUBSET Nat, S # {}
  PROVE  Min(S) \in S /\ \A m \in S : Min(S) <= m
BY LeastNumber, Zenon DEF Min

\* A place is a block and an entry of it, and is neither AtEnd nor Failed.
LEMMA PlaceFacts ==
  ASSUME NEW c, IsChild(c), NEW p \in Places(c)
  PROVE  /\ p[1] \in DOMAIN c.blocks /\ p[2] \in DOMAIN c.blocks[p[1]]
         /\ p = <<p[1], p[2]>> /\ p[1] \in Nat \ {0} /\ p[2] \in Nat \ {0}
         /\ p # AtEnd /\ p # Failed
         /\ Entry(c, p).key \in Keys /\ Entry(c, p).key \in Nat
         /\ Entry(c, p).seq \in Nat \ {0}
         /\ Entry(c, p).deleted \in BOOLEAN
<1>1. PICK b \in DOMAIN c.blocks : p \in {b} \X DOMAIN c.blocks[b]
  BY Zenon DEF Places
<1>2. PICK i \in DOMAIN c.blocks[b] : p = <<b, i>>
  BY <1>1
<1>3. p[1] = b /\ p[2] = i
  BY <1>2
<1> DEFINE S == Seq(Versions(Keys)) \ {<<>>}
<1>4. c.blocks \in Seq(S)
  BY Zenon DEF IsChild
<1>5. c.blocks[b] \in S /\ b \in Nat \ {0}
  <2> HIDE DEF S
  <2> QED BY <1>4
<1>6. c.blocks[b][i] \in Versions(Keys) /\ i \in Nat \ {0}
  <2> DEFINE V == Versions(Keys)
  <2>1. c.blocks[b] \in Seq(V)
    BY <1>5
  <2>2. PICK s : s = c.blocks[b]
    OBVIOUS
  <2>3. i \in DOMAIN s /\ s \in Seq(V)
    BY <1>2, <2>1, <2>2
  <2> HIDE DEF V, S
  <2>4. s[i] \in V /\ i \in Nat \ {0}
    BY ONLY <2>3, SMT
  <2> QED BY <2>2, <2>4 DEF V
<1>7. Entry(c, p) = c.blocks[b][i]
  BY <1>3 DEF Entry
<1>8. p # AtEnd /\ p # Failed
  BY <1>2 DEF AtEnd, Failed
<1>9. Entry(c, p).seq > 0
  BY Zenon DEF IsChild
<1>10. /\ Entry(c, p).key \in Keys /\ Entry(c, p).seq \in Nat
       /\ Entry(c, p).deleted \in BOOLEAN
  BY <1>6, <1>7 DEF Versions
<1> HIDE DEF S
<1>11. Entry(c, p).seq \in Nat \ {0}
  BY <1>9, <1>10
<1> QED BY <1>2, <1>3, <1>5, <1>6, <1>8, <1>10, <1>11, KeysAreNumbers, Zenon

\* A set of places has a first one.
LEMMA FirstPlace ==
  ASSUME NEW c, IsChild(c), NEW H \in SUBSET Places(c), H # {}
  PROVE  \E q \in H : \A r \in H : NotBefore(r, q)
<1> DEFINE B == {q[1] : q \in H}
<1>1. B \in SUBSET Nat /\ B # {}
  BY PlaceFacts
<1>2. PICK b \in B : \A x \in B : b <= x
  <2> HIDE DEF B
  <2> QED BY <1>1, LeastNumber, Zenon
<1> DEFINE I == {q[2] : q \in {r \in H : r[1] = b}}
<1>3. I \in SUBSET Nat /\ I # {}
  <2>1. PICK r \in H : r[1] = b
    BY <1>2
  <2>2. r[2] \in I
    BY <2>1
  <2> QED BY <2>2, PlaceFacts
<1>4. PICK i \in I : \A x \in I : i <= x
  <2> HIDE DEF B, I
  <2> QED BY <1>3, LeastNumber, Zenon
<1>5. PICK q \in H : q[1] = b /\ q[2] = i
  BY <1>4
<1>6. ASSUME NEW r \in H PROVE NotBefore(r, q)
  <2>1. r[1] \in Nat /\ r[2] \in Nat /\ b \in Nat /\ i \in Nat
    BY PlaceFacts, <1>5
  <2>2. b <= r[1]
    BY <1>2
  <2>3. r[1] = b => i <= r[2]
    BY <1>4
  <2>4. r[1] > b \/ (r[1] = b /\ r[2] >= i)
    <3> HIDE DEF B, I
    <3> QED BY <2>1, <2>2, <2>3
  <2> QED BY <1>5, <2>4, Zenon DEF NotBefore
<1> QED BY <1>6, Zenon

\* The place that SkipUntilVisible returns, if it can read the blocks up to it, is the
\* first that is left to show.
LEMMA SkipFinds ==
  ASSUME NEW c, IsChild(c), NEW p, NEW low \in Nat,
         \A q \in Hits(c, readSeq, low) : NotBefore(q, p),
         SkipUntilVisible(c, p, low) # Failed
  PROVE  StandsAt(c, readSeq, SkipUntilVisible(c, p, low), low)
<1> USE Zenon
<1> DEFINE H == {q \in Places(c) : /\ NotBefore(q, p)
                                   /\ Entry(c, q).key >= low
                                   /\ Entry(c, q).seq <= readSeq}
           first == CHOOSE q \in H : \A r \in H : NotBefore(r, q)
           last == IF H = {} THEN Len(c.blocks) ELSE first[1]
<1>2. H = Hits(c, readSeq, low)
  BY DEF Hits
<1>1. H \in SUBSET Places(c)
  OBVIOUS
<1>5. SkipUntilVisible(c, p, low)
        = IF \E b \in p[1]..last : b \in c.bad THEN Failed
          ELSE IF H = {} THEN AtEnd ELSE first
  BY DEF SkipUntilVisible
<1> HIDE DEF H, last
<1>6. SkipUntilVisible(c, p, low) = IF H = {} THEN AtEnd ELSE first
  BY <1>5
<1>7. CASE H = {}
  BY <1>2, <1>6, <1>7 DEF StandsAt
<1>8. CASE H # {}
  <2>2. first \in H /\ \A r \in H : NotBefore(r, first)
    BY <1>1, <1>8, FirstPlace
  <2> HIDE DEF first
  <2>3. first # AtEnd
    BY <1>1, <2>2, PlaceFacts
  <2> QED BY <1>2, <1>6, <1>8, <2>2, <2>3 DEF StandsAt
<1> QED BY <1>7, <1>8

\* SeekToFirst puts a child at the first place that is left to show.
LEMMA FirstSeekFinds ==
  ASSUME NEW c, IsChild(c), ChildSeekToFirst(c) # Failed
  PROVE  StandsAt(c, readSeq, ChildSeekToFirst(c), 0)
<1> DEFINE p == <<1, 1>>
<1>1. ASSUME NEW q \in Hits(c, readSeq, 0) PROVE NotBefore(q, p)
  <2>1. q[1] \in Nat \ {0} /\ q[2] \in Nat \ {0}
    BY PlaceFacts, Zenon DEF Hits
  <2> QED BY <2>1, SMT DEF NotBefore
<1>2. ChildSeekToFirst(c) = SkipUntilVisible(c, p, 0)
  BY Zenon DEF ChildSeekToFirst
<1> HIDE DEF p
<1> QED BY <1>1, <1>2, SkipFinds, Zenon

\* So does Seek: the blocks that it jumps over have nothing to show.
LEMMA SeekFinds ==
  ASSUME NEW c, IsChild(c), NEW low \in Nat, readSeq \in Nat, ChildSeek(c, low) # Failed
  PROVE  StandsAt(c, readSeq, ChildSeek(c, low), low)
<1> USE Zenon
<1> DEFINE final(b) == c.blocks[b][Len(c.blocks[b])]
           reaches(b) == final(b).key > low \/ (final(b).key = low /\ final(b).seq <= readSeq)
           starts == {b \in 1..Len(c.blocks) : reaches(b)}
<1>1. ChildSeek(c, low)
        = IF starts = {} THEN AtEnd ELSE SkipUntilVisible(c, <<Min(starts), 1>>, low)
  BY DEF ChildSeek
<1>2. starts \in SUBSET Nat
  BY SMT
<1>3. ASSUME NEW q \in Hits(c, readSeq, low) PROVE q[1] \in starts /\ q[2] \in Nat \ {0}
  <2>1. /\ q \in Places(c) /\ Entry(c, q).key >= low /\ Entry(c, q).seq <= readSeq
        /\ q[1] \in DOMAIN c.blocks /\ q[2] \in DOMAIN c.blocks[q[1]]
        /\ q[1] \in Nat /\ q[2] \in Nat \ {0}
    BY PlaceFacts DEF Hits
  <2>2. PICK b : b = q[1]
    OBVIOUS
  <2>3. PICK s : s = c.blocks[b]
    OBVIOUS
  <2>4. s \in Seq(Versions(Keys)) /\ b \in 1..Len(c.blocks)
    <3> DEFINE S == Seq(Versions(Keys)) \ {<<>>}
    <3>1. c.blocks \in Seq(S) /\ b \in DOMAIN c.blocks
      BY <2>1, <2>2 DEF IsChild
    <3> HIDE DEF S
    <3>2. c.blocks[b] \in S /\ b \in 1..Len(c.blocks)
      BY ONLY <3>1, SMT
    <3> QED BY <2>3, <3>2 DEF S
  <2>5. q[2] \in DOMAIN s
    BY <2>1, <2>2, <2>3
  <2>6. /\ Len(s) \in DOMAIN s /\ Len(s) \in Nat /\ q[2] <= Len(s)
    <3> DEFINE V == Versions(Keys)
    <3>1. s \in Seq(V)
      BY <2>4
    <3> HIDE DEF V
    <3> QED BY ONLY <2>5, <3>1, SMT
  <2>7. PICK z : z = <<b, Len(s)>>
    OBVIOUS
  <2>8. z[1] = b /\ z[2] = Len(s)
    BY <2>7, SMT
  <2>9. z \in Places(c)
    <3>1. b \in DOMAIN c.blocks /\ Len(s) \in DOMAIN c.blocks[b]
      BY <2>1, <2>2, <2>3, <2>6
    <3>2. z \in {b} \X DOMAIN c.blocks[b]
      BY <2>7, <3>1, SMT
    <3> QED BY <3>1, <3>2 DEF Places
  <2>10. NotBefore(z, q)
    BY <2>1, <2>2, <2>6, <2>8, SMT DEF NotBefore
  <2>11. PICK e, f : e = Entry(c, q) /\ f = Entry(c, z)
    OBVIOUS
  <2>12. f = final(b)
    BY <2>3, <2>8, <2>11 DEF Entry
  <2>13. e = f \/ e.key < f.key \/ (e.key = f.key /\ e.seq > f.seq)
    BY <2>1, <2>9, <2>10, <2>11 DEF IsChild, InternalOrder
  <2>14. e.key \in Nat /\ f.key \in Nat /\ e.seq \in Nat /\ f.seq \in Nat
    BY <2>1, <2>9, <2>11, PlaceFacts
  <2>15. e.key >= low /\ e.seq <= readSeq
    BY <2>1, <2>11
  <2>16. f.key > low \/ (f.key = low /\ f.seq <= readSeq)
    BY <2>13, <2>14, <2>15, SMT
  <2> QED BY <2>1, <2>2, <2>4, <2>12, <2>16
<1>4. CASE starts = {}
  BY <1>1, <1>3, <1>4 DEF StandsAt
<1>5. CASE starts # {}
  <2> HIDE DEF starts
  <2>1. Min(starts) \in Nat /\ \A b \in starts : Min(starts) <= b
    BY <1>2, <1>5, LeastIsMin
  <2>2. PICK m, p : m \in Nat /\ m = Min(starts) /\ p = <<m, 1>>
    BY <2>1
  <2>3. p[1] = m /\ p[2] = 1
    BY <2>2, SMT
  <2>4. ASSUME NEW q \in Hits(c, readSeq, low) PROVE NotBefore(q, p)
    <3>1. q[1] \in Nat /\ q[2] \in Nat \ {0} /\ m <= q[1]
      BY <1>2, <1>3, <2>1, <2>2
    <3> QED BY <2>2, <2>3, <3>1, SMT DEF NotBefore
  <2> QED BY <1>1, <1>5, <2>2, <2>4, SkipFinds
<1> QED BY <1>4, <1>5

-----------------------------------------------------------------------------
(***************************************************************************)
(* What the pinned version stores.                                         *)
(***************************************************************************)

\* What the pinned children are.
LEMMA PinnedFacts ==
  ASSUME PinnedInv
  PROVE  /\ readSeq \in Nat /\ \A j \in DOMAIN children : IsChild(children[j])
         /\ \A i, j \in DOMAIN children : Agree(children[i], children[j])
         /\ Len(children) \in Nat /\ DOMAIN children = 1..Len(children)
BY ChildrenAreTables, Zenon DEF PinnedInv

\* A version that is stored is somewhere in a child, and each is stored in one state.
LEMMA StoredFacts ==
  ASSUME PinnedInv
  PROVE  /\ \A f \in Contents : \E j \in DOMAIN children :
                \E q \in Places(children[j]) : f = Entry(children[j], q)
         /\ \A j \in DOMAIN children : \A q \in Places(children[j]) :
                Entry(children[j], q) \in Contents
         /\ \A e, f \in Contents : e.key = f.key /\ e.seq = f.seq => e = f
         /\ \A f \in Contents : f.key \in Keys /\ f.key \in Nat /\ f.seq \in Nat \ {0}
<1> USE Zenon
<1>1. \A f \in Contents : \E j \in DOMAIN children :
                \E q \in Places(children[j]) : f = Entry(children[j], q)
  BY DEF Contents
<1>2. \A j \in DOMAIN children : \A q \in Places(children[j]) :
                Entry(children[j], q) \in Contents
  <2> SUFFICES ASSUME NEW j \in DOMAIN children, NEW q \in Places(children[j])
               PROVE  Entry(children[j], q) \in Contents
    OBVIOUS
  <2> DEFINE T(i) == {Entry(children[i], p) : p \in Places(children[i])}
  <2>1. Entry(children[j], q) \in T(j)
    OBVIOUS
  <2>2. Contents = UNION {T(i) : i \in DOMAIN children}
    BY DEF Contents
  <2> HIDE DEF T
  <2> QED BY <2>1, <2>2
<1>3. \A e, f \in Contents : e.key = f.key /\ e.seq = f.seq => e = f
  <2> SUFFICES ASSUME NEW e \in Contents, NEW f \in Contents, e.key = f.key, e.seq = f.seq
               PROVE  e = f
    OBVIOUS
  <2>1. PICK i \in DOMAIN children : \E q \in Places(children[i]) : e = Entry(children[i], q)
    BY <1>1
  <2>2. PICK j \in DOMAIN children : \E q \in Places(children[j]) : f = Entry(children[j], q)
    BY <1>1
  <2>3. Agree(children[i], children[j])
    BY PinnedFacts
  <2> QED BY <2>1, <2>2, <2>3 DEF Agree
<1>4. \A f \in Contents : f.key \in Keys /\ f.key \in Nat /\ f.seq \in Nat \ {0}
  <2> SUFFICES ASSUME NEW f \in Contents
               PROVE  f.key \in Keys /\ f.key \in Nat /\ f.seq \in Nat \ {0}
    OBVIOUS
  <2>1. PICK j \in DOMAIN children : \E q \in Places(children[j]) : f = Entry(children[j], q)
    BY <1>1
  <2>2. PICK q \in Places(children[j]) : f = Entry(children[j], q)
    BY <2>1
  <2>3. IsChild(children[j])
    BY PinnedFacts
  <2> QED BY <2>2, <2>3, PlaceFacts
<1> QED BY <1>1, <1>2, <1>3, <1>4

\* A read of a key without visible version finds nothing.
LEMMA NothingVisible ==
  ASSUME NEW k, \A f \in Contents : ~(f.key = k /\ f.seq <= readSeq)
  PROVE  Lookup(Contents, k, readSeq) = NotFound
<1>1. VisibleAt(Contents, k, readSeq) = {}
  BY Zenon DEF VisibleAt
<1> QED BY <1>1, Zenon DEF Lookup

\* A read returns the newest visible version, unless it is a tombstone.
LEMMA NewestVisible ==
  ASSUME PinnedInv, NEW e \in Contents, e.seq <= readSeq,
         \A f \in Contents : f.key = e.key /\ f.seq <= readSeq => f.seq <= e.seq
  PROVE  Lookup(Contents, e.key, readSeq) = IF e.deleted THEN NotFound ELSE e.seq
<1> USE Zenon
<1> DEFINE V == VisibleAt(Contents, e.key, readSeq)
<1>1. e \in V /\ \A f \in V : f \in Contents /\ f.key = e.key /\ f.seq <= readSeq
  BY DEF VisibleAt
<1>2. IsNewest(e, V)
  BY <1>1 DEF IsNewest
<1>3. \A f \in V : IsNewest(f, V) => f = e
  <2> SUFFICES ASSUME NEW f \in V, IsNewest(f, V) PROVE f = e
    OBVIOUS
  <2> HIDE DEF V
  <2>1. e.seq <= f.seq /\ f.seq <= e.seq
    BY <1>1, <1>2 DEF IsNewest
  <2>2. e.seq \in Nat /\ f.seq \in Nat
    BY <1>1, StoredFacts
  <2>3. e.seq = f.seq
    BY <2>1, <2>2, SMT
  <2> QED BY <1>1, <2>3, StoredFacts
<1>4. Newest(V) = e
  <2> HIDE DEF V
  <2> QED BY <1>1, <1>2, <1>3 DEF Newest
<1>5. Lookup(Contents, e.key, readSeq) = IF V = {} \/ Newest(V).deleted THEN NotFound ELSE Newest(V).seq
  BY DEF Lookup
<1> HIDE DEF V
<1> QED BY <1>1, <1>4, <1>5

-----------------------------------------------------------------------------
(***************************************************************************)
(* The steps.                                                              *)
(***************************************************************************)

\* What is left to show is at the places where the children stand or behind them.
LEMMA LeftIsAhead ==
  ASSUME PinnedInv, NEW low \in Nat, ChildrenAt(low),
         NEW f \in Contents, f.key >= low, f.seq <= readSeq
  PROVE  \E i \in heap : \/ ChildEntry(i).key < f.key
                         \/ ChildEntry(i).key = f.key /\ ChildEntry(i).seq >= f.seq
<1> USE Zenon
<1>1. PICK i \in DOMAIN children : \E q \in Places(children[i]) : f = Entry(children[i], q)
  BY StoredFacts
<1>2. PICK q \in Places(children[i]) : f = Entry(children[i], q)
  BY <1>1
<1>3. q \in Hits(children[i], readSeq, low)
  BY <1>2 DEF Hits
<1>4. StandsAt(children[i], readSeq, pos[i], low) /\ IsChild(children[i])
  BY PinnedFacts DEF ChildrenAt
<1>5. /\ pos[i] # AtEnd /\ pos[i] \in Hits(children[i], readSeq, low)
      /\ NotBefore(q, pos[i])
  BY <1>3, <1>4 DEF StandsAt
<1>6. i \in heap
  BY <1>5 DEF ChildrenAt
<1>7. pos[i] \in Places(children[i])
  BY <1>5 DEF Hits
<1>8. q = pos[i] \/ InternalOrder(ChildEntry(i), f)
  BY <1>2, <1>4, <1>5, <1>7 DEF IsChild, ChildEntry
<1>9. f.seq \in Nat /\ f.key \in Nat /\ ChildEntry(i).seq \in Nat /\ ChildEntry(i).key \in Nat
  BY <1>2, <1>4, <1>7, PlaceFacts DEF ChildEntry
<1>10. q = pos[i] => ChildEntry(i) = f
  BY <1>2 DEF ChildEntry
<1>11. \/ ChildEntry(i).key < f.key
       \/ ChildEntry(i).key = f.key /\ ChildEntry(i).seq >= f.seq
  BY <1>8, <1>9, <1>10, SMT DEF InternalOrder
<1> QED BY <1>6, <1>11

\* The top of the heap is the first key that is left, in its newest visible version.
LEMMA TopIsNext ==
  ASSUME PinnedInv, NEW low \in Nat, ChildrenAt(low), NEW j \in heap, IsTop(j)
  PROVE  /\ ChildEntry(j) \in Contents /\ ChildEntry(j).key >= low
         /\ ChildEntry(j).seq <= readSeq
         /\ \A f \in Contents : f.key >= low /\ f.seq <= readSeq =>
               /\ ChildEntry(j).key <= f.key
               /\ f.key = ChildEntry(j).key => f.seq <= ChildEntry(j).seq
<1> USE Zenon
<1>1. \A i \in heap : /\ i \in DOMAIN children /\ pos[i] \in Hits(children[i], readSeq, low)
                      /\ IsChild(children[i])
  BY PinnedFacts DEF ChildrenAt, StandsAt
<1>2. \A i \in heap : /\ ChildEntry(i) \in Contents /\ ChildEntry(i).key >= low
                      /\ ChildEntry(i).seq <= readSeq
  BY <1>1, StoredFacts DEF Hits, ChildEntry
<1>3. ASSUME NEW f \in Contents, f.key >= low, f.seq <= readSeq
      PROVE  /\ ChildEntry(j).key <= f.key
             /\ f.key = ChildEntry(j).key => f.seq <= ChildEntry(j).seq
  <2>1. PICK i \in heap : \/ ChildEntry(i).key < f.key
                          \/ ChildEntry(i).key = f.key /\ ChildEntry(i).seq >= f.seq
    BY <1>3, LeftIsAhead
  <2>2. PICK a, e : a = ChildEntry(j) /\ e = ChildEntry(i)
    OBVIOUS
  <2>3. a.key < e.key \/ (a.key = e.key /\ a.seq >= e.seq)
    BY <2>2 DEF IsTop
  <2>4. /\ a.key \in Nat /\ a.seq \in Nat /\ e.key \in Nat /\ e.seq \in Nat
        /\ f.key \in Nat /\ f.seq \in Nat
    BY <1>2, <2>2, StoredFacts
  <2>5. a.key <= f.key /\ (f.key = a.key => f.seq <= a.seq)
    BY <2>1, <2>2, <2>3, <2>4, SMT
  <2> QED BY <2>2, <2>5
<1> QED BY <1>2, <1>3

\* A step that moves no child and pins nothing else leaves what the version stores.
LEMMA SameContents ==
  ASSUME UNCHANGED <<children, readSeq>>
  PROVE  /\ PinnedInv => PinnedInv'
         /\ Contents' = Contents
         /\ \A a, b : NothingLive(a, b)' <=> NothingLive(a, b)
<1>1. Contents' = Contents
  BY DEF Contents
<1>2. PinnedInv => PinnedInv'
  BY Zenon DEF PinnedInv
<1>3. \A a, b : NothingLive(a, b)' <=> NothingLive(a, b)
  BY <1>1, Zenon DEF NothingLive
<1> QED BY <1>1, <1>2, <1>3, Zenon

\* A seek leaves every child at the first place with a key of at least the target.
LEMMA RestartStep ==
  ASSUME IInv, NEW newPos, NEW target \in Nat, Restart(newPos, target),
         DOMAIN newPos = DOMAIN children,
         \A j \in DOMAIN children :
           newPos[j] # Failed => StandsAt(children[j], readSeq, newPos[j], target)
  PROVE  IInv'
<1> USE Zenon
<1>1. /\ PinnedInv /\ PinnedInv'
      /\ UNCHANGED <<children, readSeq>> /\ pc' = "advance" /\ valid' = FALSE
      /\ bound' = target /\ pos' = newPos
      /\ ok' = \A j \in DOMAIN newPos : newPos[j] # Failed
      /\ heap' = {j \in DOMAIN newPos : newPos[j] # AtEnd /\ \A i \in 1..j : newPos[i] # Failed}
  BY SameContents DEF IInv, Restart
<1>2. ControlInv'
  BY <1>1 DEF ControlInv
<1>3. ASSUME ok' PROVE Searching'
  <2>1. \A j \in DOMAIN children : \A i \in 1..j : i \in DOMAIN children
    <3>1. PICK n \in Nat : DOMAIN children = 1..n
      BY <1>1, PinnedFacts
    <3> QED BY <3>1, SMT
  <2>2. \A j \in DOMAIN children : newPos[j] # Failed
    BY <1>1, <1>3
  <2>3. heap' = {j \in DOMAIN children : pos'[j] # AtEnd}
    BY <1>1, <2>1, <2>2
  <2>4. \A j \in DOMAIN children : StandsAt(children[j], readSeq, pos'[j], target)
    BY <1>1, <2>2
  <2>5. ChildrenAt(target)'
    BY <1>1, <2>3, <2>4 DEF ChildrenAt
  <2>6. \A k \in Nat : ~(target <= k /\ k < target)
    BY SMT
  <2>7. NothingLive(bound, target)' /\ bound' <= target
    BY <1>1, <2>6, SMT DEF NothingLive
  <2> QED BY <2>5, <2>7 DEF Searching
<1> QED BY <1>1, <1>2, <1>3 DEF IInv

\* SeekToFirst starts from the first key.
LEMMA SeekToFirstStep ==
  ASSUME IInv, SeekToFirst
  PROVE  IInv'
<1> USE Zenon
<1> DEFINE new == [j \in DOMAIN children |-> ChildSeekToFirst(children[j])]
<1>1. Restart(new, 0) /\ DOMAIN new = DOMAIN children
  BY DEF SeekToFirst
<1>2. ASSUME NEW j \in DOMAIN children, new[j] # Failed
      PROVE  StandsAt(children[j], readSeq, new[j], 0)
  <2>1. new[j] = ChildSeekToFirst(children[j]) /\ IsChild(children[j])
    BY PinnedFacts DEF IInv
  <2> QED BY <1>2, <2>1, FirstSeekFinds
<1>3. 0 \in Nat
  BY SMT
<1> HIDE DEF new
<1> QED BY <1>1, <1>2, <1>3, RestartStep

\* Seek starts from its target.
LEMMA SeekStep ==
  ASSUME IInv, NEW k \in Keys, Seek(k)
  PROVE  IInv'
<1> USE Zenon
<1> DEFINE new == [j \in DOMAIN children |-> ChildSeek(children[j], k)]
<1>1. Restart(new, k) /\ DOMAIN new = DOMAIN children
  BY DEF Seek
<1>2. k \in Nat
  BY KeysAreNumbers
<1>3. ASSUME NEW j \in DOMAIN children, new[j] # Failed
      PROVE  StandsAt(children[j], readSeq, new[j], k)
  <2>1. new[j] = ChildSeek(children[j], k) /\ IsChild(children[j]) /\ readSeq \in Nat
    BY PinnedFacts DEF IInv
  <2> QED BY <1>2, <1>3, <2>1, SeekFinds
<1> HIDE DEF new
<1> QED BY <1>1, <1>2, <1>3, RestartStep

\* Next goes on behind the key that was shown.
LEMMA NextEntryStep ==
  ASSUME IInv, NextEntry
  PROVE  IInv'
<1> USE Zenon
<1>1. /\ PinnedInv /\ PinnedInv' /\ Shows
      /\ UNCHANGED <<children, readSeq, pos, heap, current, ok>>
      /\ pc' = "advance" /\ valid' = FALSE /\ bound' = current.key + 1
  BY SameContents DEF IInv, NextEntry
<1>2. current.key + 1 \in Nat
  BY <1>1, SMT DEF Shows
<1>3. ControlInv'
  BY <1>1, <1>2 DEF ControlInv
<1>4. PICK low \in Nat : low = current.key + 1
  BY <1>2
<1>5. ChildrenAt(low)'
  BY <1>1, <1>4 DEF ChildrenAt, Shows
<1>6. \A k \in Nat : ~(low <= k /\ k < low)
  BY SMT
<1>7. NothingLive(bound, low)' /\ bound' <= low
  BY <1>1, <1>4, <1>6, SMT DEF NothingLive
<1>8. Searching'
  BY <1>5, <1>7 DEF Searching
<1> QED BY <1>1, <1>3, <1>8 DEF IInv

\* The loop ends without a key when no child has one left, or at an error.
LEMMA AdvanceEndsStep ==
  ASSUME IInv, AdvanceEnds
  PROVE  IInv'
<1> USE Zenon
<1>1. /\ PinnedInv /\ PinnedInv' /\ ControlInv
      /\ UNCHANGED <<children, readSeq, pos, heap, current, valid, ok, bound>>
      /\ pc = "advance" /\ pc' = "idle" /\ (~ok \/ heap = {})
  BY SameContents DEF IInv, AdvanceEnds
<1>2. ControlInv'
  BY <1>1 DEF ControlInv
<1>3. ASSUME ok, NEW k \in Nat, bound <= k
      PROVE  Lookup(Contents, k, readSeq) = NotFound
  <2>1. PICK low \in Nat : ChildrenAt(low) /\ NothingLive(bound, low)
    BY <1>1, <1>3 DEF IInv, Searching
  <2>2. CASE k < low
    BY <1>3, <2>1, <2>2 DEF NothingLive
  <2>3. CASE ~(k < low)
    <3>1. k >= low
      BY <2>3, SMT
    <3>2. heap = {}
      BY <1>1, <1>3
    <3>3. ASSUME NEW f \in Contents, f.key = k, f.seq <= readSeq PROVE FALSE
      BY <1>1, <2>1, <3>1, <3>2, <3>3, LeftIsAhead
    <3> QED BY <3>3, NothingVisible
  <2> QED BY <2>2, <2>3
<1>4. ok' => ~valid'
  BY <1>1 DEF IInv
<1>5. ok' => \A k \in Nat : bound' <= k => Lookup(Contents, k, readSeq)' = NotFound
  BY <1>1, <1>3, SameContents
<1> QED BY <1>1, <1>2, <1>4, <1>5 DEF IInv

\* A round of the loop: the children at the next key pass it, and the key is shown
\* unless its newest visible version is a tombstone.
LEMMA AdvanceRoundStep ==
  ASSUME IInv, AdvanceRound
  PROVE  IInv'
<1> USE Zenon
<1>1. /\ PinnedInv /\ PinnedInv' /\ ControlInv /\ pc = "advance" /\ ok
      /\ UNCHANGED <<children, readSeq, bound>> /\ ~valid
  BY SameContents DEF IInv, AdvanceRound
<1>2. PICK low \in Nat : bound <= low /\ ChildrenAt(low) /\ NothingLive(bound, low)
  BY <1>1 DEF IInv, Searching
<1> DEFINE moved(e) == [i \in DOMAIN pos |->
                          IF i \in AtKey(e) THEN ChildPastKey(children[i], pos[i], e.key)
                          ELSE pos[i]]
<1>3. PICK j \in heap :
        /\ IsTop(j)
        /\ pos' = moved(ChildEntry(j))
        /\ heap' = {i \in heap : moved(ChildEntry(j))[i] \notin {AtEnd, Failed}}
        /\ ok' = \A i \in AtKey(ChildEntry(j)) : moved(ChildEntry(j))[i] # Failed
        /\ \/ /\ ~ChildEntry(j).deleted /\ current' = ChildEntry(j)
              /\ valid' = TRUE /\ pc' = "idle"
           \/ ChildEntry(j).deleted /\ UNCHANGED <<current, valid, pc>>
  BY DEF AdvanceRound
<1>4. PICK e : e = ChildEntry(j)
  OBVIOUS
<1>5. PICK m : m = moved(e)
  OBVIOUS
<1>6. /\ DOMAIN m = DOMAIN pos
      /\ \A i \in DOMAIN pos :
           m[i] = IF i \in AtKey(e) THEN ChildPastKey(children[i], pos[i], e.key) ELSE pos[i]
  BY <1>5
<1>7. /\ pos' = m /\ heap' = {i \in heap : m[i] \notin {AtEnd, Failed}}
      /\ ok' = \A i \in AtKey(e) : m[i] # Failed
      /\ \/ ~e.deleted /\ current' = e /\ valid' = TRUE /\ pc' = "idle"
         \/ e.deleted /\ UNCHANGED <<current, valid, pc>>
  BY <1>3, <1>4, <1>5
<1> HIDE DEF moved
<1>8. /\ e \in Contents /\ e.key >= low /\ e.seq <= readSeq
      /\ \A f \in Contents : f.key >= low /\ f.seq <= readSeq =>
           e.key <= f.key /\ (f.key = e.key => f.seq <= e.seq)
  BY <1>1, <1>2, <1>3, <1>4, TopIsNext
<1>9. e.key \in Nat /\ e.key \in Keys /\ e.seq \in Nat \ {0} /\ bound \in Nat
  BY <1>1, <1>8, StoredFacts DEF ControlInv
<1>10. Lookup(Contents, e.key, readSeq) = IF e.deleted THEN NotFound ELSE e.seq
  BY <1>1, <1>8, NewestVisible
<1>11. NothingLive(bound, e.key)
  <2> SUFFICES ASSUME NEW k \in Nat, bound <= k, k < e.key
               PROVE  Lookup(Contents, k, readSeq) = NotFound
    BY DEF NothingLive
  <2>1. CASE k < low
    BY <1>2, <2>1 DEF NothingLive
  <2>2. CASE ~(k < low)
    <3>1. k >= low /\ ~(e.key <= k)
      BY <1>9, <2>2, SMT
    <3>2. \A f \in Contents : ~(f.key = k /\ f.seq <= readSeq)
      BY <1>8, <3>1
    <3> QED BY <3>2, NothingVisible
  <2> QED BY <2>1, <2>2
<1>12. PICK up \in Nat : up = e.key + 1
  BY <1>9, SMT
<1>13. bound <= e.key /\ bound <= up /\ low <= up
  BY <1>2, <1>8, <1>9, <1>12, SMT
<1>14. /\ DOMAIN pos = DOMAIN children
       /\ heap = {i \in DOMAIN children : pos[i] # AtEnd}
       /\ \A i \in DOMAIN children : /\ StandsAt(children[i], readSeq, pos[i], low)
                                     /\ IsChild(children[i])
  BY <1>1, <1>2, PinnedFacts DEF ChildrenAt
<1>15. ASSUME NEW i \in DOMAIN children
       PROVE  Hits(children[i], readSeq, up) \subseteq Hits(children[i], readSeq, low)
  <2>1. ASSUME NEW q \in Hits(children[i], readSeq, up) PROVE q \in Hits(children[i], readSeq, low)
    <3>1. PICK k : k = Entry(children[i], q).key
      OBVIOUS
    <3>2. k \in Nat /\ k >= up
      BY <1>14, <2>1, <3>1, PlaceFacts DEF Hits
    <3>3. k >= low
      BY <1>13, <3>2, SMT
    <3> QED BY <2>1, <3>1, <3>3 DEF Hits
  <2> QED BY <2>1
<1>16. ASSUME ok', NEW i \in DOMAIN children
       PROVE  StandsAt(children[i], readSeq, m[i], up)
  <2>1. CASE i \in AtKey(e)
    <3>1. pos[i] # AtEnd
      BY <1>14, <2>1 DEF AtKey
    <3>2. \A q \in Hits(children[i], readSeq, up) : NotBefore(q, pos[i])
      BY <1>14, <1>15, <3>1 DEF StandsAt
    <3>3. m[i] = SkipUntilVisible(children[i], pos[i], up) /\ m[i] # Failed
      BY <1>6, <1>7, <1>12, <1>14, <1>16, <2>1 DEF ChildPastKey
    <3> QED BY <1>14, <3>2, <3>3, SkipFinds
  <2>2. CASE i \notin AtKey(e)
    <3>1. m[i] = pos[i]
      BY <1>6, <1>14, <2>2
    <3>2. CASE pos[i] = AtEnd
      BY <1>14, <1>15, <3>1, <3>2 DEF StandsAt
    <3>3. CASE pos[i] # AtEnd
      <4>1. /\ i \in heap /\ pos[i] \in Hits(children[i], readSeq, low)
            /\ \A q \in Hits(children[i], readSeq, low) : NotBefore(q, pos[i])
        BY <1>14, <3>3 DEF StandsAt
      <4>2. PICK k : k = ChildEntry(i).key
        OBVIOUS
      <4>3. k # e.key /\ (e.key < k \/ e.key = k)
        BY <1>3, <1>4, <2>2, <4>1, <4>2 DEF AtKey, IsTop
      <4>4. k \in Nat
        BY <1>14, <4>1, <4>2, PlaceFacts DEF Hits, ChildEntry
      <4>5. k >= up
        BY <1>9, <1>12, <4>3, <4>4, SMT
      <4>6. pos[i] \in Hits(children[i], readSeq, up)
        BY <4>1, <4>2, <4>5 DEF Hits, ChildEntry
      <4> QED BY <1>15, <3>1, <3>3, <4>1, <4>6 DEF StandsAt
    <3> QED BY <3>2, <3>3
  <2> QED BY <2>1, <2>2
<1>17. ASSUME ok' PROVE ChildrenAt(up)'
  <2>1. ASSUME NEW i \in DOMAIN children, m[i] # AtEnd PROVE i \in heap /\ m[i] # Failed
    <3>1. m[i] \in Places(children[i])
      BY <1>16, <1>17, <2>1 DEF StandsAt, Hits
    <3>2. m[i] # Failed
      BY <1>14, <3>1, PlaceFacts
    <3>3. i \in heap
      BY <1>6, <1>14, <2>1 DEF AtKey
    <3> QED BY <3>2, <3>3
  <2>2. heap' = {i \in DOMAIN children : m[i] # AtEnd}
    BY <1>7, <1>14, <2>1
  <2> QED BY <1>1, <1>6, <1>7, <1>14, <1>16, <1>17, <2>2 DEF ChildrenAt
<1>18. CASE e.deleted
  <2>1. UNCHANGED <<current, valid, pc>>
    BY <1>7, <1>18
  <2>2. NothingLive(bound, up)
    <3> SUFFICES ASSUME NEW k \in Nat, bound <= k, k < up
                 PROVE  Lookup(Contents, k, readSeq) = NotFound
      BY DEF NothingLive
    <3>1. k < e.key \/ k = e.key
      BY <1>9, <1>12, SMT
    <3> QED BY <1>10, <1>11, <1>18, <3>1 DEF NothingLive
  <2>3. NothingLive(bound, up)'
    BY <1>1, <2>2, SameContents DEF NothingLive
  <2>4. ok' => Searching'
    BY <1>1, <1>13, <1>17, <2>3 DEF Searching
  <2>5. ControlInv'
    BY <1>1, <2>1 DEF ControlInv
  <2> QED BY <1>1, <2>1, <2>4, <2>5 DEF IInv
<1>19. CASE ~e.deleted
  <2>1. current' = e /\ valid' = TRUE /\ pc' = "idle"
    BY <1>7, <1>19
  <2>2. NothingLive(bound, e.key)'
    BY <1>1, <1>11, SameContents DEF NothingLive
  <2>3. Lookup(Contents, e.key, readSeq)' = e.seq
    BY <1>1, <1>10, <1>19, <2>1, SameContents
  <2>4. e.seq # NotFound
    BY <1>9, SMT DEF NotFound
  <2>5. ok' => Shows'
    BY <1>1, <1>9, <1>12, <1>13, <1>17, <2>1, <2>2, <2>3, <2>4 DEF Shows
  <2>6. ControlInv'
    BY <1>1, <2>1 DEF ControlInv
  <2> QED BY <1>1, <2>1, <2>5, <2>6 DEF IInv
<1> QED BY <1>18, <1>19

-----------------------------------------------------------------------------
(***************************************************************************)
(* The theorems.                                                           *)
(***************************************************************************)

\* Every iterator keeps the invariant: its children stand at the first places that are
\* left to show, and the keys it has passed since the last seek have no live version.
THEOREM Invariance == Spec => []IInv
<1>1. Init => IInv
  <2>1. Init => PinnedInv
    BY Zenon DEF Init, PinnedInv
  <2>2. Init => ControlInv
    BY SMT DEF Init, ControlInv
  <2> QED BY <2>1, <2>2, Zenon DEF Init, IInv
<1>2. IInv /\ [Next]_vars => IInv'
  <2> SUFFICES ASSUME IInv, [Next]_vars PROVE IInv'
    OBVIOUS
  <2>1. CASE SeekToFirst
    BY <2>1, SeekToFirstStep, Zenon
  <2>2. ASSUME NEW k \in Keys, Seek(k) PROVE IInv'
    BY <2>2, SeekStep, Zenon
  <2>3. CASE NextEntry
    BY <2>3, NextEntryStep, Zenon
  <2>4. CASE AdvanceRound
    BY <2>4, AdvanceRoundStep, Zenon
  <2>5. CASE AdvanceEnds
    BY <2>5, AdvanceEndsStep, Zenon
  <2>6. CASE UNCHANGED vars
    <3>1. UNCHANGED <<children, readSeq, pos, heap, pc, current, valid, ok, bound>>
      BY <2>6, Zenon DEF vars
    <3>2. Contents' = Contents /\ PinnedInv' /\ ControlInv'
      BY <3>1, SameContents, Zenon DEF IInv, ControlInv
    <3> QED BY <3>1, <3>2, Zenon
            DEF IInv, Searching, Shows, ChildrenAt, NothingLive
  <2> QED BY <2>1, <2>2, <2>3, <2>4, <2>5, <2>6, Zenon DEF Next
<1> QED BY <1>1, <1>2, PTL DEF Spec

\* An iterator over any tables and MemTables shows exactly what point reads at its
\* sequence would find, key by key and in order, and an unreadable block is reported
\* (IteratorIsExact).
THEOREM IteratorIsAlwaysExact == Spec => []IteratorIsExact
<1>1. IInv => IteratorIsExact
  <2> USE Zenon
  <2> SUFFICES ASSUME IInv, pc = "idle", ok,
                      NEW left, left = {k \in LiveKeys : k >= bound}
               PROVE  IF valid
                      THEN /\ left # {} /\ current.key = Min(left)
                           /\ current.seq = Lookup(Contents, current.key, readSeq)
                      ELSE left = {}
    BY DEF IteratorIsExact
  <2>1. /\ bound \in Nat
        /\ left \subseteq Nat
        /\ \A k \in left : bound <= k /\ Lookup(Contents, k, readSeq) # NotFound
    <3>1. bound \in Nat
      BY DEF IInv, ControlInv
    <3>2. \A k \in left : k \in Nat /\ k >= bound /\ Lookup(Contents, k, readSeq) # NotFound
      BY KeysAreNumbers DEF LiveKeys
    <3>3. \A k \in Nat : k >= bound => bound <= k
      BY <3>1, SMT
    <3> QED BY <3>1, <3>2, <3>3
  <2>2. CASE ~valid
    BY <2>1, <2>2 DEF IInv
  <2>3. CASE valid
    <3>1. Shows
      BY <2>3 DEF IInv
    <3>2. current.key \in left
      <4>1. current.key >= bound
        BY <2>1, <3>1, SMT DEF Shows
      <4> QED BY <3>1, <4>1 DEF Shows, LiveKeys
    <3>3. ASSUME NEW k \in left PROVE current.key <= k
      <4>1. ~(k < current.key)
        BY <2>1, <3>1, <3>3 DEF Shows, NothingLive
      <4>2. k \in Nat /\ current.key \in Nat
        BY <2>1, <3>1 DEF Shows
      <4> QED BY <4>1, <4>2, SMT
    <3>4. PICK n : n = Min(left)
      OBVIOUS
    <3>5. n \in left /\ n <= current.key
      BY <2>1, <3>2, <3>4, LeastIsMin
    <3>6. current.key <= n /\ n \in Nat /\ current.key \in Nat
      BY <2>1, <3>2, <3>3, <3>5
    <3>7. current.key = n
      BY <3>5, <3>6, SMT
    <3> QED BY <2>3, <3>1, <3>2, <3>4, <3>7 DEF Shows
  <2> QED BY <2>2, <2>3
<1> QED BY <1>1, Invariance, PTL
=============================================================================
