------------------------------- MODULE Iterator -----------------------------
(***************************************************************************)
(* Ordered iteration over a pinned version of the database: one child      *)
(* iterator per SSTable and MemTable, merged by a heap, showing for every  *)
(* key the newest version visible at the read sequence and skipping keys   *)
(* whose newest version is a tombstone.                                    *)
(*                                                                         *)
(* A child is a sequence of blocks of versions in internal-key order: key  *)
(* ascending, sequence number descending.  An SSTable reads its blocks     *)
(* one at a time, and reading may fail; a MemTable is one block in memory. *)
(* The children are pinned when the iterator is made and never change.     *)
(***************************************************************************)
EXTENDS MVCC, Sequences

CONSTANTS Keys,
          Layouts         \* the children the pinned version may have

VARIABLES children,       \* each: [blocks, bad], bad = the blocks that cannot be read
          readSeq,        \* the read sequence of the iterator
          pos,            \* where each child stands
          heap,           \* heap_: the valid children not at their end
          pc,             \* "new", "advance" inside AdvanceToNextVisible, "idle" after it
          current, valid, ok,   \* current_, valid_, status_.ok()
          bound           \* the least key that may come next

vars == <<children, readSeq, pos, heap, pc, current, valid, ok, bound>>

NoEntry == [key |-> 0, seq |-> 0, deleted |-> FALSE]

\* Positions of a child: block and entry, AtEnd, or Failed after a read error.
AtEnd == <<>>
Failed == <<0>>
Places(c) == UNION {{b} \X DOMAIN c.blocks[b] : b \in DOMAIN c.blocks}
Entry(c, p) == c.blocks[p[1]][p[2]]
NotBefore(p, q) == p[1] > q[1] \/ (p[1] = q[1] /\ p[2] >= q[2])

ChildEntry(j) == Entry(children[j], pos[j])

\* The order in which MemTables and tables keep their entries.
InternalOrder(e, f) == e.key < f.key \/ (e.key = f.key /\ e.seq > f.seq)

\* A table or MemTable: blocks that are not empty, with entries in that order.
IsChild(c) ==
  /\ c.blocks \in Seq(Seq(Versions(Keys)) \ {<<>>})
  /\ \A p \in Places(c) : Entry(c, p).seq > 0
  /\ \A p, q \in Places(c) :
       NotBefore(q, p) => q = p \/ InternalOrder(Entry(c, p), Entry(c, q))

\* Two children that have a version of the same key and sequence have the same.
Agree(c, d) ==
  \A p \in Places(c), q \in Places(d) :
    Entry(c, p).key = Entry(d, q).key /\ Entry(c, p).seq = Entry(d, q).seq =>
      Entry(c, p) = Entry(d, q)

ASSUME KeysAreNumbers == Keys \subseteq Nat

ASSUME ChildrenAreTables ==
  \A l \in Layouts :
    /\ l.readSeq \in Nat
    /\ \A j \in DOMAIN l.children : IsChild(l.children[j])
    /\ Len(l.children) \in Nat /\ DOMAIN l.children = 1..Len(l.children)
    /\ \A i, j \in DOMAIN l.children : Agree(l.children[i], l.children[j])

-----------------------------------------------------------------------------
(***************************************************************************)
(* The iterator of one SSTable or MemTable.                                *)
(***************************************************************************)

\* The first visible entry from place p on, with a key of at least target; the
\* blocks up to it are loaded on the way, and one that cannot be read ends the
\* search.
SkipUntilVisible(c, p, target) ==
  LET hits == {q \in Places(c) : /\ NotBefore(q, p)
                                 /\ Entry(c, q).key >= target
                                 /\ Entry(c, q).seq <= readSeq}
      first == CHOOSE q \in hits : \A r \in hits : NotBefore(r, q)
      last == IF hits = {} THEN Len(c.blocks) ELSE first[1]
  IN  IF \E b \in p[1]..last : b \in c.bad THEN Failed
      ELSE IF hits = {} THEN AtEnd ELSE first

ChildSeekToFirst(c) == SkipUntilVisible(c, <<1, 1>>, 0)

\* The index gives the first block whose last internal key is not less than that
\* of the target at the read sequence.
ChildSeek(c, target) ==
  LET reaches(b) == LET e == c.blocks[b][Len(c.blocks[b])]
                    IN  e.key > target \/ (e.key = target /\ e.seq <= readSeq)
      starts == {b \in 1..Len(c.blocks) : reaches(b)}
  IN  IF starts = {} THEN AtEnd ELSE SkipUntilVisible(c, <<Min(starts), 1>>, target)

\* Next, repeated while the child shows that key.
ChildPastKey(c, p, key) == SkipUntilVisible(c, p, key + 1)

-----------------------------------------------------------------------------
(***************************************************************************)
(* The merging iterator.                                                   *)
(***************************************************************************)

\* SeekToFirst and Seek: every child seeks, then the heap is rebuilt; the error of
\* a child stops everything.
Restart(newPos, target) ==
  /\ pc \in {"new", "idle"}
  /\ pos' = newPos
  /\ ok' = \A j \in DOMAIN newPos : newPos[j] # Failed
  /\ heap' = {j \in DOMAIN newPos : newPos[j] # AtEnd /\ \A i \in 1..j : newPos[i] # Failed}
  /\ valid' = FALSE
  /\ bound' = target
  /\ pc' = "advance"
  /\ UNCHANGED <<children, readSeq, current>>

SeekToFirst == Restart([j \in DOMAIN children |-> ChildSeekToFirst(children[j])], 0)

Seek(target) == Restart([j \in DOMAIN children |-> ChildSeek(children[j], target)], target)

NextEntry ==
  /\ pc = "idle" /\ ok /\ valid
  /\ valid' = FALSE
  /\ bound' = current.key + 1
  /\ pc' = "advance"
  /\ UNCHANGED <<children, readSeq, pos, heap, current, ok>>

\* HeapCompare: the smallest key, and of its versions the newest.
\* (variant: by key only)
IsTopByKey(j) == j \in heap /\ \A i \in heap : ChildEntry(j).key <= ChildEntry(i).key
IsTop(j) ==
  /\ j \in heap
  /\ \A i \in heap : \/ ChildEntry(j).key < ChildEntry(i).key
                     \/ /\ ChildEntry(j).key = ChildEntry(i).key
                        /\ ChildEntry(j).seq >= ChildEntry(i).seq

\* The children that are popped in one round.
\* (variant: none for a tombstone)
AtLiveKey(selected) ==
  {i \in heap : ~selected.deleted /\ ChildEntry(i).key = selected.key}
AtKey(selected) == {i \in heap : ChildEntry(i).key = selected.key}

\* One round of the loop of AdvanceToNextVisible: all children at the next key
\* move past it, and its newest version is shown unless it is a tombstone.
AdvanceRound ==
  /\ pc = "advance" /\ ok /\ heap # {}
  /\ \E j \in heap :
       /\ IsTop(j)
       /\ LET selected == ChildEntry(j)
              at == AtKey(selected)
              moved == [i \in DOMAIN pos |->
                          IF i \in at THEN ChildPastKey(children[i], pos[i], selected.key)
                          ELSE pos[i]]
          IN  /\ pos' = moved
              /\ heap' = {i \in heap : moved[i] \notin {AtEnd, Failed}}
              /\ ok' = \A i \in at : moved[i] # Failed
              /\ \/ ~selected.deleted /\ current' = selected /\ valid' = TRUE /\ pc' = "idle"
                 \/ selected.deleted /\ UNCHANGED <<current, valid, pc>>
  /\ UNCHANGED <<children, readSeq, bound>>

AdvanceEnds ==
  /\ pc = "advance" /\ (~ok \/ heap = {})
  /\ pc' = "idle"
  /\ UNCHANGED <<children, readSeq, pos, heap, current, valid, ok, bound>>

-----------------------------------------------------------------------------
\* NewIterator pins the children; nothing is read before the first seek.
Init ==
  /\ \E l \in Layouts : children = l.children /\ readSeq = l.readSeq
  /\ pos = [j \in DOMAIN children |-> AtEnd]
  /\ heap = {} /\ pc = "new"
  /\ current = NoEntry /\ valid = FALSE /\ ok = TRUE
  /\ bound = 0

Next == SeekToFirst \/ (\E k \in Keys : Seek(k)) \/ NextEntry \/ AdvanceRound \/ AdvanceEnds

Spec == Init /\ [][Next]_vars

\* A caller's loop runs.
FairSpec == Spec /\ WF_vars(AdvanceRound \/ AdvanceEnds)

-----------------------------------------------------------------------------
(***************************************************************************)
(* Properties.                                                             *)
(***************************************************************************)

\* All that the pinned version stores, readable or not.
Contents == UNION {{Entry(children[j], p) : p \in Places(children[j])} :
                     j \in DOMAIN children}

LiveKeys == {k \in Keys : Lookup(Contents, k, readSeq) # NotFound}

\* The iterator shows exactly what point reads at its sequence would find, key by
\* key and in order, from the target of the last seek on: no key is skipped, shown
\* twice, out of order, or with an obsolete version.  In particular a block that
\* cannot be read never makes keys disappear silently: it is reported.
IteratorIsExact ==
  LET left == {k \in LiveKeys : k >= bound}
  IN  pc = "idle" /\ ok =>
        IF valid
        THEN /\ left # {} /\ current.key = Min(left)
             /\ current.seq = Lookup(Contents, current.key, readSeq)
        ELSE left = {}

\* Every loop of AdvanceToNextVisible ends.
AdvanceTerminates == pc = "advance" ~> pc = "idle"
=============================================================================
