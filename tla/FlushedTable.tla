---------------------------- MODULE FlushedTable ----------------------------
(***************************************************************************)
(* A MemTable and the SSTable a flush makes of it: FlushImmutableMemTable  *)
(* hands the entries of the skip list, in order, to CreateFromEntries.     *)
(* The state is the skip list; the table is what a flush would write now.  *)
(***************************************************************************)
EXTENDS SkipList, SSTable

Flushed == CreateFromEntries(Entries)

\* Comparing internal keys as byte strings orders versions by user key and, within
\* a key, newest first, although one user key may be a prefix of another and the
\* bytes of a sequence number may be larger than those of a key.
InternalKeysAreOrdered ==
  \A e, f \in Contents :
    /\ StringLess(InternalKeyOf(e), InternalKeyOf(f))
         <=> StringLess(e.key, f.key) \/ (e.key = f.key /\ e.seq > f.seq)
    /\ DecodeInternalKey(InternalKeyOf(e)) = [key |-> e.key, seq |-> e.seq]

\* Walking the bottom level of the MemTable gives every version once, in order, and
\* what is read back from the blocks of its table is the same list.
EntriesAreExact ==
  Entries = Sorted(Contents) /\ SSTableEntries(Flushed) = Entries

\* A read finds the newest visible version in the MemTable, whatever levels its nodes
\* were given and in whatever order they came, and gets the same answer from the
\* table: no filter, index, restart point or shared prefix hides a version or shows
\* another.
FlushPreservesReads ==
  LET table == Flushed
  IN  \A key \in Keys, s \in SequenceNumbers :
        /\ Get(key, s) = NewestVisible(Contents, key, s)
        /\ SSTableGet(table, key, s) = Get(key, s)
=============================================================================
