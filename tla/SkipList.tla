------------------------------ MODULE SkipList ------------------------------
(***************************************************************************)
(* The skip list behind a MemTable.  A node is named by its internal key;  *)
(* the list has no lock of its own, its users serialise the calls.         *)
(***************************************************************************)
EXTENDS InternalKey

CONSTANTS Keys,           \* user keys: non-empty sequences of bytes 1 .. Base - 1
          SequenceNumbers,     \* the sequence numbers used
          MaxLevel,       \* kMaxLevel
          MaxNodes        \* bound: the nodes of the list

ASSUME SkipListParametersAreValid ==
  MaxLevel \in Nat \ {0} /\ SequenceNumbers \subseteq 0..MaxSequence

VARIABLES next,           \* the forward pointers of each node, one per level
          entry,          \* the entry of each node
          level           \* level_: the levels in use

vars == <<next, entry, level>>

HeadNode == <<>>          \* head_ has the empty internal key
Nil == <<0>>

-----------------------------------------------------------------------------
RECURSIVE Walk(_, _, _)
Walk(current, i, ikey) ==
  LET n == next[current][i]
  IN  IF n # Nil /\ StringLess(n, ikey) THEN Walk(n, i, ikey) ELSE current

\* The last node before ikey on each level, found from the top level down.
Prev(ikey) ==
  LET p[i \in 1..level] == Walk(IF i = level THEN HeadNode ELSE p[i + 1], i, ikey)
  IN  p

FindGreaterOrEqual(ikey) == next[Prev(ikey)[1]][1]

Overwrite(e) ==
  /\ FindGreaterOrEqual(InternalKeyOf(e)) = InternalKeyOf(e)
  /\ entry' = [entry EXCEPT ![InternalKeyOf(e)] = e]
  /\ UNCHANGED <<next, level>>

\* A new node is linked after its predecessor on each of its levels, which is the
\* head on levels that were not in use.
\* (variant: on the levels in use only)
LinkNewLow(e, newLevel) ==
  LET ikey == InternalKeyOf(e)
      prev == Prev(ikey)
  IN  /\ FindGreaterOrEqual(ikey) # ikey
      /\ Cardinality(DOMAIN entry) < MaxNodes
      /\ next' = [n \in DOMAIN next \cup {ikey} |->
                    IF n = ikey
                    THEN [i \in 1..newLevel |-> IF i <= level THEN next[prev[i]][i] ELSE Nil]
                    ELSE [i \in DOMAIN next[n] |->
                            IF i <= newLevel /\ i <= level /\ n = prev[i] THEN ikey
                            ELSE next[n][i]]]
      /\ entry' = [n \in DOMAIN entry \cup {ikey} |-> IF n = ikey THEN e ELSE entry[n]]
      /\ level' = Max({level, newLevel})
LinkNew(e, newLevel) ==
  LET ikey == InternalKeyOf(e)
      found == Prev(ikey)
      prev(i) == IF i <= level THEN found[i] ELSE HeadNode
  IN  /\ FindGreaterOrEqual(ikey) # ikey
      /\ Cardinality(DOMAIN entry) < MaxNodes
      /\ next' = [n \in DOMAIN next \cup {ikey} |->
                    IF n = ikey THEN [i \in 1..newLevel |-> next[prev(i)][i]]
                    ELSE [i \in DOMAIN next[n] |->
                            IF i <= newLevel /\ n = prev(i) THEN ikey ELSE next[n][i]]]
      /\ entry' = [n \in DOMAIN entry \cup {ikey} |-> IF n = ikey THEN e ELSE entry[n]]
      /\ level' = Max({level, newLevel})

\* Put and Delete; RandomLevel may return any level.
Insert(e) == Overwrite(e) \/ \E newLevel \in 1..MaxLevel : LinkNew(e, newLevel)

Get(key, s) ==
  LET candidate == FindGreaterOrEqual(EncodeInternalKey(key, s))
      decoded == DecodeInternalKey(candidate)
  IN  IF candidate = Nil THEN {}
      ELSE {e \in {entry[candidate]} : decoded.key = key /\ decoded.seq <= s}

RECURSIVE EntriesFrom(_)
EntriesFrom(n) == IF n = Nil THEN <<>> ELSE <<entry[n]>> \o EntriesFrom(next[n][1])

Entries == EntriesFrom(next[HeadNode][1])

-----------------------------------------------------------------------------
Init ==
  /\ next = [n \in {HeadNode} |-> [i \in 1..MaxLevel |-> Nil]]
  /\ entry = [n \in {} |-> Nil]
  /\ level = 1

Next == \E e \in [key : Keys, seq : SequenceNumbers, deleted : BOOLEAN] : Insert(e)

Spec == Init /\ [][Next]_vars

-----------------------------------------------------------------------------
Contents == {entry[n] : n \in DOMAIN entry}

\* Every level is a sublist of the level below and its nodes are in order, so that
\* a search never overshoots and no node is lost on the upper levels.
LevelsAreSublists ==
  \A n \in DOMAIN next, i \in 1..MaxLevel :
    i \in DOMAIN next[n] /\ (n # HeadNode \/ i <= level) =>
      LET later == {m \in DOMAIN entry : i \in DOMAIN next[m] /\ (n = HeadNode \/ StringLess(n, m))}
      IN  next[n][i] = IF later = {} THEN Nil
                       ELSE CHOOSE m \in later : \A k \in later : ~StringLess(k, m)
=============================================================================
