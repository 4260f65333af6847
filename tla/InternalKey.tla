----------------------------- MODULE InternalKey ----------------------------
(***************************************************************************)
(* Internal keys: the byte strings by which MemTables and SSTables order   *)
(* the versions of all user keys.  A user key is a sequence of non-zero    *)
(* bytes, and a sequence number is written with two digits of base Base    *)
(* where the source writes eight bytes.                                    *)
(***************************************************************************)
EXTENDS MVCC, Sequences

CONSTANT Base

ASSUME BaseIsAtLeastTwo == Base \in Nat \ {0, 1}

MaxSequence == Base * Base - 1

\* std::string's operator<, byte by byte.
StringLess(a, b) ==
  \/ Len(a) < Len(b) /\ a = SubSeq(b, 1, Len(a))
  \/ \E i \in 1..Min({Len(a), Len(b)}) :
       a[i] < b[i] /\ SubSeq(a, 1, i - 1) = SubSeq(b, 1, i - 1)

\* The user key, a zero byte, and the sequence number inverted so that newer
\* versions come first.
\* (variant: without the zero byte)
EncodeInternalKeyUnseparated(key, seq) ==
  LET inverted == MaxSequence - seq
  IN  key \o <<inverted \div Base, inverted % Base>>
EncodeInternalKey(key, seq) ==
  LET inverted == MaxSequence - seq
  IN  key \o <<0, inverted \div Base, inverted % Base>>

DecodeInternalKey(ikey) ==
  LET n == Len(ikey)
  IN  [key |-> SubSeq(ikey, 1, n - 3),
       seq |-> MaxSequence - (ikey[n - 1] * Base + ikey[n])]

InternalKeyOf(e) == EncodeInternalKey(e.key, e.seq)

\* The versions in E in the order of their internal keys.
Sorted(E) ==
  LET rank(e) == Cardinality({f \in E : StringLess(InternalKeyOf(f), InternalKeyOf(e))})
  IN  [i \in 1..Cardinality(E) |-> CHOOSE e \in E : rank(e) = i - 1]

-----------------------------------------------------------------------------
\* The version a read of key at sequence s must find in E, tombstones included.
NewestVisible(E, key, s) ==
  LET V == VisibleAt(E, key, s)
  IN  IF V = {} THEN {} ELSE {Newest(V)}
=============================================================================
