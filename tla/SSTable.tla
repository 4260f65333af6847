------------------------------ MODULE SSTable -------------------------------
(***************************************************************************)
(* An SSTable file: how CreateFromEntries cuts the sorted versions into    *)
(* prefix-compressed blocks with restart points, an index and a Bloom      *)
(* filter, and how Get and Entries find them again.                        *)
(*                                                                         *)
(* Bytes are kept where the search depends on them (keys, shared prefixes, *)
(* internal keys); offsets become positions, values are left out, and a    *)
(* checksum mismatch is an unreadable block (module Iterator).  Module      *)
(* FlushedTable checks the tables made from MemTables.                     *)
(***************************************************************************)
EXTENDS InternalKey, Functions

CONSTANTS BlockSize,        \* block_size
          RestartInterval,  \* kRestartInterval
          BitsPerKey,       \* bloom_bits_per_key
          Hash1, Hash2      \* BloomFilter::Hash with its two seeds

ASSUME TableParametersAreValid ==
  /\ RestartInterval \in Nat \ {0} /\ BlockSize \in Nat \ {0}
  /\ BitsPerKey \in 1..64

-----------------------------------------------------------------------------
(***************************************************************************)
(* The Bloom filter.                                                       *)
(***************************************************************************)
BitCount(n) == Max({64, n * BitsPerKey})

\* static_cast<size_t>(bits_per_key * 0.69), between 1 and 30.
HashCount == Max({1, Min({30, (BitsPerKey * 69) \div 100})})

KeyBits(key, bitCount) == {(Hash1[key] + i * Hash2[key]) % bitCount : i \in 0..(HashCount - 1)}

Build(keys) ==
  LET bitCount == BitCount(Cardinality(keys))
  IN  [bitCount |-> bitCount, bits |-> UNION {KeyBits(k, bitCount) : k \in keys}]

MayContain(filter, key) == KeyBits(key, filter.bitCount) \subseteq filter.bits

-----------------------------------------------------------------------------
(***************************************************************************)
(* A data block.                                                           *)
(***************************************************************************)
\* The length of the common prefix.
\* (variant: counts the byte in which the keys differ)
SharedLengthPast(a, b) ==
  Min({Len(a), Len(b),
       1 + Max({n \in 0..Min({Len(a), Len(b)}) : SubSeq(a, 1, n) = SubSeq(b, 1, n)})})
SharedLength(a, b) ==
  Max({n \in 0..Min({Len(a), Len(b)}) : SubSeq(a, 1, n) = SubSeq(b, 1, n)})

\* A key is stored as what it does not share with the key before it, and in full
\* at every restart point.
EncodeBlock(s) ==
  LET restart(i) == (i - 1) % RestartInterval = 0
      shared(i) == IF restart(i) THEN 0 ELSE SharedLength(s[i - 1].key, s[i].key)
  IN  [records  |-> [i \in DOMAIN s |->
                       [shared |-> shared(i), unshared |-> SubSeq(s[i].key, shared(i) + 1, Len(s[i].key)),
                        seq |-> s[i].seq, deleted |-> s[i].deleted]],
       restarts |-> [r \in 1..((Len(s) + RestartInterval - 1) \div RestartInterval) |->
                       (r - 1) * RestartInterval + 1]]

DecodePrefixRecordAt(block, i, previousKey) ==
  LET r == block.records[i]
  IN  [key |-> SubSeq(previousKey, 1, r.shared) \o r.unshared, seq |-> r.seq, deleted |-> r.deleted]

\* The records from position i on, decoded one after another.
DecodedFrom(block, i) ==
  LET d[j \in i..Len(block.records)] ==
        DecodePrefixRecordAt(block, j, IF j = i THEN <<>> ELSE d[j - 1].key)
  IN  d

RestartKey(block, r) ==
  InternalKeyOf(DecodePrefixRecordAt(block, block.restarts[r + 1], <<>>))

\* The binary search over the restart points, which are numbered from 0.
\* (variant: begins after the point it finds)
RestartIndexAfter(block, target) ==
  LET n == Len(block.restarts)
      search[w \in 0..n, left \in 0..n] ==
        IF w = 0 THEN left
        ELSE LET mid == left + w \div 2
             IN  IF ~StringLess(target, RestartKey(block, mid))
                 THEN search[left + w - mid - 1, mid + 1] ELSE search[mid - left, left]
  IN  Min({n - 1, search[n, 0]})
RestartIndex(block, target) ==
  LET n == Len(block.restarts)
      \* w = right - left
      search[w \in 0..n, left \in 0..n] ==
        IF w = 0 THEN left
        ELSE LET mid == left + w \div 2
             IN  IF ~StringLess(target, RestartKey(block, mid))
                 THEN search[left + w - mid - 1, mid + 1] ELSE search[mid - left, left]
      left == search[n, 0]
  IN  IF left = 0 THEN 0 ELSE left - 1

\* Scans from the restart point to the first record of the key that is visible, or
\* of a larger key.
GetFromBlock(block, key, s) ==
  LET d == DecodedFrom(block, block.restarts[RestartIndex(block, EncodeInternalKey(key, s)) + 1])
      stops == {j \in DOMAIN d : (d[j].key = key /\ d[j].seq <= s) \/ StringLess(key, d[j].key)}
  IN  {e \in {d[j] : j \in {j \in stops : \A i \in stops : j <= i}} : e.key = key}

-----------------------------------------------------------------------------
(***************************************************************************)
(* The table.                                                              *)
(***************************************************************************)
kRecordHeaderSize == 17

\* A block is full when its records reach BlockSize, and then takes the remaining
\* versions of its last key.
BlockEnd(s, begin) ==
  LET size(e) == 8 + MapThenSumSet(LAMBDA i : kRecordHeaderSize + Len(s[i].key), begin..e)
      end == Min({e \in begin..Len(s) : e = Len(s) \/ size(e) >= BlockSize})
  IN  Max({e \in end..Len(s) : s[e].key = s[end].key})

\* The blocks in order, each from where the one before it ends.
RECURSIVE BlocksFrom(_, _)
BlocksFrom(s, begin) ==
  IF begin > Len(s) THEN <<>>
  ELSE LET end == BlockEnd(s, begin)
       IN  <<SubSeq(s, begin, end)>> \o BlocksFrom(s, end + 1)

TableOf(s, blocks) ==
  [blocks |-> [n \in DOMAIN blocks |-> EncodeBlock(blocks[n])],
   index  |-> [n \in DOMAIN blocks |-> InternalKeyOf(blocks[n][Len(blocks[n])])],
   filter |-> Build({e.key : e \in Range(s)})]

CreateFromEntries(s) == TableOf(s, BlocksFrom(s, 1))

SSTableGet(table, key, s) ==
  LET target == EncodeInternalKey(key, s)
      candidates == {n \in DOMAIN table.index : ~StringLess(table.index[n], target)}
  IN  IF ~MayContain(table.filter, key) \/ candidates = {} THEN {}
      ELSE GetFromBlock(table.blocks[Min(candidates)], key, s)

\* All blocks, decoded and concatenated.
SSTableEntries(table) ==
  LET before[n \in 0..Len(table.blocks)] ==
        IF n = 0 THEN <<>> ELSE before[n - 1] \o DecodedFrom(table.blocks[n], 1)
  IN  before[Len(table.blocks)]

=============================================================================
