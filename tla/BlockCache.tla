----------------------------- MODULE BlockCache -----------------------------
(***************************************************************************)
(* The LRU cache of data blocks that all SSTables share, and the readers   *)
(* that go through it.  Get and Put hold the mutex of the cache; between   *)
(* a miss and the Put that follows it, other readers run.  A read of the   *)
(* file may deliver damaged bytes; they are cached before anyone looks at  *)
(* the checksum.  The hit and miss counters are left out.                  *)
(***************************************************************************)
EXTENDS Integers, Sequences, FiniteSets, SequencesExt

CONSTANTS Readers,
          Files,          \* file numbers
          Offsets,        \* block offsets
          Capacities      \* the sizes the cache may be given, in blocks

ASSUME CapacitiesAreNat == Capacities \subseteq Nat

VARIABLES capacity,       \* capacity_, fixed by the options at Open
          entries,        \* entries_: [key, block], the most recently used first
          index,          \* the keys of index_
          reader,         \* a read in progress: ReadRawBlock
          used            \* history: the keys that were cached, by their last use

vars == <<capacity, entries, index, reader, used>>

CacheKeys == [file : Files, offset : Offsets]

\* The bytes of a block.  A file never changes and its number is never given to
\* another file (FileNumbersAreFresh of DBCorrect), so they are named by the place.
BlockAt(file, offset) == <<file, offset>>
Damaged == <<>>

Idle == [pc |-> "idle", file |-> 0, offset |-> 0, block |-> <<>>]

-----------------------------------------------------------------------------
\* The cache is keyed by file number and offset.
Key(file, offset) == [file |-> file, offset |-> offset]

Without(key) == SelectSeq(entries, LAMBDA e : e.key # key)
EntryOf(key) == CHOOSE e \in ToSet(entries) : e.key = key

\* (variant: a hit leaves the order alone)
TouchNothing(key) == entries
\* A hit moves the entry to the front.
Touch(key) == <<EntryOf(key)>> \o Without(key)

Use(key) == used' = <<key>> \o SelectSeq(used, LAMBDA k : k # key)

\* (variant: a cached block is taken to be good)
GetHitsTrusted(r, file, offset) ==
  LET key == Key(file, offset)
  IN  /\ reader[r].pc = "idle"
      /\ capacity > 0 /\ key \in index
      /\ entries' = Touch(key)
      /\ reader' = [reader EXCEPT ![r] = [pc |-> "done", file |-> file, offset |-> offset,
                                          block |-> EntryOf(key).block]]
      /\ Use(key)
      /\ UNCHANGED <<capacity, index>>

GetHits(r, file, offset) ==
  LET key == Key(file, offset)
  IN  /\ reader[r].pc = "idle"
      /\ capacity > 0 /\ key \in index
      /\ entries' = Touch(key)
      /\ reader' = [reader EXCEPT ![r] = [pc |-> "verify", file |-> file, offset |-> offset,
                                          block |-> EntryOf(key).block]]
      /\ Use(key)
      /\ UNCHANGED <<capacity, index>>

GetMisses(r, file, offset) ==
  /\ reader[r].pc = "idle"
  /\ capacity = 0 \/ Key(file, offset) \notin index
  /\ reader' = [reader EXCEPT ![r] = [pc |-> "read", file |-> file, offset |-> offset,
                                      block |-> <<>>]]
  /\ UNCHANGED <<capacity, entries, index, used>>

\* ReadExactAt returns bytes, good or damaged, or an error.
ReadsFile(r) ==
  /\ reader[r].pc = "read"
  /\ \E b \in {BlockAt(reader[r].file, reader[r].offset), Damaged} :
       reader' = [reader EXCEPT ![r].pc = "put", ![r].block = b]
  /\ UNCHANGED <<capacity, entries, index, used>>

ReadFails(r) ==
  /\ reader[r].pc = "read"
  /\ reader' = [reader EXCEPT ![r] = Idle]
  /\ UNCHANGED <<capacity, entries, index, used>>

\* What remains of the list and of the map once the last entries are evicted.
Kept(list) == SubSeq(list, 1, IF Len(list) > capacity THEN capacity ELSE Len(list))

KeptIndex(list) ==
  (index \cup {list[1].key}) \ {list[i].key : i \in (capacity + 1)..Len(list)}

Put(r) ==
  LET key == Key(reader[r].file, reader[r].offset)
      front == <<[key |-> key, block |-> reader[r].block]>>
  IN  /\ reader[r].pc = "put"
      /\ \/ /\ capacity = 0
            /\ UNCHANGED <<capacity, entries, index, used>>
         \/ /\ capacity > 0 /\ key \in index
            /\ entries' = front \o Without(key)
            /\ UNCHANGED index
            /\ Use(key)
         \/ /\ capacity > 0 /\ key \notin index
            /\ entries' = Kept(front \o entries)
            /\ index' = KeptIndex(front \o entries)
            /\ Use(key)
      /\ reader' = [reader EXCEPT ![r].pc = "verify"]
      /\ UNCHANGED capacity

\* DecodeBlockPayload checks magic and checksum of what it was given, from the file
\* or from the cache: the read goes on or returns Corruption.
Verifies(r) ==
  /\ reader[r].pc = "verify"
  /\ reader' = [reader EXCEPT ![r] = IF @.block = Damaged THEN Idle ELSE [@ EXCEPT !.pc = "done"]]
  /\ UNCHANGED <<capacity, entries, index, used>>

Return(r) ==
  /\ reader[r].pc = "done"
  /\ reader' = [reader EXCEPT ![r] = Idle]
  /\ UNCHANGED <<capacity, entries, index, used>>

-----------------------------------------------------------------------------
Init ==
  /\ capacity \in Capacities
  /\ entries = <<>> /\ index = {} /\ used = <<>>
  /\ reader = [r \in Readers |-> Idle]

Next ==
  \E r \in Readers :
    \/ \E file \in Files, offset \in Offsets : GetHits(r, file, offset) \/ GetMisses(r, file, offset)
    \/ ReadsFile(r) \/ ReadFails(r) \/ Put(r) \/ Verifies(r) \/ Return(r)

Spec == Init /\ [][Next]_vars

-----------------------------------------------------------------------------
CachedKeys == [i \in DOMAIN entries |-> entries[i].key]

\* A read that succeeds returns the block it asked for, whoever put it in the cache,
\* although damaged blocks are cached too and stay there until they are evicted.
ReadsReturnTheBlock ==
  \A r \in Readers :
    reader[r].pc = "done" => reader[r].block = BlockAt(reader[r].file, reader[r].offset)

\* The list holds the capacity_ blocks used last, each once, most recent first, and the
\* map holds the same, also when several readers miss a block and all of them put it.
EvictsLeastRecentlyUsed ==
  /\ ToSet(CachedKeys) = index
  /\ CachedKeys = SubSeq(used, 1, IF Len(used) > capacity THEN capacity ELSE Len(used))
=============================================================================
