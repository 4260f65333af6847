SPECIFICATION Spec
CONSTANTS
  Base = 3
  Keys <- MCKeys
  SequenceNumbers = {1, 2, 3}
  MaxLevel = 2
  MaxNodes = 4
  BlockSize = 60
  RestartInterval = 2
  BitsPerKey = 5
  Hash1 <- MCHash1
  Hash2 <- MCHash2
INVARIANTS
  LevelsAreSublists
  InternalKeysAreOrdered
  EntriesAreExact
  FlushPreservesReads
