SPECIFICATION Spec
CONSTANTS
  Readers = {r1, r2}
  Files = {1, 2}
  Offsets = {1, 2}
  Capacities = {0, 1, 2, 3}
SYMMETRY Symmetric
INVARIANTS
  ReadsReturnTheBlock
  EvictsLeastRecentlyUsed
