SPECIFICATION FairSpec
CONSTANTS
  k1 = k1
  k2 = k2
  v1 = v1
  v2 = v2
  bad = bad
  plain = plain
  Keys = {k1, k2}
  Vectors = {v1, v2}
  Plain = {plain}
  Malformed = {bad}
  t1 = t1
  t2 = t2
  Threads = {t1, t2}
  Batches <- SomeBatches
  InitialViews <- StoredViews
  s1 = s1
  Snaps = {s1}
  RebuildOps = 3
  TopK = 1
  MaxSequence = 20
  MaxCalls = 4
  MaxFaults = 1
CHECK_DEADLOCK FALSE
INVARIANTS TypeOK IndexMatchesStore SearchesSeeTheStore ResultsAreHonest DirtyNeedsFault
PROPERTY CallsReturn
