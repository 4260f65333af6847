SPECIFICATION FairSpec
CONSTANTS
  Keys = {1, 2}
  NumVersions = 3
  ReadSeqs = {2, 3}
  Layouts <- MCLayouts
INVARIANTS
  IteratorIsExact
PROPERTIES
  AdvanceTerminates
