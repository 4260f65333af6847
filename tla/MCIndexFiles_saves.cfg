SPECIFICATION IndexSpec
CONSTANTS
  Keys = {a, b}
  Vectors = {v1, v2}
  SeqNumbers = {1}
  MaxNodes = 2
  MaxSaves = 2
  MaxIOErrors = 1
  MaxCrashes = 1
SYMMETRY IndexSymmetry
CHECK_DEADLOCK FALSE
INVARIANTS
  
  SavesSurvive
  
  MergeTakesAll
PROPERTY VersionsAreImmutable
