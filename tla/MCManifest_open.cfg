SPECIFICATION Spec
CONSTANTS
  Instances = {d1, d2}
  FirstTables <- MCFirstTables
  MaxFile = 4
  MaxFaults = 2
  MaxCrashes = 2
  MaxOpens = 3
SYMMETRY InstanceSymmetry
CHECK_DEADLOCK FALSE
INVARIANTS TypeOK CommittedDirectoriesOpen PublishedDataSurvives NothingComesBack
