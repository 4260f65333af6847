SPECIFICATION Spec
CONSTANTS
  Keys = {1, 2}
  Batches <- TwoKeyBatches
  Snaps = {}
  Readers = {}
  MemTableLimit = 1
  Level0Limit = 1
  Level1Limit = 1
  AppendFailures = {"none", "torn", "full"}
  SaveFailures = {"none", "full"}
  MaxSeq = 4
  MaxFaults = 0
  MaxCrashes = 0
  MaxOpens = 1
  MaxCompacts = 0
CHECK_DEADLOCK FALSE
 
PROPERTY ImplementsKVStore
