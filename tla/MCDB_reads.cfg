SPECIFICATION Spec
CONSTANTS
  Keys = {1}
  Batches <- OneKeyBatches
  Snaps = {1}
  Readers = {1}
  MemTableLimit = 2
  Level0Limit = 1
  Level1Limit = 1
  AppendFailures = {"none", "torn", "full"}
  SaveFailures = {"none", "full"}
  MaxSeq = 3
  MaxFaults = 0
  MaxCrashes = 0
  MaxOpens = 1
  MaxCompacts = 0
CHECK_DEADLOCK FALSE
INVARIANTS ReadsAreStable TypeOK
PROPERTIES ImplementsKVStore
