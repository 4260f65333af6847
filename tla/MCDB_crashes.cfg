SPECIFICATION Spec
CONSTANTS
  Keys = {1, 2}
  Batches <- GroupedBatches
  Snaps = {}
  Readers = {}
  MemTableLimit = 1
  Level0Limit = 1
  Level1Limit = 1
  AppendFailures = {"none", "torn"}
  SaveFailures = {"none", "full"}
  MaxSeq = 3
  MaxFaults = 1
  MaxCrashes = 2
  MaxOpens = 3
  MaxCompacts = 0
CHECK_DEADLOCK FALSE
INVARIANTS EveryCrashRecovers FileNumbersAreFresh 
PROPERTIES ImplementsKVStore
