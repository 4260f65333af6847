SPECIFICATION Spec
CONSTANTS
  Keys = {1}
  Batches <- OneKeyBatches
  Snaps = {}
  Readers = {}
  MemTableLimit = 1
  Level0Limit = 1
  Level1Limit = 1
  AppendFailures = {"none", "torn", "full"}
  SaveFailures = {"torn"}
  MaxSeq = 2
  MaxFaults = 1
  MaxCrashes = 0
  MaxOpens = 2
  MaxCompacts = 0
CHECK_DEADLOCK FALSE
INVARIANT ReopensAfterError
