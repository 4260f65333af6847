SPECIFICATION FairSpec
CONSTANTS
  Keys = {1}
  Batches <- OneKeyBatches
  Snaps = {}
  Readers = {}
  MemTableLimit = 1
  Level0Limit = 1
  Level1Limit = 1
  AppendFailures = {"none", "torn", "full"}
  SaveFailures = {"none", "full"}
  MaxSeq = 2
  MaxFaults = 1
  MaxCrashes = 0
  MaxOpens = 2
  MaxCompacts = 1
CHECK_DEADLOCK FALSE
INVARIANTS PublishChecksHold SequencesIdentifyWrites
PROPERTIES ImplementsKVStore FlushesComplete CloseTerminates
