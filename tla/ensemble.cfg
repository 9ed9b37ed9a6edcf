\* Every call with up to four trajectories and up to five requested workers.
SPECIFICATION FairSpec
CONSTANTS
  MaxCount = 4
  MaxWorkers = 5
INVARIANTS
  TypeOK
  ChunksPartition
  SerialEquivalence
  NoFailureLost
PROPERTIES
  Returns
