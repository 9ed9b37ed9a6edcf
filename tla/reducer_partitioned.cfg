\* Two partitions run one after the other, with foreign claims and their leases.
SPECIFICATION Spec
CONSTANTS
  p0 = p0  p1 = p1  ownerA = ownerA  ownerB = ownerB  outsider = outsider
  NoOwner = NoOwner  NoState = NoState  NoPlan = NoPlan
  NoMergeState = NoMergeState  NoLayers = NoLayers
  ChunkCount = 2
  Process <- TwoProcesses
  SchedulerCount = 2
  SchedulerIndex <- TwoIndexes
  OwnerOf <- TwoOwners
  Owner = {ownerA, ownerB, outsider}
  ForeignOwner = {outsider}
  Config = {A}
  PathSet = {P}
  MaxAttempts = 2
  LeaseSeconds = 1
  Overlap = FALSE
  MaxClock = 2
  MaxVersion = 1
  MaxChanges = 0
  MaxFaults = 0
  MaxClaims = 1
INVARIANTS
  CountersCumulative
  StaleRecoveredOnlyIfReused
PROPERTIES
  PartitionIsolation
