\* One unpartitioned build, restarted after kills and changes of its options.
SPECIFICATION FairSpec
CONSTANTS
  p0 = p0  p1 = p1  ownerA = ownerA  ownerB = ownerB  outsider = outsider
  NoOwner = NoOwner  NoState = NoState  NoPlan = NoPlan
  NoMergeState = NoMergeState  NoLayers = NoLayers
  ChunkCount = 2
  Process <- OneProcess
  SchedulerCount = 1
  SchedulerIndex <- OneIndex
  OwnerOf <- OneOwner
  Owner = {ownerA, outsider}
  ForeignOwner = {}
  Config = {A, B}
  PathSet = {P, Q}
  MaxAttempts = 2
  LeaseSeconds = 1
  Overlap = FALSE
  MaxClock = 0
  MaxVersion = 0
  MaxChanges = 1
  MaxFaults = 1
  MaxClaims = 0
INVARIANTS
  TypeOK
  RetryBudget
  LayersMatchOptions
  LayersComplete
  ReadyIsBacked
  WorkBound
  FailureBudget
PROPERTIES
  RunsEnd
  EventuallySettled
  ImplementsLedger
