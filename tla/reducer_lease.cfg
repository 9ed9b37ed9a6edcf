\* One build that is run again while another owner's lease is live.
SPECIFICATION Spec
CONSTANTS
  p0 = p0  p1 = p1  ownerA = ownerA  ownerB = ownerB  outsider = outsider
  NoOwner = NoOwner  NoState = NoState  NoPlan = NoPlan
  NoMergeState = NoMergeState  NoLayers = NoLayers
  ChunkCount = 2
  Process <- OneProcess
  SchedulerCount = 1
  SchedulerIndex <- OneIndex
  OwnerOf <- OneOwner
  Owner = {ownerA, outsider}
  ForeignOwner = {outsider}
  Config = {A}
  PathSet = {P}
  MaxAttempts = 2
  LeaseSeconds = 2
  Overlap = FALSE
  MaxClock = 0
  MaxVersion = 0
  MaxChanges = 0
  MaxFaults = 0
  MaxClaims = 1
INVARIANT LeaseRespected
