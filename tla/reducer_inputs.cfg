\* One build that is run again after its inputs were rewritten in place.
SPECIFICATION Spec
CONSTANTS
  p0 = p0  p1 = p1  ownerA = ownerA  ownerB = ownerB  outsider = outsider
  NoOwner = NoOwner  NoState = NoState  NoPlan = NoPlan
  NoMergeState = NoMergeState  NoLayers = NoLayers
  ChunkCount = 2
  Process <- OneProcess
  SchedulerCount = 1
  SchedulerIndex <- OneIndex
  OwnerOf <- OneOwner
  Owner = {ownerA, outsider}
  ForeignOwner = {}
  Config = {A}
  PathSet = {P}
  MaxAttempts = 2
  LeaseSeconds = 1
  Overlap = FALSE
  MaxClock = 0
  MaxVersion = 1
  MaxChanges = 0
  MaxFaults = 0
  MaxClaims = 0
INVARIANT LayersCurrent
