\* Trajectory generation and reducer of one build, restarted after failures.
SPECIFICATION FairBuildSpec
CONSTANTS
  p0 = p0  ownerA = ownerA  outsider = outsider
  NoOwner = NoOwner  NoState = NoState  NoPlan = NoPlan
  NoMergeState = NoMergeState  NoLayers = NoLayers
  NoSignature = NoSignature  NoTrajectoryState = NoTrajectoryState
  NoTrajectoryPlan = NoTrajectoryPlan  NoTrajectoryMerge = NoTrajectoryMerge
  ChunkCount = 1
  TrajectoryChunkCount = 2
  Process <- OneProcess
  SchedulerCount = 1
  SchedulerIndex <- OneIndex
  OwnerOf <- OneOwner
  Owner = {ownerA, outsider}
  ForeignOwner = {outsider}
  Config = {A}
  PathSet = {P, Q}
  MaxAttempts = 2
  LeaseSeconds = 1
  Overlap = FALSE
  MaxClock = 0
  MaxVersion = 1
  MaxChanges = 1
  MaxFaults = 1
  MaxClaims = 1
  MaxTrajectoryFaults = 1
  MaxTrajectoryClaims = 1
  MaxInputChanges = 1
  MaxDisturbances = 1
INVARIANTS
  CountsCurrent
  CompletedIsBacked
  ReadFailureBudget
  AttemptMeansGivenUp
  GivenUpStopsBuild
PROPERTIES
  BuildsEnd
  EventuallyDelivers
