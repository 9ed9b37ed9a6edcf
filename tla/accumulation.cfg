\* Up to three trajectory files on up to three threads, any chunks reused.
SPECIFICATION Spec
CONSTANTS
  Cell <- TwoCells
  Outside = Outside
  Missing = Missing
  NoData = NoData
  NoGrids = NoGrids
  Threshold <- TwoThresholds
  Weight <- TwoWeights
  Trajectories <- UpToThreeTrajectories
  Depositions <- SomeDepositions
  Impacts <- SomeImpacts
  MaxWorkers = 3
INVARIANTS
  TypeOK
  Coherent
  MergedIsSerial
