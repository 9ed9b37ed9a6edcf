\* The same builds; the value of every layer, reused chunks included.
SPECIFICATION Spec
CONSTANTS
  Cell <- TwoCells
  Outside = Outside
  Missing = Missing
  NoData = NoData
  NoGrids = NoGrids
  Threshold <- TwoThresholds
  Weight <- TwoWeights
  Trajectories <- UpToThreeTrajectories
  Depositions <- SomeDepositions
  Impacts <- SomeImpacts
  MaxWorkers = 3
INVARIANTS
  PreservesSerialOutput
