\* One trajectory on a plane: every release, slope, horizon and restitution.
SPECIFICATION Spec
CONSTANTS
  StepTime = 2
  Horizons = {1, 6, 7}
  Gravities = {1, 2}
  Slopes = {0, 2}
  Unit = 2
  Ground <- SomeGround
  Rough = TRUE
  Scarring = TRUE
  StopSpeed = 1
  NearGap = 1
  Release <- SomeRelease
INVARIANTS
  TypeOK
  LabelTruthful
  StoppedIsHeld
  ReasonFitsMotion
PROPERTIES
  ContactDissipates
