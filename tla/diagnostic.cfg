\* Two operators give commands for one run root, with one job and one kill.
SPECIFICATION FairSpec
CONSTANTS
  o1 = o1  o2 = o2
  Operator <- TwoOperators
  MonitorTimeout = TRUE
  NoRecord = NoRecord
  NoJob = NoJob
  MaxJobs = 1
  MaxKills = 1
INVARIANTS
  TypeOK
  CompletedIsTrue
PROPERTIES
  CommandsEnd
  CompletedIsMeasured
