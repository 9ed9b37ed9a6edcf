\* One operator; the record's verdict on a job that has left the queue.
SPECIFICATION Spec
CONSTANTS
  o1 = o1  o2 = o2
  Operator <- OneOperator
  MonitorTimeout = TRUE
  NoRecord = NoRecord
  NoJob = NoJob
  MaxJobs = 1
  MaxKills = 0
INVARIANT TerminalIsTrue
