----------------------------- MODULE DiagnosticRun -----------------------------
(***************************************************************************)
(* scripts/run_balfrin_diagnostic.py: the commands prepare, submit,        *)
(* monitor, collect and run of one run root, and the Slurm jobs they start.*)
(*                                                                         *)
(* A command reads run_record.json, asks the scheduler, and writes the     *)
(* record back whole; several operators may give commands for the same run *)
(* root, and any command may be killed.  The scheduler is external: sbatch *)
(* may answer too late, squeue and sacct may fail, and the accounting may  *)
(* lag behind a job.  A record that is absent and one that does not parse  *)
(* are the same to every reader: NoRecord.                                 *)
(***************************************************************************)
EXTENDS Naturals

CONSTANTS
  Operator,         \* who gives commands; each has at most one in progress
  MonitorTimeout,   \* whether --monitor-timeout-seconds is positive
  NoRecord, NoJob,
  MaxJobs,          \* bound on the jobs the scheduler accepts
  MaxKills          \* bound on the commands that are killed

ASSUME SchedulerAssumption ==
  /\ MonitorTimeout \in BOOLEAN
  /\ MaxJobs \in Nat /\ MaxKills \in Nat
  /\ NoJob \notin Nat

Job == 1 .. MaxJobs

VARIABLES
  record,      \* run_record.json
  report,      \* multi_zone_reducer_pressure.json
  job,         \* the scheduler's state of each job
  pc, action,  \* where each operator's command is, and which one it is
  held,        \* the record it has read or made
  late,        \* whether --monitor-timeout-seconds have passed since it started to poll
  kills

cluster == <<job, report>>
command == <<pc, action, held, late>>
vars == <<record, cluster, command, kills>>
-------------------------------------------------------------------------------
(* Data types *)

Status ==
  {"prepared", "submitted", "blocked_scheduler_submit", "blocked_missing_job_id",
   "running_or_queued", "monitor_timeout", "completed", "terminal_non_success",
   "collected_without_terminal_scheduler_state"}
Collection == {"none", "complete", "blocked_missing_pressure_report"}
Record == [status : Status, job : Job \cup {NoJob}, collection : Collection]

\* "queued" is pending or running.
JobState == {"unknown", "queued", "writing", "reported", "COMPLETED", "FAILED"}
Live(j) == job[j] \in {"queued", "writing", "reported"}

Action == {"prepare", "submit", "monitor", "collect", "run"}
Step == {"idle", "prepare", "sbatch", "submitted", "monitor", "squeue", "timeout", "sacct",
         "collect", "report"}

ASSUME RecordAssumption == NoRecord \notin Record

\* base_record.
BaseRecord == [status |-> "prepared", job |-> NoJob, collection |-> "none"]

Init ==
  /\ record = NoRecord
  /\ report = "absent"
  /\ job = [j \in Job |-> "unknown"]
  /\ pc = [o \in Operator |-> "idle"]
  /\ action = [o \in Operator |-> "none"]
  /\ held = [o \in Operator |-> NoRecord]
  /\ late = [o \in Operator |-> FALSE]
  /\ kills = 0

GoTo(o, step) == pc' = [pc EXCEPT ![o] = step]

\* Nothing of a command survives it.
End(o) ==
  /\ GoTo(o, "idle")
  /\ action' = [action EXCEPT ![o] = "none"]
  /\ held' = [held EXCEPT ![o] = NoRecord]
  /\ late' = [late EXCEPT ![o] = FALSE]

\* run goes on to its next part, which reads the record again; the others end.
ThenRun(o, step) ==
  IF action[o] = "run"
  THEN /\ GoTo(o, step)
       /\ held' = [held EXCEPT ![o] = NoRecord]
       /\ late' = [late EXCEPT ![o] = FALSE]
       /\ UNCHANGED action
  ELSE End(o)
-------------------------------------------------------------------------------
(* Commands *)

\* main: submit and run prepare first; monitor and collect start with the record.
Give(o, a) ==
  /\ pc[o] = "idle"
  /\ action' = [action EXCEPT ![o] = a]
  /\ GoTo(o, IF a \in {"monitor", "collect"} THEN a ELSE "prepare")
  /\ UNCHANGED <<record, cluster, held, late, kills>>

\* prepare: a new record replaces whatever was there; the other files stay.
Prepare(o) ==
  /\ pc[o] = "prepare"
  /\ record' = BaseRecord
  /\ IF action[o] = "prepare" THEN End(o)
     ELSE /\ GoTo(o, "sbatch")
          /\ held' = [held EXCEPT ![o] = BaseRecord]
          /\ UNCHANGED <<action, late>>
  /\ UNCHANGED <<cluster, kills>>

\* The scheduler accepts a job under the next free id.
Accept(j) ==
  /\ job[j] = "unknown"
  /\ \A i \in Job : i < j => job[i] # "unknown"
  /\ job' = [job EXCEPT ![j] = "queued"]

\* sbatch returns 0 and the id of the job, or prints nothing: then no id is recorded.
SbatchAccepted(o) ==
  /\ pc[o] = "sbatch"
  /\ \E j \in Job :
       /\ Accept(j)
       /\ \E id \in {j, NoJob} :
            held' = [held EXCEPT ![o].status = "submitted", ![o].job = id]
  /\ GoTo(o, "submitted")
  /\ UNCHANGED <<record, report, action, late, kills>>

\* submit writes what sbatch said; run goes on to monitor.
RecordSubmission(o) ==
  /\ pc[o] = "submitted"
  /\ record' = held[o]
  /\ ThenRun(o, "monitor")
  /\ UNCHANGED <<cluster, kills>>

\* sbatch returns an error.
SbatchRejected(o) ==
  /\ pc[o] = "sbatch"
  /\ record' = [held[o] EXCEPT !.status = "blocked_scheduler_submit"]
  /\ End(o)
  /\ UNCHANGED <<cluster, kills>>

\* sbatch does not answer within --slurm-timeout-seconds, its job accepted or not:
\* TimeoutExpired ends the command before the record is written again.
SbatchTimesOut(o) ==
  /\ pc[o] = "sbatch"
  /\ (\E j \in Job : Accept(j)) \/ UNCHANGED job
  /\ End(o)
  /\ UNCHANGED <<record, report, kills>>

\* The record does not exist, does not parse, or another command is writing it.
MayBeUnreadable(o) ==
  record = NoRecord \/ \E q \in Operator \ {o} : pc[q] \notin {"idle", "collect"}

\* Mutant: a record without a job id is monitored all the same.
StartMonitorAnyway(o) ==
  /\ pc[o] = "monitor"
  /\ IF record = NoRecord THEN End(o)
     ELSE GoTo(o, "squeue") /\ held' = [held EXCEPT ![o] = record] /\ UNCHANGED <<action, late>>
  /\ UNCHANGED <<record, cluster, kills>>

\* monitor reads the record; without one, or without a job id, it gives up.
StartMonitor(o) ==
  /\ pc[o] = "monitor"
  /\ \/ /\ MayBeUnreadable(o)
        /\ End(o)
        /\ UNCHANGED record
     \/ /\ record # NoRecord
        /\ record.job = NoJob
        /\ record' = [record EXCEPT !.status = "blocked_missing_job_id"]
        /\ ThenRun(o, "collect")
     \/ /\ record # NoRecord
        /\ record.job # NoJob
        /\ held' = [held EXCEPT ![o] = record]
        /\ GoTo(o, "squeue")
        /\ UNCHANGED <<record, action, late>>
  /\ UNCHANGED <<cluster, kills>>

\* squeue shows the job.
PollVisible(o) ==
  /\ pc[o] = "squeue"
  /\ Live(held[o].job)
  /\ held' = [held EXCEPT ![o].status = "running_or_queued"]
  /\ record' = held'[o]
  /\ GoTo(o, "timeout")
  /\ UNCHANGED <<cluster, action, late, kills>>

\* squeue shows no job, or fails.
PollNothing(o) ==
  /\ pc[o] = "squeue"
  /\ GoTo(o, "sacct")
  /\ UNCHANGED <<record, cluster, action, held, late, kills>>

\* Mutant: the time limit is never looked at.
CheckTimeoutNever(o) ==
  /\ pc[o] = "timeout"
  /\ GoTo(o, "squeue")
  /\ UNCHANGED <<record, cluster, action, held, late, kills>>

\* The time limit is looked at once per poll.
CheckTimeout(o) ==
  /\ pc[o] = "timeout"
  /\ IF MonitorTimeout /\ late[o]
     THEN /\ record' = [held[o] EXCEPT !.status = "monitor_timeout"]
          /\ ThenRun(o, "collect")
     ELSE /\ GoTo(o, "squeue")
          /\ UNCHANGED <<record, action, held, late>>
  /\ UNCHANGED <<cluster, kills>>

\* Mutant: a job that squeue no longer shows has completed unless it has failed.
TerminalStatusUnlessFailed(state) ==
  IF state = "FAILED" THEN "terminal_non_success" ELSE "completed"

\* The status monitor ends with, from the state sacct reports.
TerminalStatus(state) ==
  IF state = "COMPLETED" THEN "completed" ELSE "terminal_non_success"

\* sacct reports the job's state, or nothing: it fails or lags behind.
Account(o) ==
  /\ pc[o] = "sacct"
  /\ \E state \in {job[held[o].job], "unknown"} :
       record' = [held[o] EXCEPT !.status = TerminalStatus(state)]
  /\ ThenRun(o, "collect")
  /\ UNCHANGED <<cluster, kills>>

\* collect reads the record.
StartCollect(o) ==
  /\ pc[o] = "collect"
  /\ \/ MayBeUnreadable(o) /\ End(o)
     \/ /\ record # NoRecord
        /\ GoTo(o, "report")
        /\ held' = [held EXCEPT ![o] = record]
        /\ UNCHANGED <<action, late>>
  /\ UNCHANGED <<record, cluster, kills>>

\* Mutant: the report is only taken over from a run nobody has monitored.
CollectedOnlySubmitted(r) ==
  [r EXCEPT
    !.status = IF @ \in {"submitted", "running_or_queued"}
               THEN "collected_without_terminal_scheduler_state" ELSE @,
    !.collection = IF report = "absent" \/ r.status # "submitted"
                   THEN "blocked_missing_pressure_report" ELSE "complete"]

\* The record collect makes of the record it read and the report it found.
Collected(r) ==
  [r EXCEPT
    !.status = IF @ \in {"submitted", "running_or_queued"}
               THEN "collected_without_terminal_scheduler_state" ELSE @,
    !.collection = IF report = "absent"
                   THEN "blocked_missing_pressure_report" ELSE "complete"]

\* collect takes over the report; one that does not parse ends the command.
CollectReport(o) ==
  /\ pc[o] = "report"
  /\ IF report = "torn" THEN UNCHANGED record ELSE record' = Collected(held[o])
  /\ End(o)
  /\ UNCHANGED <<cluster, kills>>

\* The command is killed; the record it was writing may be left unreadable.
Kill(o) ==
  /\ kills < MaxKills
  /\ pc[o] # "idle"
  /\ kills' = kills + 1
  /\ record' \in {record, NoRecord}
  /\ End(o)
  /\ UNCHANGED cluster

\* --monitor-timeout-seconds have passed since the command started to poll.
Elapse(o) ==
  /\ pc[o] \in {"squeue", "timeout", "sacct"}
  /\ ~late[o]
  /\ late' = [late EXCEPT ![o] = TRUE]
  /\ UNCHANGED <<record, cluster, pc, action, held, kills>>
-------------------------------------------------------------------------------
(* The jobs: the sbatch script runs the pressure command and stops if it fails. *)

\* The report is written in place: until it is whole it does not parse.
JobWrites(j) ==
  /\ job[j] = "queued"
  /\ job' = [job EXCEPT ![j] = "writing"]
  /\ report' = "torn"
  /\ UNCHANGED <<record, command, kills>>

JobReports(j) ==
  /\ job[j] = "writing"
  /\ job' = [job EXCEPT ![j] = "reported"]
  /\ report' = "whole"
  /\ UNCHANGED <<record, command, kills>>

JobCompletes(j) ==
  /\ job[j] = "reported"
  /\ job' = [job EXCEPT ![j] = "COMPLETED"]
  /\ UNCHANGED <<record, report, command, kills>>

\* It fails, is cancelled or runs out of time, perhaps in the middle of its report.
JobFails(j) ==
  /\ Live(j)
  /\ job' = [job EXCEPT ![j] = "FAILED"]
  /\ UNCHANGED <<record, report, command, kills>>
-------------------------------------------------------------------------------
\* What a command does by itself once it is given.
CommandStep(o) ==
  \/ Prepare(o)
  \/ SbatchAccepted(o) \/ SbatchRejected(o) \/ SbatchTimesOut(o)
  \/ RecordSubmission(o)
  \/ StartMonitor(o)
  \/ PollVisible(o) \/ PollNothing(o)
  \/ CheckTimeout(o)
  \/ Account(o)
  \/ StartCollect(o) \/ CollectReport(o)

Cluster ==
  \E j \in Job : JobWrites(j) \/ JobReports(j) \/ JobCompletes(j) \/ JobFails(j)

Next ==
  \/ \E o \in Operator :
       \/ \E a \in Action : Give(o, a)
       \/ CommandStep(o)
       \/ Elapse(o)
       \/ Kill(o)
  \/ Cluster

Spec == Init /\ [][Next]_vars

\* A command's calls return and its clock runs; the cluster promises nothing.
FairSpec ==
  /\ Spec
  /\ \A o \in Operator : WF_vars(CommandStep(o)) /\ WF_vars(Elapse(o))
-------------------------------------------------------------------------------
(* Properties *)

\* Type invariant.
TypeOK ==
  /\ record \in Record \cup {NoRecord}
  /\ report \in {"absent", "torn", "whole"}
  /\ job \in [Job -> JobState]
  /\ pc \in [Operator -> Step]
  /\ action \in [Operator -> Action \cup {"none"}]
  /\ held \in [Operator -> Record \cup {NoRecord}]
  /\ \A o \in Operator :
       /\ pc[o] \in {"sbatch", "submitted", "squeue", "timeout", "sacct", "report"} =>
            held[o] # NoRecord
       /\ pc[o] \in {"squeue", "timeout", "sacct"} => held[o].job # NoJob
  /\ late \in [Operator -> BOOLEAN]
  /\ kills \in Nat

\* A record says completed only of a job that really completed, whatever squeue
\* and sacct said, however commands interleaved and were killed.
CompletedIsTrue ==
  record # NoRecord =>
    (record.status = "completed" => record.job # NoJob /\ job[record.job] = "COMPLETED")

\* Whatever a collect of a record that says completed leaves behind has metrics:
\* the job it names wrote its report before it completed.
CompletedIsMeasured ==
  [][\A o \in Operator :
       (/\ CollectReport(o)
        /\ held[o].status = "completed"
        /\ report # "torn") =>
         record'.collection = "complete"]_vars

\* Every command ends, so that its shell is free again and again, although no job need
\* ever end: with a time limit the poll loop does not depend on the job.  It rests on
\* squeue and sacct returning, which are called without a limit of their own (374-398).
CommandsEnd == \A o \in Operator : []<>(pc[o] = "idle")

\* A record says terminal_non_success only of a job that did end without success.
TerminalIsTrue ==
  record # NoRecord =>
    (record.status = "terminal_non_success" => job[record.job] = "FAILED")

===============================================================================
