-------------------------- MODULE DiagnosticRunProofs --------------------------
(***************************************************************************)
(* Proofs about DiagnosticRun, for any number of operators, jobs and kills.*)
(* A record that says completed is only ever made by monitor from a state  *)
(* sacct reported, and copied whole; a job that completed stays so and has *)
(* left a report behind, which no command removes.                         *)
(***************************************************************************)
EXTENDS DiagnosticRun, TLAPS

Honest(r) ==
  r # NoRecord /\ r.status = "completed" => r.job # NoJob /\ job[r.job] = "COMPLETED"

\* Records on disk and in memory are honest.
AllHonest == Honest(record) /\ \A o \in Operator : Honest(held[o])

\* A job that has got as far as its report leaves something behind.
Reported == \A j \in Job : job[j] \in {"reported", "COMPLETED"} => report # "absent"

DiagnosticInv == TypeOK /\ AllHonest /\ Reported

LEMMA InitOK == Init => DiagnosticInv
  BY SchedulerAssumption, RecordAssumption
  DEF Init, DiagnosticInv, TypeOK, AllHonest, Honest, Reported, JobState, Step

\* The part of the type invariant that is about the commands.
CommandOK ==
  /\ pc \in [Operator -> Step]
  /\ action \in [Operator -> Action \cup {"none"}]
  /\ held \in [Operator -> Record \cup {NoRecord}]
  /\ \A o \in Operator :
       /\ pc[o] \in {"sbatch", "submitted", "squeue", "timeout", "sacct", "report"} =>
            held[o] # NoRecord
       /\ pc[o] \in {"squeue", "timeout", "sacct"} => held[o].job # NoJob
  /\ late \in [Operator -> BOOLEAN]

\* A command that ends leaves nothing that could be ill-typed.
LEMMA EndOK ==
  ASSUME CommandOK, NEW o \in Operator, End(o)
  PROVE  CommandOK'
BY DEF CommandOK, End, GoTo, Step

LEMMA ThenRunOK ==
  ASSUME CommandOK, NEW o \in Operator, NEW step \in {"monitor", "collect"}, ThenRun(o, step)
  PROVE  CommandOK'
<1>1. CASE End(o)
  BY <1>1, EndOK
<1>2. CASE action[o] = "run"
  BY <1>2 DEF CommandOK, ThenRun, GoTo, Step
<1> QED
  BY <1>1, <1>2 DEF ThenRun

\* A command that goes on with a record it holds.
LEMMA HoldOK ==
  ASSUME CommandOK, NEW o \in Operator, NEW step \in Step, NEW r \in Record, GoTo(o, step),
         held' = [held EXCEPT ![o] = r], step \in {"squeue", "timeout", "sacct"} => r.job # NoJob,
         UNCHANGED <<action, late>>
  PROVE  CommandOK'
<1> USE DEF CommandOK, GoTo
<1>1. r # NoRecord
  BY RecordAssumption
<1> QED
  BY <1>1

\* Every step of an operator's command, or against it, keeps the invariant.
LEMMA OperatorStep ==
  ASSUME DiagnosticInv, NEW o \in Operator
  PROVE  (\E a \in Action : Give(o, a)) \/ CommandStep(o) \/ Elapse(o) \/ Kill(o)
           => DiagnosticInv'
<1> USE SchedulerAssumption, RecordAssumption
    DEF DiagnosticInv, TypeOK, AllHonest, Honest, Reported, Record, Action, Step, GoTo, End,
        cluster
<1>0. CommandOK
  BY DEF CommandOK
<1>1. ASSUME NEW a \in Action, Give(o, a) PROVE DiagnosticInv'
  BY <1>1 DEF Give
<1>2. CASE Prepare(o)
  <2>1. TypeOK'
    <3>1. BaseRecord \in Record
      BY DEF BaseRecord, Status, Collection
    <3>2. CASE End(o)
      BY <1>0, <1>2, <3>1, <3>2, EndOK DEF Prepare, CommandOK
    <3>3. CASE ~End(o)
      <4>1. GoTo(o, "sbatch") /\ held' = [held EXCEPT ![o] = BaseRecord]
              /\ UNCHANGED <<action, late>>
        BY <1>2, <3>3 DEF Prepare
      <4>2. CommandOK'
        BY <1>0, <3>1, <4>1, HoldOK
      <4> QED
        BY <1>2, <3>1, <4>2 DEF Prepare, CommandOK
    <3> QED
      BY <3>2, <3>3
  <2>2. AllHonest'
    BY <1>2 DEF Prepare, BaseRecord, Status, Collection
  <2>3. Reported'
    BY <1>2 DEF Prepare, BaseRecord, Status, Collection
  <2> QED
    BY <2>1, <2>2, <2>3
<1>3. CASE SbatchAccepted(o)
  <2>1. TypeOK'
    <3>1. PICK j \in Job, id \in Job \cup {NoJob} :
            Accept(j) /\ held' = [held EXCEPT ![o].status = "submitted", ![o].job = id]
      BY <1>3 DEF SbatchAccepted
    <3> DEFINE r == [held[o] EXCEPT !.status = "submitted", !.job = id]
    <3>2. held[o] \in Record
      BY <1>3 DEF SbatchAccepted
    <3>3. r \in Record /\ held' = [held EXCEPT ![o] = r]
      BY <3>1, <3>2 DEF Status
    <3>4. CommandOK'
      BY <1>0, <1>3, <3>3, HoldOK DEF SbatchAccepted
    <3> QED
      BY <1>3, <3>1, <3>4 DEF SbatchAccepted, Accept, CommandOK, JobState
  <2>2. AllHonest'
    BY <1>3 DEF SbatchAccepted, Accept, Status
  <2>3. Reported'
    BY <1>3 DEF SbatchAccepted, Accept, Status
  <2> QED
    BY <2>1, <2>2, <2>3
<1>4. CASE RecordSubmission(o)
  <2>1. TypeOK'
    <3>1. CommandOK'
      BY <1>0, <1>4, ThenRunOK DEF RecordSubmission
    <3> QED
      BY <1>4, <3>1 DEF RecordSubmission, CommandOK
  <2>2. AllHonest'
    BY <1>4 DEF RecordSubmission, ThenRun
  <2>3. Reported'
    BY <1>4 DEF RecordSubmission, ThenRun
  <2> QED
    BY <2>1, <2>2, <2>3
<1>5. CASE SbatchRejected(o)
  BY <1>5 DEF SbatchRejected, Status
<1>6. CASE SbatchTimesOut(o)
  <2>1. TypeOK'
    <3>1. CommandOK'
      BY <1>0, <1>6, EndOK DEF SbatchTimesOut
    <3> QED
      BY <1>6, <3>1 DEF SbatchTimesOut, Accept, CommandOK, JobState
  <2>2. AllHonest'
    BY <1>6 DEF SbatchTimesOut, Accept
  <2>3. Reported'
    BY <1>6 DEF SbatchTimesOut, Accept
  <2> QED
    BY <2>1, <2>2, <2>3
<1>7. CASE StartMonitor(o)
  <2>1. TypeOK'
    <3>1. CASE End(o) /\ UNCHANGED record
      BY <1>0, <1>7, <3>1, EndOK DEF StartMonitor, CommandOK
    <3>2. CASE record # NoRecord /\ record' = [record EXCEPT !.status = "blocked_missing_job_id"]
                 /\ ThenRun(o, "collect")
      <4>1. CommandOK'
        BY <1>0, <3>2, ThenRunOK
      <4> QED
        BY <1>7, <3>2, <4>1 DEF StartMonitor, CommandOK, Status
    <3>3. CASE record # NoRecord /\ record.job # NoJob /\ held' = [held EXCEPT ![o] = record]
                 /\ GoTo(o, "squeue") /\ UNCHANGED <<record, action, late>>
      <4>1. CommandOK'
        BY <1>0, <3>3, HoldOK
      <4> QED
        BY <1>7, <3>3, <4>1 DEF StartMonitor, CommandOK
    <3> QED
      BY <1>7, <3>1, <3>2, <3>3 DEF StartMonitor
  <2>2. AllHonest'
    BY <1>7 DEF StartMonitor, ThenRun, Status
  <2>3. Reported'
    BY <1>7 DEF StartMonitor, ThenRun, Status
  <2> QED
    BY <2>1, <2>2, <2>3
<1>8. CASE PollVisible(o)
  BY <1>8 DEF PollVisible, Status
<1>9. CASE PollNothing(o)
  BY <1>9 DEF PollNothing
<1>10. CASE CheckTimeout(o)
  <2>1. TypeOK'
    <3>1. CASE ThenRun(o, "collect") /\ record' = [held[o] EXCEPT !.status = "monitor_timeout"]
      <4>1. CommandOK'
        BY <1>0, <3>1, ThenRunOK
      <4> QED
        BY <1>10, <3>1, <4>1 DEF CheckTimeout, CommandOK, Status
    <3>2. CASE GoTo(o, "squeue") /\ UNCHANGED <<record, action, held, late>>
      BY <1>10, <3>2 DEF CheckTimeout
    <3> QED
      BY <1>10, <3>1, <3>2 DEF CheckTimeout
  <2>2. AllHonest'
    BY <1>10 DEF CheckTimeout, ThenRun, Status
  <2>3. Reported'
    BY <1>10 DEF CheckTimeout, ThenRun, Status
  <2> QED
    BY <2>1, <2>2, <2>3
<1>11. CASE Account(o)
  <2>1. TypeOK'
    <3>1. CommandOK'
      BY <1>0, <1>11, ThenRunOK DEF Account
    <3> QED
      BY <1>11, <3>1 DEF Account, TerminalStatus, CommandOK, Status
  <2>2. AllHonest'
    BY <1>11 DEF Account, TerminalStatus, ThenRun, Status
  <2>3. Reported'
    BY <1>11 DEF Account, TerminalStatus, ThenRun, Status
  <2> QED
    BY <2>1, <2>2, <2>3
<1>12. CASE StartCollect(o)
  <2>1. TypeOK'
    <3>1. CASE End(o)
      BY <1>0, <1>12, <3>1, EndOK DEF StartCollect, CommandOK
    <3>2. CASE record # NoRecord /\ GoTo(o, "report") /\ held' = [held EXCEPT ![o] = record]
                 /\ UNCHANGED <<action, late>>
      <4>1. CommandOK'
        BY <1>0, <3>2, HoldOK
      <4> QED
        BY <1>12, <3>2, <4>1 DEF StartCollect, CommandOK
    <3> QED
      BY <1>12, <3>1, <3>2 DEF StartCollect
  <2>2. AllHonest'
    BY <1>12 DEF StartCollect
  <2>3. Reported'
    BY <1>12 DEF StartCollect
  <2> QED
    BY <2>1, <2>2, <2>3
<1>13. CASE CollectReport(o)
  BY <1>13 DEF CollectReport, Collected, Status, Collection
<1>14. CASE Elapse(o)
  BY <1>14 DEF Elapse
<1>15. CASE Kill(o)
  BY <1>15 DEF Kill
<1> QED
  BY <1>1, <1>2, <1>3, <1>4, <1>5, <1>6, <1>7, <1>8, <1>9, <1>10, <1>11, <1>12, <1>13, <1>14, <1>15 DEF CommandStep

\* So does every step of a job: a job that completed stays so.
LEMMA ClusterStep == DiagnosticInv /\ Cluster => DiagnosticInv'
<1> SUFFICES ASSUME DiagnosticInv, NEW j \in Job,
                    JobWrites(j) \/ JobReports(j) \/ JobCompletes(j) \/ JobFails(j)
             PROVE  DiagnosticInv'
  BY DEF Cluster
<1> USE DEF DiagnosticInv, Reported, command, JobWrites, JobReports, JobCompletes, JobFails, Live
<1>1. TypeOK'
  BY DEF TypeOK, JobState
<1>2. AllHonest'
  BY DEF AllHonest, Honest, TypeOK, Record
<1>3. Reported'
  BY DEF TypeOK
<1> QED
  BY <1>1, <1>2, <1>3

LEMMA StutterStep == DiagnosticInv /\ UNCHANGED vars => DiagnosticInv'
BY DEF DiagnosticInv, TypeOK, AllHonest, Honest, Reported, vars, cluster, command

\* The inductive invariant holds of every number of operators, jobs and kills.
THEOREM DiagnosticInvariant == Spec => []DiagnosticInv
<1>1. DiagnosticInv /\ [Next]_vars => DiagnosticInv'
  BY OperatorStep, ClusterStep, StutterStep DEF Next
<1> QED
  BY InitOK, <1>1, PTL DEF Spec

\* The types of the record, the report, the jobs and the commands.
THEOREM TypeCorrect == Spec => []TypeOK
BY DiagnosticInvariant, PTL DEF DiagnosticInv

\* A record says completed only of a job that really completed, whatever the
\* scheduler's commands said and however monitor, collect and submit interleave.
THEOREM CompletedIsTrueHolds == Spec => []CompletedIsTrue
<1>1. DiagnosticInv => CompletedIsTrue
  BY DEF DiagnosticInv, AllHonest, Honest, CompletedIsTrue
<1> QED
  BY <1>1, DiagnosticInvariant, PTL

\* A collect of a record that says completed always leaves metrics, unless the
\* report does not parse: a completed job's report is never missing.
THEOREM CompletedIsMeasuredHolds == Spec => CompletedIsMeasured
<1>1. DiagnosticInv /\ [Next]_vars =>
        [\A o \in Operator :
           (/\ CollectReport(o)
            /\ held[o].status = "completed"
            /\ report # "torn") =>
             record'.collection = "complete"]_vars
  <2> SUFFICES ASSUME DiagnosticInv, NEW o \in Operator,
                      CollectReport(o), held[o].status = "completed", report # "torn"
               PROVE  record'.collection = "complete"
    OBVIOUS
  <2>1. held[o] \in Record /\ held[o] # NoRecord
    BY DEF DiagnosticInv, TypeOK, CollectReport
  <2>2. held[o].job \in Job /\ job[held[o].job] = "COMPLETED"
    BY <2>1 DEF DiagnosticInv, AllHonest, Honest, Record
  <2>3. report # "absent"
    BY <2>2 DEF DiagnosticInv, Reported
  <2> QED
    BY <2>1, <2>3 DEF CollectReport, Collected, Record
<1> QED
  BY <1>1, DiagnosticInvariant, PTL DEF Spec, CompletedIsMeasured
===============================================================================
