------------------------ MODULE ReducerExecutionProofs ------------------------
(***************************************************************************)
(* Theorems about ReducerExecution, for any number of chunks, processes,   *)
(* partitions, options and attempts: first those that hold with or without *)
(* overlapping runs, then those that hold if runs do not overlap, among    *)
(* them that it implements PlanLedger.                                     *)
(***************************************************************************)
EXTENDS ReducerExecution, Integers, TLAPS

\* The idle values of a process's local state are well typed.
LEMMA IdleTyped ==
  /\ IdleJob \in Job
  /\ IdleRecords \in [Chunk -> Record]
  /\ IdleTasks \in [Chunk -> Task]
  /\ NoStates \in [Chunk -> State \cup {NoState}]
<1>1. IdleJob \in Job
  BY DataAssumption DEF IdleJob, Job
<1>2. IdleJob.paths \in PathSet
  BY <1>1 DEF Job
<1>3. FreshRecord(IdleJob.paths) \in Record
  BY <1>2 DEF FreshRecord, Record, Completion, Decision, Ownership, Unclaimed
<1>4. QED
  BY <1>1, <1>3 DEF IdleRecords, IdleTasks, NoStates, Task

\* A plan adopted from disk holds well-typed records.
LEMMA AdoptTyped ==
  ASSUME NEW ps \in PathSet, NEW r \in Record, NEW now
  PROVE  Adopt(r, ps, now) \in Record
<1>1. FreshRecord(ps) \in Record
  BY DEF FreshRecord, Record, Completion, Decision, Ownership, Unclaimed
<1>2. MarkStale(r) \in Record
  BY DEF MarkStale, Record, Ownership
<1>3. QED
  BY <1>1, <1>2 DEF Adopt

\* Every branch of the decision loop yields a well-typed record and task.
LEMMA DecidedTyped ==
  ASSUME TypeOK, NEW p \in Process, NEW c \in Chunk
  PROVE  DecidedRecord(p, c) \in Record /\ Choice(p, c) \in Task
<1>1. rec[p][c] \in Record /\ job[p] \in Job /\ OwnerOf[p] \in Owner
  BY ProcessAssumption DEF TypeOK
<1>2. /\ Released(OwnerOf[p]) \in Ownership
      /\ Claimed(OwnerOf[p], job[p].now) \in Ownership
  BY <1>1, LeaseAssumption DEF Released, Claimed, Ownership, Job
<1>3. Choice(p, c) \in {"unscheduled", "skipped", "reused", "rejected", "planned"}
  BY DEF Choice
<1>4. \A s \in BOOLEAN : ExecutionDecision(rec[p][c], s) \in Decision
  BY <1>1 DEF ExecutionDecision, Decision, Record
<1>5. IsStale(rec[p][c], job[p].now) \in BOOLEAN
  BY DEF IsStale
<1>6. CASE Choice(p, c) = "unscheduled"
  BY <1>1, <1>6 DEF DecidedRecord, Record, Decision, Task
<1>7. CASE Choice(p, c) = "skipped"
  BY <1>1, <1>2, <1>7 DEF DecidedRecord, Record, Decision, Completion, Task
<1>8. CASE Choice(p, c) = "reused"
  BY <1>1, <1>8 DEF DecidedRecord, Record, Decision, Task
<1>9. CASE Choice(p, c) = "rejected"
  BY <1>1, <1>2, <1>9 DEF DecidedRecord, Record, Decision, Completion, Task
<1>10. CASE Choice(p, c) = "planned"
  BY <1>1, <1>2, <1>4, <1>5, <1>10 DEF DecidedRecord, Record, Completion, Task
<1>11. QED
  BY <1>3, <1>6, <1>7, <1>8, <1>9, <1>10

\* Copying a chunk's result into its record keeps the record well typed.
LEMMA FinalTyped ==
  ASSUME TypeOK, NEW p \in Process, NEW c \in Chunk
  PROVE  FinalRecord(p, c) \in Record
<1>1. rec[p][c] \in Record /\ Released(OwnerOf[p]) \in Ownership
  BY ProcessAssumption DEF TypeOK, Released, Ownership
<1>2. CASE task[p][c] = "reused"
  BY <1>1, <1>2 DEF FinalRecord, Record
<1>3. CASE task[p][c] = "completed"
  <2>1. FinalRecord(p, c) =
          [rec[p][c] EXCEPT !.completion = "completed", !.attempt = @ + 1,
                            !.ownership = Released(OwnerOf[p])]
    BY <1>3 DEF FinalRecord
  <2>2. rec[p][c].attempt + 1 \in Nat
    BY <1>1 DEF Record
  <2>3. QED
    BY <1>1, <2>1, <2>2 DEF Record, Completion
<1>4. CASE task[p][c] = "failed"
  <2>1. FinalRecord(p, c) =
          [rec[p][c] EXCEPT !.completion = "failed", !.attempt = @ + 1, !.retry = @ + 1,
                            !.ownership = Released(OwnerOf[p])]
    BY <1>4 DEF FinalRecord
  <2>2. rec[p][c].attempt + 1 \in Nat /\ rec[p][c].retry + 1 \in Nat
    BY <1>1 DEF Record
  <2>3. QED
    BY <1>1, <2>1, <2>2 DEF Record, Completion
<1>5. CASE task[p][c] \notin {"reused", "completed", "failed"}
  BY <1>1, <1>5 DEF FinalRecord
<1>6. QED
  BY <1>2, <1>3, <1>4, <1>5
-------------------------------------------------------------------------------
(* Type correctness *)

\* The local state of every process, and of one that has just ended.
LocalTyped ==
  /\ phase \in [Process -> Phase]
  /\ job \in [Process -> Job]
  /\ rec \in [Process -> [Chunk -> Record]]
  /\ task \in [Process -> [Chunk -> Task]]
  /\ acc \in [Process -> [Chunk -> State \cup {NoState}]]

LEMMA BecomeIdleTyped ==
  ASSUME TypeOK, NEW p \in Process, BecomeIdle(p)
  PROVE  LocalTyped'
<1>1. "idle" \in Phase
  BY DEF Phase
<1>2. QED
  BY <1>1, IdleTyped DEF TypeOK, LocalTyped, BecomeIdle

LEMMA InitTyped == Init => TypeOK
<1> SUFFICES ASSUME Init PROVE TypeOK
  OBVIOUS
<1>1. LocalTyped
  BY IdleTyped DEF Init, LocalTyped, Phase
<1>2. cfg \in Config /\ paths \in PathSet
  BY IdleTyped DEF Init, Job
<1>3. lease \in [Chunk -> Ownership]
  BY DEF Init, Unclaimed, Ownership
<1>4. stateFile \in [Chunk -> State \cup {NoState}]
  BY IdleTyped DEF Init
<1>5. QED
  BY <1>1, <1>2, <1>3, <1>4 DEF Init, NoHistory, TypeOK, LocalTyped

\* The steps of a run keep the types.
LEMMA RunStepTyped ==
  ASSUME TypeOK, NEW p \in Process, RunStep(p)
  PROVE  TypeOK'
<1> USE DEF env, files
<1>1. CASE DecideChunks(p)
  <2>1. [c \in Chunk |-> DecidedRecord(p, c)] \in [Chunk -> Record]
    BY DecidedTyped
  <2>2. [c \in Chunk |-> Choice(p, c)] \in [Chunk -> Task]
    BY DecidedTyped
  <2>3. [c \in Chunk |-> IF Choice(p, c) = "reused" THEN stateFile[c] ELSE NoState]
          \in [Chunk -> State \cup {NoState}]
    BY DEF TypeOK
  <2>4. LocalTyped'
    BY <1>1, <2>1, <2>2, <2>3 DEF DecideChunks, TypeOK, LocalTyped, Phase
  <2>5. QED
    BY <1>1, <2>4 DEF DecideChunks, TypeOK, LocalTyped
<1>2. ASSUME NEW c \in Chunk, ComputeChunk(p, c)
      PROVE  TypeOK'
  <2>1. [cfg |-> job[p].cfg, paths |-> job[p].paths, version |-> version] \in State
    BY DEF TypeOK, Job, State
  <2>2. LocalTyped'
    BY <1>2, <2>1 DEF ComputeChunk, TypeOK, LocalTyped, Task
  <2>3. QED
    BY <1>2, <2>2 DEF ComputeChunk, CountAttempt, TypeOK, LocalTyped
<1>3. ASSUME NEW c \in Chunk, FailChunk(p, c)
      PROVE  TypeOK'
  BY <1>3 DEF FailChunk, CountAttempt, TypeOK, Task
<1>4. ASSUME NEW c \in Chunk, WriteState(p, c)
      PROVE  TypeOK'
  BY <1>4 DEF WriteState, TypeOK, Task
<1>5. CASE AbortRun(p)
  BY <1>5, BecomeIdleTyped DEF AbortRun, TypeOK, LocalTyped
<1>6. CASE MergeResults(p)
  <2>1. [c \in Chunk |-> FinalRecord(p, c)] \in [Chunk -> Record]
    BY FinalTyped
  <2>2. LocalTyped'
    BY <1>6, <2>1 DEF MergeResults, TypeOK, LocalTyped, Phase
  <2>3. mergeState' \in [done : SUBSET Chunk, cfg : Config, paths : PathSet]
    BY <1>6 DEF MergeResults, TypeOK, Job
  <2>4. QED
    BY <1>6, <2>2, <2>3 DEF MergeResults, TypeOK, LocalTyped
<1>7. CASE WritePlan(p)
  <2>1. planFile' \in [Chunk -> Record]
    BY <1>7 DEF WritePlan, TypeOK
  <2>2. LocalTyped'
    BY <1>7, BecomeIdleTyped DEF WritePlan, TypeOK, LocalTyped, Phase
  <2>3. QED
    BY <1>7, <2>1, <2>2 DEF WritePlan, TypeOK, LocalTyped
<1>8. CASE WriteLayers(p)
  <2>1. layers' \in [run : Job, merged : [Chunk -> State \cup {NoState}]]
    BY <1>8 DEF WriteLayers, TypeOK
  <2>2. LocalTyped'
    BY <1>8, BecomeIdleTyped DEF WriteLayers
  <2>3. QED
    BY <1>8, <2>1, <2>2 DEF WriteLayers, TypeOK, LocalTyped
<1>9. QED
  BY <1>1, <1>2, <1>3, <1>4, <1>5, <1>6, <1>7, <1>8 DEF RunStep

\* Starting a run, losing one and the environment keep the types.
LEMMA OtherStepTyped ==
  ASSUME TypeOK, [Next]_vars, ~ \E p \in Process : RunStep(p)
  PROVE  TypeOK'
<1> USE DEF env, files, local
<1>1. ASSUME NEW p \in Process, StartRun(p)
      PROVE  TypeOK'
  <2>1. FreshRecord(paths) \in Record
    BY DEF FreshRecord, Record, Completion, Decision, Ownership, Unclaimed, TypeOK
  <2>2. [c \in Chunk |-> IF planFile = NoPlan THEN FreshRecord(paths)
                         ELSE Adopt(planFile[c], paths, clock)] \in [Chunk -> Record]
    BY <2>1, AdoptTyped DEF TypeOK
  <2>3. [cfg |-> cfg, paths |-> paths, now |-> clock, asof |-> version] \in Job
    BY DEF TypeOK, Job
  <2>4. LocalTyped'
    BY <1>1, <2>2, <2>3 DEF StartRun, TypeOK, LocalTyped, Phase
  <2>5. QED
    BY <1>1, <2>4 DEF StartRun, TypeOK, LocalTyped
<1>2. ASSUME NEW p \in Process, Crash(p)
      PROVE  TypeOK'
  <2>1. stateFile' \in [Chunk -> State \cup {NoState}]
    BY <1>2 DEF Crash, TypeOK
  <2>2. /\ planFile' \in {planFile, NoPlan}
        /\ layers' \in {layers, NoLayers}
        /\ mergeState' \in {mergeState, NoMergeState}
    BY <1>2 DEF Crash
  <2>3. LocalTyped'
    BY <1>2, BecomeIdleTyped DEF Crash
  <2>4. faults' \in Nat /\ UNCHANGED <<env, executed, failures>>
    BY <1>2 DEF Crash, TypeOK
  <2>5. QED
    BY <2>1, <2>2, <2>3, <2>4 DEF TypeOK, LocalTyped
<1>3. ASSUME NEW p \in Process, NEW c \in Chunk,
             WriteStateFails(p, c) \/ ExitChunk(p, c)
      PROVE  TypeOK'
  <2>1. CASE WriteStateFails(p, c)
    BY <2>1 DEF WriteStateFails, TypeOK, Task
  <2>2. CASE ExitChunk(p, c)
    <3>1. task' \in [Process -> [Chunk -> Task]]
      BY <2>2 DEF ExitChunk, TypeOK, Task
    <3>2. /\ executed \in [Chunk -> Nat] /\ failures \in [Chunk -> Nat]
          /\ NoHistory \in [Chunk -> Nat] /\ faults \in Nat /\ MaxFaults \in Nat
      BY CountsAssumption DEF NoHistory, TypeOK
    <3>3. CASE faults < MaxFaults
      <4>1. faults' = faults + 1 /\ CountAttempt(c) /\ failures' = failures
        BY <2>2, <3>3 DEF ExitChunk
      <4>2. executed' \in [Chunk -> Nat]
        BY <3>2, <4>1 DEF CountAttempt
      <4>3. QED
        BY <2>2, <3>1, <3>2, <4>1, <4>2 DEF ExitChunk, TypeOK
    <3>4. CASE ~(faults < MaxFaults)
      <4>1. faults' = MaxFaults + 1 /\ executed' = NoHistory /\ failures' = NoHistory
        BY <2>2, <3>4 DEF ExitChunk
      <4>2. QED
        BY <2>2, <3>1, <3>2, <4>1 DEF ExitChunk, TypeOK
    <3>5. QED
      BY <3>3, <3>4
  <2>3. QED
    BY <1>3, <2>1, <2>2
<1>4. CASE Tick
  BY <1>4 DEF Tick, TypeOK
<1>5. CASE Reconfigure
  BY <1>5 DEF Reconfigure, TypeOK
<1>6. CASE RewriteInputs
  BY <1>6 DEF RewriteInputs, TypeOK
<1>7. ASSUME NEW c \in Chunk, NEW o \in ForeignOwner, ForeignClaim(c, o)
      PROVE  TypeOK'
  <2>1. Claimed(o, clock) \in Ownership
    BY LeaseAssumption, ProcessAssumption DEF Claimed, Ownership, TypeOK
  <2>2. planFile \in [Chunk -> Record]
    BY <1>7 DEF ForeignClaim, TypeOK
  <2>3. PICK completion \in Completion :
          planFile' = [planFile EXCEPT ![c].ownership = Claimed(o, clock),
                                       ![c].completion = completion]
    BY <1>7, <2>2 DEF ForeignClaim, Record, Completion
  <2>4. [planFile[c] EXCEPT !.ownership = Claimed(o, clock), !.completion = completion]
          \in Record
    BY <2>1, <2>2 DEF Record
  <2>5. planFile' \in [Chunk -> Record]
    BY <2>2, <2>3, <2>4
  <2>6. QED
    BY <1>7, <2>1, <2>5 DEF ForeignClaim, TypeOK
<1>8. CASE UNCHANGED vars
  BY <1>8 DEF vars, TypeOK
<1>9. QED
  BY <1>1, <1>2, <1>3, <1>4, <1>5, <1>6, <1>7, <1>8 DEF Next, Environment

\* Type correctness: the records, files and counters of every reachable state
\* have the shapes the code gives them.
THEOREM TypeCorrect == Spec => []TypeOK
<1>1. TypeOK /\ [Next]_vars => TypeOK'
  BY RunStepTyped, OtherStepTyped
<1>2. QED
  BY InitTyped, <1>1, PTL DEF Spec
-------------------------------------------------------------------------------
(* The retry budget *)

\* A chunk this run executes had budget left when it was claimed.  This is what
\* RetryBudget needs to be inductive: the failed attempt is counted only later,
\* when the results of all threads are copied into the records.
ClaimedWithinBudget ==
  \A p \in Process, c \in Chunk :
    phase[p] = "run" /\ task[p][c] \in {"planned", "computed", "completed", "failed"} =>
      rec[p][c].retry < MaxAttempts

BudgetInv == TypeOK /\ RetryBudget /\ ClaimedWithinBudget

\* A record nobody has worked on, and one adopted from disk, are within budget.
LEMMA AdoptWithinBudget ==
  ASSUME NEW ps \in PathSet, NEW r \in Record, BudgetOK(r), NEW now
  PROVE  BudgetOK(FreshRecord(ps)) /\ BudgetOK(Adopt(r, ps, now))
<1>1. BudgetOK(FreshRecord(ps))
  BY CountsAssumption DEF BudgetOK, FreshRecord
<1>2. BudgetOK(MarkStale(r))
  <2>1. /\ MarkStale(r).retry = r.retry
        /\ MarkStale(r).attempt = r.attempt
        /\ MarkStale(r).completion = r.completion
    BY DEF MarkStale, Record
  <2>2. QED
    BY <2>1 DEF BudgetOK
<1>3. QED
  BY <1>1, <1>2 DEF Adopt

\* The decision loop keeps records within budget and claims only chunks with an
\* attempt left.
LEMMA DecidedWithinBudget ==
  ASSUME TypeOK, NEW p \in Process, NEW c \in Chunk, BudgetOK(rec[p][c])
  PROVE  /\ BudgetOK(DecidedRecord(p, c))
         /\ Choice(p, c) = "planned" => DecidedRecord(p, c).retry < MaxAttempts
<1> DEFINE r == rec[p][c]
           d == DecidedRecord(p, c)
<1>1. r \in Record /\ MaxAttempts \in Nat \ {0}
  BY CountsAssumption DEF TypeOK
<1>2. Choice(p, c) \in {"unscheduled", "skipped", "reused", "rejected", "planned"}
  BY DEF Choice
<1>3. CASE Choice(p, c) \in {"unscheduled", "reused"}
  <2>1. d.retry = r.retry /\ d.attempt = r.attempt /\ d.completion = r.completion
    BY <1>1, <1>3 DEF DecidedRecord, Record
  <2>2. QED
    BY <1>3, <2>1 DEF BudgetOK
<1>4. CASE Choice(p, c) = "skipped"
  <2>1. d.retry = r.retry /\ d.attempt = r.attempt /\ d.completion = "not_started"
    BY <1>1, <1>4 DEF DecidedRecord, Record
  <2>2. QED
    BY <1>4, <2>1 DEF BudgetOK
<1>5. CASE Choice(p, c) = "rejected"
  <2>1. /\ d.retry = r.retry
        /\ d.attempt = IF r.attempt = 0 THEN 1 ELSE r.attempt
        /\ d.completion = "failed"
    BY <1>1, <1>5 DEF DecidedRecord, Record
  <2>2. QED
    BY <1>1, <1>5, <2>1 DEF BudgetOK, Record
<1>6. CASE Choice(p, c) = "planned"
  <2>1. d.retry = r.retry /\ d.attempt = r.attempt
    BY <1>1, <1>6 DEF DecidedRecord, Record
  <2>2. d.completion # "completed"
    BY <1>1, <1>6 DEF DecidedRecord, Record
  <2>3. r.retry < MaxAttempts
    BY <1>1, <1>6 DEF Choice, Record
  <2>4. QED
    BY <2>1, <2>2, <2>3 DEF BudgetOK
<1>7. QED
  BY <1>2, <1>3, <1>4, <1>5, <1>6

\* Counting the outcome of a chunk keeps its record within budget.
LEMMA FinalWithinBudget ==
  ASSUME BudgetInv, NEW p \in Process, NEW c \in Chunk, phase[p] = "run"
  PROVE  BudgetOK(FinalRecord(p, c))
<1> DEFINE r == rec[p][c]
           f == FinalRecord(p, c)
<1>1. r \in Record /\ BudgetOK(r) /\ MaxAttempts \in Nat
  BY CountsAssumption DEF BudgetInv, TypeOK, RetryBudget
<1>2. CASE task[p][c] = "reused"
  <2>1. f.retry = r.retry /\ f.attempt = r.attempt /\ f.completion = r.completion
    BY <1>1, <1>2 DEF FinalRecord, Record
  <2>2. QED
    BY <1>1, <2>1 DEF BudgetOK
<1>3. CASE task[p][c] = "completed"
  <2>1. f.retry = r.retry /\ f.attempt = r.attempt + 1
    BY <1>1, <1>3 DEF FinalRecord, Record
  <2>2. r.retry < MaxAttempts
    BY <1>3 DEF BudgetInv, ClaimedWithinBudget
  <2>3. QED
    BY <1>1, <2>1, <2>2 DEF BudgetOK, Record
<1>4. CASE task[p][c] = "failed"
  <2>1. f.retry = r.retry + 1 /\ f.attempt = r.attempt + 1 /\ f.completion = "failed"
    BY <1>1, <1>4 DEF FinalRecord, Record
  <2>2. r.retry < MaxAttempts
    BY <1>4 DEF BudgetInv, ClaimedWithinBudget
  <2>3. QED
    BY <1>1, <2>1, <2>2 DEF BudgetOK, Record
<1>5. CASE task[p][c] \notin {"reused", "completed", "failed"}
  BY <1>1, <1>5 DEF FinalRecord
<1>6. QED
  BY <1>2, <1>3, <1>4, <1>5

\* A process that ends leaves only fresh records behind.
LEMMA BecomeIdleWithinBudget ==
  ASSUME BudgetInv, NEW p \in Process, BecomeIdle(p)
  PROVE  /\ \A q \in Process, c \in Chunk : BudgetOK(rec'[q][c])
         /\ ClaimedWithinBudget'
<1>1. \A c \in Chunk : BudgetOK(IdleRecords[c])
  BY IdleTyped, CountsAssumption DEF IdleRecords, FreshRecord, BudgetOK
<1>2. \A q \in Process, c \in Chunk :
        rec'[q][c] = IF q = p THEN IdleRecords[c] ELSE rec[q][c]
  BY DEF BecomeIdle, BudgetInv, TypeOK
<1>3. phase'[p] = "idle" /\ \A q \in Process \ {p} : phase'[q] = phase[q] /\ task'[q] = task[q]
  BY DEF BecomeIdle, BudgetInv, TypeOK
<1>4. QED
  BY <1>1, <1>2, <1>3 DEF BudgetInv, RetryBudget, ClaimedWithinBudget

\* Every step keeps the budget; the steps that only move data between files and
\* threads leave planFile and rec alone.
LEMMA StepWithinBudget ==
  ASSUME BudgetInv, [Next]_vars, TypeOK'
  PROVE  RetryBudget' /\ ClaimedWithinBudget'
<1> USE DEF env, files, local
<1>1. ASSUME NEW p \in Process, StartRun(p)
      PROVE  RetryBudget' /\ ClaimedWithinBudget'
  <2>1. \A c \in Chunk :
          BudgetOK(IF planFile = NoPlan THEN FreshRecord(paths)
                   ELSE Adopt(planFile[c], paths, clock))
    <3>1. BudgetOK(FreshRecord(paths))
      BY CountsAssumption DEF BudgetOK, FreshRecord
    <3>2. ASSUME NEW c \in Chunk, planFile # NoPlan
          PROVE  BudgetOK(Adopt(planFile[c], paths, clock))
      BY <3>2, AdoptWithinBudget DEF BudgetInv, TypeOK, RetryBudget
    <3>3. QED
      BY <3>1, <3>2
  <2>2. \A q \in Process, c \in Chunk : BudgetOK(rec'[q][c])
    BY <1>1, <2>1 DEF StartRun, BudgetInv, TypeOK, RetryBudget
  <2>3. phase'[p] = "decide" /\ \A q \in Process \ {p} :
          phase'[q] = phase[q] /\ task'[q] = task[q] /\ rec'[q] = rec[q]
    BY <1>1 DEF StartRun, BudgetInv, TypeOK
  <2>4. QED
    BY <1>1, <2>2, <2>3 DEF StartRun, BudgetInv, RetryBudget, ClaimedWithinBudget
<1>2. ASSUME NEW p \in Process, DecideChunks(p)
      PROVE  RetryBudget' /\ ClaimedWithinBudget'
  <2>1. \A c \in Chunk :
          /\ rec'[p][c] = DecidedRecord(p, c)
          /\ task'[p][c] = Choice(p, c)
    BY <1>2 DEF DecideChunks, BudgetInv, TypeOK
  <2>2. \A q \in Process \ {p} :
          phase'[q] = phase[q] /\ task'[q] = task[q] /\ rec'[q] = rec[q]
    BY <1>2 DEF DecideChunks, BudgetInv, TypeOK
  <2>3. \A c \in Chunk :
          /\ BudgetOK(DecidedRecord(p, c))
          /\ Choice(p, c) = "planned" => DecidedRecord(p, c).retry < MaxAttempts
    BY DecidedWithinBudget DEF BudgetInv, RetryBudget
  <2>4. \A c \in Chunk : Choice(p, c) \notin {"computed", "completed", "failed"}
    BY DEF Choice
  <2>5. planFile' = planFile
    BY <1>2 DEF DecideChunks
  <2>6. QED
    BY <2>1, <2>2, <2>3, <2>4, <2>5 DEF BudgetInv, RetryBudget, ClaimedWithinBudget
<1>3. ASSUME NEW p \in Process, NEW c \in Chunk,
             \/ ComputeChunk(p, c) \/ FailChunk(p, c) \/ WriteState(p, c)
             \/ WriteStateFails(p, c) \/ ExitChunk(p, c)
      PROVE  RetryBudget' /\ ClaimedWithinBudget'
  <2>1. planFile' = planFile /\ rec' = rec /\ phase' = phase
    BY <1>3 DEF ComputeChunk, FailChunk, WriteState, WriteStateFails, ExitChunk
  <2>2. \A q \in Process, d \in Chunk :
          task'[q][d] \in {"planned", "computed", "completed", "failed"} =>
            task[q][d] \in {"planned", "computed", "completed", "failed"}
    <3>1. /\ task[p][c] \in {"planned", "computed"}
          /\ \E t \in Task : task' = [task EXCEPT ![p][c] = t]
      BY <1>3 DEF ComputeChunk, FailChunk, WriteState, WriteStateFails, ExitChunk, Task
    <3>2. \A q \in Process, d \in Chunk : task'[q][d] # task[q][d] => q = p /\ d = c
      BY <3>1 DEF BudgetInv, TypeOK
    <3>3. QED
      BY <3>1, <3>2
  <2>3. QED
    BY <2>1, <2>2 DEF BudgetInv, RetryBudget, ClaimedWithinBudget
<1>4. ASSUME NEW p \in Process, AbortRun(p) \/ WriteLayers(p)
      PROVE  RetryBudget' /\ ClaimedWithinBudget'
  <2>1. BecomeIdle(p) /\ planFile' = planFile
    BY <1>4 DEF AbortRun, WriteLayers
  <2>2. QED
    BY <2>1, BecomeIdleWithinBudget DEF BudgetInv, RetryBudget
<1>5. ASSUME NEW p \in Process, MergeResults(p)
      PROVE  RetryBudget' /\ ClaimedWithinBudget'
  <2>1. \A c \in Chunk : rec'[p][c] = FinalRecord(p, c) /\ BudgetOK(FinalRecord(p, c))
    BY <1>5, FinalWithinBudget DEF MergeResults, BudgetInv, TypeOK
  <2>2. phase'[p] = "plan" /\ \A q \in Process \ {p} :
          phase'[q] = phase[q] /\ task'[q] = task[q] /\ rec'[q] = rec[q]
    BY <1>5 DEF MergeResults, BudgetInv, TypeOK
  <2>3. planFile' = planFile
    BY <1>5 DEF MergeResults
  <2>4. QED
    BY <2>1, <2>2, <2>3 DEF BudgetInv, RetryBudget, ClaimedWithinBudget
<1>6. ASSUME NEW p \in Process, WritePlan(p)
      PROVE  RetryBudget' /\ ClaimedWithinBudget'
  <2>1. planFile' = rec[p]
    BY <1>6 DEF WritePlan
  <2>2. /\ \A q \in Process, c \in Chunk : BudgetOK(rec'[q][c])
        /\ ClaimedWithinBudget'
    <3>1. CASE BecomeIdle(p)
      BY <3>1, BecomeIdleWithinBudget
    <3>2. CASE phase' = [phase EXCEPT ![p] = "layers"] /\ UNCHANGED <<rec, task>>
      <4>1. \A q \in Process : phase'[q] = "run" => phase[q] = "run"
        BY <3>2 DEF BudgetInv, TypeOK
      <4>2. QED
        BY <3>2, <4>1 DEF BudgetInv, RetryBudget, ClaimedWithinBudget
    <3>3. QED
      BY <1>6, <3>1, <3>2 DEF WritePlan
  <2>3. QED
    BY <2>1, <2>2 DEF BudgetInv, RetryBudget
<1>7. ASSUME NEW p \in Process, Crash(p)
      PROVE  RetryBudget' /\ ClaimedWithinBudget'
  <2>1. BecomeIdle(p) /\ planFile' \in {planFile, NoPlan}
    BY <1>7 DEF Crash
  <2>2. QED
    BY <2>1, BecomeIdleWithinBudget DEF BudgetInv, RetryBudget
<1>8. ASSUME NEW c \in Chunk, NEW o \in ForeignOwner, ForeignClaim(c, o)
      PROVE  RetryBudget' /\ ClaimedWithinBudget'
  <2>1. planFile \in [Chunk -> Record] /\ \A d \in Chunk : BudgetOK(planFile[d])
    BY <1>8 DEF ForeignClaim, BudgetInv, TypeOK, RetryBudget
  <2>2. PICK completion \in {planFile[c].completion, "not_started"} :
          planFile' = [planFile EXCEPT ![c].ownership = Claimed(o, clock),
                                       ![c].completion = completion]
    BY <1>8 DEF ForeignClaim
  <2>3. /\ planFile'[c].retry = planFile[c].retry
        /\ planFile'[c].attempt = planFile[c].attempt
        /\ planFile'[c].completion = completion
        /\ \A d \in Chunk \ {c} : planFile'[d] = planFile[d]
    BY <2>1, <2>2 DEF Record
  <2>4. \A d \in Chunk : BudgetOK(planFile'[d])
    BY <2>1, <2>3 DEF BudgetOK
  <2>5. rec' = rec /\ phase' = phase /\ task' = task
    BY <1>8 DEF ForeignClaim
  <2>6. QED
    BY <2>4, <2>5 DEF BudgetInv, RetryBudget, ClaimedWithinBudget
<1>9. CASE Tick \/ Reconfigure \/ RewriteInputs \/ UNCHANGED vars
  <2>1. planFile' = planFile /\ rec' = rec /\ phase' = phase /\ task' = task
    BY <1>9 DEF Tick, Reconfigure, RewriteInputs, vars
  <2>2. QED
    BY <2>1 DEF BudgetInv, RetryBudget, ClaimedWithinBudget
<1>10. QED
  BY <1>1, <1>2, <1>3, <1>4, <1>5, <1>6, <1>7, <1>8, <1>9 DEF Next, RunStep, Environment

\* BudgetInv is an invariant.
LEMMA BudgetInvariant == Spec => []BudgetInv
<1>1. Init => BudgetInv
  <2>1. \A c \in Chunk : BudgetOK(IdleRecords[c])
    BY IdleTyped, CountsAssumption DEF IdleRecords, FreshRecord, BudgetOK
  <2>2. QED
    BY <2>1, InitTyped DEF Init, BudgetInv, RetryBudget, ClaimedWithinBudget
<1>2. BudgetInv /\ TypeOK' /\ [Next]_vars => BudgetInv'
  BY StepWithinBudget DEF BudgetInv
<1>3. QED
  BY <1>1, <1>2, TypeCorrect, PTL DEF Spec

\* No sequence of runs, kills, foreign claims and changes of options makes a
\* record count more failed attempts than --max-chunk-attempts allows, or calls
\* a chunk completed that had no successful attempt.
THEOREM RetryBudgetHolds == Spec => []RetryBudget
<1>1. BudgetInv => RetryBudget
  BY DEF BudgetInv
<1>2. QED
  BY <1>1, BudgetInvariant, PTL
-------------------------------------------------------------------------------
(* What the hazard layers are made of *)

Working == {"run", "plan", "layers"}

\* What a run holds for merging carries the options the run was started with.
Held(p) ==
  \A c \in Chunk :
    acc[p][c] # NoState =>
      /\ phase[p] \in Working
      /\ acc[p][c].cfg = job[p].cfg
      /\ acc[p][c].paths = job[p].paths

\* A run that has passed a point has what that point established.
Results(p) ==
  /\ phase[p] \in Working =>
       \A c \in Chunk :
         /\ task[p][c] # "idle"
         /\ task[p][c] = "unscheduled" => ~Scheduled(p, c)
         /\ task[p][c] \in {"reused", "computed", "completed"} => acc[p][c] # NoState
  /\ phase[p] \in {"plan", "layers"} => ThreadsDone(p) /\ ~Broken(p)
  /\ phase[p] = "layers" => ~RunFailed(p)

LayersInv ==
  /\ TypeOK
  /\ \A p \in Process : Held(p) /\ Results(p)
  /\ LayersMatchOptions
  /\ LayersComplete

\* A step of one process leaves what another one holds alone.
LEMMA HeldByOthers ==
  ASSUME NEW q \in Process, Held(q), Results(q),
         phase'[q] = phase[q], job'[q] = job[q], task'[q] = task[q], acc'[q] = acc[q]
  PROVE  Held(q)' /\ Results(q)'
BY DEF Held, Results, ThreadsDone, Broken, RunFailed, Scheduled

\* A process that ends holds nothing.
LEMMA BecomeIdleHeld ==
  ASSUME LayersInv, NEW p \in Process, BecomeIdle(p)
  PROVE  \A q \in Process : Held(q)' /\ Results(q)'
<1>1. Held(p)' /\ Results(p)'
  BY DEF BecomeIdle, LayersInv, TypeOK, Held, Results, NoStates, Working
<1>2. \A q \in Process \ {p} :
        phase'[q] = phase[q] /\ job'[q] = job[q] /\ task'[q] = task[q] /\ acc'[q] = acc[q]
  BY DEF BecomeIdle, LayersInv, TypeOK
<1>3. QED
  BY <1>1, <1>2, HeldByOthers DEF LayersInv

\* An unpartitioned run schedules every chunk.
LEMMA AllScheduled ==
  ASSUME SchedulerCount = 1, NEW p \in Process, NEW c \in Chunk
  PROVE  Scheduled(p, c)
<1>1. SchedulerIndex[p] = 0
  BY ProcessAssumption
<1>2. c \in Nat
  BY CountsAssumption DEF Chunk
<1>3. c % 1 = 0
  BY <1>2
<1>4. QED
  BY <1>1, <1>3 DEF Scheduled

\* Every step keeps what processes hold in order.
LEMMA StepHeld ==
  ASSUME LayersInv, [Next]_vars
  PROVE  \A q \in Process : Held(q)' /\ Results(q)'
<1> USE DEF env, files, local, Working
<1> DEFINE Others(p) ==
      \A q \in Process \ {p} :
        phase'[q] = phase[q] /\ job'[q] = job[q] /\ task'[q] = task[q] /\ acc'[q] = acc[q]
<1>1. ASSUME NEW p \in Process, Others(p), Held(p)' /\ Results(p)'
      PROVE  \A q \in Process : Held(q)' /\ Results(q)'
  BY <1>1, HeldByOthers DEF LayersInv
<1>2. ASSUME NEW p \in Process, StartRun(p)
      PROVE  \A q \in Process : Held(q)' /\ Results(q)'
  <2>1. Others(p)
    BY <1>2 DEF StartRun, LayersInv, TypeOK
  <2>2. Held(p)'
    BY <1>2 DEF StartRun, LayersInv, TypeOK, Held
  <2>3. phase'[p] = "decide"
    BY <1>2 DEF StartRun, LayersInv, TypeOK
  <2>4. Results(p)'
    BY <2>3 DEF Results
  <2>5. QED
    BY <1>1, <2>1, <2>2, <2>4
<1>3. ASSUME NEW p \in Process, DecideChunks(p)
      PROVE  \A q \in Process : Held(q)' /\ Results(q)'
  <2>1. Others(p) /\ phase'[p] = "run" /\ job' = job
    BY <1>3 DEF DecideChunks, LayersInv, TypeOK
  <2>2. \A c \in Chunk :
          /\ acc'[p][c] = IF Choice(p, c) = "reused" THEN stateFile[c] ELSE NoState
          /\ task'[p][c] = Choice(p, c)
    BY <1>3 DEF DecideChunks, LayersInv, TypeOK
  <2>3. ASSUME NEW c \in Chunk
        PROVE  /\ Choice(p, c) \notin {"idle", "computed", "completed"}
               /\ Choice(p, c) = "unscheduled" => ~Scheduled(p, c)
               /\ Choice(p, c) = "reused" => Reusable(p, c)
    BY DEF Choice
  <2>4. Held(p)'
    BY <2>1, <2>2, <2>3 DEF Held, Reusable
  <2>5. Results(p)'
    BY <2>1, <2>2, <2>3 DEF Results, Reusable, Scheduled
  <2>6. QED
    BY <1>1, <2>1, <2>4, <2>5
<1>4. ASSUME NEW p \in Process, NEW c \in Chunk, ComputeChunk(p, c)
      PROVE  \A q \in Process : Held(q)' /\ Results(q)'
  <2> DEFINE s == [cfg |-> job[p].cfg, paths |-> job[p].paths, version |-> version]
  <2>1. Others(p) /\ phase' = phase /\ phase[p] = "run" /\ job' = job
    BY <1>4 DEF ComputeChunk, LayersInv, TypeOK
  <2>2. s # NoState
    BY DataAssumption DEF LayersInv, TypeOK, Job
  <2>3. \A d \in Chunk :
          /\ acc'[p][d] = IF d = c THEN s ELSE acc[p][d]
          /\ task'[p][d] = IF d = c THEN "computed" ELSE task[p][d]
    BY <1>4 DEF ComputeChunk, LayersInv, TypeOK
  <2>4. Held(p)'
    BY <2>1, <2>3 DEF LayersInv, Held
  <2>5. Results(p)'
    BY <2>1, <2>2, <2>3 DEF LayersInv, Results, Scheduled
  <2>6. QED
    BY <1>1, <2>1, <2>4, <2>5
<1>5. ASSUME NEW p \in Process, NEW c \in Chunk,
             FailChunk(p, c) \/ WriteState(p, c) \/ WriteStateFails(p, c) \/ ExitChunk(p, c)
      PROVE  \A q \in Process : Held(q)' /\ Results(q)'
  <2>1. /\ phase' = phase /\ phase[p] = "run" /\ job' = job /\ acc' = acc
        /\ \/ task' = [task EXCEPT ![p][c] = "failed"]
           \/ task' = [task EXCEPT ![p][c] = "broken"]
           \/ task' = [task EXCEPT ![p][c] = "completed"] /\ task[p][c] = "computed"
    BY <1>5 DEF FailChunk, WriteState, WriteStateFails, ExitChunk
  <2>2. Others(p)
    BY <2>1 DEF LayersInv, TypeOK
  <2>3. \A d \in Chunk \ {c} : task'[p][d] = task[p][d]
    BY <2>1 DEF LayersInv, TypeOK
  <2>4. \/ task'[p][c] \in {"failed", "broken"}
        \/ task'[p][c] = "completed" /\ acc[p][c] # NoState
    BY <2>1 DEF LayersInv, TypeOK, Results
  <2>5. Held(p)'
    BY <2>1 DEF LayersInv, Held
  <2>6. Results(p)'
    BY <2>1, <2>3, <2>4 DEF LayersInv, Results, Scheduled
  <2>7. QED
    BY <1>1, <2>2, <2>5, <2>6
<1>6. ASSUME NEW p \in Process, AbortRun(p) \/ WriteLayers(p) \/ Crash(p)
      PROVE  \A q \in Process : Held(q)' /\ Results(q)'
  BY <1>6, BecomeIdleHeld DEF AbortRun, WriteLayers, Crash
<1>7. ASSUME NEW p \in Process, MergeResults(p)
      PROVE  \A q \in Process : Held(q)' /\ Results(q)'
  <2>1. Others(p) /\ phase'[p] = "plan" /\ phase[p] = "run"
    BY <1>7 DEF MergeResults, LayersInv, TypeOK
  <2>2. task' = task /\ acc' = acc /\ job' = job /\ ThreadsDone(p) /\ ~Broken(p)
    BY <1>7 DEF MergeResults
  <2>3. Held(p)'
    BY <2>1, <2>2 DEF LayersInv, Held
  <2>4. Results(p)'
    BY <2>1, <2>2 DEF LayersInv, Results, ThreadsDone, Broken, Scheduled
  <2>5. QED
    BY <1>1, <2>1, <2>3, <2>4
<1>8. ASSUME NEW p \in Process, WritePlan(p), ~RunFailed(p)
      PROVE  \A q \in Process : Held(q)' /\ Results(q)'
  <2>1. Others(p) /\ phase'[p] = "layers" /\ phase[p] = "plan"
    BY <1>8 DEF WritePlan, LayersInv, TypeOK
  <2>2. task' = task /\ acc' = acc /\ job' = job
    BY <1>8 DEF WritePlan
  <2>3. Held(p)'
    BY <2>1, <2>2 DEF LayersInv, Held
  <2>4. Results(p)'
    BY <1>8, <2>1, <2>2
       DEF LayersInv, Results, ThreadsDone, Broken, RunFailed, Scheduled
  <2>5. QED
    BY <1>1, <2>1, <2>3, <2>4
<1>9. ASSUME NEW p \in Process, WritePlan(p), RunFailed(p)
      PROVE  \A q \in Process : Held(q)' /\ Results(q)'
  BY <1>9, BecomeIdleHeld DEF WritePlan
<1>10. CASE Environment \/ UNCHANGED vars
  <2>1. phase' = phase /\ job' = job /\ task' = task /\ acc' = acc
    BY <1>10 DEF Environment, Tick, Reconfigure, RewriteInputs, ForeignClaim, vars
  <2>2. QED
    BY <2>1, HeldByOthers DEF LayersInv
<1>11. QED
  BY <1>2, <1>3, <1>4, <1>5, <1>6, <1>7, <1>8, <1>9, <1>10 DEF Next, RunStep

\* The layers written are those of the run that wrote them.
LEMMA StepLayers ==
  ASSUME LayersInv, [Next]_vars
  PROVE  LayersMatchOptions' /\ LayersComplete'
<1> USE DEF env, files, local
<1>1. ASSUME NEW p \in Process, WriteLayers(p)
      PROVE  LayersMatchOptions' /\ LayersComplete'
  <2>1. layers'.run = job[p] /\ layers'.merged = acc[p] /\ phase[p] = "layers"
    BY <1>1 DEF WriteLayers
  <2>2. LayersMatchOptions'
    BY <2>1 DEF LayersInv, Held, LayersMatchOptions
  <2>3. ASSUME SchedulerCount = 1, NEW c \in Chunk
        PROVE  acc[p][c] # NoState
    <3>1. task[p][c] \notin {"idle", "unscheduled", "planned", "computed", "broken",
                             "failed", "rejected", "skipped"}
      BY <2>1, <2>3, AllScheduled
         DEF LayersInv, Results, Working, ThreadsDone, Broken, RunFailed
    <3>2. task[p][c] \in Task
      BY DEF LayersInv, TypeOK
    <3>3. QED
      BY <2>1, <3>1, <3>2 DEF LayersInv, Results, Working, Task
  <2>4. QED
    BY <2>1, <2>2, <2>3 DEF LayersComplete
<1>2. ASSUME layers' = layers \/ layers' = NoLayers
      PROVE  LayersMatchOptions' /\ LayersComplete'
  BY <1>2 DEF LayersInv, LayersMatchOptions, LayersComplete
<1>3. ASSUME NEW p \in Process, StartRun(p) \/ DecideChunks(p) \/ AbortRun(p)
                                  \/ MergeResults(p) \/ WritePlan(p) \/ Crash(p)
      PROVE  layers' = layers \/ layers' = NoLayers
  BY <1>3 DEF StartRun, DecideChunks, AbortRun, MergeResults, WritePlan, Crash
<1>4. ASSUME NEW p \in Process, NEW c \in Chunk,
             \/ ComputeChunk(p, c) \/ FailChunk(p, c) \/ WriteState(p, c)
             \/ WriteStateFails(p, c) \/ ExitChunk(p, c)
      PROVE  layers' = layers
  BY <1>4 DEF ComputeChunk, FailChunk, WriteState, WriteStateFails, ExitChunk
<1>5. ASSUME Environment \/ UNCHANGED vars
      PROVE  layers' = layers
  BY <1>5 DEF Environment, Tick, Reconfigure, RewriteInputs, ForeignClaim, vars
<1>6. QED
  BY <1>1, <1>2, <1>3, <1>4, <1>5 DEF Next, RunStep

\* LayersInv is an invariant.
LEMMA LayersInvariant == Spec => []LayersInv
<1>1. Init => LayersInv
  BY InitTyped
     DEF Init, LayersInv, Held, Results, Working, NoStates, LayersMatchOptions, LayersComplete
<1>2. LayersInv /\ TypeOK' /\ [Next]_vars => LayersInv'
  BY StepHeld, StepLayers DEF LayersInv
<1>3. QED
  BY <1>1, <1>2, TypeCorrect, PTL DEF Spec

\* Layers are never merged from partial states of different options or inputs,
\* whatever was reused, retried, rewritten by other runs or killed in between.
THEOREM LayersMatchOptionsHolds == Spec => []LayersMatchOptions
<1>1. LayersInv => LayersMatchOptions
  BY DEF LayersInv
<1>2. QED
  BY <1>1, LayersInvariant, PTL

\* An unpartitioned build never writes layers with a chunk missing.
THEOREM LayersCompleteHolds == Spec => []LayersComplete
<1>1. LayersInv => LayersComplete
  BY DEF LayersInv
<1>2. QED
  BY <1>1, LayersInvariant, PTL
-------------------------------------------------------------------------------
(* What is reported as recovered *)

\* A record adopted with the decision stale_claim_recovered either still has the
\* result it was recovered with, or a foreign owner has reopened it since and its
\* claim is still there.  Without the second half nothing would keep the old
\* decision from being reported of an execution.
Reopened(r) ==
  r.decision = "stale_claim_recovered" =>
    \/ r.completion = "completed"
    \/ r.ownership.state = "claimed" /\ r.ownership.owner \in ForeignOwner

\* What the records of a run say of recovery, before and after its decisions.
Recovered(p) ==
  /\ phase[p] \in {"idle", "decide"} => \A c \in Chunk : task[p][c] = "idle"
  /\ phase[p] = "decide" =>
       \A c \in Chunk : Reopened(rec[p][c]) \/ IsStale(rec[p][c], job[p].now)
  /\ phase[p] \in Working =>
       \A c \in Chunk : rec[p][c].decision = "stale_claim_recovered" =>
         /\ rec[p][c].completion = "completed"
         /\ task[p][c] \notin {"planned", "computed", "completed", "failed"}

RecoveredInv ==
  /\ TypeOK
  /\ planFile # NoPlan => \A c \in Chunk : Reopened(planFile[c])
  /\ \A p \in Process : Recovered(p)

\* A record that is adopted is reopened or stale.
LEMMA AdoptReopened ==
  ASSUME NEW ps \in PathSet, NEW r \in Record, Reopened(r), NEW now
  PROVE  /\ Reopened(FreshRecord(ps))
         /\ Reopened(Adopt(r, ps, now)) \/ IsStale(Adopt(r, ps, now), now)
<1>1. Reopened(FreshRecord(ps))
  BY DEF Reopened, FreshRecord
<1>2. CASE r.paths # ps \/ ~IsStale(r, now)
  BY <1>1, <1>2 DEF Adopt
<1>3. CASE r.paths = ps /\ IsStale(r, now)
  <2>1. Adopt(r, ps, now) = MarkStale(r)
    BY <1>3 DEF Adopt
  <2>2. r.ownership \in Ownership
    BY DEF Record
  <2>3. /\ MarkStale(r).ownership.state = "stale"
        /\ MarkStale(r).ownership.expires = r.ownership.expires
    BY <2>2 DEF MarkStale, Record, Ownership
  <2>4. IsStale(MarkStale(r), now)
    BY <1>3, <2>3 DEF IsStale
  <2>5. QED
    BY <1>1, <2>1, <2>4
<1>4. QED
  BY <1>2, <1>3

\* The decision loop reports recovery of reused chunks only: a chunk to execute
\* whose old decision says so is not completed, hence its foreign claim is over.
LEMMA DecidedRecovered ==
  ASSUME TypeOK, NEW p \in Process, NEW c \in Chunk, OwnerOf[p] \notin ForeignOwner,
         Reopened(rec[p][c]) \/ IsStale(rec[p][c], job[p].now),
         DecidedRecord(p, c).decision = "stale_claim_recovered"
  PROVE  Choice(p, c) = "reused" /\ DecidedRecord(p, c).completion = "completed"
<1> DEFINE r == rec[p][c]
           d == DecidedRecord(p, c)
<1>1. r \in Record
  BY DEF TypeOK
<1>2. Choice(p, c) \in {"unscheduled", "skipped", "reused", "rejected", "planned"}
  BY DEF Choice
<1>3. CASE Choice(p, c) = "unscheduled"
  <2>1. d.decision = "not_scheduled"
    BY <1>1, <1>3 DEF DecidedRecord, Record
  <2>2. QED
    BY <2>1
<1>4. CASE Choice(p, c) = "skipped"
  <2>1. d.decision = "skipped_by_other_owner"
    BY <1>1, <1>4 DEF DecidedRecord, Record
  <2>2. QED
    BY <2>1
<1>5. CASE Choice(p, c) = "rejected"
  <2>1. d.decision = "max_attempts_exceeded"
    BY <1>1, <1>5 DEF DecidedRecord, Record
  <2>2. QED
    BY <2>1
<1>6. CASE Choice(p, c) = "reused"
  <2>1. r.completion = "completed"
    BY <1>6 DEF Choice, Reusable
  <2>2. d.completion = r.completion
    BY <1>1, <1>6 DEF DecidedRecord, Record
  <2>3. QED
    BY <1>6, <2>1, <2>2
<1>7. CASE Choice(p, c) = "planned"
  <2>1. d.decision = ExecutionDecision(r, IsStale(r, job[p].now))
    BY <1>1, <1>7 DEF DecidedRecord, Record
  <2>2. /\ ~IsStale(r, job[p].now)
        /\ r.completion # "completed"
        /\ r.decision = "stale_claim_recovered"
    BY <2>1 DEF ExecutionDecision
  <2>3. r.ownership.state = "claimed" /\ r.ownership.owner # OwnerOf[p]
    BY <2>2 DEF Reopened
  <2>4. ActiveForOther(r, OwnerOf[p], job[p].now)
    BY <2>2, <2>3 DEF ActiveForOther
  <2>5. Choice(p, c) # "planned"
    BY <2>4 DEF Choice
  <2>6. QED
    BY <1>7, <2>5
<1>8. QED
  BY <1>2, <1>3, <1>4, <1>5, <1>6, <1>7

\* A step of one process leaves what another one reports alone.
LEMMA RecoveredByOthers ==
  ASSUME NEW q \in Process, Recovered(q),
         phase'[q] = phase[q], job'[q] = job[q], rec'[q] = rec[q], task'[q] = task[q]
  PROVE  Recovered(q)'
BY DEF Recovered

\* A process that ends reports nothing.
LEMMA BecomeIdleRecovered ==
  ASSUME RecoveredInv, NEW p \in Process, BecomeIdle(p)
  PROVE  \A q \in Process : Recovered(q)'
<1>1. Recovered(p)'
  BY DEF BecomeIdle, RecoveredInv, TypeOK, Recovered, IdleTasks, Working
<1>2. \A q \in Process \ {p} :
        phase'[q] = phase[q] /\ job'[q] = job[q] /\ rec'[q] = rec[q] /\ task'[q] = task[q]
  BY DEF BecomeIdle, RecoveredInv, TypeOK
<1>3. QED
  BY <1>1, <1>2, RecoveredByOthers DEF RecoveredInv

\* Every step keeps the reports of recovery true.
LEMMA StepRecovered ==
  ASSUME \A p \in Process : OwnerOf[p] \notin ForeignOwner,
         RecoveredInv, TypeOK', [Next]_vars
  PROVE  RecoveredInv'
<1> USE DEF env, files, local
<1> DEFINE Others(p) ==
      \A q \in Process \ {p} :
        phase'[q] = phase[q] /\ job'[q] = job[q] /\ rec'[q] = rec[q] /\ task'[q] = task[q]
<1>1. ASSUME NEW p \in Process, Others(p), Recovered(p)', planFile' = planFile
      PROVE  RecoveredInv'
  BY <1>1, RecoveredByOthers DEF RecoveredInv, Reopened
<1>2. ASSUME NEW p \in Process, StartRun(p)
      PROVE  RecoveredInv'
  <2>1. /\ Others(p) /\ planFile' = planFile /\ task' = task
        /\ phase[p] = "idle" /\ phase'[p] = "decide" /\ job'[p].now = clock
    BY <1>2 DEF StartRun, RecoveredInv, TypeOK
  <2>2. ASSUME NEW c \in Chunk
        PROVE  Reopened(rec'[p][c]) \/ IsStale(rec'[p][c], job'[p].now)
    <3>1. rec'[p][c] = IF planFile = NoPlan THEN FreshRecord(paths)
                       ELSE Adopt(planFile[c], paths, clock)
      BY <1>2 DEF StartRun, RecoveredInv, TypeOK
    <3>2. CASE planFile = NoPlan
      BY <3>1, <3>2 DEF Reopened, FreshRecord
    <3>3. CASE planFile # NoPlan
      <4>1. planFile[c] \in Record /\ Reopened(planFile[c]) /\ paths \in PathSet
        BY <3>3 DEF RecoveredInv, TypeOK
      <4>2. QED
        BY <2>1, <3>1, <3>3, <4>1, AdoptReopened
    <3>4. QED
      BY <3>2, <3>3
  <2>3. Recovered(p)'
    BY <2>1, <2>2 DEF RecoveredInv, Recovered, Working, Reopened, IsStale
  <2>4. QED
    BY <1>1, <2>1, <2>3
<1>3. ASSUME NEW p \in Process, DecideChunks(p)
      PROVE  RecoveredInv'
  <2>1. /\ Others(p) /\ planFile' = planFile
        /\ phase[p] = "decide" /\ phase'[p] = "run"
    BY <1>3 DEF DecideChunks, RecoveredInv, TypeOK
  <2>2. \A c \in Chunk : rec'[p][c] = DecidedRecord(p, c) /\ task'[p][c] = Choice(p, c)
    BY <1>3 DEF DecideChunks, RecoveredInv, TypeOK
  <2>3. \A c \in Chunk : DecidedRecord(p, c).decision = "stale_claim_recovered" =>
          Choice(p, c) = "reused" /\ DecidedRecord(p, c).completion = "completed"
    BY <2>1, DecidedRecovered DEF RecoveredInv, Recovered
  <2>4. Recovered(p)'
    BY <2>1, <2>2, <2>3 DEF Recovered
  <2>5. QED
    BY <1>1, <2>1, <2>4
<1>4. ASSUME NEW p \in Process, NEW c \in Chunk,
             \/ ComputeChunk(p, c) \/ FailChunk(p, c) \/ WriteState(p, c)
             \/ WriteStateFails(p, c) \/ ExitChunk(p, c)
      PROVE  RecoveredInv'
  <2>1. /\ planFile' = planFile /\ rec' = rec /\ phase' = phase /\ job' = job
        /\ phase[p] = "run" /\ task[p][c] \in {"planned", "computed"}
        /\ \E t \in Task : task' = [task EXCEPT ![p][c] = t]
    BY <1>4 DEF ComputeChunk, FailChunk, WriteState, WriteStateFails, ExitChunk, Task
  <2>2. Others(p) /\ \A d \in Chunk \ {c} : task'[p][d] = task[p][d]
    BY <2>1 DEF RecoveredInv, TypeOK
  <2>3. rec[p][c].decision # "stale_claim_recovered"
    BY <2>1 DEF RecoveredInv, Recovered, Working
  <2>4. Recovered(p)'
    BY <2>1, <2>2, <2>3 DEF RecoveredInv, Recovered
  <2>5. QED
    BY <1>1, <2>1, <2>2, <2>4
<1>5. ASSUME NEW p \in Process, AbortRun(p) \/ WriteLayers(p) \/ Crash(p)
      PROVE  RecoveredInv'
  <2>1. BecomeIdle(p) /\ (planFile' = planFile \/ planFile' = NoPlan)
    BY <1>5 DEF AbortRun, WriteLayers, Crash
  <2>2. QED
    BY <2>1, BecomeIdleRecovered DEF RecoveredInv, Reopened
<1>6. ASSUME NEW p \in Process, MergeResults(p)
      PROVE  RecoveredInv'
  <2>1. /\ Others(p) /\ planFile' = planFile /\ task' = task
        /\ phase[p] = "run" /\ phase'[p] = "plan"
    BY <1>6 DEF MergeResults, RecoveredInv, TypeOK
  <2>2. \A c \in Chunk : rec'[p][c] = FinalRecord(p, c)
    BY <1>6 DEF MergeResults, RecoveredInv, TypeOK
  <2>3. ASSUME NEW c \in Chunk
        PROVE  /\ FinalRecord(p, c).decision = rec[p][c].decision
               /\ task[p][c] \notin {"completed", "failed"} =>
                    FinalRecord(p, c).completion = rec[p][c].completion
    <3>1. rec[p][c] \in Record
      BY DEF RecoveredInv, TypeOK
    <3>2. QED
      BY <3>1 DEF FinalRecord, Record
  <2>4. Recovered(p)'
    BY <2>1, <2>2, <2>3 DEF RecoveredInv, Recovered, Working
  <2>5. QED
    BY <1>1, <2>1, <2>4
<1>7. ASSUME NEW p \in Process, WritePlan(p)
      PROVE  RecoveredInv'
  <2>1. planFile' = rec[p] /\ phase[p] = "plan"
    BY <1>7 DEF WritePlan
  <2>2. \A c \in Chunk : Reopened(planFile'[c])
    BY <2>1 DEF RecoveredInv, Recovered, Working, Reopened
  <2>3. \A q \in Process : Recovered(q)'
    <3>1. CASE RunFailed(p)
      BY <1>7, <3>1, BecomeIdleRecovered DEF WritePlan
    <3>2. CASE ~RunFailed(p)
      <4>1. Others(p) /\ phase'[p] = "layers" /\ rec' = rec /\ task' = task
        BY <1>7, <3>2 DEF WritePlan, RecoveredInv, TypeOK
      <4>2. Recovered(p)'
        BY <2>1, <4>1 DEF RecoveredInv, Recovered, Working
      <4>3. QED
        BY <4>1, <4>2, RecoveredByOthers DEF RecoveredInv
    <3>3. QED
      BY <3>1, <3>2
  <2>4. QED
    BY <2>2, <2>3 DEF RecoveredInv, Reopened
<1>8. ASSUME NEW c \in Chunk, NEW o \in ForeignOwner, ForeignClaim(c, o)
      PROVE  RecoveredInv'
  <2>1. planFile \in [Chunk -> Record] /\ planFile # NoPlan
    BY <1>8 DEF ForeignClaim, RecoveredInv, TypeOK
  <2>2. PICK completion \in {planFile[c].completion, "not_started"} :
          planFile' = [planFile EXCEPT ![c].ownership = Claimed(o, clock),
                                       ![c].completion = completion]
    BY <1>8 DEF ForeignClaim
  <2>3. /\ planFile'[c].ownership = Claimed(o, clock)
        /\ \A d \in Chunk \ {c} : planFile'[d] = planFile[d]
    BY <2>1, <2>2 DEF Record
  <2>4. \A d \in Chunk : Reopened(planFile'[d])
    BY <2>1, <2>3 DEF RecoveredInv, Reopened, Claimed
  <2>5. phase' = phase /\ job' = job /\ rec' = rec /\ task' = task
    BY <1>8 DEF ForeignClaim
  <2>6. QED
    BY <2>4, <2>5, RecoveredByOthers DEF RecoveredInv, Reopened
<1>9. CASE Tick \/ Reconfigure \/ RewriteInputs \/ UNCHANGED vars
  <2>1. /\ planFile' = planFile /\ phase' = phase /\ job' = job
        /\ rec' = rec /\ task' = task
    BY <1>9 DEF Tick, Reconfigure, RewriteInputs, vars
  <2>2. QED
    BY <2>1, RecoveredByOthers DEF RecoveredInv, Reopened
<1>10. QED
  BY <1>2, <1>3, <1>4, <1>5, <1>6, <1>7, <1>8, <1>9 DEF Next, RunStep, Environment

\* A chunk reported as recovered from a stale claim was reused and never executed,
\* with any number of runs alive at one time, as long as nobody else claims chunks
\* under the name of one of the runs.
THEOREM StaleRecoveredOnlyIfReusedHolds ==
  ASSUME \A p \in Process : OwnerOf[p] \notin ForeignOwner
  PROVE  Spec => []StaleRecoveredOnlyIfReused
<1>1. Init => RecoveredInv
  BY InitTyped DEF Init, RecoveredInv, Recovered, IdleTasks, Working
<1>2. RecoveredInv /\ TypeOK' /\ [Next]_vars => RecoveredInv'
  BY StepRecovered
<1>3. RecoveredInv => StaleRecoveredOnlyIfReused
  <2> SUFFICES ASSUME RecoveredInv, NEW p \in Process, NEW c \in Chunk,
                      task[p][c] \in {"planned", "computed", "completed", "failed"}
               PROVE  rec[p][c].decision # "stale_claim_recovered"
    BY DEF StaleRecoveredOnlyIfReused
  <2>1. phase[p] \in Phase /\ phase[p] \notin {"idle", "decide"}
    BY DEF RecoveredInv, TypeOK, Recovered
  <2>2. phase[p] \in Working
    BY <2>1 DEF Phase, Working
  <2>3. QED
    BY <2>2 DEF RecoveredInv, Recovered
<1>4. QED
  BY <1>1, <1>2, <1>3, TypeCorrect, PTL DEF Spec
-------------------------------------------------------------------------------
(* If runs do not overlap: while a run is alive nothing else writes the plan
   file, so its in-memory records stay in a known relation to the entries on
   disk (Accounts), and when it writes, every chunk is one outcome away. *)

\* At most one run is alive.
Alone ==
  \A p, q \in Process : phase[p] # "idle" /\ phase[q] # "idle" => p = q

\* The ledger entry the run of p starts chunk c from.
Base(p, c) ==
  IF planFile = NoPlan THEN Ledger!Fresh(job[p].paths)
  ELSE IF planFile[c].paths # job[p].paths THEN Ledger!Fresh(job[p].paths)
  ELSE Entry(planFile[c])

Executing == {"planned", "computed", "completed", "failed", "broken"}

\* How the record of a decided chunk relates to the entry it started from.
Decided(r, t, b) ==
  /\ t \in {"unscheduled", "reused", "skipped", "rejected"} \cup Executing
  /\ t \in {"unscheduled", "reused"} => Entry(r) = b
  /\ t = "skipped" => Entry(r) = Ledger!Withdrawn(b)
  /\ t = "rejected" => ~(b.retry < MaxAttempts) /\ Entry(r) = Ledger!Exhausted(b)
  /\ t \in Executing =>
       /\ b.retry < MaxAttempts
       /\ r.attempt = b.attempt
       /\ r.retry = b.retry
       /\ r.paths = b.paths

\* The records of a run account for the plan file it will replace.
Accounts(p) ==
  /\ phase[p] = "decide" => \A c \in Chunk : Entry(rec[p][c]) = Base(p, c)
  /\ phase[p] = "run" => \A c \in Chunk : Decided(rec[p][c], task[p][c], Base(p, c))
  /\ phase[p] = "plan" =>
       \A c \in Chunk : Entry(rec[p][c]) \in Ledger!Outcomes(Base(p, c))

LedgerInv == TypeOK /\ Alone /\ \A p \in Process : Accounts(p)

\* Entries are typed.
LEMMA EntryTyped ==
  ASSUME NEW r \in Record
  PROVE  Entry(r) \in LedgerEntry
BY DEF Entry, Record, LedgerEntry

LEMMA BaseTyped ==
  ASSUME TypeOK, NEW p \in Process, NEW c \in Chunk
  PROVE  Base(p, c) \in LedgerEntry
<1>1. Ledger!Fresh(job[p].paths) \in LedgerEntry
  BY DEF Ledger!Fresh, LedgerEntry, TypeOK, Job, Completion
<1>2. planFile # NoPlan => Entry(planFile[c]) \in LedgerEntry
  BY EntryTyped DEF TypeOK
<1>3. QED
  BY <1>1, <1>2 DEF Base

\* A run starts from the entries on disk.
LEMMA AdoptAccounts ==
  ASSUME NEW ps \in PathSet, NEW r \in Record, NEW now
  PROVE  /\ Entry(FreshRecord(ps)) = Ledger!Fresh(ps)
         /\ Entry(Adopt(r, ps, now)) = IF r.paths # ps THEN Ledger!Fresh(ps) ELSE Entry(r)
<1>1. Entry(FreshRecord(ps)) = Ledger!Fresh(ps)
  BY DEF Entry, FreshRecord, Ledger!Fresh
<1>2. Entry(MarkStale(r)) = Entry(r)
  BY DEF Entry, MarkStale, Record
<1>3. QED
  BY <1>1, <1>2 DEF Adopt

\* The decision loop.
LEMMA DecidedAccounts ==
  ASSUME TypeOK, NEW p \in Process, NEW c \in Chunk
  PROVE  Decided(DecidedRecord(p, c), Choice(p, c), Entry(rec[p][c]))
<1> DEFINE r == rec[p][c]
           d == DecidedRecord(p, c)
<1>1. r \in Record
  BY DEF TypeOK
<1>2. Choice(p, c) \in {"unscheduled", "skipped", "reused", "rejected", "planned"}
  BY DEF Choice
<1>3. CASE Choice(p, c) \in {"unscheduled", "reused"}
  <2>1. Entry(d) = Entry(r)
    BY <1>1, <1>3 DEF DecidedRecord, Record, Entry
  <2>2. QED
    BY <1>3, <2>1 DEF Decided, Executing
<1>4. CASE Choice(p, c) = "skipped"
  <2>1. /\ d.completion = "not_started" /\ d.attempt = r.attempt
        /\ d.retry = r.retry /\ d.paths = r.paths
    BY <1>1, <1>4 DEF DecidedRecord, Record
  <2>2. Entry(d) = Ledger!Withdrawn(Entry(r))
    BY <2>1 DEF Entry, Ledger!Withdrawn
  <2>3. QED
    BY <1>4, <2>2 DEF Decided, Executing
<1>5. CASE Choice(p, c) = "rejected"
  <2>1. /\ d.completion = "failed" /\ d.attempt = IF r.attempt = 0 THEN 1 ELSE r.attempt
        /\ d.retry = r.retry /\ d.paths = r.paths
    BY <1>1, <1>5 DEF DecidedRecord, Record
  <2>2. Entry(d) = Ledger!Exhausted(Entry(r))
    <3>1. /\ Entry(r) \in LedgerEntry
          /\ Entry(r).attempt = r.attempt /\ Entry(r).retry = r.retry
          /\ Entry(r).paths = r.paths
      BY <1>1, EntryTyped DEF Entry
    <3>2. QED
      BY <2>1, <3>1 DEF Entry, Ledger!Exhausted
  <2>3. ~(r.retry < MaxAttempts)
    BY <1>1, <1>5, CountsAssumption DEF Choice, Record
  <2>4. QED
    BY <1>5, <2>2, <2>3 DEF Decided, Executing, Entry
<1>6. CASE Choice(p, c) = "planned"
  <2>1. d.attempt = r.attempt /\ d.retry = r.retry /\ d.paths = r.paths
    BY <1>1, <1>6 DEF DecidedRecord, Record
  <2>2. r.retry < MaxAttempts
    BY <1>1, <1>6, CountsAssumption DEF Choice, Record
  <2>3. QED
    BY <1>6, <2>1, <2>2 DEF Decided, Executing, Entry
<1>7. QED
  BY <1>2, <1>3, <1>4, <1>5, <1>6

\* Counting the outcomes.
LEMMA FinalAccounts ==
  ASSUME TypeOK, NEW p \in Process, NEW c \in Chunk,
         NEW b \in LedgerEntry, Decided(rec[p][c], task[p][c], b),
         task[p][c] \notin {"planned", "computed", "broken"}
  PROVE  Entry(FinalRecord(p, c)) \in Ledger!Outcomes(b)
<1> DEFINE r == rec[p][c]
           f == FinalRecord(p, c)
<1>1. r \in Record
  BY DEF TypeOK
<1>2. CASE task[p][c] \in {"unscheduled", "reused"}
  <2>1. Entry(f) = Entry(r)
    BY <1>1, <1>2 DEF FinalRecord, Entry, Record
  <2>2. QED
    BY <1>2, <2>1 DEF Decided, Ledger!Outcomes
<1>3. CASE task[p][c] = "skipped"
  BY <1>3 DEF FinalRecord, Decided, Ledger!Outcomes
<1>4. CASE task[p][c] = "rejected"
  BY <1>4 DEF FinalRecord, Decided, Ledger!Outcomes
<1>5. CASE task[p][c] = "completed"
  <2>1. /\ f.completion = "completed" /\ f.attempt = r.attempt + 1
        /\ f.retry = r.retry /\ f.paths = r.paths
    BY <1>1, <1>5 DEF FinalRecord, Record
  <2>2. b.retry < MaxAttempts /\ r.attempt = b.attempt /\ r.retry = b.retry /\ r.paths = b.paths
    BY <1>5 DEF Decided, Executing
  <2>3. Entry(f) = Ledger!Succeeded(b)
    BY <2>1, <2>2 DEF Entry, Ledger!Succeeded
  <2>4. QED
    BY <2>2, <2>3 DEF Ledger!Outcomes
<1>6. CASE task[p][c] = "failed"
  <2>1. /\ f.completion = "failed" /\ f.attempt = r.attempt + 1
        /\ f.retry = r.retry + 1 /\ f.paths = r.paths
    BY <1>1, <1>6 DEF FinalRecord, Record
  <2>2. b.retry < MaxAttempts /\ r.attempt = b.attempt /\ r.retry = b.retry /\ r.paths = b.paths
    BY <1>6 DEF Decided, Executing
  <2>3. Entry(f) = Ledger!Failed(b)
    BY <2>1, <2>2 DEF Entry, Ledger!Failed
  <2>4. QED
    BY <2>2, <2>3 DEF Ledger!Outcomes
<1>7. QED
  BY <1>2, <1>3, <1>4, <1>5, <1>6 DEF Decided, Executing
-------------------------------------------------------------------------------
\* A run that touches neither its records nor the plan keeps its accounts.
LEMMA AccountsByOthers ==
  ASSUME NEW q \in Process, Accounts(q), planFile' = planFile,
         phase'[q] = phase[q], job'[q] = job[q], rec'[q] = rec[q], task'[q] = task[q]
  PROVE  Accounts(q)'
BY DEF Accounts, Base

\* An idle process has nothing to account for.
LEMMA IdleAccounts ==
  ASSUME NEW q, phase'[q] \notin {"decide", "run", "plan"}
  PROVE  Accounts(q)'
BY DEF Accounts

\* Steps inside a run.
LEMMA RunStepAccounts ==
  ASSUME LedgerInv, NEW p \in Process,
         \/ DecideChunks(p) \/ AbortRun(p) \/ MergeResults(p) \/ WriteLayers(p)
         \/ \E c \in Chunk : \/ ComputeChunk(p, c) \/ FailChunk(p, c)
                             \/ WriteState(p, c) \/ WriteStateFails(p, c) \/ ExitChunk(p, c)
  PROVE  planFile' = planFile /\ Alone' /\ \A q \in Process : Accounts(q)'
<1> USE DEF env, files
<1> DEFINE Others ==
      \A q \in Process \ {p} :
        phase'[q] = phase[q] /\ job'[q] = job[q] /\ rec'[q] = rec[q] /\ task'[q] = task[q]
<1>1. ASSUME planFile' = planFile, Others, phase[p] # "idle", Accounts(p)'
      PROVE  planFile' = planFile /\ Alone' /\ \A q \in Process : Accounts(q)'
  <2>1. \A q \in Process : phase'[q] # "idle" => phase[q] # "idle"
    BY <1>1
  <2>2. QED
    BY <1>1, <2>1, AccountsByOthers DEF LedgerInv, Alone
<1>2. CASE DecideChunks(p)
  <2>1. planFile' = planFile /\ job' = job /\ Others /\ phase[p] = "decide" /\ phase'[p] = "run"
    BY <1>2 DEF DecideChunks, LedgerInv, TypeOK
  <2>2. \A c \in Chunk : rec'[p][c] = DecidedRecord(p, c) /\ task'[p][c] = Choice(p, c)
    BY <1>2 DEF DecideChunks, LedgerInv, TypeOK
  <2>3. \A c \in Chunk : Entry(rec[p][c]) = Base(p, c) /\ Base(p, c)' = Base(p, c)
    BY <2>1 DEF LedgerInv, Accounts, Base
  <2>4. \A c \in Chunk : Decided(rec'[p][c], task'[p][c], Base(p, c)')
    BY <2>2, <2>3, DecidedAccounts DEF LedgerInv
  <2>5. Accounts(p)'
    BY <2>1, <2>4 DEF Accounts
  <2>6. QED
    BY <1>1, <2>1, <2>5
<1>3. ASSUME NEW c \in Chunk,
             \/ ComputeChunk(p, c) \/ FailChunk(p, c)
             \/ WriteState(p, c) \/ WriteStateFails(p, c) \/ ExitChunk(p, c)
      PROVE  planFile' = planFile /\ Alone' /\ \A q \in Process : Accounts(q)'
  <2>1. /\ planFile' = planFile /\ job' = job /\ phase' = phase /\ rec' = rec
        /\ phase[p] = "run" /\ task[p][c] \in Executing
        /\ \E t \in Executing : task' = [task EXCEPT ![p][c] = t]
    BY <1>3 DEF ComputeChunk, FailChunk, WriteState, WriteStateFails, ExitChunk, Executing
  <2>2. PICK t \in Executing : task' = [task EXCEPT ![p][c] = t]
    BY <2>1
  <2>3. /\ Others
        /\ task'[p][c] = t
        /\ \A d \in Chunk \ {c} : task'[p][d] = task[p][d]
    BY <2>1, <2>2 DEF LedgerInv, TypeOK
  <2>4. \A d \in Chunk : Base(p, d)' = Base(p, d)
    BY <2>1 DEF Base
  <2>5. \A d \in Chunk : Decided(rec[p][d], task[p][d], Base(p, d))
    BY <2>1 DEF LedgerInv, Accounts
  <2>6. Decided(rec[p][c], t, Base(p, c))
    BY <2>1, <2>2, <2>5 DEF Decided, Executing
  <2>7. Accounts(p)'
    BY <2>1, <2>3, <2>4, <2>5, <2>6 DEF Accounts
  <2>8. QED
    BY <1>1, <2>1, <2>3, <2>7
<1>4. CASE AbortRun(p) \/ WriteLayers(p)
  <2>1. planFile' = planFile /\ BecomeIdle(p) /\ phase[p] # "idle"
    BY <1>4 DEF AbortRun, WriteLayers
  <2>2. Others /\ phase'[p] = "idle"
    BY <2>1 DEF BecomeIdle, LedgerInv, TypeOK
  <2>3. QED
    BY <1>1, <2>1, <2>2, IdleAccounts
<1>5. CASE MergeResults(p)
  <2>1. planFile' = planFile /\ job' = job /\ Others /\ phase[p] = "run" /\ phase'[p] = "plan"
    BY <1>5 DEF MergeResults, LedgerInv, TypeOK
  <2>2. \A c \in Chunk : rec'[p][c] = FinalRecord(p, c)
    BY <1>5 DEF MergeResults, LedgerInv, TypeOK
  <2>3. \A c \in Chunk : task[p][c] \notin {"planned", "computed", "broken"}
    BY <1>5 DEF MergeResults, ThreadsDone, Broken
  <2>4. \A c \in Chunk : /\ Decided(rec[p][c], task[p][c], Base(p, c))
                         /\ Base(p, c)' = Base(p, c)
    BY <2>1 DEF LedgerInv, Accounts, Base
  <2>5. \A c \in Chunk : Entry(rec'[p][c]) \in Ledger!Outcomes(Base(p, c)')
    BY <2>2, <2>3, <2>4, BaseTyped, FinalAccounts DEF LedgerInv
  <2>6. Accounts(p)'
    BY <2>1, <2>5 DEF Accounts
  <2>7. QED
    BY <1>1, <2>1, <2>6
<1>6. QED
  BY <1>2, <1>3, <1>4, <1>5

\* What the ledger shows of a step that leaves the plan file alone.
LEMMA LedgerStutter ==
  ASSUME planFile' = planFile
  PROVE  [Ledger!Next]_(IF planFile = NoPlan THEN NoPlan ELSE [c \in Chunk |-> Entry(planFile[c])])
BY DEF Entry

\* Every step keeps the accounts and is a step of the ledger or leaves it alone.
LEMMA StepLedger ==
  ASSUME Overlap = FALSE, LedgerInv, TypeOK', [Next]_vars
  PROVE  /\ Alone' /\ \A q \in Process : Accounts(q)'
         /\ [Ledger!Next]_(IF planFile = NoPlan THEN NoPlan
                           ELSE [c \in Chunk |-> Entry(planFile[c])])
<1> USE DEF env, files, local
<1> DEFINE view == IF planFile = NoPlan THEN NoPlan ELSE [c \in Chunk |-> Entry(planFile[c])]
           Goal == Alone' /\ (\A q \in Process : Accounts(q)') /\ [Ledger!Next]_view
<1>1. ASSUME NEW p \in Process, StartRun(p)
      PROVE  Goal
  <2>1. /\ planFile' = planFile /\ \A q \in Process : phase[q] = "idle"
        /\ phase' = [phase EXCEPT ![p] = "decide"]
    BY <1>1 DEF StartRun
  <2>2. /\ \A q \in Process \ {p} : phase'[q] = "idle"
        /\ phase'[p] = "decide" /\ job'[p].paths = paths
    BY <1>1, <2>1 DEF StartRun, LedgerInv, TypeOK
  <2>3. \A c \in Chunk :
          rec'[p][c] = IF planFile = NoPlan THEN FreshRecord(paths)
                       ELSE Adopt(planFile[c], paths, clock)
    BY <1>1 DEF StartRun, LedgerInv, TypeOK
  <2>4. ASSUME NEW c \in Chunk
        PROVE  Entry(rec'[p][c]) = Base(p, c)'
    <3>1. CASE planFile = NoPlan
      <4>1. Entry(FreshRecord(paths)) = Ledger!Fresh(paths)
        BY DEF Entry, FreshRecord, Ledger!Fresh
      <4>2. QED
        BY <2>1, <2>2, <2>3, <3>1, <4>1 DEF Base
    <3>2. CASE planFile # NoPlan
      <4>1. planFile[c] \in Record /\ paths \in PathSet
        BY <3>2 DEF LedgerInv, TypeOK
      <4>2. QED
        BY <2>1, <2>2, <2>3, <3>2, <4>1, AdoptAccounts DEF Base
    <3>3. QED
      BY <3>1, <3>2
  <2>5. Accounts(p)'
    BY <2>2, <2>4 DEF Accounts
  <2>6. QED
    BY <2>1, <2>2, <2>5, IdleAccounts, LedgerStutter DEF Alone
<1>2. ASSUME NEW p \in Process,
             \/ DecideChunks(p) \/ AbortRun(p) \/ MergeResults(p) \/ WriteLayers(p)
             \/ \E c \in Chunk : \/ ComputeChunk(p, c) \/ FailChunk(p, c)
                                 \/ WriteState(p, c) \/ WriteStateFails(p, c) \/ ExitChunk(p, c)
      PROVE  Goal
  BY <1>2, RunStepAccounts, LedgerStutter
<1>3. ASSUME NEW p \in Process, WritePlan(p)
      PROVE  Goal
  <2>1. planFile' = rec[p] /\ phase[p] = "plan"
    BY <1>3 DEF WritePlan
  <2>2. \A q \in Process : phase'[q] # "idle" => q = p
    BY <1>3, <2>1 DEF WritePlan, BecomeIdle, LedgerInv, TypeOK, Alone
  <2>3. phase'[p] \in {"idle", "layers"}
    BY <1>3 DEF WritePlan, BecomeIdle, LedgerInv, TypeOK
  <2>4. /\ planFile' \in [Chunk -> Record] /\ planFile' # NoPlan
        /\ view' = [c \in Chunk |-> Entry(rec[p][c])]
    BY <2>1, PlanAssumption DEF LedgerInv, TypeOK
  <2>5. view' \in [Chunk -> Ledger!Entry]
    BY <2>1, <2>4, EntryTyped DEF Ledger!Entry, LedgerEntry, Completion
  <2>6. \A c \in Chunk : view'[c] \in Ledger!Outcomes(Base(p, c))
    BY <2>1, <2>4 DEF LedgerInv, Accounts
  <2>7. \A c \in Chunk : Base(p, c) = Ledger!Before(c, job[p].paths)
    <3>1. CASE planFile = NoPlan
      BY <3>1 DEF Base, Ledger!Before
    <3>2. CASE planFile # NoPlan
      <4>1. view = [c \in Chunk |-> Entry(planFile[c])] /\ view # NoPlan
        BY <3>2, EntryTyped, PlanAssumption DEF LedgerInv, TypeOK
      <4>2. \A c \in Chunk : Entry(planFile[c]).paths = planFile[c].paths
        BY DEF Entry
      <4>3. QED
        BY <3>2, <4>1, <4>2 DEF Base, Ledger!Before
    <3>3. QED
      BY <3>1, <3>2
  <2>8. Ledger!Commit(job[p].paths)
    BY <2>5, <2>6, <2>7 DEF Ledger!Commit
  <2>9. job[p].paths \in PathSet
    BY DEF LedgerInv, TypeOK, Job
  <2>10. Ledger!Next
    BY <2>8, <2>9 DEF Ledger!Next
  <2>11. QED
    BY <2>2, <2>3, <2>10, IdleAccounts DEF Alone
<1>4. ASSUME NEW p \in Process, Crash(p)
      PROVE  Goal
  <2>1. BecomeIdle(p) /\ phase[p] # "idle" /\ planFile' \in {planFile, NoPlan}
    BY <1>4 DEF Crash
  <2>2. \A q \in Process : phase'[q] = "idle"
    BY <2>1 DEF BecomeIdle, LedgerInv, TypeOK, Alone
  <2>3. [Ledger!Next]_view
    <3>1. CASE planFile' = planFile
      BY <3>1, LedgerStutter
    <3>2. CASE planFile' = NoPlan
      BY <3>2 DEF Ledger!Next, Ledger!Lose
    <3>3. QED
      BY <2>1, <3>1, <3>2
  <2>4. QED
    BY <2>2, <2>3, IdleAccounts DEF Alone
<1>5. ASSUME NEW c \in Chunk, NEW o \in ForeignOwner, ForeignClaim(c, o)
      PROVE  Goal
  <2>1. phase' = phase /\ \A q \in Process : phase'[q] = "idle"
    BY <1>5 DEF ForeignClaim
  <2>2. planFile \in [Chunk -> Record] /\ planFile # NoPlan
    BY <1>5 DEF ForeignClaim, LedgerInv, TypeOK
  <2>3. PICK completion \in {planFile[c].completion, "not_started"} :
          planFile' = [planFile EXCEPT ![c].ownership = Claimed(o, clock),
                                       ![c].completion = completion]
    BY <1>5 DEF ForeignClaim
  <2>4. /\ planFile'[c].completion = completion
        /\ planFile'[c].attempt = planFile[c].attempt
        /\ planFile'[c].retry = planFile[c].retry
        /\ planFile'[c].paths = planFile[c].paths
        /\ \A d \in Chunk \ {c} : planFile'[d] = planFile[d]
    BY <2>2, <2>3 DEF Record
  <2>5. planFile' # NoPlan
    <3>1. /\ Claimed(o, clock) \in Ownership
          /\ completion \in Completion
      <4>1. clock \in Nat /\ o \in Owner
        BY ProcessAssumption DEF LedgerInv, TypeOK
      <4>2. Claimed(o, clock) \in Ownership
        BY <4>1, LeaseAssumption DEF Claimed, Ownership
      <4>3. completion \in Completion
        BY <2>2 DEF Record, Completion
      <4>4. QED
        BY <4>2, <4>3
    <3>2. [planFile[c] EXCEPT !.ownership = Claimed(o, clock), !.completion = completion]
            \in Record
      BY <2>2, <3>1 DEF Record
    <3>3. planFile' \in [Chunk -> Record]
      BY <2>2, <2>3, <3>2
    <3>4. QED
      BY <3>3, PlanAssumption
  <2>6. /\ view = [d \in Chunk |-> Entry(planFile[d])]
        /\ view' = [d \in Chunk |-> Entry(planFile'[d])]
        /\ view # NoPlan
    <3>1. [d \in Chunk |-> Entry(planFile[d])] \in [Chunk -> LedgerEntry]
      BY <2>2, EntryTyped
    <3>2. QED
      BY <2>2, <2>5, <3>1, PlanAssumption
  <2>7. CASE completion = planFile[c].completion
    <3>1. \A d \in Chunk : Entry(planFile'[d]) = Entry(planFile[d])
      BY <2>4, <2>7 DEF Entry
    <3>2. QED
      BY <2>1, <2>6, <3>1, IdleAccounts DEF Alone
  <2>8. CASE completion = "not_started"
    <3>1. Entry(planFile'[c]) = Ledger!Withdrawn(Entry(planFile[c]))
      BY <2>4, <2>8 DEF Entry, Ledger!Withdrawn
    <3>2. view' = [view EXCEPT ![c] = Ledger!Withdrawn(@)]
      BY <2>4, <2>6, <3>1
    <3>3. Ledger!Next
      BY <2>6, <3>2 DEF Ledger!Next, Ledger!Reopen
    <3>4. QED
      BY <2>1, <3>3, IdleAccounts DEF Alone
  <2>9. QED
    BY <2>3, <2>7, <2>8
<1>6. ASSUME Tick \/ Reconfigure \/ RewriteInputs \/ UNCHANGED vars
      PROVE  Goal
  <2>1. planFile' = planFile /\ phase' = phase /\ job' = job /\ rec' = rec /\ task' = task
    BY <1>6 DEF Tick, Reconfigure, RewriteInputs, vars
  <2>2. QED
    BY <2>1, AccountsByOthers, LedgerStutter DEF LedgerInv, Alone
<1>7. QED
  BY <1>1, <1>2, <1>3, <1>4, <1>5, <1>6 DEF Next, RunStep, Environment

\* LedgerInv is an invariant of runs that do not overlap.
LEMMA LedgerInvariant ==
  ASSUME Overlap = FALSE
  PROVE  Spec => []LedgerInv
<1>1. Init => LedgerInv
  BY InitTyped DEF Init, LedgerInv, Alone, Accounts
<1>2. LedgerInv /\ TypeOK' /\ [Next]_vars => LedgerInv'
  BY StepLedger DEF LedgerInv
<1>3. QED
  BY <1>1, <1>2, TypeCorrect, PTL DEF Spec

\* As long as runs do not overlap, the plan file is a ledger of attempts: each run
\* shows in it as one transaction that moves every chunk by at most one outcome
\* from what was on disk.  With overlapping runs this is false (a run replaces the
\* whole file with what it adopted before the other one wrote).
THEOREM LedgerImplemented ==
  ASSUME Overlap = FALSE
  PROVE  Spec => ImplementsLedger
<1>1. Init => Ledger!Init
  BY DEF Init, Ledger!Init
<1>2. LedgerInv /\ TypeOK' /\ [Next]_vars =>
        [Ledger!Next]_(IF planFile = NoPlan THEN NoPlan
                       ELSE [c \in Chunk |-> Entry(planFile[c])])
  BY StepLedger
<1>3. QED
  BY <1>1, <1>2, TypeCorrect, LedgerInvariant, PTL DEF Spec, ImplementsLedger, Ledger!Spec
-------------------------------------------------------------------------------
(* What a partition leaves alone *)

\* A run has nothing to do with the chunks of other partitions.
Untouched(p) ==
  phase[p] \in {"run", "plan"} =>
    \A c \in Chunk : ~Scheduled(p, c) =>
      task[p][c] = "unscheduled" /\ Entry(rec[p][c]) = Base(p, c)

AllUntouched == \A p \in Process : Untouched(p)

\* Every step of a run that overlaps with no other keeps away from them.
LEMMA StepUntouched ==
  ASSUME Overlap = FALSE, LedgerInv, LedgerInv', AllUntouched,
         [Next]_vars
  PROVE  AllUntouched'
<1> USE DEF env, files, local
<1> SUFFICES ASSUME NEW q \in Process, phase'[q] \in {"run", "plan"}, NEW c \in Chunk, ~Scheduled(q, c)
             PROVE  task'[q][c] = "unscheduled" /\ Entry(rec'[q][c]) = Base(q, c)'
  BY DEF AllUntouched, Untouched, Scheduled
<1>1. ASSUME planFile' = planFile, phase'[q] = phase[q], job'[q] = job[q],
             rec'[q] = rec[q], task'[q][c] = task[q][c]
      PROVE  task'[q][c] = "unscheduled" /\ Entry(rec'[q][c]) = Base(q, c)'
  BY <1>1 DEF AllUntouched, Untouched, Base
<1>2. ASSUME NEW p \in Process,
             StartRun(p) \/ AbortRun(p) \/ WritePlan(p) \/ WriteLayers(p) \/ Crash(p)
      PROVE  FALSE
  <2>1. phase'[p] \in {"idle", "decide", "layers"}
    BY <1>2 DEF StartRun, AbortRun, WritePlan, WriteLayers, Crash, BecomeIdle,
                LedgerInv, TypeOK
  <2>2. p # q
    BY <2>1
  <2>3. phase'[q] = phase[q]
    BY <1>2, <2>2 DEF StartRun, AbortRun, WritePlan, WriteLayers, Crash, BecomeIdle,
                      LedgerInv, TypeOK
  <2>4. phase[p] = "idle"
    BY <2>2, <2>3 DEF LedgerInv, Alone
  <2>5. CASE StartRun(p)
    BY <2>3, <2>5 DEF StartRun
  <2>6. QED
    BY <1>2, <2>4, <2>5 DEF AbortRun, WritePlan, WriteLayers, Crash
<1>3. ASSUME NEW p \in Process, DecideChunks(p)
      PROVE  task'[q][c] = "unscheduled" /\ Entry(rec'[q][c]) = Base(q, c)'
  <2>1. CASE p = q
    <3>1. /\ phase[q] = "decide" /\ planFile' = planFile /\ job' = job
          /\ task'[q][c] = Choice(q, c) /\ rec'[q][c] = DecidedRecord(q, c)
      BY <1>3, <2>1 DEF DecideChunks, LedgerInv, TypeOK
    <3>2. Choice(q, c) = "unscheduled"
      BY DEF Choice
    <3>3. Entry(DecidedRecord(q, c)) = Entry(rec[q][c])
      BY <3>2, DecidedAccounts DEF LedgerInv, Decided
    <3>4. Entry(rec[q][c]) = Base(q, c)
      BY <3>1 DEF LedgerInv, Accounts
    <3>5. QED
      BY <3>1, <3>2, <3>3, <3>4 DEF Base
  <2>2. CASE p # q
    BY <1>1, <1>3, <2>2 DEF DecideChunks, LedgerInv, TypeOK
  <2>3. QED
    BY <2>1, <2>2
<1>4. ASSUME NEW p \in Process, NEW d \in Chunk,
             \/ ComputeChunk(p, d) \/ FailChunk(p, d) \/ WriteState(p, d)
             \/ WriteStateFails(p, d) \/ ExitChunk(p, d)
      PROVE  task'[q][c] = "unscheduled" /\ Entry(rec'[q][c]) = Base(q, c)'
  <2>1. /\ planFile' = planFile /\ rec' = rec /\ phase' = phase /\ job' = job
        /\ phase[p] = "run" /\ task[p][d] # "unscheduled"
        /\ \E t \in Task : task' = [task EXCEPT ![p][d] = t]
    BY <1>4 DEF ComputeChunk, FailChunk, WriteState, WriteStateFails, ExitChunk, Task
  <2>2. p # q \/ c # d
    BY <2>1 DEF AllUntouched, Untouched
  <2>3. task'[q][c] = task[q][c]
    BY <2>1, <2>2 DEF LedgerInv, TypeOK
  <2>4. QED
    BY <1>1, <2>1, <2>3
<1>5. ASSUME NEW p \in Process, MergeResults(p)
      PROVE  task'[q][c] = "unscheduled" /\ Entry(rec'[q][c]) = Base(q, c)'
  <2>1. CASE p = q
    <3>1. /\ phase[q] = "run" /\ planFile' = planFile /\ job' = job /\ task' = task
          /\ rec'[q][c] = FinalRecord(q, c)
      BY <1>5, <2>1 DEF MergeResults, LedgerInv, TypeOK
    <3>2. task[q][c] = "unscheduled" /\ Entry(rec[q][c]) = Base(q, c)
      BY <3>1 DEF AllUntouched, Untouched
    <3>3. QED
      BY <3>1, <3>2 DEF FinalRecord, Base
  <2>2. CASE p # q
    BY <1>1, <1>5, <2>2 DEF MergeResults, LedgerInv, TypeOK
  <2>3. QED
    BY <2>1, <2>2
<1>6. ASSUME NEW d \in Chunk, NEW o \in ForeignOwner, ForeignClaim(d, o)
      PROVE  FALSE
  BY <1>6 DEF ForeignClaim
<1>7. CASE Tick \/ Reconfigure \/ RewriteInputs \/ UNCHANGED vars
  BY <1>1, <1>7 DEF Tick, Reconfigure, RewriteInputs, vars
<1>8. QED
  BY <1>2, <1>3, <1>4, <1>5, <1>6, <1>7 DEF Next, RunStep, Environment

\* If runs do not overlap, no run changes the completion another partition's
\* chunk has on disk, although every run rewrites the whole plan file.
THEOREM PartitionIsolationHolds ==
  ASSUME Overlap = FALSE
  PROVE  Spec => PartitionIsolation
<1>1. Init => AllUntouched
  BY DEF Init, AllUntouched, Untouched
<1>2. LedgerInv /\ LedgerInv' /\ AllUntouched /\ [Next]_vars => AllUntouched'
  BY StepUntouched
<1>3. AllUntouched =>
        [\A p \in Process, c \in Chunk :
           (/\ WritePlan(p)
            /\ ~Scheduled(p, c)
            /\ planFile # NoPlan
            /\ planFile[c].paths = job[p].paths) =>
             planFile'[c].completion = planFile[c].completion]_vars
  <2> SUFFICES ASSUME AllUntouched, NEW p \in Process, NEW c \in Chunk,
                      WritePlan(p), ~Scheduled(p, c), planFile # NoPlan,
                      planFile[c].paths = job[p].paths
               PROVE  planFile'[c].completion = planFile[c].completion
    OBVIOUS
  <2>1. phase[p] = "plan" /\ planFile' = rec[p]
    BY DEF WritePlan
  <2>2. Entry(rec[p][c]) = Entry(planFile[c])
    BY <2>1 DEF AllUntouched, Untouched, Base
  <2>3. Entry(rec[p][c]).completion = Entry(planFile[c]).completion
    BY <2>2
  <2>4. QED
    BY <2>1, <2>3 DEF Entry
<1>4. QED
  BY <1>1, <1>2, <1>3, LedgerInvariant, PTL DEF Spec, PartitionIsolation
-------------------------------------------------------------------------------
(* The counters of the plan *)

\* The history that is kept has been kept from the start, and while it is kept the
\* steps of a thread count what they do.
LEMMA CountsWhileKept ==
  ASSUME TypeOK, HistoryKept', NEW p \in Process, NEW c \in Chunk
  PROVE  /\ ComputeChunk(p, c) =>
              executed' = [executed EXCEPT ![c] = @ + 1] /\ UNCHANGED <<failures, faults>>
         /\ FailChunk(p, c) =>
              /\ executed' = [executed EXCEPT ![c] = @ + 1]
              /\ failures' = [failures EXCEPT ![c] = @ + 1]
              /\ faults' = faults
         /\ ExitChunk(p, c) =>
              /\ executed' = [executed EXCEPT ![c] = @ + 1]
              /\ failures' = failures
              /\ faults' = faults + 1
<1>1. MaxFaults \in Nat /\ faults \in Nat
  BY CountsAssumption DEF TypeOK
<1>2. faults' = faults => HistoryKept
  BY DEF HistoryKept
<1>3. ExitChunk(p, c) => faults < MaxFaults
  BY <1>1 DEF ExitChunk, HistoryKept
<1>4. QED
  BY <1>1, <1>2, <1>3 DEF ComputeChunk, FailChunk, ExitChunk, CountAttempt, HistoryKept

LEMMA HistoryWasKept ==
  ASSUME TypeOK, [Next]_vars, HistoryKept'
  PROVE  HistoryKept
<1> USE DEF env, files, local
<1>1. MaxFaults \in Nat /\ faults \in Nat
  BY CountsAssumption DEF TypeOK
<1>2. ASSUME NEW p \in Process, NEW c \in Chunk, ExitChunk(p, c)
      PROVE  HistoryKept
  BY <1>1, <1>2 DEF ExitChunk, HistoryKept
<1>3. ASSUME NEW p \in Process, Crash(p) \/ \E c \in Chunk : WriteStateFails(p, c)
      PROVE  HistoryKept
  BY <1>1, <1>3 DEF Crash, WriteStateFails, HistoryKept
<1>4. CASE faults' = faults
  BY <1>4 DEF HistoryKept
<1>5. \A p \in Process : StartRun(p) \/ RunStep(p) => faults' = faults
  BY DEF StartRun, RunStep, DecideChunks, ComputeChunk, FailChunk, WriteState, AbortRun,
         MergeResults, WritePlan, WriteLayers
<1>6. Environment \/ UNCHANGED vars => faults' = faults
  BY DEF Environment, Tick, Reconfigure, RewriteInputs, ForeignClaim, vars
<1>7. QED
  BY <1>2, <1>3, <1>4, <1>5, <1>6 DEF Next

\* The attempts and failures that the records of a run do not count yet: those of
\* the threads whose results are not copied.
Begun(t) == IF t \in {"computed", "completed", "failed", "broken"} THEN 1 ELSE 0
Missed(t) == IF t = "failed" THEN 1 ELSE 0

\* A record of the only path lists there were counts this many attempts and failures.
Counts(r, attempts, failed) ==
  r.attempt = attempts /\ r.retry = failed /\ r.paths = IdleJob.paths

\* The records of a run count what happened to their chunks.
Counted(p) ==
  /\ phase[p] = "run" => ~Broken(p)
  /\ phase[p] = "run" => \A c \in Chunk :
       Counts(rec[p][c], executed[c] - Begun(task[p][c]), failures[c] - Missed(task[p][c]))
  /\ phase[p] \in {"decide", "plan"} => \A c \in Chunk :
       Counts(rec[p][c], executed[c], failures[c])

\* With no run between its start and its plan write, the plan counts it all.
Rested ==
  (\A p \in Process : phase[p] \in {"idle", "layers"}) =>
    \A c \in Chunk :
      IF planFile = NoPlan THEN executed[c] = 0 /\ failures[c] = 0
      ELSE Counts(planFile[c], executed[c], failures[c])

\* What CountersCumulative needs to be inductive.
CountersInv ==
  faults = 0 /\ changes = 0 =>
    paths = IdleJob.paths /\ Rested /\ \A p \in Process : Counted(p)

\* The decision loop counts nothing: a chunk without attempts left has had one.
LEMMA DecidedCounts ==
  ASSUME TypeOK, RetryBudget, NEW p \in Process, NEW c \in Chunk
  PROVE  /\ DecidedRecord(p, c).attempt = rec[p][c].attempt
         /\ DecidedRecord(p, c).retry = rec[p][c].retry
         /\ DecidedRecord(p, c).paths = rec[p][c].paths
<1> DEFINE r == rec[p][c]
           d == DecidedRecord(p, c)
<1>1. r \in Record /\ MaxAttempts \in Nat \ {0} /\ r.attempt \in Nat /\ r.retry \in Nat
  BY CountsAssumption DEF TypeOK, Record
<1>2. Choice(p, c) \in {"unscheduled", "skipped", "reused", "rejected", "planned"}
  BY DEF Choice
<1>3. CASE Choice(p, c) = "unscheduled"
  BY <1>1, <1>3 DEF DecidedRecord, Record
<1>4. CASE Choice(p, c) = "skipped"
  BY <1>1, <1>4 DEF DecidedRecord, Record
<1>5. CASE Choice(p, c) = "reused"
  BY <1>1, <1>5 DEF DecidedRecord, Record
<1>6. CASE Choice(p, c) = "planned"
  BY <1>1, <1>6 DEF DecidedRecord, Record
<1>7. CASE Choice(p, c) = "rejected"
  <2>1. /\ d.attempt = IF r.attempt = 0 THEN 1 ELSE r.attempt
        /\ d.retry = r.retry /\ d.paths = r.paths
    BY <1>1, <1>7 DEF DecidedRecord, Record
  <2>2. r.retry >= MaxAttempts
    BY <1>7 DEF Choice
  <2>3. r.retry <= r.attempt
    BY DEF RetryBudget, BudgetOK
  <2>4. r.attempt # 0
    BY <1>1, <2>2, <2>3
  <2>5. QED
    BY <2>1, <2>4
<1>8. QED
  BY <1>2, <1>3, <1>4, <1>5, <1>6, <1>7

\* Copying a result counts its attempt, and its failure if it is one.
LEMMA FinalCounts ==
  ASSUME TypeOK, NEW p \in Process, NEW c \in Chunk,
         task[p][c] \notin {"planned", "computed", "broken"}
  PROVE  /\ FinalRecord(p, c).attempt = rec[p][c].attempt + Begun(task[p][c])
         /\ FinalRecord(p, c).retry = rec[p][c].retry + Missed(task[p][c])
         /\ FinalRecord(p, c).paths = rec[p][c].paths
<1> DEFINE r == rec[p][c]
<1>1. r \in Record /\ r.attempt \in Nat /\ r.retry \in Nat
  BY DEF TypeOK, Record
<1>2. CASE task[p][c] = "reused"
  BY <1>1, <1>2 DEF FinalRecord, Record, Begun, Missed
<1>3. CASE task[p][c] = "completed"
  <2>1. /\ FinalRecord(p, c).attempt = r.attempt + 1
        /\ FinalRecord(p, c).retry = r.retry /\ FinalRecord(p, c).paths = r.paths
    BY <1>1, <1>3 DEF FinalRecord, Record
  <2>2. Begun(task[p][c]) = 1 /\ Missed(task[p][c]) = 0
    BY <1>3 DEF Begun, Missed
  <2>3. QED
    BY <1>1, <2>1, <2>2
<1>4. CASE task[p][c] = "failed"
  BY <1>1, <1>4 DEF FinalRecord, Record, Begun, Missed
<1>5. CASE task[p][c] \notin {"reused", "completed", "failed"}
  <2>1. FinalRecord(p, c) = r
    BY <1>5 DEF FinalRecord
  <2>2. Begun(task[p][c]) = 0 /\ Missed(task[p][c]) = 0
    BY <1>5 DEF Begun, Missed
  <2>3. QED
    BY <1>1, <2>1, <2>2
<1>6. QED
  BY <1>2, <1>3, <1>4, <1>5

\* A foreign claim leaves the counters of the plan alone.
LEMMA ForeignClaimKeeps ==
  ASSUME TypeOK, NEW c \in Chunk, NEW o \in ForeignOwner, ForeignClaim(c, o)
  PROVE  /\ planFile # NoPlan /\ planFile' # NoPlan
         /\ \A d \in Chunk : /\ planFile'[d].attempt = planFile[d].attempt
                            /\ planFile'[d].retry = planFile[d].retry
                            /\ planFile'[d].paths = planFile[d].paths
<1>1. planFile \in [Chunk -> Record] /\ planFile # NoPlan
  BY DEF ForeignClaim, TypeOK
<1>2. PICK completion \in {planFile[c].completion, "not_started"} :
        planFile' = [planFile EXCEPT ![c].ownership = Claimed(o, clock),
                                     ![c].completion = completion]
  BY DEF ForeignClaim
<1>3. \A d \in Chunk :
        /\ planFile'[d].attempt = planFile[d].attempt
        /\ planFile'[d].retry = planFile[d].retry
        /\ planFile'[d].paths = planFile[d].paths
  BY <1>1, <1>2 DEF Record
<1>4. Claimed(o, clock) \in Ownership
  <2>1. clock \in Nat /\ o \in Owner
    BY ProcessAssumption DEF TypeOK
  <2>2. QED
    BY <2>1, LeaseAssumption DEF Claimed, Ownership
<1>5. completion \in Completion
  BY <1>1, <1>2 DEF Record, Completion
<1>6. [planFile[c] EXCEPT !.ownership = Claimed(o, clock), !.completion = completion]
        \in Record
  BY <1>1, <1>4, <1>5 DEF Record
<1>7. planFile' \in [Chunk -> Record]
  BY <1>1, <1>2, <1>6
<1>8. QED
  BY <1>1, <1>3, <1>7, PlanAssumption

\* While a run is alive, all others are idle.
LEMMA OthersIdle ==
  ASSUME LedgerInv, NEW p \in Process, phase[p] # "idle"
  PROVE  \A q \in Process \ {p} : phase[q] = "idle"
BY DEF LedgerInv, Alone

\* Every step of a run that is not killed keeps the counters true.
LEMMA StepCounters ==
  ASSUME Overlap = FALSE, LedgerInv, BudgetInv, CountersInv, LedgerInv', [Next]_vars
  PROVE  CountersInv'
<1> USE DEF env, files, local
<1> DEFINE Goal == paths' = IdleJob.paths /\ Rested' /\ \A q \in Process : Counted(q)'
<1> SUFFICES ASSUME faults' = 0, changes' = 0 PROVE Goal
  BY DEF CountersInv
<1>1. \A c \in Chunk : executed[c] \in Nat /\ failures[c] \in Nat
  BY DEF LedgerInv, TypeOK
<1>2. /\ ~ \E p \in Process : Crash(p)
      /\ ~ \E p \in Process, c \in Chunk : ExitChunk(p, c) \/ WriteStateFails(p, c)
      /\ ~ Reconfigure
  BY CountsAssumption DEF Crash, ExitChunk, WriteStateFails, Reconfigure, LedgerInv, TypeOK
<1>3. faults = 0 /\ changes = 0 /\ paths' = paths
  BY <1>2 DEF Next, RunStep, Environment, StartRun, DecideChunks, ComputeChunk, FailChunk,
              WriteState, AbortRun, MergeResults, WritePlan, WriteLayers, Tick,
              RewriteInputs, ForeignClaim, vars
<1>4. /\ paths = IdleJob.paths /\ Rested /\ \A p \in Process : Counted(p)
      /\ HistoryKept /\ HistoryKept'
  BY <1>3, CountsAssumption DEF CountersInv, HistoryKept
<1>5. ASSUME NEW p \in Process, \A q \in Process \ {p} : phase'[q] = "idle", Counted(p)',
             phase'[p] \in {"idle", "layers"} => Rested'
      PROVE  Goal
  <2>1. \A q \in Process \ {p} : Counted(q)'
    BY <1>5 DEF Counted
  <2>2. QED
    BY <1>3, <1>4, <1>5, <2>1 DEF Rested
<1>6. ASSUME NEW p \in Process, StartRun(p)
      PROVE  Goal
  <2>1. /\ phase'[p] = "decide" /\ \A q \in Process \ {p} : phase'[q] = "idle"
        /\ \A q \in Process : phase[q] = "idle"
        /\ executed' = executed /\ failures' = failures
    BY <1>6 DEF StartRun, LedgerInv, TypeOK
  <2>2. ASSUME NEW c \in Chunk
        PROVE  Counts(rec'[p][c], executed[c], failures[c])
    <3>1. rec'[p][c] = IF planFile = NoPlan THEN FreshRecord(paths)
                       ELSE Adopt(planFile[c], paths, clock)
      BY <1>6 DEF StartRun, LedgerInv, TypeOK
    <3>2. CASE planFile = NoPlan
      <4>1. executed[c] = 0 /\ failures[c] = 0
        BY <1>4, <2>1, <3>2 DEF Rested
      <4>2. QED
        BY <1>4, <3>1, <3>2, <4>1 DEF Counts, FreshRecord
    <3>3. CASE planFile # NoPlan
      <4>1. planFile[c] \in Record /\ paths \in PathSet
        BY <3>3 DEF LedgerInv, TypeOK
      <4>2. Counts(planFile[c], executed[c], failures[c])
        BY <1>4, <2>1, <3>3 DEF Rested
      <4>3. Entry(rec'[p][c]) = Entry(planFile[c])
        BY <1>4, <3>1, <3>3, <4>1, <4>2, AdoptAccounts DEF Counts
      <4>4. QED
        BY <4>2, <4>3 DEF Entry, Counts
    <3>4. QED
      BY <3>2, <3>3
  <2>3. Counted(p)'
    BY <2>1, <2>2 DEF Counted
  <2>4. QED
    BY <1>5, <2>1, <2>3
<1>7. ASSUME NEW p \in Process, DecideChunks(p)
      PROVE  Goal
  <2>1. /\ phase[p] = "decide" /\ phase'[p] = "run"
        /\ \A q \in Process \ {p} : phase'[q] = "idle"
        /\ executed' = executed /\ failures' = failures
    BY <1>7, OthersIdle DEF DecideChunks, LedgerInv, TypeOK
  <2>2. \A c \in Chunk : /\ rec'[p][c] = DecidedRecord(p, c)
                         /\ task'[p][c] = Choice(p, c)
                         /\ Counts(rec[p][c], executed[c], failures[c])
    BY <1>4, <1>7, <2>1 DEF DecideChunks, LedgerInv, TypeOK, Counted
  <2>3. \A c \in Chunk : Choice(p, c) \notin {"computed", "completed", "failed", "broken"}
    BY DEF Choice
  <2>4. \A c \in Chunk : Counts(rec'[p][c], executed[c], failures[c])
    BY <2>2, DecidedCounts DEF LedgerInv, BudgetInv, Counts
  <2>5. \A c \in Chunk : Begun(task'[p][c]) = 0 /\ Missed(task'[p][c]) = 0
    BY <2>2, <2>3 DEF Begun, Missed
  <2>6. Counted(p)'
    BY <1>1, <2>1, <2>2, <2>3, <2>4, <2>5 DEF Counted, Broken
  <2>7. QED
    BY <1>5, <2>1, <2>6
<1>8. ASSUME NEW p \in Process, NEW c \in Chunk,
             ComputeChunk(p, c) \/ FailChunk(p, c) \/ WriteState(p, c)
      PROVE  Goal
  <2>1. /\ phase' = phase /\ phase[p] = "run" /\ rec' = rec
        /\ task[p][c] \in {"planned", "computed"}
    BY <1>8 DEF ComputeChunk, FailChunk, WriteState
  <2>2. /\ ComputeChunk(p, c) =>
             executed' = [executed EXCEPT ![c] = @ + 1] /\ UNCHANGED <<failures, faults>>
        /\ FailChunk(p, c) =>
             /\ executed' = [executed EXCEPT ![c] = @ + 1]
             /\ failures' = [failures EXCEPT ![c] = @ + 1]
    BY <1>4, CountsWhileKept DEF LedgerInv
  <2>3. /\ \A d \in Chunk \ {c} : /\ task'[p][d] = task[p][d]
                                  /\ executed'[d] = executed[d]
                                  /\ failures'[d] = failures[d]
        /\ task'[p][c] # "broken"
    <3>1. executed \in [Chunk -> Nat] /\ failures \in [Chunk -> Nat]
          /\ task \in [Process -> [Chunk -> Task]]
      BY DEF LedgerInv, TypeOK
    <3>2. CASE ComputeChunk(p, c)
      <4>1. task' = [task EXCEPT ![p][c] = "computed"]
        BY <3>2 DEF ComputeChunk
      <4>2. QED
        BY <2>2, <3>1, <3>2, <4>1
    <3>3. CASE FailChunk(p, c)
      <4>1. task' = [task EXCEPT ![p][c] = "failed"]
        BY <3>3 DEF FailChunk
      <4>2. QED
        BY <2>2, <3>1, <3>3, <4>1
    <3>4. CASE WriteState(p, c)
      BY <3>1, <3>4 DEF WriteState
    <3>5. QED
      BY <1>8, <3>2, <3>3, <3>4
  <2>4. /\ executed'[c] - Begun(task'[p][c]) = executed[c] - Begun(task[p][c])
        /\ failures'[c] - Missed(task'[p][c]) = failures[c] - Missed(task[p][c])
    <3>1. CASE ComputeChunk(p, c)
      <4>1. /\ task[p][c] = "planned" /\ task'[p][c] = "computed"
            /\ executed'[c] = executed[c] + 1 /\ failures'[c] = failures[c]
        BY <2>2, <3>1 DEF ComputeChunk, LedgerInv, TypeOK
      <4>2. QED
        BY <1>1, <4>1 DEF Begun, Missed
    <3>2. CASE FailChunk(p, c)
      <4>1. /\ task[p][c] = "planned" /\ task'[p][c] = "failed"
            /\ executed'[c] = executed[c] + 1 /\ failures'[c] = failures[c] + 1
        BY <2>2, <3>2 DEF FailChunk, LedgerInv, TypeOK
      <4>2. QED
        BY <1>1, <4>1 DEF Begun, Missed
    <3>3. CASE WriteState(p, c)
      <4>1. /\ task[p][c] = "computed" /\ task'[p][c] = "completed"
            /\ executed'[c] = executed[c] /\ failures'[c] = failures[c]
        BY <3>3 DEF WriteState, LedgerInv, TypeOK
      <4>2. QED
        BY <1>1, <4>1 DEF Begun, Missed
    <3>4. QED
      BY <1>8, <3>1, <3>2, <3>3
  <2>5. \A d \in Chunk :
          Counts(rec[p][d], executed[d] - Begun(task[p][d]), failures[d] - Missed(task[p][d]))
    BY <1>4, <2>1 DEF Counted
  <2>6. \A d \in Chunk :
          /\ executed'[d] - Begun(task'[p][d]) = executed[d] - Begun(task[p][d])
          /\ failures'[d] - Missed(task'[p][d]) = failures[d] - Missed(task[p][d])
    BY <2>3, <2>4
  <2>7. ~Broken(p)'
    BY <1>4, <2>1, <2>3 DEF Counted, Broken
  <2>8. Counted(p)'
    BY <2>1, <2>5, <2>6, <2>7 DEF Counted
  <2>9. QED
    BY <1>5, <2>1, <2>8, OthersIdle
<1>9. ASSUME NEW p \in Process, AbortRun(p)
      PROVE  FALSE
  BY <1>4, <1>9 DEF AbortRun, Counted
<1>10. ASSUME NEW p \in Process, MergeResults(p)
       PROVE  Goal
  <2>1. /\ phase[p] = "run" /\ phase'[p] = "plan"
        /\ \A q \in Process \ {p} : phase'[q] = "idle"
        /\ executed' = executed /\ failures' = failures
    BY <1>10, OthersIdle DEF MergeResults, LedgerInv, TypeOK
  <2>2. \A c \in Chunk : rec'[p][c] = FinalRecord(p, c)
    BY <1>10 DEF MergeResults, LedgerInv, TypeOK
  <2>3. \A c \in Chunk : task[p][c] \notin {"planned", "computed", "broken"}
    BY <1>10 DEF MergeResults, ThreadsDone, Broken
  <2>4. \A c \in Chunk : Counts(rec'[p][c], executed[c], failures[c])
    <3> TAKE c \in Chunk
    <3>1. Counts(rec[p][c], executed[c] - Begun(task[p][c]), failures[c] - Missed(task[p][c]))
      BY <1>4, <2>1 DEF Counted
    <3>2. /\ rec'[p][c].attempt = rec[p][c].attempt + Begun(task[p][c])
          /\ rec'[p][c].retry = rec[p][c].retry + Missed(task[p][c])
          /\ rec'[p][c].paths = rec[p][c].paths
      BY <2>2, <2>3, FinalCounts DEF LedgerInv
    <3>3. Begun(task[p][c]) \in Nat /\ Missed(task[p][c]) \in Nat
      BY DEF Begun, Missed
    <3>4. QED
      BY <1>1, <3>1, <3>2, <3>3 DEF Counts
  <2>5. Counted(p)'
    BY <2>1, <2>4 DEF Counted
  <2>6. QED
    BY <1>5, <2>1, <2>5
<1>11. ASSUME NEW p \in Process, WritePlan(p)
       PROVE  Goal
  <2>1. /\ phase[p] = "plan" /\ planFile' = rec[p]
        /\ executed' = executed /\ failures' = failures
    BY <1>11 DEF WritePlan
  <2>2. /\ phase'[p] \in {"idle", "layers"}
        /\ \A q \in Process \ {p} : phase'[q] = "idle"
    BY <1>11, <2>1, OthersIdle DEF WritePlan, BecomeIdle, LedgerInv, TypeOK
  <2>3. rec[p] # NoPlan
    BY PlanAssumption DEF LedgerInv, TypeOK
  <2>4. Rested'
    BY <1>4, <2>1, <2>3 DEF Rested, Counted
  <2>5. Counted(p)'
    BY <2>2 DEF Counted
  <2>6. QED
    BY <1>5, <2>2, <2>4, <2>5
<1>12. ASSUME NEW p \in Process, WriteLayers(p)
       PROVE  Goal
  <2>1. /\ phase[p] = "layers" /\ phase'[p] = "idle" /\ planFile' = planFile
        /\ \A q \in Process \ {p} : phase[q] = "idle" /\ phase'[q] = "idle"
        /\ executed' = executed /\ failures' = failures
    BY <1>12, OthersIdle DEF WriteLayers, BecomeIdle, LedgerInv, TypeOK
  <2>2. Rested'
    BY <1>4, <2>1 DEF Rested
  <2>3. QED
    BY <1>5, <2>1, <2>2 DEF Counted
<1>13. ASSUME NEW c \in Chunk, NEW o \in ForeignOwner, ForeignClaim(c, o)
       PROVE  Goal
  <2>1. /\ executed' = executed /\ failures' = failures /\ phase' = phase
        /\ \A q \in Process : phase[q] = "idle"
    BY <1>13 DEF ForeignClaim
  <2>2. Rested'
    BY <1>4, <1>13, <2>1, ForeignClaimKeeps DEF LedgerInv, Rested, Counts
  <2>3. QED
    BY <1>3, <1>4, <2>1, <2>2 DEF Counted
<1>14. CASE Tick \/ RewriteInputs \/ UNCHANGED vars
  <2>1. /\ planFile' = planFile /\ phase' = phase /\ rec' = rec /\ task' = task
        /\ executed' = executed /\ failures' = failures
    BY <1>14 DEF Tick, RewriteInputs, vars
  <2>2. QED
    BY <1>3, <1>4, <2>1 DEF Rested, Counted, Broken
<1>15. QED
  BY <1>2, <1>6, <1>7, <1>8, <1>9, <1>10, <1>11, <1>12, <1>13, <1>14
     DEF Next, RunStep, Environment

\* If runs do not overlap, are not killed and keep their path lists, the plan's
\* counters are the true numbers of attempts and failures of every chunk, over any
\* number of restarts.
THEOREM CountersCumulativeHolds ==
  ASSUME Overlap = FALSE
  PROVE  Spec => []CountersCumulative
<1>1. Init => CountersInv
  BY DEF Init, NoHistory, CountersInv, Rested, Counted
<1>2. LedgerInv /\ LedgerInv' /\ BudgetInv /\ CountersInv /\ [Next]_vars => CountersInv'
  BY StepCounters
<1>3. CountersInv => CountersCumulative
  BY DEF CountersInv, CountersCumulative, Rested, Counts
<1>4. QED
  BY <1>1, <1>2, <1>3, LedgerInvariant, BudgetInvariant, PTL DEF Spec
-------------------------------------------------------------------------------
(* The failures that really happen *)

\* The failed attempts that kills and changes of path lists may have forgotten.
Forgotten == MaxAttempts * (faults + changes)

\* A record accounts for n failed attempts: it counts those that nothing forgot.
\* One for other path lists than the next run is given will itself be forgotten.
Within(n, r) ==
  /\ n <= Forgotten + r.retry
  /\ r.paths # paths => n + MaxAttempts <= Forgotten + r.retry

OnDisk(n, c) ==
  IF planFile = NoPlan THEN n <= Forgotten ELSE Within(n, planFile[c])

\* The failed attempts at a chunk before those a run has not recorded yet.
Prior(p, c) == failures[c] - Missed(task[p][c])

\* A run that will be lost has been paid for when its thread raised.
Spare(p) == IF Broken(p) THEN MaxAttempts ELSE 0

\* The records of a run and the plan it may leave behind account for the failures.
Funded(p) ==
  /\ phase[p] = "decide" => \A c \in Chunk :
       Within(failures[c], rec[p][c]) /\ OnDisk(failures[c], c)
  /\ phase[p] = "run" => \A c \in Chunk :
       Within(Prior(p, c), rec[p][c]) /\ OnDisk(Prior(p, c) + Spare(p), c)
  /\ phase[p] = "plan" => \A c \in Chunk :
       Within(failures[c], rec[p][c]) /\ OnDisk(Prior(p, c), c)

Saved ==
  (\A p \in Process : phase[p] \in {"idle", "layers"}) =>
    \A c \in Chunk : OnDisk(failures[c], c)

FundedInv == Saved /\ \A p \in Process : Funded(p)

\* The numbers involved, for the arithmetic below.
LEMMA FailureTypes ==
  ASSUME TypeOK
  PROVE  /\ MaxAttempts \in Nat \ {0} /\ Forgotten \in Nat
         /\ \A c \in Chunk : failures[c] \in Nat
         /\ \A t : Missed(t) \in {0, 1}
         /\ \A p \in Process, c \in Chunk : Prior(p, c) \in Int
         /\ \A p \in Process : Spare(p) \in {0, MaxAttempts}
         /\ \A p \in Process, c \in Chunk : rec[p][c].retry \in Nat
         /\ planFile # NoPlan => \A c \in Chunk : planFile[c].retry \in Nat
<1>1. MaxAttempts \in Nat \ {0}
  BY CountsAssumption
<1>2. Forgotten \in Nat
  BY <1>1 DEF Forgotten, TypeOK
<1>3. /\ \A t : Missed(t) \in {0, 1}
      /\ \A p \in Process : Spare(p) \in {0, MaxAttempts}
  BY DEF Missed, Spare
<1>4. \A c \in Chunk : failures[c] \in Nat
  BY DEF TypeOK
<1>5. \A p \in Process, c \in Chunk : Prior(p, c) \in Int
  BY <1>3, <1>4 DEF Prior
<1>6. \A p \in Process, c \in Chunk : rec[p][c].retry \in Nat
  BY DEF TypeOK, Record
<1>7. planFile # NoPlan => \A c \in Chunk : planFile[c].retry \in Nat
  BY DEF TypeOK, Record
<1>8. QED
  BY <1>1, <1>2, <1>3, <1>4, <1>5, <1>6, <1>7

\* One more kill or change pays for a whole budget.
LEMMA ForgetsBudget ==
  ASSUME TypeOK, \/ faults' = faults + 1 /\ changes' = changes
                 \/ faults' = faults /\ changes' = changes + 1
  PROVE  Forgotten' = Forgotten + MaxAttempts
<1>1. faults \in Nat /\ changes \in Nat /\ MaxAttempts \in Nat
  BY CountsAssumption DEF TypeOK
<1>2. faults' + changes' = (faults + changes) + 1
  BY <1>1
<1>3. MaxAttempts * ((faults + changes) + 1) = MaxAttempts * (faults + changes) + MaxAttempts
  BY <1>1
<1>4. QED
  BY <1>2, <1>3 DEF Forgotten

\* A run that starts inherits what the plan accounts for.
LEMMA StartFunded ==
  ASSUME Overlap = FALSE, LedgerInv, BudgetInv, FundedInv, NEW p \in Process, StartRun(p)
  PROVE  FundedInv'
<1> USE DEF env, files
<1>1. /\ \A q \in Process : phase[q] = "idle" /\ (q # p => phase'[q] = "idle")
      /\ phase'[p] = "decide"
      /\ planFile' = planFile /\ paths' = paths /\ failures' = failures
      /\ Forgotten' = Forgotten
  BY DEF StartRun, LedgerInv, TypeOK, Forgotten
<1>2. \A c \in Chunk : OnDisk(failures[c], c) /\ OnDisk(failures[c], c)'
  BY <1>1 DEF FundedInv, Saved, OnDisk, Within
<1>3. ASSUME NEW c \in Chunk
      PROVE  Within(failures[c], rec[p][c])'
  <2>1. rec'[p][c] = IF planFile = NoPlan THEN FreshRecord(paths)
                     ELSE Adopt(planFile[c], paths, clock)
    BY DEF StartRun, LedgerInv, TypeOK
  <2>2. CASE planFile = NoPlan
    BY <1>1, <1>2, <2>1, <2>2, FailureTypes DEF LedgerInv, OnDisk, Within, FreshRecord
  <2>3. CASE planFile # NoPlan
    <3>1. planFile[c] \in Record /\ paths \in PathSet /\ planFile[c].retry <= MaxAttempts
      BY <2>3 DEF LedgerInv, TypeOK, BudgetInv, RetryBudget, BudgetOK
    <3>2. Entry(rec'[p][c]) = IF planFile[c].paths # paths THEN Ledger!Fresh(paths)
                              ELSE Entry(planFile[c])
      BY <2>1, <2>3, <3>1, AdoptAccounts
    <3>3. rec'[p][c].paths = paths
      BY <2>1, <2>3, <3>1 DEF Adopt, FreshRecord, MarkStale, Record
    <3>4. rec'[p][c].retry = IF planFile[c].paths # paths THEN 0 ELSE planFile[c].retry
      BY <3>2 DEF Entry, Ledger!Fresh
    <3>5. Within(failures[c], planFile[c])
      BY <1>2, <2>3 DEF OnDisk
    <3>6. failures[c] <= Forgotten + rec'[p][c].retry
      BY <2>3, <3>1, <3>4, <3>5, FailureTypes DEF LedgerInv, Within
    <3>7. QED
      BY <1>1, <3>3, <3>6 DEF Within
  <2>4. QED
    BY <2>2, <2>3
<1>4. Funded(p)'
  BY <1>1, <1>2, <1>3 DEF Funded
<1>5. QED
  BY <1>1, <1>4 DEF FundedInv, Saved, Funded

\* The steps inside a run, and its writes.
LEMMA RunFunded ==
  ASSUME LedgerInv, BudgetInv, FundedInv, TypeOK', HistoryKept', NEW p \in Process,
         \/ RunStep(p)
         \/ \E c \in Chunk : ExitChunk(p, c) \/ WriteStateFails(p, c)
  PROVE  FundedInv'
<1> USE DEF env, files
<1>1. phase[p] # "idle" /\ \A q \in Process \ {p} : phase[q] = "idle" /\ phase'[q] = "idle"
  <2>1. phase[p] # "idle"
    BY DEF RunStep, DecideChunks, ComputeChunk, FailChunk, WriteState, AbortRun, MergeResults,
           WritePlan, WriteLayers, ExitChunk, WriteStateFails
  <2>2. \A q \in Process \ {p} : phase'[q] = phase[q]
    BY DEF RunStep, DecideChunks, ComputeChunk, FailChunk, WriteState, AbortRun, MergeResults,
           WritePlan, WriteLayers, ExitChunk, WriteStateFails, BecomeIdle, LedgerInv, TypeOK
  <2>3. QED
    BY <2>1, <2>2, OthersIdle
<1>2. paths' = paths /\ changes' = changes
  BY DEF RunStep, DecideChunks, ComputeChunk, FailChunk, WriteState, AbortRun, MergeResults,
         WritePlan, WriteLayers, ExitChunk, WriteStateFails
<1>3. ASSUME Funded(p)',
             phase'[p] \in {"idle", "layers"} => \A c \in Chunk : OnDisk(failures[c], c)'
      PROVE  FundedInv'
  BY <1>1, <1>3 DEF FundedInv, Saved, Funded
<1>4. ASSUME faults' = faults
      PROVE  /\ Forgotten' = Forgotten
             /\ \A n, r : Within(n, r)' <=> Within(n, r)
             /\ planFile' = planFile => \A n, c : OnDisk(n, c)' <=> OnDisk(n, c)
  BY <1>2, <1>4 DEF Forgotten, Within, OnDisk
<1>5. CASE DecideChunks(p)
  <2>1. /\ phase[p] = "decide" /\ phase'[p] = "run"
        /\ planFile' = planFile /\ failures' = failures /\ faults' = faults
    BY <1>5 DEF DecideChunks, LedgerInv, TypeOK
  <2>2. \A c \in Chunk :
          /\ rec'[p][c].retry = rec[p][c].retry /\ rec'[p][c].paths = rec[p][c].paths
          /\ task'[p][c] \notin {"failed", "broken"}
    <3> TAKE c \in Chunk
    <3>1. rec'[p][c] = DecidedRecord(p, c) /\ task'[p][c] = Choice(p, c)
      BY <1>5 DEF DecideChunks, LedgerInv, TypeOK
    <3>2. Choice(p, c) \notin {"failed", "broken"}
      BY DEF Choice
    <3>3. QED
      BY <3>1, <3>2, DecidedCounts DEF LedgerInv, BudgetInv
  <2>3. Spare(p)' = 0 /\ \A c \in Chunk : Prior(p, c)' = failures[c]
    BY <2>1, <2>2, FailureTypes DEF LedgerInv, Spare, Broken, Prior, Missed
  <2>4. \A c \in Chunk : Within(failures[c], rec[p][c]) /\ OnDisk(failures[c], c)
    BY <2>1 DEF FundedInv, Funded
  <2>5. \A c \in Chunk : Within(failures[c], rec'[p][c]) /\ failures[c] + 0 = failures[c]
    BY <2>2, <2>4, FailureTypes DEF LedgerInv, Within
  <2>6. Funded(p)'
    BY <1>4, <2>1, <2>3, <2>4, <2>5 DEF Funded
  <2>7. QED
    BY <1>3, <2>1, <2>6
<1>6. ASSUME NEW c \in Chunk, ComputeChunk(p, c) \/ FailChunk(p, c) \/ WriteState(p, c)
      PROVE  FundedInv'
  <2>1. /\ phase[p] = "run" /\ phase' = phase /\ rec' = rec
        /\ planFile' = planFile /\ faults' = faults
        /\ task[p][c] \in {"planned", "computed"}
    BY <1>6 DEF ComputeChunk, FailChunk, WriteState
  <2>2. /\ \A d \in Chunk \ {c} : task'[p][d] = task[p][d] /\ failures'[d] = failures[d]
        /\ \/ task'[p][c] \in {"computed", "completed"} /\ failures'[c] = failures[c]
           \/ task'[p][c] = "failed" /\ failures'[c] = failures[c] + 1
    <3>1. /\ ComputeChunk(p, c) => failures' = failures
          /\ FailChunk(p, c) => failures' = [failures EXCEPT ![c] = @ + 1]
      BY CountsWhileKept DEF LedgerInv
    <3>2. failures \in [Chunk -> Nat] /\ task \in [Process -> [Chunk -> Task]]
      BY DEF LedgerInv, TypeOK
    <3>3. CASE ComputeChunk(p, c)
      <4>1. task' = [task EXCEPT ![p][c] = "computed"]
        BY <3>3 DEF ComputeChunk
      <4>2. QED
        BY <3>1, <3>2, <3>3, <4>1
    <3>4. CASE FailChunk(p, c)
      <4>1. task' = [task EXCEPT ![p][c] = "failed"]
        BY <3>4 DEF FailChunk
      <4>2. QED
        BY <3>1, <3>2, <3>4, <4>1
    <3>5. CASE WriteState(p, c)
      BY <3>2, <3>5 DEF WriteState
    <3>6. QED
      BY <1>6, <3>3, <3>4, <3>5
  <2>3. \A d \in Chunk : Prior(p, d)' = Prior(p, d)
    BY <2>1, <2>2, FailureTypes DEF LedgerInv, Prior, Missed
  <2>4. Broken(p)' <=> Broken(p)
    BY <2>1, <2>2 DEF Broken
  <2>5. Funded(p)'
    BY <1>4, <2>1, <2>3, <2>4 DEF FundedInv, Funded, Spare
  <2>6. QED
    BY <1>3, <2>1, <2>5
<1>7. ASSUME NEW c \in Chunk, ExitChunk(p, c) \/ WriteStateFails(p, c)
      PROVE  FundedInv'
  <2>1. /\ phase[p] = "run" /\ phase' = phase /\ rec' = rec /\ planFile' = planFile
        /\ faults' = faults + 1 /\ failures' = failures
        /\ task[p][c] \in {"planned", "computed"}
    BY <1>7, CountsWhileKept DEF ExitChunk, WriteStateFails, LedgerInv
  <2>2. /\ \A d \in Chunk \ {c} : task'[p][d] = task[p][d]
        /\ task'[p][c] = "broken"
    BY <1>7 DEF ExitChunk, WriteStateFails, LedgerInv, TypeOK
  <2>3. \A d \in Chunk : Prior(p, d)' = Prior(p, d)
    BY <2>1, <2>2 DEF Prior, Missed
  <2>4. Spare(p)' = MaxAttempts
    BY <2>2 DEF Spare, Broken
  <2>5. Forgotten' = Forgotten + MaxAttempts
    BY <1>2, <2>1, ForgetsBudget DEF LedgerInv
  <2>6. \A d \in Chunk : Within(Prior(p, d), rec[p][d]) /\ OnDisk(Prior(p, d) + Spare(p), d)
    BY <2>1 DEF FundedInv, Funded
  <2>7. \A d \in Chunk : Within(Prior(p, d), rec[p][d])'
    BY <1>2, <2>1, <2>3, <2>5, <2>6, FailureTypes DEF LedgerInv, Within
  <2>8. \A d \in Chunk : OnDisk(Prior(p, d) + Spare(p), d)'
    <3> TAKE d \in Chunk
    <3>1. /\ Prior(p, d) \in Int /\ Spare(p) \in {0, MaxAttempts}
          /\ MaxAttempts \in Nat /\ Forgotten \in Nat
      BY FailureTypes DEF LedgerInv
    <3>2. CASE planFile = NoPlan
      <4>1. Prior(p, d) + Spare(p) <= Forgotten
        BY <2>6, <3>2 DEF OnDisk
      <4>2. Prior(p, d) + MaxAttempts <= Forgotten + MaxAttempts
        BY <3>1, <4>1
      <4>3. QED
        BY <2>1, <2>3, <2>4, <2>5, <3>2, <4>2 DEF OnDisk
    <3>3. CASE planFile # NoPlan
      <4>1. Within(Prior(p, d) + Spare(p), planFile[d]) /\ planFile[d].retry \in Nat
        BY <2>6, <3>3, FailureTypes DEF LedgerInv, OnDisk
      <4>2. /\ Prior(p, d) + MaxAttempts <= (Forgotten + MaxAttempts) + planFile[d].retry
            /\ planFile[d].paths # paths =>
                 (Prior(p, d) + MaxAttempts) + MaxAttempts
                   <= (Forgotten + MaxAttempts) + planFile[d].retry
        BY <3>1, <4>1 DEF Within
      <4>3. QED
        BY <1>2, <2>1, <2>3, <2>4, <2>5, <3>3, <4>2 DEF OnDisk, Within
    <3>4. QED
      BY <3>2, <3>3
  <2>9. Funded(p)'
    BY <2>1, <2>7, <2>8 DEF Funded
  <2>10. QED
    BY <1>3, <2>1, <2>9
<1>8. CASE AbortRun(p)
  <2>1. /\ phase[p] = "run" /\ phase'[p] = "idle" /\ Broken(p)
        /\ planFile' = planFile /\ failures' = failures /\ faults' = faults
    BY <1>8 DEF AbortRun, BecomeIdle, LedgerInv, TypeOK
  <2>2. Spare(p) = MaxAttempts
    BY <2>1 DEF Spare
  <2>3. ASSUME NEW c \in Chunk
        PROVE  OnDisk(failures[c], c)
    <3>1. OnDisk(Prior(p, c) + MaxAttempts, c)
      BY <2>1, <2>2 DEF FundedInv, Funded
    <3>2. /\ Prior(p, c) \in Int /\ failures[c] <= Prior(p, c) + MaxAttempts
          /\ failures[c] \in Nat /\ MaxAttempts \in Nat /\ Forgotten \in Nat
      BY FailureTypes DEF LedgerInv, Prior
    <3>3. planFile # NoPlan => planFile[c].retry \in Nat
      BY FailureTypes DEF LedgerInv
    <3>4. QED
      BY <3>1, <3>2, <3>3 DEF OnDisk, Within
  <2>4. \A c \in Chunk : OnDisk(failures[c], c)'
    BY <1>4, <2>1, <2>3
  <2>5. QED
    BY <1>3, <2>1, <2>4 DEF Funded
<1>9. CASE MergeResults(p)
  <2>1. /\ phase[p] = "run" /\ phase'[p] = "plan" /\ ~Broken(p) /\ task' = task
        /\ planFile' = planFile /\ failures' = failures /\ faults' = faults
    BY <1>9 DEF MergeResults, LedgerInv, TypeOK
  <2>2. \A c \in Chunk :
          /\ rec'[p][c].retry = rec[p][c].retry + Missed(task[p][c])
          /\ rec'[p][c].paths = rec[p][c].paths
    <3> TAKE c \in Chunk
    <3>1. rec'[p][c] = FinalRecord(p, c)
      BY <1>9 DEF MergeResults, LedgerInv, TypeOK
    <3>2. task[p][c] \notin {"planned", "computed", "broken"}
      BY <1>9 DEF MergeResults, ThreadsDone, Broken
    <3>3. QED
      BY <3>1, <3>2, FinalCounts DEF LedgerInv
  <2>3. \A c \in Chunk : Prior(p, c)' = Prior(p, c) /\ Prior(p, c) + Spare(p) = Prior(p, c)
    BY <2>1, FailureTypes DEF LedgerInv, Prior, Spare
  <2>4. \A c \in Chunk : Within(Prior(p, c), rec[p][c]) /\ OnDisk(Prior(p, c), c)
    BY <2>1, <2>3 DEF FundedInv, Funded
  <2>5. ASSUME NEW c \in Chunk
        PROVE  Within(failures[c], rec'[p][c])
    <3>1. Prior(p, c) = failures[c] - Missed(task[p][c])
      BY DEF Prior
    <3>2. /\ failures[c] \in Nat /\ Missed(task[p][c]) \in {0, 1}
          /\ MaxAttempts \in Nat /\ Forgotten \in Nat /\ rec[p][c].retry \in Nat
      BY FailureTypes DEF LedgerInv
    <3>3. QED
      BY <2>2, <2>4, <3>1, <3>2 DEF Within
  <2>6. Funded(p)'
    BY <1>4, <2>1, <2>3, <2>4, <2>5 DEF Funded
  <2>7. QED
    BY <1>3, <2>1, <2>6
<1>10. CASE WritePlan(p)
  <2>1. /\ phase[p] = "plan" /\ planFile' = rec[p] /\ faults' = faults
        /\ failures' = failures /\ phase'[p] \in {"idle", "layers"}
    BY <1>10 DEF WritePlan, BecomeIdle, LedgerInv, TypeOK
  <2>2. rec[p] # NoPlan
    BY PlanAssumption DEF LedgerInv, TypeOK
  <2>3. \A c \in Chunk : Within(failures[c], rec[p][c])
    BY <2>1 DEF FundedInv, Funded
  <2>4. \A c \in Chunk : OnDisk(failures[c], c)'
    BY <1>2, <1>4, <2>1, <2>2, <2>3 DEF OnDisk, Within
  <2>5. QED
    BY <1>3, <2>1, <2>4 DEF Funded
<1>11. CASE WriteLayers(p)
  <2>1. /\ phase[p] = "layers" /\ phase'[p] = "idle" /\ planFile' = planFile
        /\ failures' = failures /\ faults' = faults
    BY <1>11 DEF WriteLayers, BecomeIdle, LedgerInv, TypeOK
  <2>2. \A c \in Chunk : OnDisk(failures[c], c)
    BY <1>1, <2>1 DEF FundedInv, Saved
  <2>3. \A c \in Chunk : OnDisk(failures[c], c)'
    BY <1>4, <2>1, <2>2
  <2>4. QED
    BY <1>3, <2>1, <2>3 DEF Funded
<1>12. QED
  BY <1>5, <1>6, <1>7, <1>8, <1>9, <1>10, <1>11 DEF RunStep

\* A kill forgets at most one attempt of each chunk that the plan on disk has not
\* seen, or with a torn plan at most one budget; it pays for one.
LEMMA CrashFunded ==
  ASSUME LedgerInv, BudgetInv, FundedInv, NEW p \in Process, Crash(p)
  PROVE  FundedInv'
<1> USE DEF env
<1>1. /\ phase[p] # "idle" /\ \A q \in Process : phase'[q] = "idle"
      /\ paths' = paths /\ failures' = failures
      /\ faults' = faults + 1 /\ changes' = changes
  BY OthersIdle DEF Crash, BecomeIdle, LedgerInv, TypeOK
<1>2. Forgotten' = Forgotten + MaxAttempts
  BY <1>1, ForgetsBudget DEF LedgerInv
<1>3. ASSUME NEW c \in Chunk
      PROVE  OnDisk(failures[c], c)'
  <2>1. /\ failures[c] \in Nat /\ Prior(p, c) \in Int /\ Missed(task[p][c]) \in {0, 1}
        /\ Spare(p) \in {0, MaxAttempts}
        /\ MaxAttempts \in Nat \ {0} /\ Forgotten \in Nat
    BY FailureTypes DEF LedgerInv
  <2>2. Prior(p, c) = failures[c] - Missed(task[p][c])
    BY DEF Prior
  <2>3. CASE planFile' = planFile
    <3>1. \E n \in Int : failures[c] <= n + 1 /\ OnDisk(n, c)
      <4>1. phase[p] \in {"decide", "run", "plan", "layers"}
        BY <1>1 DEF LedgerInv, TypeOK, Phase
      <4>2. CASE phase[p] = "decide"
        BY <2>1, <4>2 DEF FundedInv, Funded
      <4>3. CASE phase[p] = "run"
        <5>1. OnDisk(Prior(p, c) + Spare(p), c)
          BY <4>3 DEF FundedInv, Funded
        <5>2. /\ Prior(p, c) + Spare(p) \in Int
              /\ failures[c] <= (Prior(p, c) + Spare(p)) + 1
          BY <2>1, <2>2
        <5>3. QED
          BY <5>1, <5>2
      <4>4. CASE phase[p] = "plan"
        <5>1. OnDisk(Prior(p, c), c)
          BY <4>4 DEF FundedInv, Funded
        <5>2. failures[c] <= Prior(p, c) + 1
          BY <2>1, <2>2
        <5>3. QED
          BY <2>1, <5>1, <5>2
      <4>5. CASE phase[p] = "layers"
        <5>1. \A q \in Process : phase[q] \in {"idle", "layers"}
          BY <1>1, <4>5, OthersIdle
        <5>2. OnDisk(failures[c], c)
          BY <5>1 DEF FundedInv, Saved
        <5>3. QED
          BY <2>1, <5>2
      <4>6. QED
        BY <4>1, <4>2, <4>3, <4>4, <4>5
    <3>2. PICK n \in Int : failures[c] <= n + 1 /\ OnDisk(n, c)
      BY <3>1
    <3>3. failures[c] <= n + MaxAttempts
      BY <2>1, <3>2
    <3>4. CASE planFile = NoPlan
      <4>1. n <= Forgotten
        BY <3>2, <3>4 DEF OnDisk
      <4>2. failures[c] <= Forgotten + MaxAttempts
        BY <2>1, <3>3, <4>1
      <4>3. QED
        BY <1>1, <1>2, <2>3, <3>4, <4>2 DEF OnDisk
    <3>5. CASE planFile # NoPlan
      <4>1. Within(n, planFile[c]) /\ planFile[c].retry \in Nat
        BY <3>2, <3>5, FailureTypes DEF LedgerInv, OnDisk
      <4>2. /\ failures[c] <= (Forgotten + MaxAttempts) + planFile[c].retry
            /\ planFile[c].paths # paths =>
                 failures[c] + MaxAttempts <= (Forgotten + MaxAttempts) + planFile[c].retry
        BY <2>1, <3>3, <4>1 DEF Within
      <4>3. QED
        BY <1>1, <1>2, <2>3, <3>5, <4>2 DEF OnDisk, Within
    <3>6. QED
      BY <3>4, <3>5
  <2>4. CASE planFile' # planFile
    <3>1. phase[p] = "plan" /\ planFile' = NoPlan
      BY <2>4 DEF Crash
    <3>2. Within(failures[c], rec[p][c])
      BY <3>1 DEF FundedInv, Funded
    <3>3. rec[p][c].retry \in Nat /\ rec[p][c].retry <= MaxAttempts
      BY FailureTypes DEF LedgerInv, BudgetInv, RetryBudget, BudgetOK
    <3>4. failures[c] <= Forgotten + MaxAttempts
      BY <2>1, <3>2, <3>3 DEF Within
    <3>5. QED
      BY <1>1, <1>2, <3>1, <3>4 DEF OnDisk
  <2>5. QED
    BY <2>3, <2>4
<1>4. QED
  BY <1>1, <1>3 DEF FundedInv, Saved, Funded

\* A change of path lists pays for the budget that it makes the plan forget.
LEMMA ReconfigureFunded ==
  ASSUME LedgerInv, FundedInv, Reconfigure
  PROVE  FundedInv'
<1> USE DEF files, local
<1>1. /\ phase' = phase /\ rec' = rec /\ task' = task /\ planFile' = planFile
      /\ failures' = failures /\ faults' = faults /\ changes' = changes + 1
  BY DEF Reconfigure
<1>2. Forgotten' = Forgotten + MaxAttempts
  BY <1>1, ForgetsBudget DEF LedgerInv
<1>3. MaxAttempts \in Nat /\ Forgotten \in Nat
  BY FailureTypes DEF LedgerInv
<1>4. ASSUME NEW n \in Int, NEW r, r.retry \in Nat, Within(n, r)
      PROVE  /\ n <= Forgotten' + r.retry
             /\ n + MaxAttempts <= Forgotten' + r.retry
  BY <1>2, <1>3, <1>4 DEF Within
<1>5. ASSUME NEW n \in Int, NEW c \in Chunk, OnDisk(n, c)
      PROVE  IF planFile' = NoPlan THEN n <= Forgotten'
             ELSE /\ n <= Forgotten' + planFile'[c].retry
                  /\ n + MaxAttempts <= Forgotten' + planFile'[c].retry
  <2>1. CASE planFile = NoPlan
    BY <1>1, <1>2, <1>3, <1>5, <2>1 DEF OnDisk
  <2>2. CASE planFile # NoPlan
    <3>1. Within(n, planFile[c]) /\ planFile[c].retry \in Nat
      BY <1>5, <2>2, FailureTypes DEF LedgerInv, OnDisk
    <3>2. QED
      BY <1>1, <1>4, <2>2, <3>1
  <2>3. QED
    BY <2>1, <2>2
<1>6. Saved'
  BY <1>1, <1>5, FailureTypes DEF LedgerInv, FundedInv, Saved, OnDisk, Within
<1>7. ASSUME NEW p \in Process
      PROVE  Funded(p)'
  <2>1. /\ \A c \in Chunk : Prior(p, c)' = Prior(p, c)
        /\ Spare(p)' = Spare(p)
    BY <1>1 DEF Prior, Spare, Broken
  <2>2. \A c \in Chunk : /\ failures[c] \in Int /\ Prior(p, c) \in Int
                         /\ Prior(p, c) + Spare(p) \in Int /\ rec[p][c].retry \in Nat
    BY <1>3, FailureTypes DEF LedgerInv
  <2>3. CASE phase[p] = "decide"
    <3>1. \A c \in Chunk : Within(failures[c], rec[p][c]) /\ OnDisk(failures[c], c)
      BY <2>3 DEF FundedInv, Funded
    <3>2. \A c \in Chunk : Within(failures[c], rec[p][c])'
      BY <1>1, <1>4, <2>2, <3>1 DEF Within
    <3>3. \A c \in Chunk : OnDisk(failures[c], c)'
      BY <1>1, <1>5, <2>2, <3>1 DEF OnDisk, Within
    <3>4. QED
      BY <1>1, <2>3, <3>2, <3>3 DEF Funded
  <2>4. CASE phase[p] = "run"
    <3>1. \A c \in Chunk : Within(Prior(p, c), rec[p][c]) /\ OnDisk(Prior(p, c) + Spare(p), c)
      BY <2>4 DEF FundedInv, Funded
    <3>2. \A c \in Chunk : Within(Prior(p, c), rec[p][c])'
      BY <1>1, <1>4, <2>1, <2>2, <3>1 DEF Within
    <3>3. \A c \in Chunk : OnDisk(Prior(p, c) + Spare(p), c)'
      BY <1>1, <1>5, <2>1, <2>2, <3>1 DEF OnDisk, Within
    <3>4. QED
      BY <1>1, <2>4, <3>2, <3>3 DEF Funded
  <2>5. CASE phase[p] = "plan"
    <3>1. \A c \in Chunk : Within(failures[c], rec[p][c]) /\ OnDisk(Prior(p, c), c)
      BY <2>5 DEF FundedInv, Funded
    <3>2. \A c \in Chunk : Within(failures[c], rec[p][c])'
      BY <1>1, <1>4, <2>2, <3>1 DEF Within
    <3>3. \A c \in Chunk : OnDisk(Prior(p, c), c)'
      BY <1>1, <1>5, <2>1, <2>2, <3>1 DEF OnDisk, Within
    <3>4. QED
      BY <1>1, <2>5, <3>2, <3>3 DEF Funded
  <2>6. QED
    BY <1>1, <2>3, <2>4, <2>5 DEF Funded
<1>8. QED
  BY <1>6, <1>7 DEF FundedInv

\* Every step keeps the failures accounted for.
LEMMA StepFunded ==
  ASSUME Overlap = FALSE, LedgerInv, BudgetInv, FundedInv, TypeOK', HistoryKept', [Next]_vars
  PROVE  FundedInv'
<1> USE DEF env, files, local
<1>1. ASSUME NEW c \in Chunk, NEW o \in ForeignOwner, ForeignClaim(c, o)
      PROVE  FundedInv'
  <2>1. /\ phase' = phase /\ failures' = failures /\ Forgotten' = Forgotten /\ paths' = paths
        /\ \A q \in Process : phase[q] = "idle"
    BY <1>1 DEF ForeignClaim, Forgotten
  <2>2. \A d \in Chunk : OnDisk(failures[d], d)
    BY <2>1 DEF FundedInv, Saved
  <2>3. \A d \in Chunk : OnDisk(failures[d], d)'
    BY <1>1, <2>1, <2>2, ForeignClaimKeeps DEF LedgerInv, OnDisk, Within
  <2>4. QED
    BY <2>1, <2>3 DEF FundedInv, Saved, Funded
<1>2. CASE Tick \/ RewriteInputs \/ UNCHANGED vars
  <2>1. /\ phase' = phase /\ rec' = rec /\ task' = task /\ planFile' = planFile
        /\ failures' = failures /\ faults' = faults /\ changes' = changes /\ paths' = paths
    BY <1>2 DEF Tick, RewriteInputs, vars
  <2>2. QED
    BY <2>1 DEF FundedInv, Saved, Funded, OnDisk, Within, Forgotten, Prior, Spare, Broken
<1>3. QED
  BY <1>1, <1>2, StartFunded, RunFunded, CrashFunded, ReconfigureFunded DEF Next, Environment

\* If runs do not overlap, a chunk fails at most --max-chunk-attempts times, and
\* again that often for every lost run and every change of the runs' options.
THEOREM FailureBudgetHolds ==
  ASSUME Overlap = FALSE
  PROVE  Spec => []FailureBudget
<1>1. Init => FundedInv
  <2> SUFFICES ASSUME Init PROVE FundedInv
    OBVIOUS
  <2>1. /\ planFile = NoPlan /\ \A c \in Chunk : failures[c] = 0
        /\ \A p \in Process : phase[p] = "idle"
    BY DEF Init, NoHistory
  <2>2. 0 <= Forgotten
    BY InitTyped, FailureTypes
  <2>3. QED
    BY <2>1, <2>2 DEF FundedInv, Saved, Funded, OnDisk
<1>2. LedgerInv /\ BudgetInv /\ (HistoryKept => FundedInv) /\ TypeOK' /\ [Next]_vars =>
        (HistoryKept' => FundedInv')
  BY StepFunded, HistoryWasKept DEF LedgerInv
<1>3. LedgerInv /\ BudgetInv /\ (HistoryKept => FundedInv) => FailureBudget
  <2> SUFFICES ASSUME LedgerInv, BudgetInv, FundedInv, NEW c \in Chunk
               PROVE  failures[c] <= MaxAttempts * (1 + faults + changes)
    BY DEF FailureBudget
  <2>1. MaxAttempts * (1 + faults + changes) = Forgotten + MaxAttempts
    <3>1. faults \in Nat /\ changes \in Nat /\ MaxAttempts \in Nat
      BY CountsAssumption DEF LedgerInv, TypeOK
    <3>2. 1 + faults + changes = (faults + changes) + 1
      BY <3>1
    <3>3. MaxAttempts * ((faults + changes) + 1) = MaxAttempts * (faults + changes) + MaxAttempts
      BY <3>1
    <3>4. QED
      BY <3>2, <3>3 DEF Forgotten
  <2>2. failures[c] \in Nat /\ MaxAttempts \in Nat \ {0} /\ Forgotten \in Nat
    BY FailureTypes DEF LedgerInv
  <2>3. CASE \A p \in Process : phase[p] \in {"idle", "layers"}
    <3>1. OnDisk(failures[c], c)
      BY <2>3 DEF FundedInv, Saved
    <3>2. planFile # NoPlan => planFile[c].retry \in Nat /\ planFile[c].retry <= MaxAttempts
      BY FailureTypes DEF LedgerInv, BudgetInv, RetryBudget, BudgetOK
    <3>3. QED
      BY <2>1, <2>2, <3>1, <3>2 DEF OnDisk, Within
  <2>4. ASSUME NEW p \in Process, phase[p] \notin {"idle", "layers"}
        PROVE  failures[c] <= Forgotten + MaxAttempts
    <3>1. phase[p] \in {"decide", "run", "plan"}
      BY <2>4 DEF LedgerInv, TypeOK, Phase
    <3>2. rec[p][c].retry \in Nat /\ rec[p][c].retry <= MaxAttempts
      BY FailureTypes DEF LedgerInv, BudgetInv, RetryBudget, BudgetOK
    <3>3. CASE phase[p] \in {"decide", "plan"}
      BY <2>2, <3>2, <3>3 DEF FundedInv, Funded, Within
    <3>4. CASE phase[p] = "run"
      <4>1. Prior(p, c) <= Forgotten + rec[p][c].retry
        BY <3>4 DEF FundedInv, Funded, Within
      <4>2. CASE task[p][c] = "failed"
        <5>1. rec[p][c].retry < MaxAttempts
          BY <3>4, <4>2 DEF BudgetInv, ClaimedWithinBudget
        <5>2. failures[c] - 1 <= Forgotten + rec[p][c].retry
          BY <4>1, <4>2 DEF Prior, Missed
        <5>3. QED
          BY <2>2, <3>2, <5>1, <5>2
      <4>3. CASE task[p][c] # "failed"
        <5>1. failures[c] - 0 <= Forgotten + rec[p][c].retry
          BY <4>1, <4>3 DEF Prior, Missed
        <5>2. QED
          BY <2>2, <3>2, <5>1
      <4>4. QED
        BY <4>2, <4>3
    <3>5. QED
      BY <3>1, <3>3, <3>4
  <2>5. QED
    BY <2>1, <2>3, <2>4
<1>4. QED
  BY <1>1, <1>2, <1>3, LedgerInvariant, BudgetInvariant, TypeCorrect, PTL DEF Spec
-------------------------------------------------------------------------------
(* What the merge state promises *)

\* The partial state of a chunk is there and was made under these options.
BackedBy(c, options) ==
  /\ stateFile[c] # NoState
  /\ stateFile[c].cfg = options.cfg
  /\ stateFile[c].paths = options.paths

\* Chunks that are called completed have a partial state.
Present(r) == \A c \in Chunk : r[c].completion = "completed" => stateFile[c] # NoState

\* A run calls a chunk completed that is on disk, and what it merges is on disk
\* under its own options.
Backing(p) ==
  /\ phase[p] \in {"decide", "run", "plan"} => Present(rec[p])
  /\ phase[p] = "run" => \A c \in Chunk :
       /\ task[p][c] # "broken"
       /\ task[p][c] \in {"reused", "completed"} => BackedBy(c, job[p])
       /\ task[p][c] \in {"skipped", "rejected"} => rec[p][c].completion # "completed"

\* Without changes there is one set of options.
OneConfiguration ==
  changes = 0 =>
    /\ cfg = IdleJob.cfg /\ paths = IdleJob.paths
    /\ \A p \in Process : job[p].cfg = IdleJob.cfg /\ job[p].paths = IdleJob.paths
    /\ \A c \in Chunk : stateFile[c] # NoState => BackedBy(c, IdleJob)

\* The merge state is true except while a run replaces partial states.
MergeBacked ==
  ( /\ \A p \in Process : phase[p] # "run"
    /\ mergeState # NoMergeState
    /\ mergeState.done = Chunk
    /\ SchedulerCount = 1 \/ changes = 0 ) =>
      \A c \in Chunk : BackedBy(c, mergeState)

BackedInv ==
  faults = 0 =>
    /\ planFile # NoPlan => Present(planFile)
    /\ \A p \in Process : Backing(p)
    /\ OneConfiguration
    /\ MergeBacked

\* The decision loop calls only those chunks completed that it reuses or that
\* were completed before.
LEMMA DecidedBacked ==
  ASSUME TypeOK, NEW p \in Process, NEW c \in Chunk
  PROVE  /\ DecidedRecord(p, c).completion = "completed" => rec[p][c].completion = "completed"
         /\ Choice(p, c) \in {"skipped", "rejected"} =>
              DecidedRecord(p, c).completion # "completed"
         /\ Choice(p, c) = "reused" => BackedBy(c, job[p])
<1>1. rec[p][c] \in Record
  BY DEF TypeOK
<1>2. Choice(p, c) \in {"unscheduled", "skipped", "reused", "rejected", "planned"}
  BY DEF Choice
<1>3. CASE Choice(p, c) = "unscheduled"
  BY <1>1, <1>3 DEF DecidedRecord, Record
<1>4. CASE Choice(p, c) = "skipped"
  BY <1>1, <1>4 DEF DecidedRecord, Record
<1>5. CASE Choice(p, c) = "rejected"
  BY <1>1, <1>5 DEF DecidedRecord, Record
<1>6. CASE Choice(p, c) = "planned"
  BY <1>1, <1>6 DEF DecidedRecord, Record
<1>7. CASE Choice(p, c) = "reused"
  <2>1. Reusable(p, c)
    BY <1>7 DEF Choice
  <2>2. QED
    BY <1>7, <2>1 DEF Reusable, BackedBy
<1>8. QED
  BY <1>2, <1>3, <1>4, <1>5, <1>6, <1>7

\* Every step of an undisturbed run keeps the promise.
LEMMA StepBacked ==
  ASSUME Overlap = FALSE, LedgerInv, LayersInv, BackedInv, TypeOK', [Next]_vars
  PROVE  BackedInv'
<1> USE DEF env, files, local
<1> DEFINE Goal == /\ planFile' # NoPlan => Present(planFile)'
                   /\ \A q \in Process : Backing(q)'
                   /\ OneConfiguration'
                   /\ MergeBacked'
<1> SUFFICES ASSUME faults' = 0 PROVE Goal
  BY DEF BackedInv
<1>1. /\ ~ \E p \in Process : Crash(p)
      /\ ~ \E p \in Process, c \in Chunk : ExitChunk(p, c) \/ WriteStateFails(p, c)
  BY CountsAssumption DEF Crash, ExitChunk, WriteStateFails, LedgerInv, TypeOK
<1>2. faults = 0
  BY <1>1 DEF Next, RunStep, Environment, StartRun, DecideChunks, ComputeChunk, FailChunk,
              WriteState, AbortRun, MergeResults, WritePlan, WriteLayers, Tick, Reconfigure,
              RewriteInputs, ForeignClaim, vars
<1>3. /\ planFile # NoPlan => Present(planFile)
      /\ \A p \in Process : Backing(p)
      /\ OneConfiguration
      /\ MergeBacked
  BY <1>2 DEF BackedInv
<1>4. ASSUME stateFile' = stateFile, UNCHANGED <<changes, cfg, paths>>,
             \A p \in Process : \/ job'[p] = job[p]
                                \/ job'[p].cfg = cfg /\ job'[p].paths = paths
                                \/ job'[p] = IdleJob
      PROVE  OneConfiguration'
  BY <1>3, <1>4 DEF OneConfiguration, BackedBy
<1>5. ASSUME NEW p \in Process, StartRun(p)
      PROVE  Goal
  <2>1. /\ \A q \in Process : phase[q] = "idle"
        /\ phase'[p] = "decide" /\ \A q \in Process \ {p} : phase'[q] = "idle"
        /\ stateFile' = stateFile /\ planFile' = planFile /\ mergeState' = mergeState
        /\ changes' = changes
    BY <1>5 DEF StartRun, LedgerInv, TypeOK
  <2>2. \A c \in Chunk :
          rec'[p][c].completion = "completed" =>
            planFile # NoPlan /\ planFile[c].completion = "completed"
    <3> TAKE c \in Chunk
    <3>1. rec'[p][c] = IF planFile = NoPlan THEN FreshRecord(paths)
                       ELSE Adopt(planFile[c], paths, clock)
      BY <1>5 DEF StartRun, LedgerInv, TypeOK
    <3>2. FreshRecord(paths).completion = "not_started"
      BY DEF FreshRecord
    <3>3. planFile # NoPlan => MarkStale(planFile[c]).completion = planFile[c].completion
      BY DEF MarkStale, LedgerInv, TypeOK, Record
    <3>4. QED
      BY <3>1, <3>2, <3>3 DEF Adopt
  <2>3. \A q \in Process : Backing(q)'
    BY <1>3, <2>1, <2>2 DEF Backing, Present
  <2>4. OneConfiguration'
    BY <1>4, <1>5 DEF StartRun, LedgerInv, TypeOK
  <2>5. MergeBacked'
    BY <1>3, <2>1 DEF MergeBacked, BackedBy
  <2>6. QED
    BY <1>3, <2>1, <2>3, <2>4, <2>5 DEF Present
<1>6. ASSUME NEW p \in Process, DecideChunks(p)
      PROVE  Goal
  <2>1. /\ phase[p] = "decide" /\ phase'[p] = "run"
        /\ \A q \in Process \ {p} : phase'[q] = "idle"
        /\ stateFile' = stateFile /\ planFile' = planFile /\ job' = job
    BY <1>6, OthersIdle DEF DecideChunks, LedgerInv, TypeOK
  <2>2. \A c \in Chunk : rec'[p][c] = DecidedRecord(p, c) /\ task'[p][c] = Choice(p, c)
    BY <1>6 DEF DecideChunks, LedgerInv, TypeOK
  <2>3. \A c \in Chunk : Choice(p, c) \notin {"completed", "broken"}
    BY DEF Choice
  <2>4. \A c \in Chunk : rec[p][c].completion = "completed" => stateFile[c] # NoState
    BY <1>3, <2>1 DEF Backing, Present
  <2>5. Backing(p)'
    BY <2>1, <2>2, <2>3, <2>4, DecidedBacked DEF LedgerInv, Backing, Present, BackedBy
  <2>6. \A q \in Process : Backing(q)'
    BY <2>1, <2>5 DEF Backing
  <2>7. OneConfiguration'
    BY <1>4, <1>6 DEF DecideChunks
  <2>8. QED
    BY <1>3, <2>1, <2>6, <2>7 DEF Present, MergeBacked
<1>7. ASSUME NEW p \in Process, NEW c \in Chunk, ComputeChunk(p, c) \/ FailChunk(p, c)
      PROVE  Goal
  <2>1. /\ phase[p] = "run" /\ phase' = phase /\ rec' = rec /\ job' = job
        /\ stateFile' = stateFile /\ planFile' = planFile
        /\ UNCHANGED <<changes, cfg, paths>>
    BY <1>7 DEF ComputeChunk, FailChunk
  <2>2. /\ \A d \in Chunk \ {c} : task'[p][d] = task[p][d]
        /\ \A q \in Process \ {p} : task'[q] = task[q]
        /\ task'[p][c] \in {"computed", "failed"}
    BY <1>7 DEF ComputeChunk, FailChunk, LedgerInv, TypeOK
  <2>3. \A q \in Process : Backing(q)'
    BY <1>3, <2>1, <2>2 DEF Backing, Present, BackedBy
  <2>4. OneConfiguration'
    BY <1>4, <2>1
  <2>5. QED
    BY <1>3, <2>1, <2>3, <2>4 DEF Present, MergeBacked
<1>8. ASSUME NEW p \in Process, NEW c \in Chunk, WriteState(p, c)
      PROVE  Goal
  <2>1. /\ phase[p] = "run" /\ phase' = phase /\ rec' = rec /\ job' = job
        /\ planFile' = planFile /\ task[p][c] = "computed"
        /\ UNCHANGED <<changes, cfg, paths>>
        /\ stateFile'[c] = acc[p][c]
        /\ \A d \in Chunk \ {c} : stateFile'[d] = stateFile[d] /\ task'[p][d] = task[p][d]
        /\ task'[p][c] = "completed"
        /\ \A q \in Process \ {p} : phase[q] = "idle"
    BY <1>8, OthersIdle DEF WriteState, LedgerInv, TypeOK
  <2>2. BackedBy(c, job[p])'
    BY <2>1 DEF LayersInv, Results, Held, Working, BackedBy
  <2>3. \A r : Present(r) => Present(r)'
    BY <2>1, <2>2 DEF Present, BackedBy
  <2>4. \A q \in Process : Backing(q)'
    <3>1. Backing(p)'
      BY <1>3, <2>1, <2>2, <2>3 DEF Backing, BackedBy
    <3>2. QED
      BY <2>1, <3>1 DEF Backing
  <2>5. OneConfiguration'
    BY <1>3, <2>1, <2>2 DEF OneConfiguration, BackedBy
  <2>6. QED
    BY <1>3, <2>1, <2>3, <2>4, <2>5 DEF MergeBacked
<1>9. ASSUME NEW p \in Process, BecomeIdle(p), planFile' = planFile \/ planFile' = rec[p],
             phase[p] \in {"plan", "layers"}, planFile' = rec[p] => phase[p] = "plan",
             stateFile' = stateFile, mergeState' = mergeState, UNCHANGED <<changes, cfg, paths>>
      PROVE  Goal
  <2>1. /\ \A q \in Process : phase'[q] = "idle" /\ phase[q] # "run"
        /\ \A q \in Process : job'[q] = job[q] \/ job'[q] = IdleJob
    BY <1>9, OthersIdle DEF BecomeIdle, LedgerInv, TypeOK
  <2>2. planFile' # NoPlan => Present(planFile')
    BY <1>3, <1>9 DEF Backing
  <2>3. MergeBacked'
    BY <1>3, <1>9, <2>1 DEF MergeBacked, BackedBy
  <2>4. OneConfiguration'
    BY <1>4, <1>9, <2>1
  <2>5. QED
    BY <1>9, <2>1, <2>2, <2>3, <2>4 DEF Present, Backing
<1>10. ASSUME NEW p \in Process, AbortRun(p)
       PROVE  FALSE
  BY <1>3, <1>10 DEF AbortRun, Broken, Backing
<1>11. ASSUME NEW p \in Process, MergeResults(p)
       PROVE  Goal
  <2>1. /\ phase[p] = "run" /\ phase'[p] = "plan" /\ task' = task /\ job' = job
        /\ \A q \in Process \ {p} : phase'[q] = "idle"
        /\ stateFile' = stateFile /\ planFile' = planFile
        /\ UNCHANGED <<changes, cfg, paths>>
    BY <1>11, OthersIdle DEF MergeResults, LedgerInv, TypeOK
  <2>2. ASSUME NEW c \in Chunk, FinalRecord(p, c).completion = "completed"
        PROVE  \/ task[p][c] \in {"reused", "completed"}
               \/ task[p][c] = "unscheduled" /\ rec[p][c].completion = "completed"
    <3>1. rec[p][c] \in Record /\ task[p][c] \in Task
      BY DEF LedgerInv, TypeOK
    <3>2. task[p][c] \notin {"planned", "computed", "broken", "idle"}
      BY <1>11, <2>1 DEF MergeResults, ThreadsDone, Broken, LayersInv, Results, Working
    <3>3. CASE task[p][c] = "failed"
      <4>1. FinalRecord(p, c).completion = "failed"
        BY <3>1, <3>3 DEF FinalRecord, Record
      <4>2. QED
        BY <2>2, <4>1
    <3>4. CASE task[p][c] \in {"skipped", "rejected", "unscheduled"}
      <4>1. FinalRecord(p, c) = rec[p][c]
        BY <3>4 DEF FinalRecord
      <4>2. QED
        BY <1>3, <2>1, <2>2, <3>4, <4>1 DEF Backing
    <3>5. QED
      BY <3>1, <3>2, <3>3, <3>4 DEF Task
  <2>3. \A c \in Chunk : FinalRecord(p, c).completion = "completed" => stateFile[c] # NoState
    BY <1>3, <2>1, <2>2 DEF Backing, BackedBy, Present
  <2>4. \A c \in Chunk : rec'[p][c] = FinalRecord(p, c)
    BY <1>11 DEF MergeResults, LedgerInv, TypeOK
  <2>5. \A q \in Process : Backing(q)'
    BY <2>1, <2>3, <2>4 DEF Backing, Present
  <2>6. OneConfiguration'
    BY <1>4, <2>1
  <2>7. MergeBacked'
    <3> SUFFICES ASSUME mergeState'.done = Chunk, SchedulerCount = 1 \/ changes' = 0,
                        NEW c \in Chunk
                 PROVE  BackedBy(c, mergeState)'
      BY DEF MergeBacked
    <3>1. /\ mergeState'.done = {d \in Chunk : FinalRecord(p, d).completion = "completed"}
          /\ mergeState'.cfg = job[p].cfg /\ mergeState'.paths = job[p].paths
      BY <1>11 DEF MergeResults
    <3>2. FinalRecord(p, c).completion = "completed"
      BY <3>1
    <3>3. BackedBy(c, job[p])
      <4>1. CASE task[p][c] \in {"reused", "completed"}
        BY <1>3, <2>1, <4>1 DEF Backing
      <4>2. CASE task[p][c] = "unscheduled"
        <5>1. ~Scheduled(p, c)
          BY <2>1, <4>2 DEF LayersInv, Results, Working
        <5>2. changes = 0
          BY <2>1, <5>1, AllScheduled
        <5>3. stateFile[c] # NoState
          BY <2>3, <3>2
        <5>4. QED
          BY <1>3, <5>2, <5>3 DEF OneConfiguration, BackedBy
      <4>3. QED
        BY <2>2, <3>2, <4>1, <4>2
    <3>4. QED
      BY <2>1, <3>1, <3>3 DEF BackedBy
  <2>8. QED
    BY <1>3, <2>1, <2>5, <2>6, <2>7 DEF Present
<1>12. ASSUME NEW p \in Process, WritePlan(p)
       PROVE  Goal
  <2>1. /\ phase[p] = "plan" /\ planFile' = rec[p]
        /\ stateFile' = stateFile /\ mergeState' = mergeState
        /\ UNCHANGED <<changes, cfg, paths>>
    BY <1>12 DEF WritePlan
  <2>2. CASE RunFailed(p)
    BY <1>9, <1>12, <2>1, <2>2 DEF WritePlan
  <2>3. CASE ~RunFailed(p)
    <3>1. /\ phase'[p] = "layers" /\ job' = job
          /\ \A q \in Process \ {p} : phase'[q] = "idle" /\ phase[q] = "idle"
      BY <1>12, <2>1, <2>3, OthersIdle DEF WritePlan, LedgerInv, TypeOK
    <3>2. Present(planFile)'
      BY <1>3, <2>1 DEF Backing, Present
    <3>3. \A q \in Process : Backing(q)'
      BY <3>1 DEF Backing
    <3>4. OneConfiguration'
      BY <1>4, <2>1, <3>1
    <3>5. MergeBacked'
      BY <1>3, <2>1, <3>1, OthersIdle DEF MergeBacked, BackedBy
    <3>6. QED
      BY <3>2, <3>3, <3>4, <3>5
  <2>4. QED
    BY <2>2, <2>3
<1>13. ASSUME NEW p \in Process, WriteLayers(p)
       PROVE  Goal
  <2>1. /\ phase[p] = "layers" /\ BecomeIdle(p) /\ planFile' = planFile
        /\ stateFile' = stateFile /\ mergeState' = mergeState
        /\ UNCHANGED <<changes, cfg, paths>>
    BY <1>13 DEF WriteLayers
  <2>2. /\ \A q \in Process : phase'[q] = "idle" /\ phase[q] # "run"
        /\ \A q \in Process : job'[q] = job[q] \/ job'[q] = IdleJob
    BY <2>1, OthersIdle DEF BecomeIdle, LedgerInv, TypeOK
  <2>3. MergeBacked'
    BY <1>3, <2>1, <2>2 DEF MergeBacked, BackedBy
  <2>4. OneConfiguration'
    BY <1>4, <2>1, <2>2
  <2>5. QED
    BY <1>3, <2>1, <2>2, <2>3, <2>4 DEF Present, Backing
<1>14. ASSUME NEW c \in Chunk, NEW o \in ForeignOwner, ForeignClaim(c, o)
       PROVE  Goal
  <2>1. planFile \in [Chunk -> Record] /\ planFile # NoPlan
    BY <1>14 DEF ForeignClaim, LedgerInv, TypeOK
  <2>2. PICK completion \in {planFile[c].completion, "not_started"} :
          planFile' = [planFile EXCEPT ![c].ownership = Claimed(o, clock),
                                       ![c].completion = completion]
    BY <1>14 DEF ForeignClaim
  <2>3. /\ planFile'[c].completion = completion
        /\ \A d \in Chunk \ {c} : planFile'[d] = planFile[d]
    BY <2>1, <2>2 DEF Record
  <2>4. /\ phase' = phase /\ job' = job /\ rec' = rec /\ task' = task
        /\ stateFile' = stateFile /\ mergeState' = mergeState
        /\ UNCHANGED <<changes, cfg, paths>>
    BY <1>14 DEF ForeignClaim
  <2>5. Present(planFile)'
    BY <1>3, <2>1, <2>3, <2>4 DEF Present
  <2>6. \A q \in Process : Backing(q)'
    BY <1>3, <2>4 DEF Backing, BackedBy, Present
  <2>7. OneConfiguration'
    BY <1>4, <2>4
  <2>8. MergeBacked'
    BY <1>3, <2>4 DEF MergeBacked, BackedBy
  <2>9. QED
    BY <2>5, <2>6, <2>7, <2>8
<1>15. CASE Tick \/ RewriteInputs \/ Reconfigure \/ UNCHANGED vars
  <2>1. /\ phase' = phase /\ job' = job /\ rec' = rec /\ task' = task
        /\ stateFile' = stateFile /\ mergeState' = mergeState /\ planFile' = planFile
        /\ changes' = 0 => changes = 0 /\ UNCHANGED <<cfg, paths>>
    BY <1>15 DEF Tick, RewriteInputs, Reconfigure, vars, LedgerInv, TypeOK
  <2>2. \A q \in Process : Backing(q)'
    BY <1>3, <2>1 DEF Backing, BackedBy, Present
  <2>3. OneConfiguration'
    BY <1>3, <2>1 DEF OneConfiguration, BackedBy
  <2>4. MergeBacked'
    BY <1>3, <2>1 DEF MergeBacked, BackedBy
  <2>5. QED
    BY <1>3, <2>1, <2>2, <2>3, <2>4 DEF Present
<1>16. QED
  BY <1>1, <1>5, <1>6, <1>7, <1>8, <1>10, <1>11, <1>12, <1>13, <1>14, <1>15
     DEF Next, RunStep, Environment

\* If runs do not overlap and none is killed, a merge state that lists every chunk
\* is backed by a partial state of each, made under the options it records: an
\* unpartitioned build can rely on it whatever was reconfigured, failed and retried.
THEOREM ReadyIsBackedHolds ==
  ASSUME Overlap = FALSE
  PROVE  Spec => []ReadyIsBacked
<1>1. Init => BackedInv
  BY DEF Init, BackedInv, Backing, Present, OneConfiguration, MergeBacked, NoStates
<1>2. LedgerInv /\ LayersInv /\ BackedInv /\ TypeOK' /\ [Next]_vars => BackedInv'
  BY StepBacked
<1>3. BackedInv => ReadyIsBacked
  BY DEF BackedInv, MergeBacked, BackedBy, ReadyIsBacked
<1>4. QED
  BY <1>1, <1>2, <1>3, LedgerInvariant, LayersInvariant, TypeCorrect, PTL DEF Spec
-------------------------------------------------------------------------------
(* The work that is done *)

\* What explains the executions of a chunk, but for its one success.
Explained(c) == failures[c] + faults + changes + claims

\* A run with these options will find the chunk of record r reusable, whoever
\* claims chunks in the meantime.
Usable(r, c, options) ==
  /\ r.completion = "completed"
  /\ r.paths = options.paths
  /\ r.ownership.state # "claimed"
  /\ BackedBy(c, options)

One(condition) == IF condition THEN 1 ELSE 0

\* Whether a run's results will be of no use to the next run: that one is given
\* other options, which has been counted as a change.
Outdated(p) == job[p].cfg # cfg \/ job[p].paths # paths

\* The tasks that show a success of their chunk, or stand for a counted kill.
Successful == {"reused", "computed", "completed", "broken"}

\* The executions of a chunk are explained, but for one if its result is of use.
Worked(p) ==
  /\ phase[p] = "decide" => \A c \in Chunk :
       executed[c] + One(Outdated(p)) <= Explained(c) + One(Usable(rec[p][c], c, job[p]))
  /\ phase[p] = "run" => \A c \in Chunk :
       executed[c] + One(Outdated(p) \/ Broken(p))
         <= Explained(c)
            + One(\/ task[p][c] \in Successful
                  \/ task[p][c] = "unscheduled" /\ Usable(rec[p][c], c, job[p]))
  /\ phase[p] = "plan" => \A c \in Chunk :
       executed[c] + One(Outdated(p)) <= Explained(c) + One(Usable(rec[p][c], c, job[p]))

\* The same of the files, when no run is between its start and its plan write.
Left ==
  (\A p \in Process : phase[p] \in {"idle", "layers"}) =>
    \A c \in Chunk :
      executed[c] <= Explained(c)
        + One(planFile # NoPlan /\ Usable(planFile[c], c, [cfg |-> cfg, paths |-> paths]))

\* What a run reused or wrote is on disk, and its records are of its path lists.
Made(p) ==
  /\ phase[p] \in {"decide", "run", "plan"} => \A c \in Chunk : rec[p][c].paths = job[p].paths
  /\ phase[p] = "run" => \A c \in Chunk :
       /\ task[p][c] \in {"reused", "completed"} => BackedBy(c, job[p])
       /\ task[p][c] = "reused" => rec[p][c].completion = "completed"

WorkInv == Left /\ \A p \in Process : Worked(p) /\ Made(p)

\* The numbers involved.
LEMMA WorkTypes ==
  ASSUME TypeOK
  PROVE  /\ \A c \in Chunk : executed[c] \in Nat /\ failures[c] \in Nat /\ Explained(c) \in Nat
         /\ \A b : One(b) \in {0, 1}
         /\ faults \in Nat /\ changes \in Nat /\ claims \in Nat
BY DEF TypeOK, Explained, One

\* The invariant bounds the work whatever the runs are doing.
LEMMA WorkIsBounded ==
  ASSUME TypeOK, Alone, WorkInv, NEW c \in Chunk
  PROVE  executed[c] <= Explained(c) + 1
<1>1. CASE \A p \in Process : phase[p] \in {"idle", "layers"}
  BY <1>1, WorkTypes DEF WorkInv, Left
<1>2. ASSUME NEW p \in Process, phase[p] \notin {"idle", "layers"}
      PROVE  executed[c] <= Explained(c) + 1
  <2>1. phase[p] \in {"decide", "run", "plan"}
    BY <1>2 DEF TypeOK, Phase
  <2>2. \E a, b \in {0, 1} : executed[c] + a <= Explained(c) + b
    <3>1. CASE phase[p] \in {"decide", "plan"}
      <4>1. executed[c] + One(Outdated(p)) <= Explained(c) + One(Usable(rec[p][c], c, job[p]))
        BY <3>1 DEF WorkInv, Worked
      <4>2. QED
        BY <4>1, WorkTypes
    <3>2. CASE phase[p] = "run"
      <4>1. executed[c] + One(Outdated(p) \/ Broken(p))
              <= Explained(c)
                 + One(\/ task[p][c] \in Successful
                       \/ task[p][c] = "unscheduled" /\ Usable(rec[p][c], c, job[p]))
        BY <3>2 DEF WorkInv, Worked
      <4>2. /\ One(Outdated(p) \/ Broken(p)) \in {0, 1}
            /\ One(\/ task[p][c] \in Successful
                   \/ task[p][c] = "unscheduled" /\ Usable(rec[p][c], c, job[p])) \in {0, 1}
        BY DEF One
      <4>3. QED
        BY <4>1, <4>2
    <3>3. QED
      BY <2>1, <3>1, <3>2
  <2>3. QED
    BY <2>2, WorkTypes
<1>3. QED
  BY <1>1, <1>2

\* One more kill, change or claim explains an execution of every chunk.
LEMMA OneMoreExplained ==
  ASSUME TypeOK, executed' = executed, failures' = failures,
         \/ faults' = faults + 1 /\ UNCHANGED <<changes, claims>>
         \/ changes' = changes + 1 /\ UNCHANGED <<faults, claims>>
         \/ claims' = claims + 1 /\ UNCHANGED <<faults, changes>>
  PROVE  \A c \in Chunk : Explained(c)' = Explained(c) + 1 /\ executed'[c] = executed[c]
BY WorkTypes DEF Explained

\* A run starts from what the plan on disk leaves it.
LEMMA StartWorked ==
  ASSUME Overlap = FALSE, TypeOK, WorkInv, NEW p \in Process, StartRun(p)
  PROVE  WorkInv'
<1> USE DEF env, files
<1>1. /\ \A q \in Process : phase[q] = "idle" /\ (q # p => phase'[q] = "idle")
      /\ phase'[p] = "decide" /\ job'[p].cfg = cfg /\ job'[p].paths = paths
      /\ planFile' = planFile /\ stateFile' = stateFile
      /\ UNCHANGED <<cfg, paths, changes, claims, faults, executed, failures>>
  BY DEF StartRun, TypeOK
<1>2. ~Outdated(p)' /\ \A c \in Chunk : Explained(c)' = Explained(c)
  BY <1>1 DEF Outdated, Explained
<1>3. ASSUME NEW c \in Chunk
      PROVE  /\ rec'[p][c].paths = job'[p].paths
             /\ executed[c] <= Explained(c) + One(Usable(rec'[p][c], c, job'[p]))
  <2> DEFINE usable == planFile # NoPlan /\ Usable(planFile[c], c, [cfg |-> cfg, paths |-> paths])
  <2>1. rec'[p][c] = IF planFile = NoPlan THEN FreshRecord(paths)
                     ELSE Adopt(planFile[c], paths, clock)
    BY DEF StartRun, TypeOK
  <2>2. executed[c] <= Explained(c) + One(usable)
    BY <1>1 DEF WorkInv, Left
  <2>3. /\ planFile # NoPlan => planFile[c] \in Record
        /\ FreshRecord(paths).paths = paths
    BY DEF FreshRecord, TypeOK
  <2>4. planFile # NoPlan =>
          /\ MarkStale(planFile[c]).completion = planFile[c].completion
          /\ MarkStale(planFile[c]).paths = planFile[c].paths
          /\ MarkStale(planFile[c]).ownership.state = "stale"
    BY <2>3 DEF MarkStale, Record, Ownership
  <2>5. rec'[p][c].paths = paths
    BY <2>1, <2>3, <2>4 DEF Adopt
  <2>6. usable => Usable(rec'[p][c], c, job'[p])
    <3>1. ASSUME usable
          PROVE  /\ rec'[p][c].completion = "completed"
                 /\ rec'[p][c].ownership.state # "claimed"
      BY <2>1, <2>4, <3>1 DEF Adopt, Usable
    <3>2. ASSUME usable PROVE BackedBy(c, job'[p])
      BY <1>1, <3>2 DEF Usable, BackedBy
    <3>3. QED
      BY <1>1, <2>5, <3>1, <3>2 DEF Usable
  <2>7. QED
    BY <1>1, <2>2, <2>5, <2>6, WorkTypes DEF One
<1>4. ASSUME NEW c \in Chunk
      PROVE  executed'[c] + One(Outdated(p))' <= Explained(c)' + One(Usable(rec[p][c], c, job[p]))'
  <2>1. One(Outdated(p))' = 0
    BY <1>2 DEF One
  <2>2. One(Usable(rec[p][c], c, job[p]))' = One(Usable(rec'[p][c], c, job'[p]))
    BY <1>1 DEF One, Usable, BackedBy
  <2>3. QED
    BY <1>1, <1>2, <1>3, <2>1, <2>2, WorkTypes
<1>5. Worked(p)' /\ Made(p)'
  BY <1>1, <1>3, <1>4 DEF Worked, Made
<1>6. QED
  BY <1>1, <1>5 DEF WorkInv, Left, Worked, Made

\* The decision loop executes a chunk only if its last result is of no use.
LEMMA DecidedWorked ==
  ASSUME TypeOK, NEW p \in Process, NEW c \in Chunk, rec[p][c].paths = job[p].paths
  PROVE  /\ Usable(rec[p][c], c, job[p]) =>
              \/ Choice(p, c) = "reused"
              \/ /\ Choice(p, c) = "unscheduled"
                 /\ Usable(DecidedRecord(p, c), c, job[p])
         /\ Choice(p, c) \in {"unscheduled", "skipped", "reused", "rejected", "planned"}
         /\ Choice(p, c) = "reused" =>
              BackedBy(c, job[p]) /\ DecidedRecord(p, c).completion = "completed"
         /\ DecidedRecord(p, c).paths = job[p].paths
<1>1. rec[p][c] \in Record
  BY DEF TypeOK
<1>2. Choice(p, c) \in {"unscheduled", "skipped", "reused", "rejected", "planned"}
  BY DEF Choice
<1>3. Usable(rec[p][c], c, job[p]) =>
        Reusable(p, c) /\ ~ActiveForOther(rec[p][c], OwnerOf[p], job[p].now)
  BY DEF Usable, BackedBy, Reusable, ActiveForOther
<1>4. Usable(rec[p][c], c, job[p]) => Choice(p, c) \in {"unscheduled", "reused"}
  BY <1>3 DEF Choice
<1>5. Choice(p, c) = "unscheduled" =>
        /\ DecidedRecord(p, c).completion = rec[p][c].completion
        /\ DecidedRecord(p, c).ownership = rec[p][c].ownership
  BY <1>1 DEF DecidedRecord, Record
<1>6. DecidedRecord(p, c).paths = rec[p][c].paths
  <2>1. CASE Choice(p, c) = "unscheduled"
    BY <1>1, <2>1 DEF DecidedRecord, Record
  <2>2. CASE Choice(p, c) = "skipped"
    BY <1>1, <2>2 DEF DecidedRecord, Record
  <2>3. CASE Choice(p, c) = "reused"
    BY <1>1, <2>3 DEF DecidedRecord, Record
  <2>4. CASE Choice(p, c) = "rejected"
    BY <1>1, <2>4 DEF DecidedRecord, Record
  <2>5. CASE Choice(p, c) = "planned"
    BY <1>1, <2>5 DEF DecidedRecord, Record
  <2>6. QED
    BY <1>2, <2>1, <2>2, <2>3, <2>4, <2>5
<1>7. Choice(p, c) = "reused" => DecidedRecord(p, c).completion = "completed"
  BY <1>1 DEF Choice, Reusable, DecidedRecord, Record
<1>8. QED
  BY <1>2, <1>4, <1>5, <1>6, <1>7, DecidedBacked DEF Usable

\* What a run still owes and what it may show for it, as numbers.
Owed(p) == One(Outdated(p) \/ Broken(p))
Shown(p, c) ==
  One(\/ task[p][c] \in Successful
      \/ task[p][c] = "unscheduled" /\ Usable(rec[p][c], c, job[p]))

LEMMA OwedAndShown ==
  ASSUME NEW p
  PROVE  Owed(p) \in {0, 1} /\ \A c \in Chunk : Shown(p, c) \in {0, 1}
BY DEF Owed, Shown, One

\* A thread's steps: an execution is planned once, and a success takes the credit.
LEMMA ThreadWorked ==
  ASSUME LedgerInv, LayersInv, WorkInv, HistoryKept', NEW p \in Process, NEW c \in Chunk,
         \/ ComputeChunk(p, c) \/ FailChunk(p, c) \/ WriteState(p, c)
         \/ WriteStateFails(p, c) \/ ExitChunk(p, c)
  PROVE  WorkInv'
<1> USE DEF env, files
<1>1. /\ phase[p] = "run" /\ phase' = phase /\ rec' = rec /\ job' = job
      /\ planFile' = planFile /\ UNCHANGED <<cfg, paths, changes, claims>>
      /\ task[p][c] \in {"planned", "computed"}
  BY DEF ComputeChunk, FailChunk, WriteState, WriteStateFails, ExitChunk
<1>2. \A q \in Process \ {p} : phase'[q] = "idle"
  BY <1>1, OthersIdle
<1>3. /\ ComputeChunk(p, c) =>
           executed' = [executed EXCEPT ![c] = @ + 1] /\ UNCHANGED <<failures, faults>>
      /\ FailChunk(p, c) =>
           /\ executed' = [executed EXCEPT ![c] = @ + 1]
           /\ failures' = [failures EXCEPT ![c] = @ + 1]
           /\ faults' = faults
      /\ ExitChunk(p, c) =>
           /\ executed' = [executed EXCEPT ![c] = @ + 1]
           /\ failures' = failures
           /\ faults' = faults + 1
  BY CountsWhileKept DEF LedgerInv
<1>4. executed \in [Chunk -> Nat] /\ failures \in [Chunk -> Nat]
  BY DEF LedgerInv, TypeOK
<1>5. \A d \in Chunk \ {c} :
        /\ task'[p][d] = task[p][d] /\ executed'[d] = executed[d]
        /\ failures'[d] = failures[d] /\ stateFile'[d] = stateFile[d]
  <2>1. \A d \in Chunk \ {c} : task'[p][d] = task[p][d] /\ stateFile'[d] = stateFile[d]
    BY DEF ComputeChunk, FailChunk, WriteState, WriteStateFails, ExitChunk, LedgerInv, TypeOK
  <2>2. WriteState(p, c) \/ WriteStateFails(p, c) =>
          executed' = executed /\ failures' = failures
    BY DEF WriteState, WriteStateFails
  <2>3. \A d \in Chunk \ {c} : executed'[d] = executed[d] /\ failures'[d] = failures[d]
    BY <1>3, <1>4, <2>2
  <2>4. QED
    BY <2>1, <2>3
<1>6. \A d \in Chunk :
        executed[d] + Owed(p) <= Explained(d) + Shown(p, d)
  BY <1>1 DEF WorkInv, Worked, Owed, Shown
<1>7. Outdated(p)' <=> Outdated(p)
  BY <1>1 DEF Outdated
<1>8. \A d \in Chunk \ {c} : Shown(p, d)' = Shown(p, d)
  BY <1>1, <1>5 DEF Shown, One, Usable, BackedBy
<1>9. Shown(p, c) = One(task[p][c] = "computed")
  BY <1>1 DEF Shown, One, Successful
<1>10. \A d \in Chunk : executed'[d] + Owed(p)' <= Explained(d)' + Shown(p, d)'
  <2>1. CASE ComputeChunk(p, c) \/ FailChunk(p, c) \/ WriteState(p, c)
    <3>1. faults' = faults /\ (Broken(p)' <=> Broken(p))
      <4>1. task'[p][c] # "broken" /\ task[p][c] # "broken" /\ faults' = faults
        BY <2>1 DEF ComputeChunk, FailChunk, WriteState, LedgerInv, TypeOK
      <4>2. QED
        BY <1>5, <4>1 DEF Broken
    <3>2. Owed(p)' = Owed(p)
      BY <1>7, <3>1 DEF Owed, One
    <3>3. \A d \in Chunk \ {c} : Explained(d)' = Explained(d)
      BY <1>1, <1>5, <3>1 DEF Explained
    <3>4. executed'[c] + Owed(p)' <= Explained(c)' + Shown(p, c)'
      <4>1. CASE ComputeChunk(p, c)
        <5>1. /\ task[p][c] = "planned" /\ task'[p][c] = "computed"
              /\ executed'[c] = executed[c] + 1 /\ failures'[c] = failures[c]
          BY <1>3, <4>1 DEF ComputeChunk, LedgerInv, TypeOK
        <5>2. Shown(p, c) = 0 /\ Shown(p, c)' = 1 /\ Explained(c)' = Explained(c)
          BY <1>1, <1>9, <3>1, <5>1 DEF Shown, One, Successful, Explained
        <5>3. QED
          BY <1>6, <3>2, <5>1, <5>2, OwedAndShown, WorkTypes DEF LedgerInv
      <4>2. CASE FailChunk(p, c)
        <5>1. /\ task[p][c] = "planned" /\ task'[p][c] = "failed"
              /\ executed'[c] = executed[c] + 1 /\ failures'[c] = failures[c] + 1
          BY <1>3, <4>2 DEF FailChunk, LedgerInv, TypeOK
        <5>2. Shown(p, c) = 0 /\ Shown(p, c)' = 0
          BY <1>9, <5>1 DEF Shown, One, Successful
        <5>3. Explained(c)' = Explained(c) + 1
          BY <1>1, <3>1, <5>1, WorkTypes DEF LedgerInv, Explained
        <5>4. QED
          BY <1>6, <3>2, <5>1, <5>2, <5>3, OwedAndShown, WorkTypes DEF LedgerInv
      <4>3. CASE WriteState(p, c)
        <5>1. /\ task[p][c] = "computed" /\ task'[p][c] = "completed"
              /\ executed' = executed /\ failures' = failures
          BY <4>3 DEF WriteState, LedgerInv, TypeOK
        <5>2. Shown(p, c) = 1 /\ Shown(p, c)' = 1 /\ Explained(c)' = Explained(c)
          BY <1>1, <1>9, <3>1, <5>1 DEF Shown, One, Successful, Explained
        <5>3. QED
          BY <1>6, <3>2, <5>1, <5>2
      <4>4. QED
        BY <2>1, <4>1, <4>2, <4>3
    <3>5. QED
      BY <1>5, <1>6, <1>8, <3>2, <3>3, <3>4
  <2>2. CASE ExitChunk(p, c) \/ WriteStateFails(p, c)
    <3>1. /\ faults' = faults + 1 /\ failures' = failures /\ task'[p][c] = "broken"
          /\ \/ task[p][c] = "planned" /\ executed'[c] = executed[c] + 1
             \/ task[p][c] = "computed" /\ executed'[c] = executed[c]
      <4>1. task \in [Process -> [Chunk -> Task]]
        BY DEF LedgerInv, TypeOK
      <4>2. CASE ExitChunk(p, c)
        <5>1. task[p][c] = "planned" /\ task' = [task EXCEPT ![p][c] = "broken"]
          BY <4>2 DEF ExitChunk
        <5>2. QED
          BY <1>3, <1>4, <4>1, <4>2, <5>1
      <4>3. CASE WriteStateFails(p, c)
        BY <4>1, <4>3 DEF WriteStateFails
      <4>4. QED
        BY <2>2, <4>2, <4>3
    <3>2. Owed(p)' = 1
      BY <3>1 DEF Owed, One, Broken
    <3>3. \A d \in Chunk : Explained(d)' = Explained(d) + 1
      BY <1>1, <3>1, WorkTypes DEF LedgerInv, Explained
    <3>4. Shown(p, c)' = 1
      BY <3>1 DEF Shown, One, Successful
    <3>5. executed'[c] <= executed[c] + 1 - Shown(p, c)
      BY <1>9, <3>1, WorkTypes DEF LedgerInv, One
    <3>6. \A d \in Chunk : Shown(p, d) \in {0, 1} /\ Owed(p) \in {0, 1}
      BY OwedAndShown
    <3>7. \A d \in Chunk : executed[d] \in Nat /\ Explained(d) \in Nat
      BY WorkTypes DEF LedgerInv
    <3>8. executed'[c] \in Nat
      BY <3>1, <3>7
    <3>9. executed'[c] + 1 <= (Explained(c) + 1) + 1
      BY <1>6, <3>5, <3>6, <3>7, <3>8
    <3>10. ASSUME NEW d \in Chunk, d # c
           PROVE  executed'[d] + 1 <= (Explained(d) + 1) + Shown(p, d)
      BY <1>5, <1>6, <3>6, <3>7, <3>10
    <3>11. QED
      BY <1>8, <3>2, <3>3, <3>4, <3>9, <3>10
  <2>3. QED
    BY <2>1, <2>2
<1>11. Worked(p)'
  BY <1>1, <1>10 DEF Worked, Owed, Shown
<1>12. Made(p)'
  <2>1. \A d \in Chunk : rec'[p][d].paths = job'[p].paths
    BY <1>1 DEF WorkInv, Made
  <2>2. ASSUME NEW d \in Chunk, task'[p][d] \in {"reused", "completed"}
        PROVE  BackedBy(d, job[p])'
    <3>1. CASE d = c
      <4>1. task[p][c] = "computed" /\ stateFile'[c] = acc[p][c]
        BY <1>1, <2>2, <3>1 DEF ComputeChunk, FailChunk, WriteState, WriteStateFails, ExitChunk,
                                LedgerInv, TypeOK
      <4>2. QED
        BY <1>1, <3>1, <4>1 DEF LayersInv, Results, Held, Working, BackedBy
    <3>2. CASE d # c
      BY <1>1, <1>5, <2>2, <3>2 DEF WorkInv, Made, BackedBy
    <3>3. QED
      BY <3>1, <3>2
  <2>3. \A d \in Chunk : task'[p][d] = "reused" => task[p][d] = "reused"
    BY <1>1, <1>5 DEF ComputeChunk, FailChunk, WriteState, WriteStateFails, ExitChunk,
                      LedgerInv, TypeOK
  <2>4. \A d \in Chunk : task'[p][d] = "reused" => rec[p][d].completion = "completed"
    BY <1>1, <2>3 DEF WorkInv, Made
  <2>5. QED
    BY <1>1, <2>1, <2>2, <2>4 DEF Made
<1>13. QED
  <2>1. Left'
    BY <1>1 DEF Left
  <2>2. \A q \in Process \ {p} : Worked(q)' /\ Made(q)'
    BY <1>2 DEF Worked, Made
  <2>3. QED
    BY <1>11, <1>12, <2>1, <2>2 DEF WorkInv

\* The steps of a run that its threads do not take.
LEMMA RunWorked ==
  ASSUME LedgerInv, LayersInv, WorkInv, NEW p \in Process,
         DecideChunks(p) \/ AbortRun(p) \/ MergeResults(p) \/ WritePlan(p) \/ WriteLayers(p)
  PROVE  WorkInv'
<1> USE DEF env, files
<1>1. /\ phase[p] # "idle" /\ \A q \in Process \ {p} : phase[q] = "idle" /\ phase'[q] = "idle"
      /\ UNCHANGED <<cfg, paths, changes, claims, faults, executed, failures, stateFile>>
  <2>1. phase[p] # "idle" /\ \A q \in Process \ {p} : phase'[q] = phase[q]
    BY DEF DecideChunks, AbortRun, MergeResults, WritePlan, WriteLayers, BecomeIdle,
           LedgerInv, TypeOK
  <2>2. UNCHANGED <<cfg, paths, changes, claims, faults, executed, failures, stateFile>>
    BY DEF DecideChunks, AbortRun, MergeResults, WritePlan, WriteLayers
  <2>3. QED
    BY <2>1, <2>2, OthersIdle
<1>2. \A c \in Chunk : Explained(c)' = Explained(c)
  BY <1>1 DEF Explained
<1>3. \A c \in Chunk : executed[c] \in Nat /\ Explained(c) \in Nat
  BY WorkTypes DEF LedgerInv
<1>4. \A q \in Process \ {p} : Worked(q)' /\ Made(q)'
  BY <1>1 DEF Worked, Made
<1>5. CASE DecideChunks(p)
  <2>1. /\ phase[p] = "decide" /\ phase'[p] = "run" /\ job' = job
        /\ \A c \in Chunk : rec'[p][c] = DecidedRecord(p, c) /\ task'[p][c] = Choice(p, c)
    BY <1>5 DEF DecideChunks, LedgerInv, TypeOK
  <2>2. \A c \in Chunk : rec[p][c].paths = job[p].paths
    BY <2>1 DEF WorkInv, Made
  <2>3. ~Broken(p)' /\ (Outdated(p)' <=> Outdated(p))
    <3>1. \A c \in Chunk : Choice(p, c) # "broken"
      BY <2>2, DecidedWorked DEF LedgerInv
    <3>2. QED
      BY <1>1, <2>1, <3>1 DEF Broken, Outdated
  <2>4. ASSUME NEW c \in Chunk
        PROVE  executed'[c] + Owed(p)' <= Explained(c)' + Shown(p, c)'
    <3>1. executed[c] + One(Outdated(p)) <= Explained(c) + One(Usable(rec[p][c], c, job[p]))
      BY <2>1 DEF WorkInv, Worked
    <3>2. Owed(p)' = One(Outdated(p))
      BY <2>3 DEF Owed, One
    <3>3. Usable(rec[p][c], c, job[p]) =>
            \/ Choice(p, c) = "reused"
            \/ Choice(p, c) = "unscheduled" /\ Usable(DecidedRecord(p, c), c, job[p])
      BY <2>2, DecidedWorked DEF LedgerInv
    <3>4. One(Usable(rec[p][c], c, job[p])) <= Shown(p, c)'
      BY <1>1, <2>1, <3>3 DEF One, Shown, Successful, Usable, BackedBy
    <3>5. /\ One(Usable(rec[p][c], c, job[p])) \in {0, 1}
          /\ Shown(p, c)' \in {0, 1} /\ One(Outdated(p)) \in {0, 1}
      BY DEF One, Shown
    <3>6. QED
      BY <1>1, <1>2, <1>3, <3>1, <3>2, <3>4, <3>5
  <2>5. Worked(p)'
    BY <2>1, <2>4 DEF Worked, Owed, Shown
  <2>6. Made(p)'
    BY <1>1, <2>1, <2>2, DecidedWorked DEF LedgerInv, Made, BackedBy
  <2>7. Left'
    BY <2>1 DEF Left
  <2>8. QED
    BY <1>4, <2>5, <2>6, <2>7 DEF WorkInv
<1>6. CASE AbortRun(p)
  <2>1. phase[p] = "run" /\ Broken(p) /\ phase'[p] = "idle"
    BY <1>6 DEF AbortRun, BecomeIdle, LedgerInv, TypeOK
  <2>2. ASSUME NEW c \in Chunk
        PROVE  executed[c] <= Explained(c)
    <3>1. executed[c] + Owed(p) <= Explained(c) + Shown(p, c)
      BY <2>1 DEF WorkInv, Worked, Owed, Shown
    <3>2. Owed(p) = 1 /\ Shown(p, c) \in {0, 1}
      BY <2>1 DEF Owed, Shown, One
    <3>3. QED
      BY <1>3, <3>1, <3>2
  <2>3. Left'
    BY <1>1, <1>2, <1>3, <2>2 DEF Left, One
  <2>4. Worked(p)' /\ Made(p)'
    BY <2>1 DEF Worked, Made
  <2>5. QED
    BY <1>4, <2>3, <2>4 DEF WorkInv
<1>7. CASE MergeResults(p)
  <2>1. /\ phase[p] = "run" /\ phase'[p] = "plan" /\ job' = job /\ ~Broken(p)
        /\ \A c \in Chunk : /\ rec'[p][c] = FinalRecord(p, c)
                            /\ task[p][c] \notin {"planned", "computed", "broken"}
    BY <1>7 DEF MergeResults, ThreadsDone, Broken, LedgerInv, TypeOK
  <2>2. \A c \in Chunk : rec'[p][c].paths = job[p].paths
    BY <2>1, FinalCounts DEF LedgerInv, WorkInv, Made
  <2>3. ASSUME NEW c \in Chunk, Shown(p, c) = 1
        PROVE  Usable(rec'[p][c], c, job[p])
    <3>1. rec[p][c] \in Record
      BY DEF LedgerInv, TypeOK
    <3>2. \/ task[p][c] \in {"reused", "completed"}
          \/ task[p][c] = "unscheduled" /\ Usable(rec[p][c], c, job[p])
      BY <2>1, <2>3 DEF Shown, One, Successful
    <3>3. CASE task[p][c] = "unscheduled" /\ Usable(rec[p][c], c, job[p])
      BY <2>1, <3>3 DEF FinalRecord
    <3>4. CASE task[p][c] = "completed"
      <4>1. /\ FinalRecord(p, c).completion = "completed"
            /\ FinalRecord(p, c).ownership = Released(OwnerOf[p])
        BY <3>1, <3>4 DEF FinalRecord, Record
      <4>2. BackedBy(c, job[p])
        BY <2>1, <3>4 DEF WorkInv, Made
      <4>3. QED
        BY <2>1, <2>2, <4>1, <4>2 DEF Usable, Released
    <3>5. CASE task[p][c] = "reused"
      <4>1. /\ FinalRecord(p, c).completion = rec[p][c].completion
            /\ FinalRecord(p, c).ownership = Released(OwnerOf[p])
        BY <3>1, <3>5 DEF FinalRecord, Record
      <4>2. BackedBy(c, job[p]) /\ rec[p][c].completion = "completed"
        BY <2>1, <3>5 DEF WorkInv, Made
      <4>3. QED
        BY <2>1, <2>2, <4>1, <4>2 DEF Usable, Released
    <3>6. QED
      BY <3>2, <3>3, <3>4, <3>5
  <2>4. ASSUME NEW c \in Chunk
        PROVE  executed'[c] + One(Outdated(p))' <= Explained(c)' + One(Usable(rec[p][c], c, job[p]))'
    <3>1. executed[c] + Owed(p) <= Explained(c) + Shown(p, c)
      BY <2>1 DEF WorkInv, Worked, Owed, Shown
    <3>2. One(Outdated(p))' = Owed(p) /\ Owed(p) \in {0, 1} /\ Shown(p, c) \in {0, 1}
      BY <1>1, <2>1 DEF Owed, One, Outdated, Shown
    <3>3. Shown(p, c) = 1 => One(Usable(rec[p][c], c, job[p]))' = 1
      BY <1>1, <2>1, <2>3 DEF One, Usable, BackedBy
    <3>4. One(Usable(rec[p][c], c, job[p]))' \in {0, 1}
      BY DEF One
    <3>5. QED
      BY <1>1, <1>2, <1>3, <3>1, <3>2, <3>3, <3>4
  <2>5. Worked(p)' /\ Made(p)' /\ Left'
    BY <2>1, <2>2, <2>4 DEF Worked, Made, Left
  <2>6. QED
    BY <1>4, <2>5 DEF WorkInv
<1>8. CASE WritePlan(p)
  <2>1. /\ phase[p] = "plan" /\ planFile' = rec[p] /\ phase'[p] \in {"idle", "layers"}
    BY <1>8 DEF WritePlan, BecomeIdle, LedgerInv, TypeOK
  <2>2. rec[p] # NoPlan
    BY PlanAssumption DEF LedgerInv, TypeOK
  <2>3. ASSUME NEW c \in Chunk
        PROVE  executed[c] <= Explained(c)
                 + One(Usable(rec[p][c], c, [cfg |-> cfg, paths |-> paths]))
    <3>1. executed[c] + One(Outdated(p)) <= Explained(c) + One(Usable(rec[p][c], c, job[p]))
      BY <2>1 DEF WorkInv, Worked
    <3>2. ~Outdated(p) => (Usable(rec[p][c], c, job[p]) <=>
                             Usable(rec[p][c], c, [cfg |-> cfg, paths |-> paths]))
      BY DEF Outdated, Usable, BackedBy
    <3>3. QED
      BY <1>3, <3>1, <3>2 DEF One
  <2>4. Left'
    BY <1>1, <1>2, <2>1, <2>2, <2>3 DEF Left, One, Usable, BackedBy
  <2>5. Worked(p)' /\ Made(p)'
    BY <2>1 DEF Worked, Made
  <2>6. QED
    BY <1>4, <2>4, <2>5 DEF WorkInv
<1>9. CASE WriteLayers(p)
  <2>1. phase[p] = "layers" /\ phase'[p] = "idle" /\ planFile' = planFile
    BY <1>9 DEF WriteLayers, BecomeIdle, LedgerInv, TypeOK
  <2>2. Left'
    <3>1. \A c \in Chunk :
            executed[c] <= Explained(c)
              + One(planFile # NoPlan /\ Usable(planFile[c], c, [cfg |-> cfg, paths |-> paths]))
      BY <1>1, <2>1 DEF WorkInv, Left
    <3>2. QED
      BY <1>1, <1>2, <2>1, <3>1 DEF Left, One, Usable, BackedBy
  <2>3. Worked(p)' /\ Made(p)'
    BY <2>1 DEF Worked, Made
  <2>4. QED
    BY <1>4, <2>2, <2>3 DEF WorkInv
<1>10. QED
  BY <1>5, <1>6, <1>7, <1>8, <1>9

\* Kills, changes and claims explain one more execution of every chunk each.
LEMMA OtherWorked ==
  ASSUME LedgerInv, WorkInv,
         \/ \E p \in Process : Crash(p)
         \/ Reconfigure
         \/ \E c \in Chunk, o \in ForeignOwner : ForeignClaim(c, o)
  PROVE  WorkInv'
<1> USE DEF env, files, local
<1>1. \A c \in Chunk : executed[c] <= Explained(c) + 1
  BY WorkIsBounded DEF LedgerInv
<1>2. \A c \in Chunk : Explained(c)' = Explained(c) + 1 /\ executed'[c] = executed[c]
  BY OneMoreExplained DEF LedgerInv, Crash, Reconfigure, ForeignClaim
<1>3. \A c \in Chunk : executed[c] \in Nat /\ Explained(c) \in Nat
  BY WorkTypes DEF LedgerInv
<1>4. \A c \in Chunk : executed'[c] <= Explained(c)'
  BY <1>1, <1>2, <1>3
<1>5. Left'
  <2>1. \A c \in Chunk, b \in {0, 1} : executed'[c] <= Explained(c)' + b
    BY <1>2, <1>3, <1>4
  <2>2. QED
    BY <2>1 DEF Left, One
<1>6. CASE \E p \in Process : Crash(p)
  <2>1. \A q \in Process : phase'[q] = "idle"
    BY <1>6, OthersIdle DEF Crash, BecomeIdle, LedgerInv, TypeOK
  <2>2. QED
    BY <1>5, <2>1 DEF WorkInv, Worked, Made
<1>7. CASE \E c \in Chunk, o \in ForeignOwner : ForeignClaim(c, o)
  <2>1. \A q \in Process : phase'[q] = "idle"
    BY <1>7 DEF ForeignClaim
  <2>2. QED
    BY <1>5, <2>1 DEF WorkInv, Worked, Made
<1>8. CASE Reconfigure
  <2>1. /\ phase' = phase /\ job' = job /\ rec' = rec /\ task' = task
        /\ stateFile' = stateFile
    BY <1>8 DEF Reconfigure
  <2>2. ASSUME NEW p \in Process
        PROVE  Worked(p)' /\ Made(p)'
    <3>1. Made(p)'
      BY <2>1 DEF WorkInv, Made, BackedBy
    <3>2. \A c \in Chunk : Usable(rec[p][c], c, job[p])' <=> Usable(rec[p][c], c, job[p])
      BY <2>1 DEF Usable, BackedBy
    <3>3. \A c \in Chunk : Shown(p, c)' = Shown(p, c)
      BY <2>1, <3>2 DEF Shown, One
    <3>4. \A c \in Chunk : One(Usable(rec[p][c], c, job[p]))' = One(Usable(rec[p][c], c, job[p]))
      BY <3>2 DEF One
    <3>5. /\ One(Outdated(p)) \in {0, 1} /\ One(Outdated(p))' \in {0, 1}
          /\ Owed(p) \in {0, 1} /\ Owed(p)' \in {0, 1}
          /\ \A c \in Chunk : /\ Shown(p, c) \in {0, 1}
                              /\ One(Usable(rec[p][c], c, job[p])) \in {0, 1}
      BY DEF One, Owed, Shown
    <3>6. CASE phase[p] \in {"decide", "plan"}
      <4>1. \A c \in Chunk :
              executed[c] + One(Outdated(p)) <= Explained(c) + One(Usable(rec[p][c], c, job[p]))
        BY <3>6 DEF WorkInv, Worked
      <4>2. \A c \in Chunk :
              executed'[c] + One(Outdated(p))'
                <= Explained(c)' + One(Usable(rec[p][c], c, job[p]))'
        BY <1>2, <1>3, <3>4, <3>5, <4>1
      <4>3. QED
        BY <2>1, <3>1, <3>6, <4>2 DEF Worked
    <3>7. CASE phase[p] = "run"
      <4>1. \A c \in Chunk : executed[c] + Owed(p) <= Explained(c) + Shown(p, c)
        BY <3>7 DEF WorkInv, Worked, Owed, Shown
      <4>2. \A c \in Chunk : executed'[c] + Owed(p)' <= Explained(c)' + Shown(p, c)'
        BY <1>2, <1>3, <3>3, <3>5, <4>1
      <4>3. QED
        BY <2>1, <3>1, <3>7, <4>2 DEF Worked, Owed, Shown
    <3>8. CASE phase[p] \notin {"decide", "run", "plan"}
      BY <2>1, <3>1, <3>8 DEF Worked
    <3>9. QED
      BY <3>6, <3>7, <3>8
  <2>3. QED
    BY <1>5, <2>2 DEF WorkInv
<1>9. QED
  BY <1>6, <1>7, <1>8

\* Every step keeps the work explained.
LEMMA StepWorked ==
  ASSUME Overlap = FALSE, LedgerInv, LayersInv, WorkInv, HistoryKept', [Next]_vars
  PROVE  WorkInv'
<1> USE DEF env, files, local
<1>1. CASE Tick \/ RewriteInputs \/ UNCHANGED vars
  <2>1. /\ phase' = phase /\ rec' = rec /\ task' = task /\ job' = job /\ planFile' = planFile
        /\ stateFile' = stateFile /\ executed' = executed /\ failures' = failures
        /\ UNCHANGED <<faults, changes, claims, cfg, paths>>
    BY <1>1 DEF Tick, RewriteInputs, vars
  <2>2. /\ \A c \in Chunk : Explained(c)' = Explained(c)
        /\ \A r, c, options : Usable(r, c, options)' <=> Usable(r, c, options)
    BY <2>1 DEF Explained, Usable, BackedBy
  <2>3. \A p \in Process : (Outdated(p)' <=> Outdated(p)) /\ (Broken(p)' <=> Broken(p))
    BY <2>1 DEF Outdated, Broken
  <2>4. Left'
    BY <2>1, <2>2 DEF WorkInv, Left, One, Usable, BackedBy
  <2>5. \A p \in Process : Made(p)'
    BY <2>1 DEF WorkInv, Made, BackedBy
  <2>6. ASSUME NEW p \in Process PROVE Worked(p)'
    <3>1. /\ One(Outdated(p))' = One(Outdated(p)) /\ Owed(p)' = Owed(p)
          /\ \A c \in Chunk :
               /\ Shown(p, c)' = Shown(p, c)
               /\ One(Usable(rec[p][c], c, job[p]))' = One(Usable(rec[p][c], c, job[p]))
      BY <2>1, <2>3 DEF One, Owed, Shown, Usable, BackedBy
    <3>2. /\ phase[p] \in {"decide", "plan"} => \A c \in Chunk :
               executed[c] + One(Outdated(p)) <= Explained(c) + One(Usable(rec[p][c], c, job[p]))
          /\ phase[p] = "run" => \A c \in Chunk :
               executed[c] + Owed(p) <= Explained(c) + Shown(p, c)
      BY DEF WorkInv, Worked, Owed, Shown
    <3>3. /\ phase'[p] \in {"decide", "plan"} => \A c \in Chunk :
               executed'[c] + One(Outdated(p))'
                 <= Explained(c)' + One(Usable(rec[p][c], c, job[p]))'
          /\ phase'[p] = "run" => \A c \in Chunk :
               executed'[c] + Owed(p)' <= Explained(c)' + Shown(p, c)'
      BY <2>1, <2>2, <3>1, <3>2
    <3>4. QED
      BY <3>3 DEF Worked, Owed, Shown
  <2>7. QED
    BY <2>4, <2>5, <2>6 DEF WorkInv
<1>2. CASE \E p \in Process : StartRun(p)
  BY <1>2, StartWorked DEF LedgerInv
<1>3. ASSUME NEW p \in Process,
             \/ \E c \in Chunk : \/ ComputeChunk(p, c) \/ FailChunk(p, c) \/ WriteState(p, c)
                                 \/ WriteStateFails(p, c) \/ ExitChunk(p, c)
             \/ DecideChunks(p) \/ AbortRun(p) \/ MergeResults(p) \/ WritePlan(p)
             \/ WriteLayers(p)
      PROVE  WorkInv'
  BY <1>3, ThreadWorked, RunWorked
<1>4. QED
  BY <1>1, <1>2, <1>3, OtherWorked DEF Next, RunStep, Environment

\* If runs do not overlap, apart from failed attempts a chunk is executed once, and
\* once more at most for every lost run, change of options or foreign claim: whatever
\* the partitions, reuse works, or the repetition has a cause.
THEOREM WorkBoundHolds ==
  ASSUME Overlap = FALSE
  PROVE  Spec => []WorkBound
<1>1. Init => WorkInv
  <2> SUFFICES ASSUME Init PROVE WorkInv
    OBVIOUS
  <2>1. /\ \A c \in Chunk : executed[c] = 0 /\ Explained(c) = 0
        /\ \A p \in Process : phase[p] = "idle"
    BY DEF Init, NoHistory, Explained
  <2>2. QED
    BY <2>1 DEF WorkInv, Left, Worked, Made, One
<1>2. LedgerInv /\ LayersInv /\ (HistoryKept => WorkInv) /\ [Next]_vars =>
        (HistoryKept' => WorkInv')
  BY StepWorked, HistoryWasKept DEF LedgerInv
<1>3. LedgerInv /\ (HistoryKept => WorkInv) => WorkBound
  <2> SUFFICES ASSUME LedgerInv, WorkInv, NEW c \in Chunk
               PROVE  executed[c] <= failures[c] + 1 + faults + changes + claims
    BY DEF WorkBound
  <2>1. executed[c] <= Explained(c) + 1
    BY WorkIsBounded DEF LedgerInv
  <2>2. QED
    BY <2>1, WorkTypes DEF LedgerInv, Explained
<1>4. QED
  BY <1>1, <1>2, <1>3, LedgerInvariant, LayersInvariant, PTL DEF Spec
===============================================================================
