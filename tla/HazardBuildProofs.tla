--------------------------- MODULE HazardBuildProofs ---------------------------
(***************************************************************************)
(* Theorems about TrajectoryGeneration, for any number of chunks,          *)
(* processes and partitions, and about the composed build: every behaviour *)
(* of HazardBuild is one of the generation stage and one of the reducer,   *)
(* so it keeps what each of its stages promises.                           *)
(***************************************************************************)
EXTENDS HazardBuild, TLAPS

\* The idle values of a process's local state are well typed.
LEMMA IdleTyped ==
  /\ IdleOpening \in Opening
  /\ IdleTrajectories \in [TrajectoryChunk -> TrajectoryRecord]
<1>1. IdleOpening \in Opening
  BY TrajectoryProcessAssumption DEF IdleOpening, Opening
<1>2. IdleOpening.paths \in PathSet
  BY <1>1 DEF Opening
<1>3. FreshTrajectory(IdleOpening.paths) \in TrajectoryRecord
  BY <1>2 DEF FreshTrajectory, TrajectoryRecord, Ownership, Unclaimed, Signature
<1>4. QED
  BY <1>1, <1>3 DEF IdleTrajectories

\* A plan adopted from disk holds well-typed records.
LEMMA AdoptTyped ==
  ASSUME NEW ps \in PathSet, NEW r \in TrajectoryRecord, NEW now
  PROVE  AdoptTrajectory(r, ps, now) \in TrajectoryRecord
<1>1. FreshTrajectory(ps) \in TrajectoryRecord
  BY DEF FreshTrajectory, TrajectoryRecord, Ownership, Unclaimed, Signature
<1>2. MarkStale(r) \in TrajectoryRecord
  BY DEF MarkStale, TrajectoryRecord, Ownership
<1>3. QED
  BY <1>1, <1>2 DEF AdoptTrajectory

LEMMA OwnershipTyped ==
  ASSUME NEW o \in Owner, NEW now \in Nat
  PROVE  Released(o) \in Ownership /\ Claimed(o, now) \in Ownership
BY LeaseAssumption DEF Released, Claimed, Ownership

\* The branches of the decision loop.
LEMMA ChoiceCases ==
  ASSUME NEW p, NEW c
  PROVE  TrajectoryChoice(p, c) \in {"unscheduled", "skipped", "reused", "rejected", "planned"}
BY DEF TrajectoryChoice

\* Every branch of the decision loop yields a well-typed record.
LEMMA DecidedTyped ==
  ASSUME TypeOK, NEW p \in Process, NEW c \in TrajectoryChunk
  PROVE  TrajectoryDecided(p, c) \in TrajectoryRecord
<1>1. record[p][c] \in TrajectoryRecord /\ opened[p].now \in Nat /\ OwnerOf[p] \in Owner
  BY TrajectoryProcessAssumption DEF TypeOK, Opening
<1>2. /\ Released(OwnerOf[p]) \in Ownership
      /\ Claimed(OwnerOf[p], opened[p].now) \in Ownership
  BY <1>1, OwnershipTyped
<1>3. CASE TrajectoryChoice(p, c) \in {"unscheduled", "reused"}
  BY <1>1, <1>3 DEF TrajectoryDecided
<1>4. CASE TrajectoryChoice(p, c) = "skipped"
  BY <1>1, <1>2, <1>4 DEF TrajectoryDecided, TrajectoryRecord
<1>5. CASE TrajectoryChoice(p, c) = "rejected"
  BY <1>1, <1>2, <1>5 DEF TrajectoryDecided, TrajectoryRecord
<1>6. CASE TrajectoryChoice(p, c) = "planned"
  BY <1>1, <1>2, <1>6 DEF TrajectoryDecided, TrajectoryRecord
<1>7. QED
  BY <1>3, <1>4, <1>5, <1>6, ChoiceCases

\* Copying a chunk's result into its record keeps the record well typed.
LEMMA FinalTyped ==
  ASSUME TypeOK, NEW p \in Process, NEW c \in TrajectoryChunk
  PROVE  TrajectoryFinal(p, c) \in TrajectoryRecord
<1>1. /\ record[p][c] \in TrajectoryRecord /\ Released(OwnerOf[p]) \in Ownership
      /\ opened[p].signature \in Signature
  BY TrajectoryProcessAssumption DEF TypeOK, Released, Ownership, Opening, Signature
<1>2. CASE work[p][c] = "reused"
  BY <1>1, <1>2 DEF TrajectoryFinal, TrajectoryRecord
<1>3. CASE work[p][c] = "completed"
  BY <1>1, <1>3 DEF TrajectoryFinal, TrajectoryRecord
<1>4. CASE work[p][c] = "failed"
  <2>1. record[p][c].retry + 1 \in Nat
    BY <1>1 DEF TrajectoryRecord
  <2>2. TrajectoryFinal(p, c) =
          [record[p][c] EXCEPT !.completion = "failed", !.retry = @ + 1,
                               !.signature = opened[p].signature,
                               !.ownership = Released(OwnerOf[p])]
    BY <1>4 DEF TrajectoryFinal
  <2>3. QED
    BY <1>1, <2>1, <2>2 DEF TrajectoryRecord
<1>5. CASE work[p][c] \notin {"reused", "completed", "failed"}
  BY <1>1, <1>5 DEF TrajectoryFinal
<1>6. QED
  BY <1>2, <1>3, <1>4, <1>5
-------------------------------------------------------------------------------
(* Type correctness *)

\* The local state of every process, and of one that has just ended.
LocalTyped ==
  /\ stage \in [Process -> Stage]
  /\ opened \in [Process -> Opening]
  /\ record \in [Process -> [TrajectoryChunk -> TrajectoryRecord]]
  /\ work \in [Process -> [TrajectoryChunk -> Work]]
  /\ counted \in [Process -> [TrajectoryChunk -> Nat]]

LEMMA LeaveStageTyped ==
  ASSUME TypeOK, NEW p \in Process, LeaveStage(p)
  PROVE  LocalTyped'
<1>1. "idle" \in Stage /\ "idle" \in Work
  BY DEF Stage, Work
<1>2. QED
  BY <1>1, IdleTyped DEF TypeOK, LocalTyped, LeaveStage

LEMMA InitTyped ==
  clock = 0 /\ paths \in PathSet /\ version = 0 /\ changes = 0 /\ GenerationInit => TypeOK
<1> SUFFICES ASSUME clock = 0, paths \in PathSet, version = 0, changes = 0, GenerationInit
             PROVE  TypeOK
  OBVIOUS
<1>1. LocalTyped
  BY IdleTyped DEF GenerationInit, LocalTyped, Stage, Work
<1>2. QED
  BY <1>1 DEF GenerationInit, TypeOK, LocalTyped

\* The steps of the stage keep the types.
LEMMA GenerationStepTyped ==
  ASSUME TypeOK, NEW p \in Process, GenerationStep(p)
  PROVE  TypeOK'
<1> USE DEF setting, noFault, trajectoryFiles
<1>1. CASE DecideTrajectories(p)
  <2>1. [c \in TrajectoryChunk |-> TrajectoryDecided(p, c)]
          \in [TrajectoryChunk -> TrajectoryRecord]
    BY DecidedTyped
  <2>2. [c \in TrajectoryChunk |-> TrajectoryChoice(p, c)] \in [TrajectoryChunk -> Work]
    BY ChoiceCases DEF Work
  <2>3. \A c \in TrajectoryChunk :
          TrajectoryChoice(p, c) = "reused" => trajectoryState[c].contents \in Nat
    BY DEF TrajectoryChoice, TrajectoryReusable, TypeOK, TrajectoryState
  <2>4. [c \in TrajectoryChunk |->
           IF TrajectoryChoice(p, c) = "reused" THEN trajectoryState[c].contents ELSE 0]
          \in [TrajectoryChunk -> Nat]
    BY <2>3
  <2>5. LocalTyped'
    BY <1>1, <2>1, <2>2, <2>4 DEF DecideTrajectories, TypeOK, LocalTyped, Stage
  <2>6. QED
    BY <1>1, <2>5 DEF DecideTrajectories, TypeOK, LocalTyped
<1>2. ASSUME NEW c \in TrajectoryChunk, ReadTrajectories(p, c)
      PROVE  TypeOK'
  BY <1>2 DEF ReadTrajectories, TypeOK, Work
<1>3. ASSUME NEW c \in TrajectoryChunk, ReadFails(p, c)
      PROVE  TypeOK'
  <2>1. readFailures' \in [TrajectoryChunk -> Nat]
    BY <1>3 DEF ReadFails, TypeOK
  <2>2. work' \in [Process -> [TrajectoryChunk -> Work]]
    BY <1>3 DEF ReadFails, TypeOK, Work
  <2>3. QED
    BY <1>3, <2>1, <2>2 DEF ReadFails, TypeOK
<1>4. ASSUME NEW c \in TrajectoryChunk, WriteTrajectoryState(p, c)
      PROVE  TypeOK'
  <2>1. [paths |-> opened[p].paths, signature |-> opened[p].signature,
         contents |-> counted[p][c]] \in TrajectoryState
    BY DEF TypeOK, Opening, TrajectoryState
  <2>2. trajectoryState' \in [TrajectoryChunk -> TrajectoryState \cup {NoTrajectoryState}]
    BY <1>4, <2>1 DEF WriteTrajectoryState, TypeOK
  <2>3. work' \in [Process -> [TrajectoryChunk -> Work]]
    BY <1>4 DEF WriteTrajectoryState, TypeOK, Work
  <2>4. QED
    BY <1>4, <2>2, <2>3 DEF WriteTrajectoryState, TypeOK
<1>5. CASE AbortGeneration(p)
  BY <1>5, LeaveStageTyped DEF AbortGeneration, TypeOK, LocalTyped
<1>6. CASE CollectTrajectories(p)
  <2>1. [c \in TrajectoryChunk |-> TrajectoryFinal(p, c)]
          \in [TrajectoryChunk -> TrajectoryRecord]
    BY FinalTyped
  <2>2. LocalTyped'
    BY <1>6, <2>1 DEF CollectTrajectories, TypeOK, LocalTyped, Stage
  <2>3. QED
    BY <1>6, <2>2 DEF CollectTrajectories, TypeOK, LocalTyped
<1>7. CASE WriteTrajectoryPlan(p)
  <2>1. CASE GivenUp(p)
    BY <1>7, <2>1, LeaveStageTyped DEF WriteTrajectoryPlan, TypeOK, LocalTyped
  <2>2. CASE ~GivenUp(p)
    BY <1>7, <2>2 DEF WriteTrajectoryPlan, TypeOK, Stage
  <2>3. QED
    BY <2>1, <2>2
<1>8. QED
  BY <1>1, <1>2, <1>3, <1>4, <1>5, <1>6, <1>7 DEF GenerationStep

\* Starting and leaving the stage, faults and the environment keep the types.
LEMMA OtherStepTyped ==
  ASSUME TypeOK
  PROVE  /\ \A p \in Process : StartGeneration(p) => TypeOK'
         /\ \A p \in Process : GenerationFault(p) => TypeOK'
         /\ \A p \in Process : ReturnSummary(p) => TypeOK'
         /\ \A c \in TrajectoryChunk, o \in ForeignOwner : ClaimTrajectory(c, o) => TypeOK'
         /\ SettingChanges => TypeOK'
<1> USE DEF setting, noFault, trajectoryFiles
<1>1. ASSUME NEW p \in Process, StartGeneration(p) PROVE TypeOK'
  <2>1. \A c \in TrajectoryChunk :
          (IF trajectoryPlan = NoTrajectoryPlan THEN FreshTrajectory(paths)
           ELSE AdoptTrajectory(trajectoryPlan[c], paths, clock)) \in TrajectoryRecord
    <3>1. FreshTrajectory(paths) \in TrajectoryRecord
      BY DEF TypeOK, FreshTrajectory, TrajectoryRecord, Ownership, Unclaimed, Signature
    <3>2. QED
      BY <3>1, AdoptTyped DEF TypeOK
  <2>2. [paths |-> paths, now |-> clock, signature |-> version] \in Opening
    BY DEF TypeOK, Opening
  <2>3. LocalTyped'
    BY <1>1, <2>1, <2>2 DEF StartGeneration, TypeOK, LocalTyped, Stage
  <2>4. QED
    BY <1>1, <2>3 DEF StartGeneration, TypeOK, LocalTyped
<1>2. ASSUME NEW p \in Process, GenerationFault(p) PROVE TypeOK'
  <2>1. CASE \E c \in TrajectoryChunk : ReadExits(p, c)
    <3>1. work' \in [Process -> [TrajectoryChunk -> Work]]
      BY <2>1 DEF ReadExits, TypeOK, Work
    <3>2. trajectoryFaults' \in Nat /\ readFailures' \in [TrajectoryChunk -> Nat]
      <4>1. MaxTrajectoryFaults \in Nat /\ trajectoryFaults \in Nat
        BY TrajectoryCountsAssumption DEF TypeOK
      <4>2. QED
        BY <2>1, <4>1 DEF ReadExits, TypeOK
    <3>3. QED
      BY <2>1, <3>1, <3>2 DEF ReadExits, TypeOK
  <2>2. CASE \E c \in TrajectoryChunk : WriteTrajectoryStateFails(p, c)
    BY <2>2 DEF WriteTrajectoryStateFails, TypeOK, Work
  <2>3. CASE KillGeneration(p)
    BY <2>3, LeaveStageTyped DEF KillGeneration, TypeOK, LocalTyped
  <2>4. QED
    BY <1>2, <2>1, <2>2, <2>3 DEF GenerationFault
<1>3. ASSUME NEW p \in Process, ReturnSummary(p) PROVE TypeOK'
  BY <1>3, LeaveStageTyped DEF ReturnSummary, TypeOK, LocalTyped
<1>4. ASSUME NEW c \in TrajectoryChunk, NEW o \in ForeignOwner, ClaimTrajectory(c, o)
      PROVE  TypeOK'
  <2>1. Claimed(o, clock) \in Ownership
    BY OwnershipTyped, TrajectoryProcessAssumption DEF TypeOK
  <2>2. trajectoryPlan \in [TrajectoryChunk -> TrajectoryRecord]
    BY <1>4 DEF ClaimTrajectory, TypeOK
  <2>3. PICK completion \in {trajectoryPlan[c].completion, "not_started"} :
          trajectoryPlan' = [trajectoryPlan EXCEPT ![c].ownership = Claimed(o, clock),
                                                   ![c].completion = completion]
    BY <1>4 DEF ClaimTrajectory
  <2>4. completion \in {"not_started", "completed", "failed"}
    BY <2>2 DEF TrajectoryRecord
  <2>5. trajectoryPlan' \in [TrajectoryChunk -> TrajectoryRecord]
    BY <2>1, <2>2, <2>3, <2>4 DEF TrajectoryRecord
  <2>6. QED
    BY <1>4, <2>5 DEF ClaimTrajectory, TypeOK, trajectoryLocal
<1>5. ASSUME SettingChanges PROVE TypeOK'
  BY <1>5 DEF SettingChanges, TypeOK, generation, trajectoryLocal
<1>6. QED
  BY <1>1, <1>2, <1>3, <1>4, <1>5

LEMMA StutterTyped == TypeOK /\ UNCHANGED generationVars => TypeOK'
BY DEF TypeOK, generationVars, generation, setting, trajectoryFiles, trajectoryLocal

\* Every file, process and history variable of the stage keeps its type, whatever
\* the partitions, overlapping runs, kills and outside claims.
THEOREM TypeCorrect == GenerationSpec => []TypeOK
<1>1. TypeOK /\ [GenerationNext]_generationVars => TypeOK'
  <2> SUFFICES ASSUME TypeOK, [GenerationNext]_generationVars PROVE TypeOK'
    OBVIOUS
  <2>1. CASE GenerationNext
    BY <2>1, GenerationStepTyped, OtherStepTyped DEF GenerationNext
  <2>2. QED
    BY <2>1, StutterTyped
<1>2. QED
  BY <1>1, InitTyped, PTL DEF GenerationSpec
-------------------------------------------------------------------------------
(* The retry budget of a record *)

\* What a run in progress adds to it: only a chunk with budget left is read.
InBudget(p, c) ==
  /\ AttemptOK(record[p][c])
  /\ stage[p] = "run" =>
       /\ work[p][c] \in {"planned", "read", "completed", "failed"} =>
            record[p][c].retry < MaxAttempts
       /\ work[p][c] = "reused" => record[p][c].completion = "completed"

BudgetInv ==
  /\ trajectoryPlan # NoTrajectoryPlan =>
       \A c \in TrajectoryChunk : AttemptOK(trajectoryPlan[c])
  /\ \A p \in Process, c \in TrajectoryChunk : InBudget(p, c)

LEMMA FreshInBudget == \A ps : AttemptOK(FreshTrajectory(ps))
BY TrajectoryCountsAssumption DEF AttemptOK, FreshTrajectory

LEMMA AdoptInBudget ==
  ASSUME NEW r \in TrajectoryRecord, AttemptOK(r), NEW ps, NEW now
  PROVE  AttemptOK(AdoptTrajectory(r, ps, now))
<1>1. AttemptOK(MarkStale(r))
  BY DEF AttemptOK, MarkStale, TrajectoryRecord
<1>2. QED
  BY <1>1, FreshInBudget DEF AdoptTrajectory

\* The decision loop keeps within the budget, and plans only chunks that have some left.
LEMMA DecidedInBudget ==
  ASSUME TypeOK, NEW p \in Process, NEW c \in TrajectoryChunk, AttemptOK(record[p][c])
  PROVE  /\ AttemptOK(TrajectoryDecided(p, c))
         /\ TrajectoryChoice(p, c) = "planned" => TrajectoryDecided(p, c).retry < MaxAttempts
         /\ TrajectoryChoice(p, c) = "reused" => TrajectoryDecided(p, c).completion = "completed"
<1>1. record[p][c] \in TrajectoryRecord /\ MaxAttempts \in Nat \ {0}
  BY TrajectoryCountsAssumption DEF TypeOK
<1>2. CASE TrajectoryChoice(p, c) = "unscheduled"
  BY <1>2 DEF TrajectoryDecided
<1>3. CASE TrajectoryChoice(p, c) = "reused"
  BY <1>3 DEF TrajectoryDecided, TrajectoryChoice, TrajectoryReusable
<1>4. CASE TrajectoryChoice(p, c) = "skipped"
  BY <1>1, <1>4 DEF TrajectoryDecided, AttemptOK, TrajectoryRecord
<1>5. CASE TrajectoryChoice(p, c) = "rejected"
  <2>1. record[p][c].retry >= MaxAttempts
    BY <1>5 DEF TrajectoryChoice
  <2>2. TrajectoryDecided(p, c) =
          [record[p][c] EXCEPT !.completion = "failed", !.attempt = IF @ = 0 THEN 1 ELSE @,
                               !.ownership = Released(OwnerOf[p])]
    BY <1>5 DEF TrajectoryDecided
  <2>3. TrajectoryDecided(p, c).retry = record[p][c].retry
    BY <1>1, <2>2 DEF TrajectoryRecord
  <2>4. TrajectoryDecided(p, c).completion = "failed"
    BY <1>1, <2>2 DEF TrajectoryRecord
  <2>5. record[p][c].retry = MaxAttempts
    BY <1>1, <2>1 DEF AttemptOK, TrajectoryRecord
  <2>6. QED
    BY <1>1, <1>5, <2>3, <2>4, <2>5 DEF AttemptOK
<1>6. CASE TrajectoryChoice(p, c) = "planned"
  <2>1. ~(record[p][c].retry >= MaxAttempts)
    BY <1>6 DEF TrajectoryChoice
  <2>2. TrajectoryDecided(p, c) =
          [record[p][c] EXCEPT !.completion = IF @ = "completed" THEN "not_started" ELSE @,
                               !.ownership = Claimed(OwnerOf[p], opened[p].now)]
    BY <1>6 DEF TrajectoryDecided
  <2>3. /\ TrajectoryDecided(p, c).retry = record[p][c].retry
        /\ TrajectoryDecided(p, c).attempt = record[p][c].attempt
    BY <1>1, <2>2 DEF TrajectoryRecord
  <2>4. TrajectoryDecided(p, c).completion # "completed"
    BY <1>1, <2>2 DEF TrajectoryRecord
  <2>5. record[p][c].retry < MaxAttempts
    BY <1>1, <2>1 DEF TrajectoryRecord
  <2>6. QED
    BY <1>1, <1>6, <2>3, <2>4, <2>5 DEF AttemptOK
<1>7. QED
  BY <1>2, <1>3, <1>4, <1>5, <1>6, ChoiceCases

LEMMA FinalInBudget ==
  ASSUME TypeOK, NEW p \in Process, NEW c \in TrajectoryChunk, InBudget(p, c), stage[p] = "run"
  PROVE  AttemptOK(TrajectoryFinal(p, c))
<1>1. record[p][c] \in TrajectoryRecord /\ MaxAttempts \in Nat \ {0}
  BY TrajectoryCountsAssumption DEF TypeOK
<1>2. CASE work[p][c] = "reused"
  BY <1>1, <1>2 DEF TrajectoryFinal, InBudget, AttemptOK, TrajectoryRecord
<1>3. CASE work[p][c] = "completed"
  BY <1>1, <1>3 DEF TrajectoryFinal, InBudget, AttemptOK, TrajectoryRecord
<1>4. CASE work[p][c] = "failed"
  <2>1. TrajectoryFinal(p, c) =
          [record[p][c] EXCEPT !.completion = "failed", !.retry = @ + 1,
                               !.signature = opened[p].signature,
                               !.ownership = Released(OwnerOf[p])]
    BY <1>4 DEF TrajectoryFinal
  <2>2. QED
    BY <1>1, <1>4, <2>1 DEF InBudget, AttemptOK, TrajectoryRecord
<1>5. CASE work[p][c] \notin {"reused", "completed", "failed"}
  BY <1>5 DEF TrajectoryFinal, InBudget
<1>6. QED
  BY <1>2, <1>3, <1>4, <1>5

\* A process that leaves the stage keeps nothing that could exceed the budget.
LEMMA LeaveStageInBudget ==
  ASSUME TypeOK, BudgetInv, NEW p \in Process, LeaveStage(p)
  PROVE  \A q \in Process, c \in TrajectoryChunk : InBudget(q, c)'
<1>1. \A c \in TrajectoryChunk : AttemptOK(IdleTrajectories[c])
  BY FreshInBudget DEF IdleTrajectories
<1>2. QED
  BY <1>1 DEF LeaveStage, BudgetInv, InBudget, TypeOK

LEMMA BudgetStep ==
  ASSUME TypeOK, BudgetInv, GenerationNext
  PROVE  BudgetInv'
<1> USE DEF setting, noFault, trajectoryFiles
<1>1. ASSUME NEW p \in Process, StartGeneration(p) PROVE BudgetInv'
  <2>1. \A c \in TrajectoryChunk :
          AttemptOK(IF trajectoryPlan = NoTrajectoryPlan THEN FreshTrajectory(paths)
                    ELSE AdoptTrajectory(trajectoryPlan[c], paths, clock))
    BY FreshInBudget, AdoptInBudget DEF BudgetInv, TypeOK
  <2>2. QED
    BY <1>1, <2>1 DEF StartGeneration, BudgetInv, InBudget, TypeOK
<1>2. ASSUME NEW p \in Process, DecideTrajectories(p) PROVE BudgetInv'
  <2>1. \A c \in TrajectoryChunk : AttemptOK(record[p][c])
    BY DEF BudgetInv, InBudget
  <2>2. \A c \in TrajectoryChunk : InBudget(p, c)'
    BY <1>2, <2>1, DecidedInBudget, ChoiceCases DEF DecideTrajectories, InBudget, TypeOK
  <2>3. \A q \in Process \ {p}, c \in TrajectoryChunk : InBudget(q, c)'
    BY <1>2 DEF DecideTrajectories, BudgetInv, InBudget, TypeOK
  <2>4. QED
    BY <1>2, <2>2, <2>3 DEF DecideTrajectories, BudgetInv
<1>3. ASSUME NEW p \in Process, NEW c \in TrajectoryChunk,
             \/ ReadTrajectories(p, c) \/ ReadFails(p, c) \/ WriteTrajectoryState(p, c)
             \/ ReadExits(p, c) \/ WriteTrajectoryStateFails(p, c)
      PROVE  BudgetInv'
  <2>1. /\ trajectoryPlan' = trajectoryPlan /\ record' = record /\ stage' = stage
        /\ work[p][c] \in {"planned", "read"}
        /\ \E w \in {"read", "completed", "failed", "broken"} :
             work' = [work EXCEPT ![p][c] = w]
    BY <1>3 DEF ReadTrajectories, ReadFails, WriteTrajectoryState, ReadExits,
                WriteTrajectoryStateFails
  <2>2. QED
    BY <2>1 DEF BudgetInv, InBudget, TypeOK
<1>4. ASSUME NEW p \in Process, AbortGeneration(p) \/ ReturnSummary(p) PROVE BudgetInv'
  BY <1>4, LeaveStageInBudget DEF AbortGeneration, ReturnSummary, BudgetInv
<1>5. ASSUME NEW p \in Process, CollectTrajectories(p) PROVE BudgetInv'
  <2>1. \A c \in TrajectoryChunk : AttemptOK(TrajectoryFinal(p, c))
    BY <1>5, FinalInBudget DEF CollectTrajectories, BudgetInv
  <2>2. QED
    BY <1>5, <2>1 DEF CollectTrajectories, BudgetInv, InBudget, TypeOK
<1>6. ASSUME NEW p \in Process, WriteTrajectoryPlan(p) PROVE BudgetInv'
  <2>1. \A c \in TrajectoryChunk : AttemptOK(trajectoryPlan'[c])
    BY <1>6 DEF WriteTrajectoryPlan, BudgetInv, InBudget
  <2>2. CASE GivenUp(p)
    BY <1>6, <2>1, <2>2, LeaveStageInBudget DEF WriteTrajectoryPlan, BudgetInv
  <2>3. CASE ~GivenUp(p)
    BY <1>6, <2>1, <2>3 DEF WriteTrajectoryPlan, BudgetInv, InBudget, TypeOK
  <2>4. QED
    BY <2>2, <2>3
<1>7. ASSUME NEW p \in Process, KillGeneration(p) PROVE BudgetInv'
  BY <1>7, LeaveStageInBudget DEF KillGeneration, BudgetInv
<1>8. ASSUME NEW c \in TrajectoryChunk, NEW o \in ForeignOwner, ClaimTrajectory(c, o)
      PROVE  BudgetInv'
  <2>1. trajectoryPlan \in [TrajectoryChunk -> TrajectoryRecord]
    BY <1>8 DEF ClaimTrajectory, TypeOK
  <2>2. PICK completion \in {trajectoryPlan[c].completion, "not_started"} :
          trajectoryPlan' = [trajectoryPlan EXCEPT ![c].ownership = Claimed(o, clock),
                                                   ![c].completion = completion]
    BY <1>8 DEF ClaimTrajectory
  <2>3. \A d \in TrajectoryChunk : AttemptOK(trajectoryPlan[d])
    BY <1>8 DEF ClaimTrajectory, BudgetInv
  <2>4. \A d \in TrajectoryChunk : AttemptOK(trajectoryPlan'[d])
    BY <2>1, <2>2, <2>3 DEF AttemptOK, TrajectoryRecord
  <2>5. QED
    BY <1>8, <2>4 DEF ClaimTrajectory, trajectoryLocal, BudgetInv, InBudget
<1>9. CASE SettingChanges
  BY <1>9 DEF SettingChanges, generation, trajectoryLocal, BudgetInv, InBudget
<1>10. QED
  BY <1>1, <1>2, <1>3, <1>4, <1>5, <1>6, <1>7, <1>8, <1>9
  DEF GenerationNext, GenerationStep, GenerationFault

LEMMA BudgetInvariant == GenerationSpec => []BudgetInv
<1>1. clock = 0 /\ paths \in PathSet /\ version = 0 /\ changes = 0 /\ GenerationInit
        => BudgetInv
  BY FreshInBudget DEF GenerationInit, BudgetInv, InBudget, IdleTrajectories
<1>2. TypeOK /\ BudgetInv /\ [GenerationNext]_generationVars => BudgetInv'
  <2>1. TypeOK /\ BudgetInv /\ UNCHANGED generationVars => BudgetInv'
    BY DEF generationVars, generation, setting, trajectoryFiles, trajectoryLocal, BudgetInv,
           InBudget
  <2>2. QED
    BY <2>1, BudgetStep
<1>3. QED
  BY <1>1, <1>2, TypeCorrect, PTL DEF GenerationSpec

\* No record on disk or in memory exceeds the retry budget, attempt_count is positive
\* only for a chunk that was given up, and no completed chunk is ever given up.
THEOREM AttemptMeansGivenUpHolds == GenerationSpec => []AttemptMeansGivenUp
<1>1. BudgetInv => AttemptMeansGivenUp
  BY DEF BudgetInv, InBudget, AttemptMeansGivenUp
<1>2. QED
  BY <1>1, BudgetInvariant, PTL
-------------------------------------------------------------------------------
(* Counts are of current contents *)

\* Contents only get newer, and every file and memory remembers what it saw in order.
FreshInv ==
  /\ CountsCurrent
  /\ \A p \in Process, c \in TrajectoryChunk :
       stage[p] \in {"idle", "decide"} => work[p][c] = "idle"
  /\ \A p \in Process : opened[p].signature <= version
  /\ \A c \in TrajectoryChunk :
       trajectoryState[c] # NoTrajectoryState =>
         trajectoryState[c].signature <= trajectoryState[c].contents

LEMMA LeaveStageFresh ==
  ASSUME TypeOK, FreshInv, NEW p \in Process, LeaveStage(p)
  PROVE  /\ CountsCurrent'
         /\ \A q \in Process : opened'[q].signature <= version
         /\ \A q \in Process, c \in TrajectoryChunk :
              stage'[q] \in {"idle", "decide"} => work'[q][c] = "idle"
<1>1. IdleOpening.signature = 0
  BY DEF IdleOpening
<1>2. QED
  BY <1>1 DEF LeaveStage, FreshInv, CountsCurrent, TypeOK

LEMMA FreshStep ==
  ASSUME TypeOK, FreshInv, GenerationNext
  PROVE  FreshInv'
<1> USE DEF setting, noFault, trajectoryFiles
<1>1. ASSUME NEW p \in Process, StartGeneration(p) PROVE FreshInv'
  <2>1. opened'[p].signature = version /\ work' = work /\ stage'[p] = "decide"
    BY <1>1 DEF StartGeneration, TypeOK
  <2>2. \A q \in Process \ {p} : opened'[q] = opened[q] /\ stage'[q] = stage[q]
    BY <1>1 DEF StartGeneration, TypeOK
  <2>3. \A c \in TrajectoryChunk : work[p][c] = "idle"
    BY <1>1 DEF StartGeneration, FreshInv
  <2>4. CountsCurrent'
    BY <1>1, <2>1, <2>2, <2>3 DEF StartGeneration, FreshInv, CountsCurrent
  <2>5. QED
    BY <1>1, <2>1, <2>2, <2>3, <2>4 DEF StartGeneration, FreshInv, TypeOK
<1>2. ASSUME NEW p \in Process, DecideTrajectories(p) PROVE FreshInv'
  <2>1. \A c \in TrajectoryChunk :
          TrajectoryChoice(p, c) = "reused" =>
            trajectoryState[c].contents >= opened[p].signature
    BY DEF TrajectoryChoice, TrajectoryReusable, FreshInv, TypeOK, TrajectoryState, Opening
  <2>2. QED
    BY <1>2, <2>1, ChoiceCases DEF DecideTrajectories, FreshInv, CountsCurrent, TypeOK
<1>3. ASSUME NEW p \in Process, NEW c \in TrajectoryChunk, ReadTrajectories(p, c)
      PROVE  FreshInv'
  BY <1>3 DEF ReadTrajectories, FreshInv, CountsCurrent, TypeOK, Opening
<1>4. ASSUME NEW p \in Process, NEW c \in TrajectoryChunk, WriteTrajectoryState(p, c)
      PROVE  FreshInv'
  <2>1. counted[p][c] >= opened[p].signature
    BY <1>4 DEF WriteTrajectoryState, FreshInv, CountsCurrent
  <2>2. \A d \in TrajectoryChunk :
          trajectoryState'[d] # NoTrajectoryState =>
            trajectoryState'[d].signature <= trajectoryState'[d].contents
    BY <1>4, <2>1 DEF WriteTrajectoryState, FreshInv, TypeOK, Opening
  <2>3. CountsCurrent'
    BY <1>4, <2>1 DEF WriteTrajectoryState, FreshInv, CountsCurrent, TypeOK
  <2>4. QED
    BY <1>4, <2>2, <2>3 DEF WriteTrajectoryState, FreshInv
<1>5. ASSUME NEW p \in Process, NEW c \in TrajectoryChunk,
             ReadFails(p, c) \/ ReadExits(p, c) \/ WriteTrajectoryStateFails(p, c)
      PROVE  FreshInv'
  <2>1. /\ opened' = opened /\ counted' = counted /\ version' = version /\ stage' = stage
        /\ stage[p] = "run"
        /\ work' \in {[work EXCEPT ![p][c] = "failed"], [work EXCEPT ![p][c] = "broken"]}
        /\ trajectoryState' \in
             {trajectoryState, [trajectoryState EXCEPT ![c] = NoTrajectoryState]}
    BY <1>5 DEF ReadFails, ReadExits, WriteTrajectoryStateFails
  <2>2. \A q \in Process, d \in TrajectoryChunk :
          work'[q][d] = work[q][d] \/ (q = p /\ work'[q][d] \in {"failed", "broken"})
    BY <2>1 DEF TypeOK
  <2>3. \A d \in TrajectoryChunk :
          trajectoryState'[d] \in {trajectoryState[d], NoTrajectoryState}
    BY <2>1 DEF TypeOK
  <2>4. CountsCurrent'
    BY <2>1, <2>2 DEF FreshInv, CountsCurrent
  <2>5. QED
    BY <2>1, <2>2, <2>3, <2>4 DEF FreshInv
<1>6. ASSUME NEW p \in Process, AbortGeneration(p) \/ ReturnSummary(p) PROVE FreshInv'
  BY <1>6, LeaveStageFresh DEF AbortGeneration, ReturnSummary, FreshInv
<1>7. ASSUME NEW p \in Process, CollectTrajectories(p) PROVE FreshInv'
  BY <1>7 DEF CollectTrajectories, FreshInv, CountsCurrent
<1>8. ASSUME NEW p \in Process, WriteTrajectoryPlan(p) PROVE FreshInv'
  <2>1. CASE GivenUp(p)
    BY <1>8, <2>1, LeaveStageFresh DEF WriteTrajectoryPlan, FreshInv
  <2>2. CASE ~GivenUp(p)
    BY <1>8, <2>2 DEF WriteTrajectoryPlan, FreshInv, CountsCurrent, TypeOK
  <2>3. QED
    BY <2>1, <2>2
<1>9. ASSUME NEW p \in Process, KillGeneration(p) PROVE FreshInv'
  BY <1>9, LeaveStageFresh DEF KillGeneration, FreshInv
<1>10. ASSUME NEW c \in TrajectoryChunk, NEW o \in ForeignOwner, ClaimTrajectory(c, o)
       PROVE  FreshInv'
  BY <1>10 DEF ClaimTrajectory, trajectoryLocal, FreshInv, CountsCurrent
<1>11. CASE SettingChanges
  BY <1>11 DEF SettingChanges, generation, trajectoryLocal, FreshInv, CountsCurrent, TypeOK,
               Opening
<1>12. QED
  BY <1>1, <1>2, <1>3, <1>4, <1>5, <1>6, <1>7, <1>8, <1>9, <1>10, <1>11
  DEF GenerationNext, GenerationStep, GenerationFault

\* The counts a run goes on with are of contents at least as new as when it started,
\* reused ones included, even if runs overlap.
THEOREM CountsCurrentHolds == GenerationSpec => []CountsCurrent
<1>1. clock = 0 /\ paths \in PathSet /\ version = 0 /\ changes = 0 /\ GenerationInit
        => FreshInv
  BY DEF GenerationInit, FreshInv, CountsCurrent, IdleOpening
<1>2. TypeOK /\ FreshInv /\ [GenerationNext]_generationVars => FreshInv'
  <2>1. TypeOK /\ FreshInv /\ UNCHANGED generationVars => FreshInv'
    BY DEF generationVars, generation, setting, trajectoryFiles, trajectoryLocal, FreshInv,
           CountsCurrent
  <2>2. QED
    BY <2>1, FreshStep
<1>3. FreshInv => CountsCurrent
  BY DEF FreshInv
<1>4. QED
  BY <1>1, <1>2, <1>3, TypeCorrect, PTL DEF GenerationSpec
-------------------------------------------------------------------------------
(* Completed chunks have their states, if runs do not overlap *)

\* At most one process is in the stage.
Alone ==
  \A p \in Process, q \in Process : stage[p] # "idle" /\ stage[q] # "idle" => p = q

Backed(r, c) ==
  r.completion = "completed" =>
    /\ trajectoryState[c] # NoTrajectoryState
    /\ trajectoryState[c].paths = r.paths
    /\ trajectoryState[c].signature = r.signature

\* Where each chunk of a run in its threads stands.
RunBacked(p, c) ==
  /\ work[p][c] # "broken"
  /\ work[p][c] = "completed" =>
       /\ trajectoryState[c] # NoTrajectoryState
       /\ trajectoryState[c].paths = opened[p].paths
       /\ trajectoryState[c].signature = opened[p].signature
  /\ work[p][c] \in {"planned", "read", "failed"} => record[p][c].completion # "completed"
  /\ work[p][c] \notin {"planned", "read", "failed", "completed"} => Backed(record[p][c], c)

\* Outside a run's threads the plan is backed, inside them the run's own records are.
NoFaultBacked ==
  /\ (\A p \in Process : stage[p] \notin {"run", "plan"}) /\ trajectoryPlan # NoTrajectoryPlan =>
       \A c \in TrajectoryChunk : Backed(trajectoryPlan[c], c)
  /\ \A p \in Process, c \in TrajectoryChunk :
       /\ stage[p] \in {"decide", "plan"} => Backed(record[p][c], c)
       /\ stage[p] = "run" => RunBacked(p, c)

\* A run's records are of the path list it opened.
RecordPaths ==
  \A p \in Process, c \in TrajectoryChunk :
    stage[p] # "idle" => record[p][c].paths = opened[p].paths

BackedInv == Alone /\ RecordPaths /\ (trajectoryFaults = 0 => NoFaultBacked)

LEMMA AdoptPaths ==
  ASSUME NEW r \in TrajectoryRecord, NEW ps, NEW now
  PROVE  /\ AdoptTrajectory(r, ps, now).paths = ps
         /\ \A c : Backed(r, c) => Backed(AdoptTrajectory(r, ps, now), c)
<1>1. /\ MarkStale(r).paths = r.paths /\ MarkStale(r).signature = r.signature
      /\ MarkStale(r).completion = r.completion
  BY DEF MarkStale, TrajectoryRecord
<1>2. FreshTrajectory(ps).paths = ps /\ FreshTrajectory(ps).completion = "not_started"
  BY DEF FreshTrajectory
<1>3. QED
  BY <1>1, <1>2 DEF AdoptTrajectory, Backed

\* What the decision loop leaves of the path list, the completion and the signature.
LEMMA DecidedKeeps ==
  ASSUME TypeOK, NEW p \in Process, NEW c \in TrajectoryChunk
  PROVE  /\ TrajectoryDecided(p, c).paths = record[p][c].paths
         /\ TrajectoryDecided(p, c).signature = record[p][c].signature
         /\ TrajectoryDecided(p, c).retry = record[p][c].retry
         /\ TrajectoryChoice(p, c) \in {"unscheduled", "reused"} =>
              TrajectoryDecided(p, c).completion = record[p][c].completion
         /\ TrajectoryChoice(p, c) \notin {"unscheduled", "reused"} =>
              TrajectoryDecided(p, c).completion # "completed"
<1>1. record[p][c] \in TrajectoryRecord
  BY DEF TypeOK
<1>2. CASE TrajectoryChoice(p, c) \in {"unscheduled", "reused"}
  BY <1>2 DEF TrajectoryDecided
<1>3. CASE TrajectoryChoice(p, c) = "skipped"
  BY <1>1, <1>3 DEF TrajectoryDecided, TrajectoryRecord
<1>4. CASE TrajectoryChoice(p, c) = "rejected"
  BY <1>1, <1>4 DEF TrajectoryDecided, TrajectoryRecord
<1>5. CASE TrajectoryChoice(p, c) = "planned"
  BY <1>1, <1>5 DEF TrajectoryDecided, TrajectoryRecord
<1>6. QED
  BY <1>2, <1>3, <1>4, <1>5, ChoiceCases

LEMMA FinalKeeps ==
  ASSUME TypeOK, NEW p \in Process, NEW c \in TrajectoryChunk
  PROVE  /\ TrajectoryFinal(p, c).paths = record[p][c].paths
         /\ work[p][c] = "completed" => TrajectoryFinal(p, c).signature = opened[p].signature
         /\ work[p][c] = "failed" =>
              /\ TrajectoryFinal(p, c).completion = "failed"
              /\ TrajectoryFinal(p, c).retry = record[p][c].retry + 1
         /\ work[p][c] \notin {"completed", "failed"} =>
              /\ TrajectoryFinal(p, c).completion = record[p][c].completion
              /\ TrajectoryFinal(p, c).signature = record[p][c].signature
         /\ work[p][c] # "failed" => TrajectoryFinal(p, c).retry = record[p][c].retry
<1>1. record[p][c] \in TrajectoryRecord
  BY DEF TypeOK
<1>2. CASE work[p][c] = "reused"
  BY <1>1, <1>2 DEF TrajectoryFinal, TrajectoryRecord
<1>3. CASE work[p][c] = "completed"
  BY <1>1, <1>3 DEF TrajectoryFinal, TrajectoryRecord
<1>4. CASE work[p][c] = "failed"
  <2>1. TrajectoryFinal(p, c) =
          [record[p][c] EXCEPT !.completion = "failed", !.retry = @ + 1,
                               !.signature = opened[p].signature,
                               !.ownership = Released(OwnerOf[p])]
    BY <1>4 DEF TrajectoryFinal
  <2>2. QED
    BY <1>1, <1>4, <2>1 DEF TrajectoryRecord
<1>5. CASE work[p][c] \notin {"reused", "completed", "failed"}
  BY <1>5 DEF TrajectoryFinal
<1>6. QED
  BY <1>2, <1>3, <1>4, <1>5

LEMMA LeaveStageBacked ==
  ASSUME TypeOK, BackedInv, NEW p \in Process, LeaveStage(p)
  PROVE  /\ Alone' /\ RecordPaths'
         /\ stage'[p] = "idle"
         /\ \A q \in Process \ {p} :
              /\ stage'[q] = stage[q] /\ record'[q] = record[q]
              /\ work'[q] = work[q] /\ opened'[q] = opened[q]
         /\ stage[p] # "idle" => \A q \in Process : stage'[q] = "idle"
<1>1. /\ stage'[p] = "idle"
      /\ \A q \in Process \ {p} :
           /\ stage'[q] = stage[q] /\ record'[q] = record[q]
           /\ work'[q] = work[q] /\ opened'[q] = opened[q]
  BY DEF LeaveStage, TypeOK
<1>2. QED
  BY <1>1 DEF BackedInv, Alone, RecordPaths

LEMMA BackedStep ==
  ASSUME Overlap = FALSE, TypeOK, BackedInv, GenerationNext
  PROVE  BackedInv'
<1> USE DEF setting, noFault, trajectoryFiles
<1>1. ASSUME NEW p \in Process, StartGeneration(p) PROVE BackedInv'
  <2>1. /\ \A q \in Process : stage[q] = "idle"
        /\ stage'[p] = "decide" /\ \A q \in Process \ {p} : stage'[q] = "idle"
        /\ opened'[p].paths = paths
    BY <1>1 DEF StartGeneration, TypeOK
  <2>2. \A c \in TrajectoryChunk :
          record'[p][c] = IF trajectoryPlan = NoTrajectoryPlan THEN FreshTrajectory(paths)
                          ELSE AdoptTrajectory(trajectoryPlan[c], paths, clock)
    BY <1>1 DEF StartGeneration, TypeOK
  <2>3. Alone'
    BY <2>1 DEF Alone
  <2>4. RecordPaths'
    BY <2>1, <2>2, AdoptPaths DEF RecordPaths, FreshTrajectory, TypeOK
  <2>5. ASSUME NoFaultBacked PROVE NoFaultBacked'
    <3>1. trajectoryPlan # NoTrajectoryPlan =>
            \A c \in TrajectoryChunk : Backed(trajectoryPlan[c], c)
      BY <2>1, <2>5 DEF NoFaultBacked
    <3>2. \A c \in TrajectoryChunk : Backed(record'[p][c], c)
      BY <2>2, <3>1, AdoptPaths DEF Backed, FreshTrajectory, TypeOK
    <3>3. \A c \in TrajectoryChunk : Backed(record[p][c], c)'
      BY <1>1, <3>2 DEF StartGeneration, Backed
    <3>4. trajectoryPlan' = trajectoryPlan /\ trajectoryState' = trajectoryState
      BY <1>1 DEF StartGeneration
    <3>5. QED
      BY <2>1, <3>1, <3>3, <3>4 DEF NoFaultBacked, Backed
  <2>6. QED
    BY <1>1, <2>3, <2>4, <2>5 DEF StartGeneration, BackedInv
<1>2. ASSUME NEW p \in Process, DecideTrajectories(p) PROVE BackedInv'
  <2>1. /\ stage[p] = "decide" /\ stage'[p] = "run" /\ opened' = opened
        /\ \A q \in Process \ {p} : stage'[q] = stage[q] /\ record'[q] = record[q]
        /\ \A q \in Process \ {p} : stage[q] = "idle"
        /\ \A c \in TrajectoryChunk : record'[p][c] = TrajectoryDecided(p, c)
        /\ \A c \in TrajectoryChunk : work'[p][c] = TrajectoryChoice(p, c)
        /\ trajectoryState' = trajectoryState
    BY <1>2 DEF DecideTrajectories, TypeOK, BackedInv, Alone
  <2>2. Alone' /\ RecordPaths'
    BY <2>1, DecidedKeeps DEF BackedInv, Alone, RecordPaths
  <2>3. ASSUME NoFaultBacked PROVE NoFaultBacked'
    <3>1. \A c \in TrajectoryChunk : Backed(record[p][c], c)
      BY <2>1, <2>3 DEF NoFaultBacked
    <3>2. \A c \in TrajectoryChunk : RunBacked(p, c)'
      BY <2>1, <3>1, DecidedKeeps, ChoiceCases DEF RunBacked, Backed
    <3>3. QED
      BY <2>1, <3>2 DEF NoFaultBacked
  <2>4. QED
    BY <1>2, <2>2, <2>3 DEF DecideTrajectories, BackedInv
<1>3. ASSUME NEW p \in Process, NEW c \in TrajectoryChunk,
             ReadTrajectories(p, c) \/ ReadFails(p, c) \/ WriteTrajectoryState(p, c)
      PROVE  BackedInv'
  <2>1. /\ stage[p] = "run" /\ stage' = stage /\ record' = record /\ opened' = opened
        /\ trajectoryPlan' = trajectoryPlan /\ trajectoryFaults' = trajectoryFaults
        /\ work[p][c] \in {"planned", "read"}
    BY <1>3 DEF ReadTrajectories, ReadFails, WriteTrajectoryState
  <2>2. \A q \in Process \ {p} : stage[q] = "idle"
    BY <2>1 DEF BackedInv, Alone
  <2>3. \A d \in TrajectoryChunk \ {c} :
          work'[p][d] = work[p][d] /\ trajectoryState'[d] = trajectoryState[d]
    BY <1>3 DEF ReadTrajectories, ReadFails, WriteTrajectoryState, TypeOK
  <2>4. \/ work'[p][c] \in {"read", "failed"}
        \/ /\ work'[p][c] = "completed"
           /\ trajectoryState'[c] =
                [paths |-> opened[p].paths, signature |-> opened[p].signature,
                 contents |-> counted[p][c]]
    BY <1>3 DEF ReadTrajectories, ReadFails, WriteTrajectoryState, TypeOK
  <2>5. [paths |-> opened[p].paths, signature |-> opened[p].signature,
         contents |-> counted[p][c]] # NoTrajectoryState
    BY TrajectoryDataAssumption DEF TypeOK, TrajectoryState, Opening
  <2>6. ASSUME NoFaultBacked PROVE NoFaultBacked'
    <3>1. \A d \in TrajectoryChunk : RunBacked(p, d)
      BY <2>1, <2>6 DEF NoFaultBacked
    <3>2. \A d \in TrajectoryChunk \ {c} : RunBacked(p, d)'
      BY <2>1, <2>3, <3>1 DEF RunBacked, Backed
    <3>3. RunBacked(p, c)'
      BY <2>1, <2>4, <2>5, <3>1 DEF RunBacked
    <3>4. QED
      BY <2>1, <2>2, <3>2, <3>3 DEF NoFaultBacked
  <2>7. QED
    BY <2>1, <2>6 DEF BackedInv, Alone, RecordPaths
<1>4. ASSUME NEW p \in Process, AbortGeneration(p) PROVE BackedInv'
  <2>1. trajectoryFaults # 0
    BY <1>4 DEF AbortGeneration, ReaderBroken, BackedInv, NoFaultBacked, RunBacked
  <2>2. QED
    BY <1>4, <2>1, LeaveStageBacked DEF AbortGeneration, BackedInv
<1>5. ASSUME NEW p \in Process, ReturnSummary(p) PROVE BackedInv'
  <2>1. /\ stage[p] = "done" /\ \A q \in Process : stage'[q] = "idle"
        /\ \A q \in Process \ {p} : stage[q] = "idle"
    BY <1>5, LeaveStageBacked DEF ReturnSummary, BackedInv, Alone
  <2>2. ASSUME NoFaultBacked PROVE NoFaultBacked'
    BY <1>5, <2>1, <2>2 DEF ReturnSummary, NoFaultBacked, Backed
  <2>3. QED
    BY <1>5, <2>2, LeaveStageBacked DEF ReturnSummary, BackedInv
<1>6. ASSUME NEW p \in Process, CollectTrajectories(p) PROVE BackedInv'
  <2>1. /\ stage[p] = "run" /\ stage'[p] = "plan" /\ opened' = opened
        /\ \A q \in Process \ {p} : stage'[q] = stage[q] /\ record'[q] = record[q]
        /\ \A q \in Process \ {p} : stage[q] = "idle"
        /\ \A c \in TrajectoryChunk : record'[p][c] = TrajectoryFinal(p, c)
        /\ trajectoryState' = trajectoryState
        /\ \A c \in TrajectoryChunk : work[p][c] \notin {"planned", "read"}
    BY <1>6 DEF CollectTrajectories, ReadersDone, TypeOK, BackedInv, Alone
  <2>2. Alone' /\ RecordPaths'
    BY <2>1, FinalKeeps DEF BackedInv, Alone, RecordPaths
  <2>3. ASSUME NoFaultBacked PROVE NoFaultBacked'
    <3>1. \A c \in TrajectoryChunk : RunBacked(p, c) /\ record[p][c].paths = opened[p].paths
      BY <2>1, <2>3 DEF NoFaultBacked, BackedInv, RecordPaths
    <3>2. \A c \in TrajectoryChunk : Backed(record[p][c], c)'
      BY <2>1, <3>1, FinalKeeps DEF RunBacked, Backed
    <3>3. QED
      BY <2>1, <3>2 DEF NoFaultBacked
  <2>4. QED
    BY <1>6, <2>2, <2>3 DEF CollectTrajectories, BackedInv
<1>7. ASSUME NEW p \in Process, WriteTrajectoryPlan(p) PROVE BackedInv'
  <2>1. /\ stage[p] = "plan" /\ trajectoryPlan' = record[p]
        /\ trajectoryState' = trajectoryState
        /\ \A q \in Process \ {p} : stage[q] = "idle"
    BY <1>7 DEF WriteTrajectoryPlan, BackedInv, Alone
  <2>2. /\ stage'[p] \in {"idle", "done"}
        /\ \A q \in Process \ {p} : stage'[q] = "idle"
        /\ Alone' /\ RecordPaths'
    <3>1. CASE GivenUp(p)
      BY <1>7, <2>1, <3>1, LeaveStageBacked DEF WriteTrajectoryPlan
    <3>2. CASE ~GivenUp(p)
      BY <1>7, <2>1, <3>2 DEF WriteTrajectoryPlan, TypeOK, BackedInv, Alone, RecordPaths
    <3>3. QED
      BY <3>1, <3>2
  <2>3. ASSUME NoFaultBacked PROVE NoFaultBacked'
    <3>1. \A c \in TrajectoryChunk : Backed(trajectoryPlan[c], c)'
      BY <2>1, <2>3 DEF NoFaultBacked, Backed
    <3>2. QED
      BY <2>2, <3>1 DEF NoFaultBacked
  <2>4. QED
    BY <1>7, <2>2, <2>3 DEF WriteTrajectoryPlan, BackedInv
<1>8. ASSUME NEW p \in Process, GenerationFault(p) PROVE BackedInv'
  <2>1. trajectoryFaults' # 0
    BY <1>8, TrajectoryCountsAssumption
       DEF GenerationFault, ReadExits, WriteTrajectoryStateFails, KillGeneration, TypeOK
  <2>2. CASE KillGeneration(p)
    BY <2>1, <2>2, LeaveStageBacked DEF KillGeneration, BackedInv
  <2>3. CASE \E c \in TrajectoryChunk : ReadExits(p, c) \/ WriteTrajectoryStateFails(p, c)
    BY <2>1, <2>3 DEF ReadExits, WriteTrajectoryStateFails, BackedInv, Alone, RecordPaths
  <2>4. QED
    BY <1>8, <2>2, <2>3 DEF GenerationFault
<1>9. ASSUME NEW c \in TrajectoryChunk, NEW o \in ForeignOwner, ClaimTrajectory(c, o)
      PROVE  BackedInv'
  <2>1. trajectoryPlan \in [TrajectoryChunk -> TrajectoryRecord] /\ trajectoryPlan # NoTrajectoryPlan
    BY <1>9 DEF ClaimTrajectory, TypeOK
  <2>2. PICK completion \in {trajectoryPlan[c].completion, "not_started"} :
          trajectoryPlan' = [trajectoryPlan EXCEPT ![c].ownership = Claimed(o, clock),
                                                   ![c].completion = completion]
    BY <1>9 DEF ClaimTrajectory
  <2>3. \A d \in TrajectoryChunk :
          /\ trajectoryPlan'[d].completion \in {trajectoryPlan[d].completion, "not_started"}
          /\ trajectoryPlan'[d].paths = trajectoryPlan[d].paths
          /\ trajectoryPlan'[d].signature = trajectoryPlan[d].signature
    BY <2>1, <2>2 DEF TrajectoryRecord
  <2>4. /\ \A p \in Process : stage[p] = "idle"
        /\ stage' = stage /\ record' = record /\ opened' = opened /\ work' = work
        /\ trajectoryState' = trajectoryState /\ trajectoryFaults' = trajectoryFaults
    BY <1>9 DEF ClaimTrajectory, trajectoryLocal
  <2>5. ASSUME NoFaultBacked PROVE NoFaultBacked'
    BY <2>1, <2>3, <2>4, <2>5 DEF NoFaultBacked, Backed
  <2>6. QED
    BY <2>4, <2>5 DEF BackedInv, Alone, RecordPaths
<1>10. CASE SettingChanges
  BY <1>10 DEF SettingChanges, generation, trajectoryLocal, BackedInv, Alone, RecordPaths,
               NoFaultBacked, RunBacked, Backed
<1>11. QED
  BY <1>1, <1>2, <1>3, <1>4, <1>5, <1>6, <1>7, <1>8, <1>9, <1>10
  DEF GenerationNext, GenerationStep

LEMMA BackedInvariant ==
  ASSUME Overlap = FALSE
  PROVE  GenerationSpec => []BackedInv
<1>1. clock = 0 /\ paths \in PathSet /\ version = 0 /\ changes = 0 /\ GenerationInit
        => BackedInv
  BY DEF GenerationInit, BackedInv, Alone, RecordPaths, NoFaultBacked
<1>2. TypeOK /\ BackedInv /\ [GenerationNext]_generationVars => BackedInv'
  <2>1. TypeOK /\ BackedInv /\ UNCHANGED generationVars => BackedInv'
    BY DEF generationVars, generation, setting, trajectoryFiles, trajectoryLocal, BackedInv,
           Alone, RecordPaths, NoFaultBacked, RunBacked, Backed
  <2>2. QED
    BY <2>1, BackedStep
<1>3. QED
  BY <1>1, <1>2, TypeCorrect, PTL DEF GenerationSpec

\* If runs do not overlap and none was ever lost, every chunk the plan calls completed
\* has a partial state of the path list and the signature of its record.
THEOREM CompletedIsBackedHolds ==
  ASSUME Overlap = FALSE
  PROVE  GenerationSpec => []CompletedIsBacked
<1>1. BackedInv => CompletedIsBacked
  BY DEF BackedInv, NoFaultBacked, Backed, CompletedIsBacked
<1>2. QED
  BY <1>1, BackedInvariant, PTL
-------------------------------------------------------------------------------
(* Failed readings are bounded, if runs do not overlap *)

\* The budgets that lost runs and changes of path lists may have forgotten.
Budgets(lost, changed) == MaxAttempts * (lost + changed)
Forgotten == Budgets(trajectoryFaults, changes)

\* The failures of a chunk that the next run will adopt from the plan.
DiskRetry(c) ==
  IF trajectoryPlan = NoTrajectoryPlan THEN 0
  ELSE IF trajectoryPlan[c].paths # paths THEN 0 ELSE trajectoryPlan[c].retry

\* The failures of a chunk a run in progress knows of.
RunRetry(p, c) ==
  record[p][c].retry + IF stage[p] = "run" /\ work[p][c] = "failed" THEN 1 ELSE 0

\* What a run in progress knows will not reach the next one.
Lost(p) == opened[p].paths # paths \/ (stage[p] = "run" /\ ReaderBroken(p))

FailureInv ==
  /\ (\A p \in Process : stage[p] \in {"idle", "done"}) =>
       \A c \in TrajectoryChunk : readFailures[c] <= Forgotten + DiskRetry(c)
  /\ \A p \in Process, c \in TrajectoryChunk :
       stage[p] \in {"decide", "run", "plan"} =>
         readFailures[c] + (IF Lost(p) THEN MaxAttempts ELSE 0) <= Forgotten + RunRetry(p, c)

\* One more run lost, or at least one more change, is at least one more budget.
Later(f, n, g, k) == (g > f /\ k = n) \/ (g = f /\ k > n)

LEMMA BudgetsGrow ==
  ASSUME NEW f \in Nat, NEW n \in Nat, NEW g \in Nat, NEW k \in Nat
  PROVE  /\ Budgets(f, n) \in Nat
         /\ Later(f, n, g, k) => Budgets(g, k) >= Budgets(f, n) + MaxAttempts
         /\ MaxAttempts * (1 + f + n) = Budgets(f, n) + MaxAttempts
<1>1. MaxAttempts \in Nat
  BY TrajectoryCountsAssumption
<1>2. ASSUME NEW a \in Nat
      PROVE  MaxAttempts * a \in Nat /\ MaxAttempts * (1 + a) = MaxAttempts * a + MaxAttempts
  BY <1>1
<1>3. ASSUME NEW a \in Nat, NEW b \in Nat, b > a
      PROVE  MaxAttempts * b >= MaxAttempts * a + MaxAttempts
  <2>1. PICK j \in Nat : b = a + 1 + j
    <3>1. b - a - 1 \in Nat /\ b = a + 1 + (b - a - 1)
      BY <1>3
    <3>2. QED
      BY <3>1
  <2>2. MaxAttempts * b = MaxAttempts * a + MaxAttempts + MaxAttempts * j
        /\ MaxAttempts * j \in Nat
    BY <1>1, <2>1
  <2>3. QED
    BY <1>1, <1>2, <2>2
<1>4. f + n \in Nat /\ g + k \in Nat /\ (Later(f, n, g, k) => g + k > f + n)
  BY DEF Later
<1>5. 1 + f + n = 1 + (f + n)
  OBVIOUS
<1>6. QED
  BY <1>2, <1>3, <1>4, <1>5 DEF Budgets

\* The quantities the invariant compares.
LEMMA RetryTyped ==
  ASSUME TypeOK, BudgetInv
  PROVE  /\ MaxAttempts \in Nat /\ Forgotten \in Nat
         /\ \A c \in TrajectoryChunk :
              readFailures[c] \in Nat /\ DiskRetry(c) \in Nat /\ DiskRetry(c) <= MaxAttempts
         /\ \A p \in Process, c \in TrajectoryChunk :
              /\ RunRetry(p, c) \in Nat /\ RunRetry(p, c) <= MaxAttempts
              /\ record[p][c].retry \in Nat /\ record[p][c].retry <= MaxAttempts
<1>1. MaxAttempts \in Nat /\ trajectoryFaults \in Nat /\ changes \in Nat
  BY TrajectoryCountsAssumption DEF TypeOK
<1>2. Forgotten \in Nat
  BY <1>1, BudgetsGrow DEF Forgotten
<1>3. ASSUME NEW c \in TrajectoryChunk
      PROVE  readFailures[c] \in Nat /\ DiskRetry(c) \in Nat /\ DiskRetry(c) <= MaxAttempts
  BY <1>1 DEF DiskRetry, TypeOK, TrajectoryRecord, BudgetInv, AttemptOK
<1>4. ASSUME NEW p \in Process, NEW c \in TrajectoryChunk
      PROVE  /\ RunRetry(p, c) \in Nat /\ RunRetry(p, c) <= MaxAttempts
             /\ record[p][c].retry \in Nat /\ record[p][c].retry <= MaxAttempts
  BY <1>1 DEF RunRetry, TypeOK, TrajectoryRecord, BudgetInv, InBudget, AttemptOK
<1>5. QED
  BY <1>1, <1>2, <1>3, <1>4

\* In every state the failures exceed what may be forgotten by one budget at most.
LEMMA FailureInvBounds ==
  ASSUME TypeOK, BudgetInv, BackedInv, FailureInv
  PROVE  \A c \in TrajectoryChunk : readFailures[c] <= Forgotten + MaxAttempts
<1>1. CASE \A p \in Process : stage[p] \in {"idle", "done"}
  BY <1>1, RetryTyped DEF FailureInv
<1>2. CASE \E p \in Process : stage[p] \in {"decide", "run", "plan"}
  BY <1>2, RetryTyped DEF FailureInv
<1>3. QED
  BY <1>1, <1>2 DEF TypeOK, Stage

\* A step that loses a run forgets one budget more.
LEMMA ForgetsOne ==
  ASSUME TypeOK, TypeOK', Later(trajectoryFaults, changes, trajectoryFaults', changes')
  PROVE  Forgotten' >= Forgotten + MaxAttempts /\ Forgotten' \in Nat
<1>1. trajectoryFaults \in Nat /\ changes \in Nat
  BY DEF TypeOK
<1>2. trajectoryFaults' \in Nat /\ changes' \in Nat
  BY DEF TypeOK
<1>3. Forgotten' = Budgets(trajectoryFaults', changes')
  BY DEF Forgotten
<1>4. QED
  BY <1>1, <1>2, <1>3, BudgetsGrow DEF Forgotten

\* RetryTyped of the next state.
RetryFacts ==
  /\ Forgotten \in Nat
  /\ \A c \in TrajectoryChunk : readFailures[c] \in Nat /\ DiskRetry(c) \in Nat
  /\ \A p \in Process, c \in TrajectoryChunk : RunRetry(p, c) \in Nat

LEMMA NextRetryTyped == TypeOK' /\ BudgetInv' => RetryFacts'
<1>1. TypeOK /\ BudgetInv => RetryFacts
  BY RetryTyped DEF RetryFacts
<1>2. QED
  BY <1>1, PTL

\* The history that is kept has been kept from the start.
LEMMA HistoryWasKept ==
  ASSUME TypeOK, [GenerationNext]_generationVars, ReadHistoryKept'
  PROVE  ReadHistoryKept
<1> USE DEF noFault
<1>1. MaxTrajectoryFaults \in Nat /\ trajectoryFaults \in Nat
  BY TrajectoryCountsAssumption DEF TypeOK
<1>2. CASE trajectoryFaults' = trajectoryFaults
  BY <1>2 DEF ReadHistoryKept
<1>3. ASSUME NEW p \in Process, GenerationFault(p)
      PROVE  ReadHistoryKept
  BY <1>1, <1>3 DEF GenerationFault, ReadExits, WriteTrajectoryStateFails, KillGeneration,
                    ReadHistoryKept
<1>4. \A p \in Process :
        StartGeneration(p) \/ GenerationStep(p) \/ ReturnSummary(p) =>
          trajectoryFaults' = trajectoryFaults
  BY DEF StartGeneration, GenerationStep, ReturnSummary, DecideTrajectories, ReadTrajectories,
         ReadFails, WriteTrajectoryState, AbortGeneration, CollectTrajectories,
         WriteTrajectoryPlan
<1>5. /\ \A c \in TrajectoryChunk, o \in ForeignOwner :
           ClaimTrajectory(c, o) => trajectoryFaults' = trajectoryFaults
      /\ SettingChanges \/ UNCHANGED generationVars => trajectoryFaults' = trajectoryFaults
  BY DEF ClaimTrajectory, SettingChanges, generationVars, generation
<1>6. QED
  BY <1>2, <1>3, <1>4, <1>5 DEF GenerationNext

LEMMA FailureStep ==
  ASSUME Overlap = FALSE, TypeOK, TypeOK', BudgetInv, BudgetInv', BackedInv, FailureInv,
         ReadHistoryKept', GenerationNext
  PROVE  FailureInv'
<1> USE DEF setting, noFault, trajectoryFiles
<1>1. ASSUME NEW p \in Process, StartGeneration(p) PROVE FailureInv'
  <2>1. /\ \A q \in Process : stage[q] = "idle"
        /\ stage'[p] = "decide" /\ \A q \in Process \ {p} : stage'[q] = "idle"
        /\ opened'[p].paths = paths /\ paths' = paths
        /\ Forgotten' = Forgotten /\ readFailures' = readFailures
    BY <1>1 DEF StartGeneration, TypeOK, Forgotten
  <2>2. \A c \in TrajectoryChunk : record'[p][c].retry = DiskRetry(c)
    BY <1>1 DEF StartGeneration, TypeOK, DiskRetry, AdoptTrajectory, FreshTrajectory,
                MarkStale, TrajectoryRecord
  <2>3. ~Lost(p)' /\ \A c \in TrajectoryChunk : RunRetry(p, c)' = DiskRetry(c)
    BY <2>1, <2>2, RetryTyped DEF Lost, RunRetry
  <2>4. QED
    BY <2>1, <2>3, RetryTyped DEF FailureInv
<1>2. ASSUME NEW p \in Process, DecideTrajectories(p) PROVE FailureInv'
  <2>1. /\ stage[p] = "decide" /\ stage'[p] = "run" /\ opened' = opened /\ paths' = paths
        /\ \A q \in Process \ {p} : stage'[q] = "idle"
        /\ Forgotten' = Forgotten /\ readFailures' = readFailures
        /\ \A c \in TrajectoryChunk : record'[p][c] = TrajectoryDecided(p, c)
        /\ \A c \in TrajectoryChunk : work'[p][c] = TrajectoryChoice(p, c)
    BY <1>2 DEF DecideTrajectories, TypeOK, BackedInv, Alone, Forgotten
  <2>2. \A c \in TrajectoryChunk : RunRetry(p, c)' = RunRetry(p, c)
    BY <2>1, ChoiceCases, DecidedKeeps DEF RunRetry
  <2>3. Lost(p)' <=> Lost(p)
    BY <2>1, ChoiceCases DEF Lost, ReaderBroken
  <2>4. QED
    BY <2>1, <2>2, <2>3 DEF FailureInv
<1>3. ASSUME NEW p \in Process, NEW c \in TrajectoryChunk,
             ReadTrajectories(p, c) \/ ReadFails(p, c) \/ WriteTrajectoryState(p, c)
      PROVE  FailureInv'
  <2>1. /\ stage[p] = "run" /\ stage' = stage /\ record' = record /\ opened' = opened
        /\ paths' = paths /\ Forgotten' = Forgotten
        /\ work[p][c] \in {"planned", "read"}
        /\ \A q \in Process \ {p} : stage[q] = "idle"
    BY <1>3 DEF ReadTrajectories, ReadFails, WriteTrajectoryState, BackedInv, Alone, Forgotten
  <2>2. \A d \in TrajectoryChunk \ {c} :
          work'[p][d] = work[p][d] /\ readFailures'[d] = readFailures[d]
    BY <1>3 DEF ReadTrajectories, ReadFails, WriteTrajectoryState, TypeOK
  <2>3. \/ work'[p][c] \in {"read", "completed"} /\ readFailures'[c] = readFailures[c]
        \/ work'[p][c] = "failed" /\ readFailures'[c] = readFailures[c] + 1
    <3>1. ReadFails(p, c) => ReadHistoryKept
      BY HistoryWasKept DEF ReadFails, ReadHistoryKept
    <3>2. QED
      BY <1>3, <3>1 DEF ReadTrajectories, ReadFails, WriteTrajectoryState, TypeOK
  <2>4. Lost(p)' <=> Lost(p)
    BY <2>1, <2>2, <2>3 DEF Lost, ReaderBroken
  <2>5. \A d \in TrajectoryChunk \ {c} : RunRetry(p, d)' = RunRetry(p, d)
    BY <2>1, <2>2 DEF RunRetry
  <2>6. RunRetry(p, c)' - readFailures'[c] = RunRetry(p, c) - readFailures[c]
    BY <2>1, <2>3, RetryTyped DEF RunRetry
  <2>7. \A d \in TrajectoryChunk :
          readFailures'[d] + (IF Lost(p)' THEN MaxAttempts ELSE 0) <= Forgotten' + RunRetry(p, d)'
    <3>1. \A d \in TrajectoryChunk :
            readFailures[d] + (IF Lost(p) THEN MaxAttempts ELSE 0) <= Forgotten + RunRetry(p, d)
      BY <2>1 DEF FailureInv
    <3>2. RunRetry(p, c)' \in Nat /\ readFailures'[c] \in Nat
      BY NextRetryTyped DEF RetryFacts
    <3>3. readFailures'[c] + (IF Lost(p)' THEN MaxAttempts ELSE 0) <= Forgotten' + RunRetry(p, c)'
      BY <2>1, <2>4, <2>6, <3>1, <3>2, RetryTyped
    <3>4. QED
      BY <2>1, <2>2, <2>4, <2>5, <3>1, <3>3
  <2>8. QED
    BY <2>1, <2>7 DEF FailureInv
<1>4. ASSUME NEW p \in Process, AbortGeneration(p) PROVE FailureInv'
  <2>1. /\ stage[p] = "run" /\ Lost(p) /\ \A q \in Process : stage'[q] = "idle"
        /\ Forgotten' = Forgotten /\ readFailures' = readFailures
        /\ paths' = paths /\ trajectoryPlan' = trajectoryPlan
    BY <1>4, LeaveStageBacked DEF AbortGeneration, Lost, Forgotten
  <2>2. \A c \in TrajectoryChunk : readFailures[c] <= Forgotten
    BY <2>1, RetryTyped DEF FailureInv
  <2>3. QED
    BY <2>1, <2>2, RetryTyped DEF FailureInv, DiskRetry
<1>5. ASSUME NEW p \in Process, ReturnSummary(p) PROVE FailureInv'
  <2>1. /\ stage[p] = "done" /\ \A q \in Process : stage'[q] = "idle"
        /\ \A q \in Process \ {p} : stage[q] = "idle"
        /\ Forgotten' = Forgotten /\ readFailures' = readFailures
        /\ paths' = paths /\ trajectoryPlan' = trajectoryPlan
    BY <1>5, LeaveStageBacked DEF ReturnSummary, BackedInv, Alone, Forgotten
  <2>2. QED
    BY <2>1 DEF FailureInv, DiskRetry
<1>6. ASSUME NEW p \in Process, CollectTrajectories(p) PROVE FailureInv'
  <2>1. /\ stage[p] = "run" /\ stage'[p] = "plan" /\ opened' = opened /\ paths' = paths
        /\ \A q \in Process \ {p} : stage'[q] = "idle"
        /\ Forgotten' = Forgotten /\ readFailures' = readFailures
        /\ \A c \in TrajectoryChunk : record'[p][c] = TrajectoryFinal(p, c)
        /\ ~ReaderBroken(p)
    BY <1>6 DEF CollectTrajectories, TypeOK, BackedInv, Alone, Forgotten
  <2>2. \A c \in TrajectoryChunk : RunRetry(p, c)' = RunRetry(p, c)
    BY <2>1, FinalKeeps, RetryTyped DEF RunRetry
  <2>3. Lost(p)' <=> Lost(p)
    BY <2>1 DEF Lost
  <2>4. QED
    BY <2>1, <2>2, <2>3 DEF FailureInv
<1>7. ASSUME NEW p \in Process, WriteTrajectoryPlan(p) PROVE FailureInv'
  <2>1. /\ stage[p] = "plan" /\ trajectoryPlan' = record[p] /\ paths' = paths
        /\ Forgotten' = Forgotten /\ readFailures' = readFailures
        /\ \A q \in Process \ {p} : stage[q] = "idle"
    BY <1>7 DEF WriteTrajectoryPlan, BackedInv, Alone, Forgotten
  <2>2. \A q \in Process : stage'[q] \in {"idle", "done"}
    <3>1. CASE GivenUp(p)
      BY <1>7, <2>1, <3>1, LeaveStageBacked DEF WriteTrajectoryPlan
    <3>2. CASE ~GivenUp(p)
      BY <1>7, <2>1, <3>2 DEF WriteTrajectoryPlan, TypeOK
    <3>3. QED
      BY <3>1, <3>2
  <2>3. \A c \in TrajectoryChunk : record[p][c].paths = opened[p].paths
    BY <2>1 DEF BackedInv, RecordPaths
  <2>4. record[p] # NoTrajectoryPlan
    BY TrajectoryDataAssumption DEF TypeOK
  <2>5. ASSUME NEW c \in TrajectoryChunk
        PROVE  readFailures'[c] <= Forgotten' + DiskRetry(c)'
    <3>1. DiskRetry(c)' = IF opened[p].paths # paths THEN 0 ELSE record[p][c].retry
      BY <2>1, <2>3, <2>4 DEF DiskRetry
    <3>2. readFailures[c] + (IF Lost(p) THEN MaxAttempts ELSE 0) <= Forgotten + record[p][c].retry
      BY <2>1, RetryTyped DEF FailureInv, RunRetry
    <3>3. QED
      BY <2>1, <3>1, <3>2, RetryTyped DEF Lost
  <2>6. QED
    BY <2>2, <2>5 DEF FailureInv
<1>8. ASSUME NEW p \in Process, KillGeneration(p) PROVE FailureInv'
  <2>1. /\ \A q \in Process : stage'[q] = "idle"
        /\ Later(trajectoryFaults, changes, trajectoryFaults', changes')
        /\ readFailures' = readFailures
    BY <1>8, LeaveStageBacked DEF KillGeneration, TypeOK, Later, setting
  <2>2. \A c \in TrajectoryChunk : readFailures'[c] <= Forgotten'
    BY <2>1, ForgetsOne, FailureInvBounds, RetryTyped
  <2>3. \A c \in TrajectoryChunk :
          DiskRetry(c)' \in Nat /\ Forgotten' \in Nat /\ readFailures'[c] \in Nat
    BY NextRetryTyped DEF RetryFacts
  <2>4. QED
    BY <2>1, <2>2, <2>3 DEF FailureInv
<1>9. ASSUME NEW p \in Process, NEW c \in TrajectoryChunk,
             ReadExits(p, c) \/ WriteTrajectoryStateFails(p, c)
      PROVE  FailureInv'
  <2>1. /\ stage' = stage /\ stage[p] = "run"
        /\ Later(trajectoryFaults, changes, trajectoryFaults', changes')
        /\ readFailures' = readFailures
        /\ \A q \in Process \ {p} : stage[q] = "idle"
    <3>1. trajectoryFaults \in Nat /\ changes \in Nat
      BY DEF TypeOK
    <3>2. /\ trajectoryFaults' = trajectoryFaults + 1 /\ changes' = changes
          /\ stage' = stage /\ stage[p] = "run" /\ readFailures' = readFailures
      <4>1. MaxTrajectoryFaults \in Nat
        BY TrajectoryCountsAssumption
      <4>2. QED
        BY <1>9, <3>1, <4>1 DEF ReadExits, WriteTrajectoryStateFails, ReadHistoryKept
    <3>3. QED
      BY <3>1, <3>2 DEF BackedInv, Alone, Later
  <2>2. \A d \in TrajectoryChunk : RunRetry(p, d)' = RunRetry(p, d)
    BY <1>9 DEF ReadExits, WriteTrajectoryStateFails, RunRetry, TypeOK
  <2>3. \A d \in TrajectoryChunk : readFailures[d] <= Forgotten + RunRetry(p, d)
    BY <2>1, RetryTyped DEF FailureInv
  <2>4. \A d \in TrajectoryChunk :
          readFailures'[d] + (IF Lost(p)' THEN MaxAttempts ELSE 0) <= Forgotten' + RunRetry(p, d)'
    BY <2>1, <2>2, <2>3, ForgetsOne, RetryTyped
  <2>5. QED
    BY <2>1, <2>4 DEF FailureInv
<1>10. ASSUME NEW c \in TrajectoryChunk, NEW o \in ForeignOwner, ClaimTrajectory(c, o)
       PROVE  FailureInv'
  <2>1. trajectoryPlan \in [TrajectoryChunk -> TrajectoryRecord] /\ trajectoryPlan # NoTrajectoryPlan
    BY <1>10 DEF ClaimTrajectory, TypeOK
  <2>2. PICK completion \in {trajectoryPlan[c].completion, "not_started"} :
          trajectoryPlan' = [trajectoryPlan EXCEPT ![c].ownership = Claimed(o, clock),
                                                   ![c].completion = completion]
    BY <1>10 DEF ClaimTrajectory
  <2>3. /\ trajectoryPlan' \in [TrajectoryChunk -> TrajectoryRecord]
        /\ trajectoryPlan' # NoTrajectoryPlan
    <3>1. /\ \A d \in TrajectoryChunk : trajectoryPlan'[d] \in TrajectoryRecord
          /\ trajectoryPlan' = [d \in TrajectoryChunk |-> trajectoryPlan'[d]]
      <4>1. Claimed(o, clock) \in Ownership
        BY OwnershipTyped, TrajectoryProcessAssumption DEF TypeOK
      <4>2. completion \in {"not_started", "completed", "failed"}
        BY <2>1 DEF TrajectoryRecord
      <4>3. QED
        BY <2>1, <2>2, <4>1, <4>2 DEF TrajectoryRecord
    <3>2. QED
      BY <3>1, TrajectoryDataAssumption
  <2>4. \A d \in TrajectoryChunk :
          /\ trajectoryPlan'[d].paths = trajectoryPlan[d].paths
          /\ trajectoryPlan'[d].retry = trajectoryPlan[d].retry
    BY <2>1, <2>2 DEF TrajectoryRecord
  <2>5. /\ \A p \in Process : stage[p] = "idle"
        /\ stage' = stage /\ paths' = paths /\ readFailures' = readFailures
        /\ Forgotten' = Forgotten
    BY <1>10 DEF ClaimTrajectory, trajectoryLocal, Forgotten
  <2>6. \A d \in TrajectoryChunk : DiskRetry(d)' = DiskRetry(d)
    BY <2>1, <2>3, <2>4, <2>5 DEF DiskRetry
  <2>7. QED
    BY <2>5, <2>6 DEF FailureInv
<1>11. CASE SettingChanges
  <2>1. /\ stage' = stage /\ record' = record /\ opened' = opened /\ work' = work
        /\ readFailures' = readFailures /\ trajectoryPlan' = trajectoryPlan
        /\ trajectoryFaults' = trajectoryFaults
    BY <1>11 DEF SettingChanges, generation, trajectoryFiles, trajectoryLocal
  <2>2. \A p \in Process, c \in TrajectoryChunk : RunRetry(p, c)' = RunRetry(p, c)
    BY <2>1 DEF RunRetry
  <2>3. CASE changes' = changes
    <3>1. paths' = paths
      BY <1>11, <2>3 DEF SettingChanges, TypeOK
    <3>2. Forgotten' = Forgotten /\ \A c \in TrajectoryChunk : DiskRetry(c)' = DiskRetry(c)
      BY <2>1, <2>3, <3>1 DEF Forgotten, DiskRetry
    <3>3. \A p \in Process : Lost(p)' <=> Lost(p)
      BY <2>1, <3>1 DEF Lost, ReaderBroken
    <3>4. QED
      BY <2>1, <2>2, <3>2, <3>3 DEF FailureInv
  <2>4. CASE changes' # changes
    <3>1. Later(trajectoryFaults, changes, trajectoryFaults', changes')
      <4>1. trajectoryFaults \in Nat /\ changes \in Nat
        BY DEF TypeOK
      <4>2. changes' \in Nat /\ changes' >= changes
        BY <1>11 DEF SettingChanges
      <4>3. QED
        BY <2>1, <2>4, <4>1, <4>2 DEF Later
    <3>2. \A c \in TrajectoryChunk : readFailures[c] <= Forgotten'
      BY <3>1, ForgetsOne, FailureInvBounds, RetryTyped
    <3>3. \A c \in TrajectoryChunk :
            DiskRetry(c)' \in Nat /\ Forgotten' \in Nat /\ readFailures[c] \in Nat
      BY <2>1, NextRetryTyped DEF RetryFacts
    <3>4. \A p \in Process, c \in TrajectoryChunk :
            stage[p] \in {"decide", "run", "plan"} =>
              readFailures[c] <= Forgotten + RunRetry(p, c)
      BY RetryTyped DEF FailureInv
    <3>5. \A p \in Process, c \in TrajectoryChunk :
            stage[p] \in {"decide", "run", "plan"} =>
              readFailures[c] + MaxAttempts <= Forgotten' + RunRetry(p, c)
      BY <3>1, <3>4, ForgetsOne, RetryTyped
    <3>6. QED
      BY <2>1, <2>2, <3>2, <3>3, <3>5, RetryTyped DEF FailureInv
  <2>5. QED
    BY <2>3, <2>4
<1>12. QED
  BY <1>1, <1>2, <1>3, <1>4, <1>5, <1>6, <1>7, <1>8, <1>9, <1>10, <1>11
  DEF GenerationNext, GenerationStep, GenerationFault

\* If runs do not overlap, a chunk never fails more often than its budget, plus one
\* budget for every lost run and every change of path lists.
THEOREM ReadFailureBudgetHolds ==
  ASSUME Overlap = FALSE
  PROVE  GenerationSpec => []ReadFailureBudget
<1>1. clock = 0 /\ paths \in PathSet /\ version = 0 /\ changes = 0 /\ GenerationInit
        => FailureInv
  <2> SUFFICES ASSUME clock = 0, paths \in PathSet, version = 0, changes = 0, GenerationInit
               PROVE  FailureInv
    OBVIOUS
  <2>1. /\ trajectoryFaults = 0 /\ trajectoryPlan = NoTrajectoryPlan
        /\ \A p \in Process : stage[p] = "idle"
        /\ \A c \in TrajectoryChunk : readFailures[c] = 0
    BY DEF GenerationInit
  <2>2. Forgotten \in Nat
    BY <2>1, BudgetsGrow DEF Forgotten
  <2>3. \A c \in TrajectoryChunk : DiskRetry(c) = 0
    BY <2>1 DEF DiskRetry
  <2>4. \A c \in TrajectoryChunk : readFailures[c] <= Forgotten + DiskRetry(c)
    BY <2>1, <2>2, <2>3
  <2>5. \A p \in Process : stage[p] \notin {"decide", "run", "plan"}
    BY <2>1
  <2>6. QED
    BY <2>4, <2>5 DEF FailureInv
<1>2. TypeOK /\ TypeOK' /\ BudgetInv /\ BudgetInv' /\ BackedInv
        /\ (ReadHistoryKept => FailureInv) /\ [GenerationNext]_generationVars =>
          (ReadHistoryKept' => FailureInv')
  <2>1. FailureInv /\ UNCHANGED generationVars => FailureInv'
    BY DEF generationVars, generation, setting, trajectoryFiles, trajectoryLocal, FailureInv,
           Forgotten, DiskRetry, RunRetry, Lost, ReaderBroken
  <2>2. QED
    BY <2>1, FailureStep, HistoryWasKept
<1>3. TypeOK /\ BudgetInv /\ BackedInv /\ (ReadHistoryKept => FailureInv) => ReadFailureBudget
  <2> SUFFICES ASSUME TypeOK, BudgetInv, BackedInv, FailureInv, NEW c \in TrajectoryChunk
               PROVE  readFailures[c] <= MaxAttempts * (1 + trajectoryFaults + changes)
    BY DEF ReadFailureBudget
  <2>1. MaxAttempts \in Nat /\ trajectoryFaults \in Nat /\ changes \in Nat
    BY TrajectoryCountsAssumption DEF TypeOK
  <2>2. MaxAttempts * (1 + trajectoryFaults + changes) = Forgotten + MaxAttempts
    BY <2>1, BudgetsGrow DEF Forgotten
  <2>3. QED
    BY <2>2, FailureInvBounds
<1>4. QED
  BY <1>1, <1>2, <1>3, TypeCorrect, BudgetInvariant, BackedInvariant, PTL DEF GenerationSpec
-------------------------------------------------------------------------------
(* The composed build *)

\* The trajectory stage of a build is the stage on its own, whatever the reducer
\* that follows it does.
SettingTyped == clock \in Nat /\ paths \in PathSet /\ version \in Nat /\ changes \in Nat

LEMMA FirstSetting ==
  ASSUME BuildInit
  PROVE  SettingTyped /\ clock = 0 /\ version = 0 /\ changes = 0 /\ GenerationInit
<1>1. clock = 0 /\ version = 0 /\ changes = 0 /\ paths \in PathSet
  BY TrajectoryProcessAssumption DEF BuildInit, Reducer!Init, Reducer!IdleJob
<1>2. QED
  BY <1>1 DEF BuildInit, SettingTyped

\* A reducer's step leaves the environment alone.
LEMMA ReducerKeepsSetting ==
  ASSUME NEW p \in Process, Reducer!RunStep(p) \/ Reducer!StartRun(p) \/ Reducer!Crash(p)
           \/ \E c \in Reducer!Chunk : Reducer!ExitChunk(p, c) \/ Reducer!WriteStateFails(p, c)
  PROVE  UNCHANGED setting
<1>1. CASE Reducer!RunStep(p)
  BY <1>1 DEF Reducer!RunStep, Reducer!DecideChunks, Reducer!ComputeChunk, Reducer!FailChunk,
              Reducer!WriteState, Reducer!AbortRun, Reducer!MergeResults, Reducer!WritePlan,
              Reducer!WriteLayers, Reducer!env, setting
<1>2. CASE Reducer!StartRun(p)
  BY <1>2 DEF Reducer!StartRun, Reducer!env, setting
<1>3. CASE Reducer!Crash(p)
  BY <1>3 DEF Reducer!Crash, Reducer!env, setting
<1>4. CASE \E c \in Reducer!Chunk : Reducer!ExitChunk(p, c) \/ Reducer!WriteStateFails(p, c)
  BY <1>4 DEF Reducer!ExitChunk, Reducer!WriteStateFails, Reducer!env, setting
<1>5. QED
  BY <1>1, <1>2, <1>3, <1>4

LEMMA ClaimKeepsSetting ==
  ASSUME NEW c, NEW o, Reducer!ForeignClaim(c, o)
  PROVE  UNCHANGED setting
BY DEF Reducer!ForeignClaim, setting

\* A generation step leaves the environment alone.
LEMMA GenerationKeepsSetting ==
  ASSUME NEW p \in Process, GenerationStep(p) \/ GenerationFault(p) \/ ReturnSummary(p)
           \/ StartGeneration(p)
  PROVE  UNCHANGED setting
<1>1. CASE GenerationStep(p)
  BY <1>1 DEF GenerationStep, DecideTrajectories, ReadTrajectories, ReadFails,
              WriteTrajectoryState, AbortGeneration, CollectTrajectories, WriteTrajectoryPlan,
              noFault, setting
<1>2. CASE GenerationFault(p)
  BY <1>2 DEF GenerationFault, ReadExits, WriteTrajectoryStateFails, KillGeneration, setting
<1>3. CASE ReturnSummary(p) \/ StartGeneration(p)
  BY <1>3 DEF ReturnSummary, StartGeneration, noFault, setting
<1>4. QED
  BY <1>1, <1>2, <1>3

LEMMA SettingStep ==
  ASSUME SettingTyped, BuildSettingChanges
  PROVE  SettingChanges
<1>1. /\ clock' \in Nat /\ clock' >= clock
      /\ version' \in Nat /\ version' >= version
      /\ paths' \in PathSet
      /\ changes' \in Nat /\ changes' >= changes /\ (paths' # paths => changes' > changes)
  <2>1. CASE Reducer!Tick
    BY <2>1 DEF Reducer!Tick, SettingTyped
  <2>2. CASE Reducer!RewriteInputs
    BY <2>2 DEF Reducer!RewriteInputs, SettingTyped
  <2>3. CASE Reducer!Reconfigure
    BY <2>3 DEF Reducer!Reconfigure, SettingTyped
  <2>4. QED
    BY <2>1, <2>2, <2>3 DEF BuildSettingChanges
<1>2. QED
  BY <1>1 DEF BuildSettingChanges, SettingChanges

LEMMA StepOfGeneration ==
  ASSUME SettingTyped, [BuildNext]_buildVars
  PROVE  [GenerationNext]_generationVars
<1>1. ASSUME NEW p \in Process, StartBuild(p) \/ BuildStep(p) \/ BuildFault(p) \/ BuildExit(p)
      PROVE  GenerationNext \/ UNCHANGED generationVars
  <2>1. CASE StartBuild(p)
    BY <2>1 DEF StartBuild, GenerationNext
  <2>2. CASE GenerationStep(p) \/ StartReducer(p) \/ GenerationFault(p)
    BY <2>2 DEF StartReducer, GenerationNext
  <2>3. CASE UNCHANGED generation
             /\ (Reducer!RunStep(p) \/ Reducer!Crash(p)
                 \/ \E c \in Reducer!Chunk :
                      Reducer!ExitChunk(p, c) \/ Reducer!WriteStateFails(p, c))
    BY <2>3, ReducerKeepsSetting DEF generationVars
  <2>4. CASE BuildExit(p)
    BY <2>2, <2>3, <2>4 DEF BuildExit, GenerationFault
  <2>5. QED
    BY <1>1, <2>1, <2>2, <2>3, <2>4 DEF BuildStep, BuildFault
<1>2. CASE OutsideClaim
  BY <1>2, ClaimKeepsSetting DEF OutsideClaim, GenerationNext, generationVars
<1>3. CASE BuildSettingChanges
  BY <1>3, SettingStep DEF GenerationNext
<1>4. CASE UNCHANGED buildVars
  BY <1>4 DEF buildVars
<1>5. QED
  BY <1>1, <1>2, <1>3, <1>4 DEF BuildNext

LEMMA SettingStays ==
  ASSUME SettingTyped, [GenerationNext]_generationVars
  PROVE  SettingTyped'
<1>1. CASE UNCHANGED setting
  BY <1>1 DEF setting, SettingTyped
<1>2. CASE SettingChanges
  BY <1>2 DEF SettingChanges, SettingTyped
<1>3. CASE \E c \in TrajectoryChunk, o \in ForeignOwner : ClaimTrajectory(c, o)
  BY <1>1, <1>3 DEF ClaimTrajectory
<1>4. CASE UNCHANGED generationVars
  BY <1>1, <1>4 DEF generationVars
<1>5. QED
  BY <1>1, <1>2, <1>3, <1>4, GenerationKeepsSetting DEF GenerationNext

\* The trajectory stage of a build behaves as the stage does on its own, so that
\* every theorem about it holds of the build.
THEOREM GenerationImplemented == BuildSpec => ImplementsGeneration
<1>1. BuildInit => SettingTyped /\ clock = 0 /\ version = 0 /\ changes = 0 /\ GenerationInit
  BY FirstSetting
<1>2. SettingTyped => paths \in PathSet
  BY DEF SettingTyped
<1>3. SettingTyped /\ [BuildNext]_buildVars => SettingTyped' /\ [GenerationNext]_generationVars
  BY StepOfGeneration, SettingStays
<1>4. QED
  BY <1>1, <1>2, <1>3, PTL DEF BuildSpec, ImplementsGeneration, GenerationSpec
-------------------------------------------------------------------------------
(* The reducer *)

\* The setting a reducer shares with the stage, and the rest of its variables.
LEMMA ReducerStutters ==
  ASSUME UNCHANGED setting, UNCHANGED reducer
  PROVE  UNCHANGED Reducer!vars
BY DEF setting, reducer, Reducer!vars, Reducer!env, Reducer!files, Reducer!local

LEMMA StepOfReducer ==
  ASSUME [BuildNext]_buildVars
  PROVE  [Reducer!Next]_(Reducer!vars)
<1>1. ASSUME NEW p \in Process, StartBuild(p) \/ BuildStep(p) \/ BuildFault(p) \/ BuildExit(p)
      PROVE  Reducer!Next \/ UNCHANGED Reducer!vars
  <2>1. CASE StartBuild(p)
    BY <2>1, GenerationKeepsSetting, ReducerStutters DEF StartBuild
  <2>2. CASE (GenerationStep(p) \/ GenerationFault(p)) /\ UNCHANGED reducer
    BY <2>2, GenerationKeepsSetting, ReducerStutters
  <2>3. CASE Reducer!StartRun(p) \/ Reducer!RunStep(p) \/ Reducer!Crash(p)
    BY <2>3 DEF Reducer!Next
  <2>4. CASE \E c \in Reducer!Chunk : Reducer!ExitChunk(p, c) \/ Reducer!WriteStateFails(p, c)
    BY <2>4 DEF Reducer!Next
  <2>5. CASE BuildExit(p)
    BY <2>2, <2>4, <2>5 DEF BuildExit, GenerationFault
  <2>6. QED
    BY <1>1, <2>1, <2>2, <2>3, <2>4, <2>5 DEF BuildStep, BuildFault, StartReducer
<1>2. CASE OutsideClaim
  <2>1. CASE \E c \in TrajectoryChunk, o \in ForeignOwner :
               ClaimTrajectory(c, o) /\ UNCHANGED reducer
    BY <2>1, ReducerStutters DEF ClaimTrajectory, setting
  <2>2. CASE \E c \in Reducer!Chunk, o \in ForeignOwner : Reducer!ForeignClaim(c, o)
    BY <2>2 DEF Reducer!Next, Reducer!Environment
  <2>3. QED
    BY <1>2, <2>1, <2>2 DEF OutsideClaim
<1>3. CASE BuildSettingChanges
  BY <1>3 DEF BuildSettingChanges, Reducer!Next, Reducer!Environment
<1>4. CASE UNCHANGED buildVars
  BY <1>4, ReducerStutters DEF buildVars, generationVars
<1>5. QED
  BY <1>1, <1>2, <1>3, <1>4 DEF BuildNext

\* The reducer of a build behaves as the reducer does on its own, although its runs
\* start only when the stage before them has ended.
THEOREM ReducerImplemented == BuildSpec => ImplementsReducer
<1>1. BuildInit => Reducer!Init
  BY DEF BuildInit
<1>2. [BuildNext]_buildVars => [Reducer!Next]_(Reducer!vars)
  BY StepOfReducer
<1>3. QED
  BY <1>1, <1>2, PTL DEF BuildSpec, ImplementsReducer, Reducer!Spec
-------------------------------------------------------------------------------
(* What is proved of the stage holds of the build *)

\* In a build, too, no record exceeds the retry budget of its stage, an attempt
\* count is positive only for a chunk that was given up, and the counts passed on
\* are of contents as new as the run.
THEOREM BuildKeepsGeneration == BuildSpec => [](AttemptMeansGivenUp /\ CountsCurrent)
BY GenerationImplemented, AttemptMeansGivenUpHolds, CountsCurrentHolds, PTL
   DEF ImplementsGeneration
-------------------------------------------------------------------------------
(* A chunk given up stops the build, if builds do not overlap *)

Mine(p, c) == c % SchedulerCount = SchedulerIndex[p]

\* The decision loop has answered for every chunk that was given up.
Answered(p, c) ==
  Mine(p, c) /\ record[p][c].attempt > 0 =>
    \/ work[p][c] = "rejected"
    \/ work[p][c] = "skipped" /\ record[p][c].completion = "not_started"

PlanSettled(p) ==
  /\ trajectoryPlan # NoTrajectoryPlan
  /\ \A c \in TrajectoryChunk :
       Mine(p, c) /\ trajectoryPlan[c].attempt > 0 => trajectoryPlan[c].completion = "not_started"

\* One process at a time is in either stage, and it carries the answer from one to
\* the other in the plan.
GateInv ==
  /\ phase \in [Process -> Reducer!Phase]
  /\ Alone
  /\ \A p \in Process, q \in Process : phase[p] # "idle" /\ phase[q] # "idle" => p = q
  /\ \A p \in Process, q \in Process : phase[p] # "idle" => stage[q] = "idle"
  /\ \A p \in Process, c \in TrajectoryChunk : stage[p] \in {"run", "plan"} => Answered(p, c)
  /\ \A p \in Process : stage[p] = "done" \/ phase[p] # "idle" => PlanSettled(p)

\* An attempt count is positive only without budget, so the choice is not to read.
LEMMA DecidedAnswers ==
  ASSUME TypeOK, BudgetInv, NEW p \in Process, NEW c \in TrajectoryChunk,
         Mine(p, c), TrajectoryDecided(p, c).attempt > 0
  PROVE  \/ TrajectoryChoice(p, c) = "rejected"
         \/ TrajectoryChoice(p, c) = "skipped"
            /\ TrajectoryDecided(p, c).completion = "not_started"
<1>1. /\ record[p][c] \in TrajectoryRecord /\ MaxAttempts \in Nat \ {0}
      /\ AttemptOK(record[p][c])
  BY TrajectoryCountsAssumption DEF TypeOK, BudgetInv, InBudget
<1>2. CASE TrajectoryChoice(p, c) = "unscheduled"
  BY <1>2 DEF TrajectoryChoice, Mine
<1>3. CASE TrajectoryChoice(p, c) = "reused"
  <2>1. record[p][c].completion = "completed" /\ record[p][c].attempt > 0
    BY <1>3 DEF TrajectoryDecided, TrajectoryChoice, TrajectoryReusable
  <2>2. QED
    BY <1>1, <2>1 DEF AttemptOK
<1>4. CASE TrajectoryChoice(p, c) = "skipped"
  BY <1>1, <1>4 DEF TrajectoryDecided, TrajectoryRecord
<1>5. CASE TrajectoryChoice(p, c) = "planned"
  <2>1. TrajectoryDecided(p, c) =
          [record[p][c] EXCEPT !.completion = IF @ = "completed" THEN "not_started" ELSE @,
                               !.ownership = Claimed(OwnerOf[p], opened[p].now)]
    BY <1>5 DEF TrajectoryDecided
  <2>2. record[p][c].attempt > 0
    BY <1>1, <2>1 DEF TrajectoryRecord
  <2>3. ~(record[p][c].retry >= MaxAttempts)
    BY <1>5 DEF TrajectoryChoice
  <2>4. QED
    BY <1>1, <2>2, <2>3 DEF AttemptOK, TrajectoryRecord
<1>6. QED
  BY <1>2, <1>3, <1>4, <1>5, ChoiceCases

\* Whoever is in the stage is alone in the build.
LEMMA OthersIdle ==
  ASSUME GateInv, NEW p \in Process, stage[p] # "idle"
  PROVE  /\ \A q \in Process : phase[q] = "idle"
         /\ \A q \in Process \ {p} : stage[q] = "idle"
BY DEF GateInv, Alone

\* A process that leaves the stage takes no obligation along.
LEMMA LeaveGate ==
  ASSUME TypeOK, GateInv, NEW p \in Process, stage[p] # "idle", LeaveStage(p), phase' = phase
  PROVE  GateInv'
<1>1. \A q \in Process : stage'[q] = "idle" /\ phase'[q] = "idle"
  BY OthersIdle DEF LeaveStage, TypeOK
<1>2. QED
  BY <1>1 DEF GateInv, Alone

LEMMA GateGeneration ==
  ASSUME TypeOK, BudgetInv, GateInv, phase' = phase, NEW p \in Process,
         GenerationStep(p) \/ GenerationFault(p)
  PROVE  GateInv'
<1> USE DEF noFault, setting, trajectoryFiles
<1>1. CASE DecideTrajectories(p)
  <2>1. /\ stage[p] = "decide" /\ stage'[p] = "run"
        /\ \A q \in Process \ {p} : stage'[q] = stage[q]
        /\ \A c \in TrajectoryChunk : record'[p][c] = TrajectoryDecided(p, c)
        /\ \A c \in TrajectoryChunk : work'[p][c] = TrajectoryChoice(p, c)
    BY <1>1 DEF DecideTrajectories, TypeOK
  <2>2. \A c \in TrajectoryChunk : Answered(p, c)'
    BY <2>1, DecidedAnswers DEF Answered, Mine
  <2>3. QED
    BY <2>1, <2>2, OthersIdle DEF GateInv, Alone
<1>2. CASE \E c \in TrajectoryChunk :
             \/ ReadTrajectories(p, c) \/ ReadFails(p, c) \/ WriteTrajectoryState(p, c)
             \/ ReadExits(p, c) \/ WriteTrajectoryStateFails(p, c)
  <2>1. PICK c \in TrajectoryChunk :
          /\ record' = record /\ stage' = stage
          /\ stage[p] = "run" /\ work[p][c] \in {"planned", "read"}
          /\ \E w \in Work : work' = [work EXCEPT ![p][c] = w]
    BY <1>2 DEF ReadTrajectories, ReadFails, WriteTrajectoryState, ReadExits,
                WriteTrajectoryStateFails, Work
  <2>2. \A d \in TrajectoryChunk : Answered(p, d)
    BY <2>1 DEF GateInv
  <2>3. \A d \in TrajectoryChunk : Answered(p, d)'
    BY <2>1, <2>2 DEF Answered, Mine, TypeOK
  <2>4. QED
    BY <2>1, <2>3, OthersIdle DEF GateInv, Alone
<1>3. CASE AbortGeneration(p)
  BY <1>3, LeaveGate DEF AbortGeneration
<1>4. CASE CollectTrajectories(p)
  <2>1. /\ stage[p] = "run" /\ stage'[p] = "plan" /\ work' = work
        /\ \A q \in Process \ {p} : stage'[q] = stage[q]
        /\ \A c \in TrajectoryChunk : record'[p][c] = TrajectoryFinal(p, c)
    BY <1>4 DEF CollectTrajectories, TypeOK
  <2>2. ASSUME NEW c \in TrajectoryChunk PROVE Answered(p, c)'
    <3>1. record[p][c] \in TrajectoryRecord /\ Answered(p, c)
      BY <2>1 DEF GateInv, TypeOK
    <3>2. TrajectoryFinal(p, c).attempt = record[p][c].attempt
          /\ (work[p][c] \in {"rejected", "skipped"} => TrajectoryFinal(p, c) = record[p][c])
      BY <3>1 DEF TrajectoryFinal, TrajectoryRecord
    <3>3. QED
      BY <2>1, <3>1, <3>2 DEF Answered, Mine
  <2>3. QED
    BY <2>1, <2>2, OthersIdle DEF GateInv, Alone
<1>5. CASE WriteTrajectoryPlan(p)
  <2>1. CASE GivenUp(p)
    BY <1>5, <2>1, LeaveGate DEF WriteTrajectoryPlan
  <2>2. CASE ~GivenUp(p)
    <3>1. /\ stage[p] = "plan" /\ stage'[p] = "done" /\ trajectoryPlan' = record[p]
          /\ \A q \in Process \ {p} : stage'[q] = stage[q]
          /\ \A c \in TrajectoryChunk : work[p][c] # "rejected"
      BY <1>5, <2>2 DEF WriteTrajectoryPlan, GivenUp, TypeOK
    <3>2. trajectoryPlan' # NoTrajectoryPlan
      BY <3>1, TrajectoryDataAssumption DEF TypeOK
    <3>3. \A c \in TrajectoryChunk : Answered(p, c)
      BY <3>1 DEF GateInv
    <3>4. PlanSettled(p)'
      BY <3>1, <3>2, <3>3 DEF PlanSettled, Answered, Mine
    <3>5. QED
      BY <3>1, <3>4, OthersIdle DEF GateInv, Alone
  <2>3. QED
    BY <2>1, <2>2
<1>6. CASE KillGeneration(p)
  BY <1>6, LeaveGate DEF KillGeneration
<1>7. QED
  BY <1>1, <1>2, <1>3, <1>4, <1>5, <1>6 DEF GenerationStep, GenerationFault

\* A reducer's own steps start no run.
LEMMA PhaseFrame ==
  ASSUME phase \in [Process -> Reducer!Phase], NEW p \in Process,
         Reducer!RunStep(p) \/ Reducer!Crash(p)
           \/ \E c \in Reducer!Chunk : Reducer!ExitChunk(p, c) \/ Reducer!WriteStateFails(p, c)
  PROVE  /\ phase' \in [Process -> Reducer!Phase]
         /\ \A q \in Process : phase'[q] # "idle" => phase[q] # "idle"
<1>1. phase[p] # "idle" /\ \E v \in Reducer!Phase : phase' = [phase EXCEPT ![p] = v]
  <2>1. CASE Reducer!RunStep(p)
    BY <2>1 DEF Reducer!RunStep, Reducer!DecideChunks, Reducer!ComputeChunk, Reducer!FailChunk,
                Reducer!WriteState, Reducer!AbortRun, Reducer!MergeResults, Reducer!WritePlan,
                Reducer!WriteLayers, Reducer!BecomeIdle, Reducer!Phase
  <2>2. CASE Reducer!Crash(p)
    BY <2>2 DEF Reducer!Crash, Reducer!BecomeIdle, Reducer!Phase
  <2>3. CASE \E c \in Reducer!Chunk : Reducer!ExitChunk(p, c) \/ Reducer!WriteStateFails(p, c)
    BY <2>3 DEF Reducer!ExitChunk, Reducer!WriteStateFails, Reducer!Phase
  <2>4. QED
    BY <2>1, <2>2, <2>3
<1>2. QED
  BY <1>1

LEMMA GateStep ==
  ASSUME Overlap = FALSE, TypeOK, BudgetInv, GateInv, BuildNext
  PROVE  GateInv'
<1>1. ASSUME NEW p \in Process, StartBuild(p) PROVE GateInv'
  <2>1. /\ phase' = phase /\ \A q \in Process : phase[q] = "idle"
        /\ stage'[p] = "decide" /\ \A q \in Process \ {p} : stage'[q] = "idle"
    BY <1>1 DEF StartBuild, StartGeneration, reducer, TypeOK
  <2>2. QED
    BY <2>1 DEF GateInv, Alone
<1>2. ASSUME NEW p \in Process, UNCHANGED reducer, GenerationStep(p) \/ GenerationFault(p)
      PROVE  GateInv'
  BY <1>2, GateGeneration DEF reducer
<1>3. ASSUME NEW p \in Process, StartReducer(p) PROVE GateInv'
  <2>1. stage[p] = "done" /\ phase[p] = "idle" /\ trajectoryPlan' = trajectoryPlan
    BY <1>3 DEF StartReducer, ReturnSummary, Reducer!StartRun, trajectoryFiles
  <2>2. \A q \in Process : stage'[q] = "idle"
    BY <1>3, <2>1, OthersIdle DEF StartReducer, ReturnSummary, LeaveStage, TypeOK
  <2>3. /\ phase' \in [Process -> Reducer!Phase]
        /\ \A q \in Process \ {p} : phase'[q] = "idle"
    BY <1>3, <2>1, OthersIdle DEF StartReducer, Reducer!StartRun, Reducer!Phase, GateInv
  <2>4. PlanSettled(p)'
    BY <2>1 DEF GateInv, PlanSettled
  <2>5. QED
    BY <2>2, <2>3, <2>4 DEF GateInv, Alone
<1>4. ASSUME NEW p \in Process, UNCHANGED generation,
             Reducer!RunStep(p) \/ Reducer!Crash(p)
               \/ \E c \in Reducer!Chunk :
                    Reducer!ExitChunk(p, c) \/ Reducer!WriteStateFails(p, c)
      PROVE  GateInv'
  <2>1. /\ phase' \in [Process -> Reducer!Phase]
        /\ \A q \in Process : phase'[q] # "idle" => phase[q] # "idle"
    BY <1>4, PhaseFrame DEF GateInv
  <2>2. /\ stage' = stage /\ record' = record /\ work' = work
        /\ trajectoryPlan' = trajectoryPlan
    BY <1>4 DEF generation, trajectoryFiles, trajectoryLocal
  <2>3. QED
    BY <2>1, <2>2 DEF GateInv, Alone, Answered, PlanSettled, Mine
<1>5. ASSUME NEW c \in TrajectoryChunk, NEW o \in ForeignOwner, ClaimTrajectory(c, o),
             UNCHANGED reducer
      PROVE  GateInv'
  <2>1. /\ trajectoryPlan \in [TrajectoryChunk -> TrajectoryRecord]
        /\ phase' = phase /\ stage' = stage
        /\ \A q \in Process : stage[q] = "idle"
    BY <1>5 DEF ClaimTrajectory, reducer, trajectoryLocal, TypeOK
  <2>2. PICK completion \in {trajectoryPlan[c].completion, "not_started"} :
          trajectoryPlan' = [trajectoryPlan EXCEPT ![c].ownership = Claimed(o, clock),
                                                   ![c].completion = completion]
    BY <1>5 DEF ClaimTrajectory
  <2>3. \A d \in TrajectoryChunk :
          /\ trajectoryPlan'[d].attempt = trajectoryPlan[d].attempt
          /\ trajectoryPlan'[d].completion \in {trajectoryPlan[d].completion, "not_started"}
    BY <2>1, <2>2 DEF TrajectoryRecord
  <2>4. trajectoryPlan' \in [TrajectoryChunk -> TrajectoryRecord]
    <3>1. Claimed(o, clock) \in Ownership
      BY OwnershipTyped, TrajectoryProcessAssumption DEF TypeOK
    <3>2. completion \in {"not_started", "completed", "failed"}
      BY <2>1 DEF TrajectoryRecord
    <3>3. QED
      BY <2>1, <2>2, <3>1, <3>2 DEF TrajectoryRecord
  <2>5. trajectoryPlan' # NoTrajectoryPlan
    BY <2>4, TrajectoryDataAssumption
  <2>6. ASSUME NEW p \in Process, PlanSettled(p) PROVE PlanSettled(p)'
    BY <2>3, <2>5, <2>6 DEF PlanSettled, Mine
  <2>7. QED
    BY <2>1, <2>6 DEF GateInv, Alone
<1>6. CASE (\E c \in Reducer!Chunk, o \in ForeignOwner : Reducer!ForeignClaim(c, o))
             /\ UNCHANGED generation
  <2>1. phase' = phase
    BY <1>6 DEF Reducer!ForeignClaim, Reducer!local
  <2>2. QED
    BY <1>6, <2>1 DEF generation, trajectoryFiles, trajectoryLocal, GateInv, Alone, Answered,
                      PlanSettled, Mine
<1>7. CASE BuildSettingChanges
  <2>1. phase' = phase
    BY <1>7 DEF BuildSettingChanges, Reducer!Tick, Reducer!RewriteInputs, Reducer!Reconfigure,
                Reducer!local
  <2>2. QED
    BY <1>7, <2>1 DEF BuildSettingChanges, generation, trajectoryFiles, trajectoryLocal, GateInv,
                      Alone, Answered, PlanSettled, Mine
<1>8. ASSUME NEW p \in Process, BuildExit(p) PROVE GateInv'
  BY <1>2, <1>4, <1>8 DEF BuildExit, GenerationFault
<1>9. QED
  BY <1>1, <1>2, <1>3, <1>4, <1>5, <1>6, <1>7, <1>8
     DEF BuildNext, BuildStep, BuildFault, OutsideClaim

\* If builds do not overlap, no build reduces while its own partition holds a
\* trajectory chunk that was given up, unless another owner has it at the moment.
THEOREM GivenUpStopsBuildHolds ==
  ASSUME Overlap = FALSE
  PROVE  BuildSpec => []GivenUpStopsBuild
<1>1. BuildInit => GateInv
  BY DEF BuildInit, Reducer!Init, Reducer!Phase, GenerationInit, GateInv, Alone
<1>2. TypeOK /\ BudgetInv /\ GateInv /\ [BuildNext]_buildVars => GateInv'
  <2>1. GateInv /\ UNCHANGED buildVars => GateInv'
    BY DEF buildVars, generationVars, generation, setting, trajectoryFiles, trajectoryLocal,
           reducer, GateInv, Alone, Answered, PlanSettled, Mine
  <2>2. QED
    BY <2>1, GateStep
<1>3. GateInv => GivenUpStopsBuild
  BY DEF GateInv, GivenUpStopsBuild, PlanSettled, Mine
<1>4. QED
  BY <1>1, <1>2, <1>3, GenerationImplemented, TypeCorrect, BudgetInvariant, PTL
  DEF BuildSpec, ImplementsGeneration
===============================================================================
