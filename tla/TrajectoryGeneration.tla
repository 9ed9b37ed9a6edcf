-------------------------- MODULE TrajectoryGeneration --------------------------
(***************************************************************************)
(* run_trajectory_generation of scripts/build_hazard_layers.py: the stage  *)
(* of a build with --trajectory-workers above 1 that counts the samples of *)
(* each chunk of trajectory files before the reducer starts.               *)
(*                                                                         *)
(* It repeats the reducer's scheme (plan file, adopted records, claims,    *)
(* threads, partial states) with rules of its own: an execution signature  *)
(* hashes the contents of the files, attempts are not counted, and a chunk *)
(* that fails does not fail the stage unless its attempts are used up.     *)
(***************************************************************************)
EXTENDS Naturals, ChunkClaims

CONSTANTS
  TrajectoryChunkCount,  \* --trajectory-workers
  Process,               \* the runs that may be alive at one time
  SchedulerCount, SchedulerIndex,  \* --scheduler-count, --scheduler-index
  OwnerOf,               \* --chunk-owner-id of each process
  ForeignOwner,          \* owners that write claims into the plan from outside
  PathSet,               \* what trajectory_chunk_signature hashes
  MaxAttempts,           \* --max-chunk-attempts
  Overlap,               \* whether two processes may run at the same time
  NoSignature,           \* execution_signature None
  NoTrajectoryState, NoTrajectoryPlan, NoTrajectoryMerge,
  \* Bounds of the environment, not of the program.
  MaxTrajectoryFaults, MaxTrajectoryClaims

TrajectoryChunk == 0 .. TrajectoryChunkCount - 1

ASSUME TrajectoryCountsAssumption ==
  /\ TrajectoryChunkCount \in Nat \ {0}
  /\ SchedulerCount \in Nat \ {0}
  /\ MaxAttempts \in Nat \ {0}
  /\ {MaxTrajectoryFaults, MaxTrajectoryClaims} \subseteq Nat

ASSUME TrajectoryProcessAssumption ==
  /\ SchedulerIndex \in [Process -> 0 .. SchedulerCount - 1]
  /\ OwnerOf \in [Process -> Owner]
  /\ ForeignOwner \subseteq Owner
  /\ Overlap \in BOOLEAN
  /\ PathSet # {}

VARIABLES
  \* the environment, shared with the reducer
  clock,            \* unix seconds, coarsely
  paths,            \* trajectory path lists the next run is given
  version,          \* version of the contents behind those paths
  changes,          \* how often the paths were changed
  \* how much of each bound is used up
  trajectoryFaults, trajectoryClaims,
  \* the shared output directory
  trajectoryPlan,   \* <prefix>_trajectory_execution_plan_v1.json
  trajectoryState,  \* trajectory_chunks/<chunk>_state.json
  trajectoryMerge,  \* <prefix>_trajectory_merge_state_v1.json
  \* each process
  stage,            \* where its run is
  opened,           \* what it found when it started
  record,           \* its in-memory chunk records
  work,             \* what it decided for, and then did with, each chunk
  counted,          \* version of the contents behind the counts of each chunk
  \* history, read by the properties only
  readFailures      \* attempts that failed, per chunk

setting == <<clock, paths, version, changes>>
trajectoryFiles == <<trajectoryPlan, trajectoryState, trajectoryMerge>>
trajectoryLocal == <<stage, opened, record, work, counted>>
generation ==
  <<trajectoryFiles, trajectoryLocal, readFailures, trajectoryFaults, trajectoryClaims>>
generationVars == <<setting, generation>>
\* What a step of a run that meets no fault leaves alone besides files and local state.
noFault == <<setting, trajectoryFaults, trajectoryClaims>>
-------------------------------------------------------------------------------
(* Data types *)

Signature == Nat \cup {NoSignature}
TrajectoryRecord ==
  [completion : {"not_started", "completed", "failed"}, attempt : Nat, retry : Nat,
   paths : PathSet, signature : Signature, ownership : Ownership]

\* The signature is taken when the run starts, the counts when a thread reads.
TrajectoryState == [paths : PathSet, signature : Nat, contents : Nat]
Opening == [paths : PathSet, now : Nat, signature : Nat]
Stage == {"idle", "decide", "run", "plan", "done"}
Work ==
  {"idle", "unscheduled", "skipped", "rejected", "reused", "planned", "read",
   "completed", "failed", "broken"}

ASSUME TrajectoryDataAssumption ==
  /\ NoSignature \notin Nat
  /\ NoTrajectoryState \notin TrajectoryState
  /\ NoTrajectoryPlan \notin [TrajectoryChunk -> TrajectoryRecord]
  /\ NoTrajectoryMerge \notin [done : SUBSET TrajectoryChunk]

\* The record build_trajectory_execution_plan makes for a chunk of path lists ps.
FreshTrajectory(ps) ==
  [completion |-> "not_started", attempt |-> 0, retry |-> 0, paths |-> ps,
   signature |-> NoSignature, ownership |-> Unclaimed]

\* Mutant: a new plan forgets the failures of the old one.
AdoptTrajectoryForgetful(r, ps, now) ==
  IF r.paths # ps THEN FreshTrajectory(ps)
  ELSE [(IF IsStale(r, now) THEN MarkStale(r) ELSE r) EXCEPT !.retry = 0]

\* What a run keeps of the record an earlier run left.
AdoptTrajectory(r, ps, now) ==
  IF r.paths # ps THEN FreshTrajectory(ps)
  ELSE IF IsStale(r, now) THEN MarkStale(r) ELSE r

IdleOpening == [paths |-> CHOOSE x \in PathSet : TRUE, now |-> 0, signature |-> 0]
IdleTrajectories == [c \in TrajectoryChunk |-> FreshTrajectory(IdleOpening.paths)]

GenerationInit ==
  /\ trajectoryFaults = 0 /\ trajectoryClaims = 0
  /\ trajectoryPlan = NoTrajectoryPlan
  /\ trajectoryState = [c \in TrajectoryChunk |-> NoTrajectoryState]
  /\ trajectoryMerge = NoTrajectoryMerge
  /\ stage = [p \in Process |-> "idle"]
  /\ opened = [p \in Process |-> IdleOpening]
  /\ record = [p \in Process |-> IdleTrajectories]
  /\ work = [p \in Process |-> [c \in TrajectoryChunk |-> "idle"]]
  /\ counted = [p \in Process |-> [c \in TrajectoryChunk |-> 0]]
  /\ readFailures = [c \in TrajectoryChunk |-> 0]

\* A process that ends, or goes on to the reducer, keeps nothing of the stage.
LeaveStage(p) ==
  /\ stage' = [stage EXCEPT ![p] = "idle"]
  /\ opened' = [opened EXCEPT ![p] = IdleOpening]
  /\ record' = [record EXCEPT ![p] = IdleTrajectories]
  /\ work' = [work EXCEPT ![p] = [c \in TrajectoryChunk |-> "idle"]]
  /\ counted' = [counted EXCEPT ![p] = [c \in TrajectoryChunk |-> 0]]
-------------------------------------------------------------------------------
(* One run of the stage *)

\* It hashes its files, plans its chunks and adopts the previous plan's records.
StartGeneration(p) ==
  /\ stage[p] = "idle"
  /\ Overlap \/ \A q \in Process : stage[q] = "idle"
  /\ stage' = [stage EXCEPT ![p] = "decide"]
  /\ opened' = [opened EXCEPT ![p] = [paths |-> paths, now |-> clock, signature |-> version]]
  /\ record' = [record EXCEPT ![p] =
       [c \in TrajectoryChunk |->
          IF trajectoryPlan = NoTrajectoryPlan THEN FreshTrajectory(paths)
          ELSE AdoptTrajectory(trajectoryPlan[c], paths, clock)]]
  /\ UNCHANGED <<noFault, trajectoryFiles, work, counted, readFailures>>

\* Mutant: a state of other contents is reused, as in the reducer.
TrajectoryReusableAnyContents(p, c) ==
  LET r == record[p][c]
      s == trajectoryState[c]
  IN /\ r.completion = "completed"
     /\ s # NoTrajectoryState
     /\ s.paths = opened[p].paths

\* trajectory_chunk_has_valid_reusable_state.
TrajectoryReusable(p, c) ==
  LET r == record[p][c]
      s == trajectoryState[c]
  IN /\ r.completion = "completed"
     /\ r.signature = opened[p].signature
     /\ s # NoTrajectoryState
     /\ s.signature = opened[p].signature
     /\ s.paths = opened[p].paths

\* Mutant: one attempt too many.
TrajectoryChoiceOffByOne(p, c) ==
  IF c % SchedulerCount # SchedulerIndex[p] THEN "unscheduled"
  ELSE IF ActiveForOther(record[p][c], OwnerOf[p], opened[p].now) THEN "skipped"
  ELSE IF TrajectoryReusable(p, c) THEN "reused"
  ELSE IF record[p][c].retry > MaxAttempts THEN "rejected" ELSE "planned"

\* The branch the decision loop takes for a chunk.
TrajectoryChoice(p, c) ==
  IF c % SchedulerCount # SchedulerIndex[p] THEN "unscheduled"
  ELSE IF ActiveForOther(record[p][c], OwnerOf[p], opened[p].now) THEN "skipped"
  ELSE IF TrajectoryReusable(p, c) THEN "reused"
  ELSE IF record[p][c].retry >= MaxAttempts THEN "rejected"
  ELSE "planned"

\* The record after its branch of the decision loop.
TrajectoryDecided(p, c) ==
  LET r == record[p][c]
      choice == TrajectoryChoice(p, c)
  IN CASE choice \in {"unscheduled", "reused"} -> r
       [] choice = "skipped" ->
            [r EXCEPT !.completion = "not_started", !.ownership = Released(OwnerOf[p])]
       [] choice = "rejected" ->
            [r EXCEPT !.completion = "failed", !.attempt = IF @ = 0 THEN 1 ELSE @,
                      !.ownership = Released(OwnerOf[p])]
       [] choice = "planned" ->
            [r EXCEPT !.completion = IF @ = "completed" THEN "not_started" ELSE @,
                      !.ownership = Claimed(OwnerOf[p], opened[p].now)]

\* The decision loop over the chunks; the counts of reused chunks are loaded here.
DecideTrajectories(p) ==
  /\ stage[p] = "decide"
  /\ stage' = [stage EXCEPT ![p] = "run"]
  /\ work' = [work EXCEPT ![p] = [c \in TrajectoryChunk |-> TrajectoryChoice(p, c)]]
  /\ record' = [record EXCEPT ![p] = [c \in TrajectoryChunk |-> TrajectoryDecided(p, c)]]
  /\ counted' = [counted EXCEPT ![p] = [c \in TrajectoryChunk |->
       IF TrajectoryChoice(p, c) = "reused" THEN trajectoryState[c].contents ELSE 0]]
  /\ UNCHANGED <<noFault, trajectoryFiles, opened, readFailures>>

\* A thread reads and counts the files of its chunk.
ReadTrajectories(p, c) ==
  /\ stage[p] = "run"
  /\ work[p][c] = "planned"
  /\ work' = [work EXCEPT ![p][c] = "read"]
  /\ counted' = [counted EXCEPT ![p][c] = version]
  /\ UNCHANGED <<noFault, trajectoryFiles, stage, opened, record, readFailures>>

\* Runs may be lost to bad input any number of times.  The history is kept while at
\* most MaxTrajectoryFaults runs are lost; one fault more stands for any number more.
ReadHistoryKept == trajectoryFaults <= MaxTrajectoryFaults

\* Reading raises: the chunk fails, the run goes on.
ReadFails(p, c) ==
  /\ stage[p] = "run"
  /\ work[p][c] = "planned"
  /\ work' = [work EXCEPT ![p][c] = "failed"]
  /\ readFailures' =
       IF ReadHistoryKept THEN [readFailures EXCEPT ![c] = @ + 1] ELSE readFailures
  /\ UNCHANGED <<noFault, trajectoryFiles, stage, opened, record, counted>>

\* A file with two trajectory ids raises SystemExit, which the handler lets pass: the
\* run is lost.  Nothing bounds this: a bad file that stays is met by every run.
ReadExits(p, c) ==
  /\ stage[p] = "run"
  /\ work[p][c] = "planned"
  /\ work' = [work EXCEPT ![p][c] = "broken"]
  /\ IF trajectoryFaults < MaxTrajectoryFaults
     THEN trajectoryFaults' = trajectoryFaults + 1 /\ UNCHANGED readFailures
     ELSE /\ trajectoryFaults' = MaxTrajectoryFaults + 1
          /\ readFailures' = [d \in TrajectoryChunk |-> 0]
  /\ UNCHANGED <<setting, trajectoryClaims, trajectoryFiles, stage, opened, record, counted>>

\* The thread writes the partial state of its chunk.
WriteTrajectoryState(p, c) ==
  /\ stage[p] = "run"
  /\ work[p][c] = "read"
  /\ work' = [work EXCEPT ![p][c] = "completed"]
  /\ trajectoryState' = [trajectoryState EXCEPT ![c] =
       [paths |-> opened[p].paths, signature |-> opened[p].signature,
        contents |-> counted[p][c]]]
  /\ UNCHANGED <<noFault, trajectoryPlan, trajectoryMerge, stage, opened, record,
                 counted, readFailures>>

\* Writing it raises outside the handler, and the run is lost.
WriteTrajectoryStateFails(p, c) ==
  /\ trajectoryFaults < MaxTrajectoryFaults
  /\ stage[p] = "run"
  /\ work[p][c] = "read"
  /\ work' = [work EXCEPT ![p][c] = "broken"]
  /\ trajectoryState' = [trajectoryState EXCEPT ![c] = NoTrajectoryState]
  /\ trajectoryFaults' = trajectoryFaults + 1
  /\ UNCHANGED <<setting, trajectoryClaims, trajectoryPlan, trajectoryMerge, stage, opened,
                 record, counted, readFailures>>

\* Mutant: a thread that raised never counts as done.
ReadersDoneUnlessBroken(p) ==
  \A c \in TrajectoryChunk : work[p][c] \notin {"planned", "read", "broken"}

\* Every thread of the pool has returned or raised.
ReadersDone(p) == \A c \in TrajectoryChunk : work[p][c] \notin {"planned", "read"}
ReaderBroken(p) == \E c \in TrajectoryChunk : work[p][c] = "broken"

\* list(executor.map(...)) re-raises after the pool has shut down.
AbortGeneration(p) ==
  /\ stage[p] = "run"
  /\ ReadersDone(p)
  /\ ReaderBroken(p)
  /\ LeaveStage(p)
  /\ UNCHANGED <<noFault, trajectoryFiles, readFailures>>

\* Mutant: a failed result is recorded like a completed one.
TrajectoryFinalTrustsAll(p, c) ==
  CASE work[p][c] \in {"completed", "failed"} ->
         [record[p][c] EXCEPT !.completion = "completed",
                              !.signature = opened[p].signature,
                              !.ownership = Released(OwnerOf[p])]
    [] OTHER -> record[p][c]

\* The record after the result of its chunk, if any, is copied and released: a
\* failure is counted, an attempt is not.
TrajectoryFinal(p, c) ==
  LET r == record[p][c]
  IN CASE work[p][c] = "reused" -> [r EXCEPT !.ownership = Released(OwnerOf[p])]
       [] work[p][c] = "completed" ->
            [r EXCEPT !.completion = "completed", !.signature = opened[p].signature,
                      !.ownership = Released(OwnerOf[p])]
       [] work[p][c] = "failed" ->
            [r EXCEPT !.completion = "failed", !.retry = @ + 1,
                      !.signature = opened[p].signature,
                      !.ownership = Released(OwnerOf[p])]
       [] OTHER -> r

\* Results are copied into the records; the index and the merge state are written.
CollectTrajectories(p) ==
  /\ stage[p] = "run"
  /\ ReadersDone(p)
  /\ ~ReaderBroken(p)
  /\ stage' = [stage EXCEPT ![p] = "plan"]
  /\ record' = [record EXCEPT ![p] = [c \in TrajectoryChunk |-> TrajectoryFinal(p, c)]]
  /\ trajectoryMerge' =
       [done |-> {c \in TrajectoryChunk : TrajectoryFinal(p, c).completion = "completed"}]
  /\ UNCHANGED <<noFault, trajectoryPlan, trajectoryState, opened, work, counted,
                 readFailures>>

\* Mutants: the stage never fails; a chunk that ever failed fails it.
GivenUpNever(p) == FALSE
GivenUpOnAnyFailure(p) == \E c \in TrajectoryChunk : record[p][c].retry > 0

\* failed_chunks is not empty: only a chunk without attempts left stops the build.
GivenUp(p) == \E c \in TrajectoryChunk : work[p][c] = "rejected"

\* The plan file is rewritten whole; SystemExit follows if a chunk was given up.
WriteTrajectoryPlan(p) ==
  /\ stage[p] = "plan"
  /\ trajectoryPlan' = record[p]
  /\ IF GivenUp(p) THEN LeaveStage(p)
     ELSE /\ stage' = [stage EXCEPT ![p] = "done"]
          /\ UNCHANGED <<opened, record, work, counted>>
  /\ UNCHANGED <<noFault, trajectoryState, trajectoryMerge, readFailures>>

\* The caller takes the summary and goes on; nothing else of the stage is used.
ReturnSummary(p) ==
  /\ stage[p] = "done"
  /\ LeaveStage(p)
  /\ UNCHANGED <<noFault, trajectoryFiles, readFailures>>

\* The process is killed.  A file being written is left unreadable.
KillGeneration(p) ==
  /\ trajectoryFaults < MaxTrajectoryFaults
  /\ stage[p] # "idle"
  /\ trajectoryFaults' = trajectoryFaults + 1
  /\ \E torn \in SUBSET {c \in TrajectoryChunk : work[p][c] = "read"} :
       trajectoryState' = [c \in TrajectoryChunk |->
                             IF c \in torn THEN NoTrajectoryState ELSE trajectoryState[c]]
  /\ trajectoryPlan' \in IF stage[p] = "plan" THEN {trajectoryPlan, NoTrajectoryPlan}
                         ELSE {trajectoryPlan}
  /\ trajectoryMerge' \in IF stage[p] = "run" /\ ReadersDone(p)
                          THEN {trajectoryMerge, NoTrajectoryMerge} ELSE {trajectoryMerge}
  /\ LeaveStage(p)
  /\ UNCHANGED <<setting, trajectoryClaims, readFailures>>
-------------------------------------------------------------------------------
(* The environment *)

\* Another orchestrator writes a claim into the trajectory plan between two runs.
ClaimTrajectory(c, o) ==
  /\ trajectoryClaims < MaxTrajectoryClaims
  /\ trajectoryPlan # NoTrajectoryPlan
  /\ \A p \in Process : stage[p] = "idle"
  /\ trajectoryClaims' = trajectoryClaims + 1
  /\ \E completion \in {trajectoryPlan[c].completion, "not_started"} :
       trajectoryPlan' = [trajectoryPlan EXCEPT ![c].ownership = Claimed(o, clock),
                                                ![c].completion = completion]
  /\ UNCHANGED <<setting, trajectoryFaults, trajectoryState, trajectoryMerge,
                 trajectoryLocal, readFailures>>

\* Time passes, input files are rewritten and the next run is given other ones.
SettingChanges ==
  /\ clock' \in Nat /\ clock' >= clock
  /\ version' \in Nat /\ version' >= version
  /\ paths' \in PathSet
  /\ changes' \in Nat /\ changes' >= changes /\ (paths' # paths => changes' > changes)
  /\ UNCHANGED generation

\* The steps a started stage takes by itself.
GenerationStep(p) ==
  \/ DecideTrajectories(p)
  \/ \E c \in TrajectoryChunk :
       ReadTrajectories(p, c) \/ ReadFails(p, c) \/ WriteTrajectoryState(p, c)
  \/ AbortGeneration(p)
  \/ CollectTrajectories(p)
  \/ WriteTrajectoryPlan(p)

GenerationFault(p) ==
  \/ \E c \in TrajectoryChunk : ReadExits(p, c) \/ WriteTrajectoryStateFails(p, c)
  \/ KillGeneration(p)

GenerationNext ==
  \/ \E p \in Process :
       StartGeneration(p) \/ GenerationStep(p) \/ GenerationFault(p) \/ ReturnSummary(p)
  \/ \E c \in TrajectoryChunk, o \in ForeignOwner : ClaimTrajectory(c, o)
  \/ SettingChanges

GenerationSpec ==
  /\ clock = 0 /\ paths \in PathSet /\ version = 0 /\ changes = 0
  /\ GenerationInit
  /\ [][GenerationNext]_generationVars
-------------------------------------------------------------------------------
(* Properties *)

\* Type invariant of the files, the processes and the history.
TypeOK ==
  /\ clock \in Nat /\ paths \in PathSet /\ version \in Nat /\ changes \in Nat
  /\ trajectoryFaults \in Nat /\ trajectoryClaims \in Nat
  /\ trajectoryPlan # NoTrajectoryPlan =>
       trajectoryPlan \in [TrajectoryChunk -> TrajectoryRecord]
  /\ trajectoryState \in [TrajectoryChunk -> TrajectoryState \cup {NoTrajectoryState}]
  /\ trajectoryMerge # NoTrajectoryMerge => trajectoryMerge \in [done : SUBSET TrajectoryChunk]
  /\ stage \in [Process -> Stage]
  /\ opened \in [Process -> Opening]
  /\ record \in [Process -> [TrajectoryChunk -> TrajectoryRecord]]
  /\ work \in [Process -> [TrajectoryChunk -> Work]]
  /\ counted \in [Process -> [TrajectoryChunk -> Nat]]
  /\ readFailures \in [TrajectoryChunk -> Nat]

\* The counts a run goes on with are of contents at least as new as when the run
\* started, reused ones included: unlike the reducer's, the signature of this
\* stage hashes the contents of the files.
CountsCurrent ==
  \A p \in Process, c \in TrajectoryChunk :
    work[p][c] \in {"reused", "read", "completed"} => counted[p][c] >= opened[p].signature

\* With no run in the stage and no run ever lost, every chunk the plan calls
\* completed, and so the merge state calls ready, has a partial state of the
\* path list and the execution signature of its record.
CompletedIsBacked ==
  ( /\ trajectoryPlan # NoTrajectoryPlan
    /\ \A p \in Process : stage[p] = "idle"
    /\ trajectoryFaults = 0 ) =>
      \A c \in TrajectoryChunk :
        trajectoryPlan[c].completion = "completed" =>
          /\ trajectoryState[c] # NoTrajectoryState
          /\ trajectoryState[c].paths = trajectoryPlan[c].paths
          /\ trajectoryState[c].signature = trajectoryPlan[c].signature

\* The retry budget bounds the failed readings that really happened, of which a
\* lost run or a change of path lists can forget at most one budget.
ReadFailureBudget ==
  ReadHistoryKept =>
    \A c \in TrajectoryChunk :
      readFailures[c] <= MaxAttempts * (1 + trajectoryFaults + changes)

AttemptOK(r) ==
  /\ r.retry <= MaxAttempts
  /\ r.attempt > 0 => r.retry = MaxAttempts
  /\ r.completion = "completed" => r.retry < MaxAttempts

\* No record shows more failures than the budget; attempt_count, which this stage
\* never increments, is positive only for a chunk that has been given up; and no
\* completed chunk ever is given up.
AttemptMeansGivenUp ==
  \A c \in TrajectoryChunk :
    /\ trajectoryPlan # NoTrajectoryPlan => AttemptOK(trajectoryPlan[c])
    /\ \A p \in Process : AttemptOK(record[p][c])
===============================================================================
