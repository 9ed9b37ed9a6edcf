--------------------------- MODULE ReducerExecution ---------------------------
(***************************************************************************)
(* Chunked reducer execution of scripts/build_hazard_layers.py.            *)
(*                                                                         *)
(* One build ("run") is a process: it plans one record per chunk, adopts   *)
(* the records of the plan file an earlier run left, decides chunk by      *)
(* chunk whether to skip, reuse, reject or execute, executes the chosen    *)
(* chunks on threads (each writes a partial-state file), merges, writes    *)
(* the index and merge-state sidecars, then the plan file, and finally the *)
(* hazard layers.  All coordination goes through those files, and none of  *)
(* the writes is atomic.                                                   *)
(*                                                                         *)
(* File contents are abstracted to what decides a later run: the           *)
(* configuration an execution signature hashes (Config), the path lists an *)
(* input signature hashes (PathSet) and the version of the input contents. *)
(* A file that is absent and one that does not parse are the same to every *)
(* reader, so both are NoPlan or NoState.                                  *)
(***************************************************************************)
EXTENDS Naturals, FiniteSets, ChunkClaims

CONSTANTS
  ChunkCount,       \* number of reducer chunks of the build
  Process,          \* the runs that may be alive at one time
  SchedulerCount,   \* --scheduler-count
  SchedulerIndex,   \* --scheduler-index of each process
  OwnerOf,          \* --chunk-owner-id of each process
  ForeignOwner,     \* owners that write claims into the plan from outside
  Config,           \* what chunk_execution_signature hashes besides the paths
  PathSet,          \* what chunk_input_signature hashes
  MaxAttempts,      \* --max-chunk-attempts
  Overlap,          \* whether two processes may run at the same time
  NoState, NoPlan, NoMergeState, NoLayers,
  \* Bounds of the environment, not of the program.
  MaxClock, MaxVersion, MaxChanges, MaxFaults, MaxClaims

Chunk == 0 .. ChunkCount - 1

ASSUME CountsAssumption ==
  /\ ChunkCount \in Nat \ {0}
  /\ SchedulerCount \in Nat \ {0}
  /\ MaxAttempts \in Nat \ {0}
  /\ {MaxClock, MaxVersion, MaxChanges, MaxFaults, MaxClaims} \subseteq Nat

ASSUME ProcessAssumption ==
  /\ SchedulerIndex \in [Process -> 0 .. SchedulerCount - 1]
  /\ OwnerOf \in [Process -> Owner]
  /\ ForeignOwner \subseteq Owner
  /\ Overlap \in BOOLEAN

ASSUME DataAssumption ==
  /\ Config # {}
  /\ PathSet # {}
  /\ NoState \notin [cfg : Config, paths : PathSet, version : Nat]
  /\ NoMergeState \notin [done : SUBSET Chunk, cfg : Config, paths : PathSet]

VARIABLES
  \* the environment
  clock,        \* unix seconds, coarsely
  cfg, paths,   \* options and input path lists the next run is given
  version,      \* version of the contents behind those paths
  changes, faults, claims,  \* how much of each bound is used up
  \* the shared output directory
  planFile,     \* <prefix>_execution_plan_v1.json
  stateFile,    \* <chunk>_state.json of each chunk
  mergeState,   \* <prefix>_reducer_merge_state_v1.json
  layers,       \* the hazard layers
  \* each process
  phase,        \* where its run is
  job,          \* the options it read and the time it started
  rec,          \* its in-memory chunk records
  task,         \* what it decided for, and then did with, each chunk
  acc,          \* accumulator of each chunk it will merge
  \* history, read by the properties only
  executed, failures,  \* attempts begun and failed, per chunk, while HistoryKept
  lease                \* the last claim a foreign owner was granted

env == <<clock, cfg, paths, version, changes, claims, lease>>
files == <<planFile, stateFile, mergeState, layers>>
local == <<phase, job, rec, task, acc>>
vars == <<env, faults, files, local, executed, failures>>
-------------------------------------------------------------------------------
(* Data types *)

Completion == {"not_started", "completed", "failed"}
Decision ==
  {"none", "not_scheduled", "skipped_by_other_owner", "stale_claim_recovered",
   "reused_completed_state", "completed_state_reset_for_rerun", "executed",
   "max_attempts_exceeded"}
Record ==
  [completion : Completion, decision : Decision, attempt : Nat, retry : Nat,
   paths : PathSet, ownership : Ownership]
\* What the plan file says of the attempts at a chunk, without claims and decisions.
LedgerEntry ==
  [completion : Completion, attempt : Nat, retry : Nat, paths : PathSet]
State == [cfg : Config, paths : PathSet, version : Nat]
\* "asof" is history: the version of the inputs when the run started.
Job == [cfg : Config, paths : PathSet, now : Nat, asof : Nat]
Phase == {"idle", "decide", "run", "plan", "layers"}
Task ==
  {"idle", "unscheduled", "skipped", "rejected", "reused", "planned",
   "computed", "completed", "failed", "broken"}

\* The record build_chunk_execution_plan makes for a chunk of path lists ps.
FreshRecord(ps) ==
  [completion |-> "not_started", decision |-> "none", attempt |-> 0, retry |-> 0,
   paths |-> ps, ownership |-> Unclaimed]

\* Mutant: the previous plan is never read.
AdoptNothing(r, ps, now) == FreshRecord(ps)

\* What a run keeps of the record an earlier run left: nothing if the chunk's
\* inputs changed, and a claim whose lease is over is marked stale at once.
Adopt(r, ps, now) ==
  IF r.paths # ps THEN FreshRecord(ps)
  ELSE IF IsStale(r, now) THEN MarkStale(r) ELSE r

\* chunk.index % scheduler_count == scheduler_index.
Scheduled(p, c) == c % SchedulerCount = SchedulerIndex[p]

IdleJob == [cfg |-> CHOOSE x \in Config : TRUE, paths |-> CHOOSE x \in PathSet : TRUE,
            now |-> 0, asof |-> 0]
IdleRecords == [c \in Chunk |-> FreshRecord(IdleJob.paths)]
IdleTasks == [c \in Chunk |-> "idle"]
NoStates == [c \in Chunk |-> NoState]
NoHistory == [c \in Chunk |-> 0]
ASSUME PlanAssumption ==
  NoPlan \notin [Chunk -> Record] /\ NoPlan \notin [Chunk -> LedgerEntry]
-------------------------------------------------------------------------------
Init ==
  /\ clock = 0 /\ version = 0 /\ changes = 0 /\ faults = 0 /\ claims = 0
  /\ cfg = IdleJob.cfg /\ paths = IdleJob.paths  \* which comes first is immaterial
  /\ planFile = NoPlan
  /\ stateFile = NoStates
  /\ mergeState = NoMergeState
  /\ layers = NoLayers
  /\ phase = [p \in Process |-> "idle"]
  /\ job = [p \in Process |-> IdleJob]
  /\ rec = [p \in Process |-> IdleRecords]
  /\ task = [p \in Process |-> IdleTasks]
  /\ acc = [p \in Process |-> NoStates]
  /\ executed = NoHistory
  /\ failures = NoHistory
  /\ lease = [c \in Chunk |-> Unclaimed]

\* A process that ends, normally or not, keeps nothing.
BecomeIdle(p) ==
  /\ phase' = [phase EXCEPT ![p] = "idle"]
  /\ job' = [job EXCEPT ![p] = IdleJob]
  /\ rec' = [rec EXCEPT ![p] = IdleRecords]
  /\ task' = [task EXCEPT ![p] = IdleTasks]
  /\ acc' = [acc EXCEPT ![p] = NoStates]
-------------------------------------------------------------------------------
(* One run *)

\* A build starts: it plans its chunks and adopts the previous plan's records.
StartRun(p) ==
  /\ phase[p] = "idle"
  /\ Overlap \/ \A q \in Process : phase[q] = "idle"
  /\ phase' = [phase EXCEPT ![p] = "decide"]
  /\ job' = [job EXCEPT ![p] =
               [cfg |-> cfg, paths |-> paths, now |-> clock, asof |-> version]]
  /\ rec' = [rec EXCEPT ![p] =
               [c \in Chunk |-> IF planFile = NoPlan THEN FreshRecord(paths)
                                ELSE Adopt(planFile[c], paths, clock)]]
  /\ UNCHANGED <<env, faults, files, task, acc, executed, failures>>

\* Mutants: the execution signature of the state is not compared; nothing is
\* ever found reusable.
ReusableAnyOptions(p, c) ==
  /\ rec[p][c].completion = "completed"
  /\ stateFile[c] # NoState
  /\ stateFile[c].paths = job[p].paths
ReusableNever(p, c) == FALSE

\* chunk_has_valid_reusable_state.  The record's own execution signature is the
\* current one by construction, so the state file's is what decides.
Reusable(p, c) ==
  /\ rec[p][c].completion = "completed"
  /\ stateFile[c] # NoState
  /\ stateFile[c].cfg = job[p].cfg
  /\ stateFile[c].paths = job[p].paths

\* Mutants: a chunk that failed once is not tried again; one attempt too many.
ChoiceNoRetry(p, c) ==
  IF ~Scheduled(p, c) THEN "unscheduled"
  ELSE IF ActiveForOther(rec[p][c], OwnerOf[p], job[p].now) THEN "skipped"
  ELSE IF Reusable(p, c) THEN "reused"
  ELSE IF rec[p][c].completion = "failed" THEN "rejected"
  ELSE "planned"
ChoiceOffByOne(p, c) ==
  IF ~Scheduled(p, c) THEN "unscheduled"
  ELSE IF ActiveForOther(rec[p][c], OwnerOf[p], job[p].now) THEN "skipped"
  ELSE IF Reusable(p, c) THEN "reused"
  ELSE IF rec[p][c].retry > MaxAttempts THEN "rejected"
  ELSE "planned"

\* The branch the decision loop takes for a chunk.
Choice(p, c) ==
  IF ~Scheduled(p, c) THEN "unscheduled"
  ELSE IF ActiveForOther(rec[p][c], OwnerOf[p], job[p].now) THEN "skipped"
  ELSE IF Reusable(p, c) THEN "reused"
  ELSE IF rec[p][c].retry >= MaxAttempts THEN "rejected"
  ELSE "planned"

\* Mutant: a stale claim's decision is not overwritten when reuse fails.
ExecutionDecisionKeepsStale(r, stale) ==
  IF r.completion = "completed" /\ ~stale THEN "completed_state_reset_for_rerun"
  ELSE IF stale THEN "stale_claim_recovered"
  ELSE IF r.decision = "none" THEN "executed" ELSE r.decision

\* The decision recorded for a chunk about to be executed: a decision adopted
\* from the previous plan stays unless a branch overwrites it.
ExecutionDecision(r, stale) ==
  IF stale THEN "executed"
  ELSE IF r.completion = "completed" THEN "completed_state_reset_for_rerun"
  ELSE IF r.decision = "none" THEN "executed" ELSE r.decision

\* The record after its branch of the decision loop.
DecidedRecord(p, c) ==
  LET r == rec[p][c]
      stale == IsStale(r, job[p].now)
      choice == Choice(p, c)
  IN CASE choice = "unscheduled" -> [r EXCEPT !.decision = "not_scheduled"]
       [] choice = "skipped" ->
            [r EXCEPT !.decision = "skipped_by_other_owner", !.completion = "not_started",
                      !.ownership = Released(OwnerOf[p])]
       [] choice = "reused" ->
            [r EXCEPT !.decision = IF stale \/ @ = "stale_claim_recovered"
                                   THEN "stale_claim_recovered"
                                   ELSE "reused_completed_state"]
       [] choice = "rejected" ->
            [r EXCEPT !.decision = "max_attempts_exceeded", !.completion = "failed",
                      !.attempt = IF @ = 0 THEN 1 ELSE @,
                      !.ownership = Released(OwnerOf[p])]
       [] choice = "planned" ->
            [r EXCEPT !.decision = ExecutionDecision(r, stale),
                      !.completion = IF @ = "completed" THEN "not_started" ELSE @,
                      !.ownership = Claimed(OwnerOf[p], job[p].now)]

\* The decision loop over the chunks; reused accumulators are loaded here.
DecideChunks(p) ==
  /\ phase[p] = "decide"
  /\ phase' = [phase EXCEPT ![p] = "run"]
  /\ task' = [task EXCEPT ![p] = [c \in Chunk |-> Choice(p, c)]]
  /\ rec' = [rec EXCEPT ![p] = [c \in Chunk |-> DecidedRecord(p, c)]]
  /\ acc' = [acc EXCEPT ![p] = [c \in Chunk |->
               IF Choice(p, c) = "reused" THEN stateFile[c] ELSE NoState]]
  /\ UNCHANGED <<env, faults, files, job, executed, failures>>

\* Runs may be lost to bad input any number of times.  The history is kept while at
\* most MaxFaults runs are lost; faults = MaxFaults + 1 stands for any number more.
HistoryKept == faults <= MaxFaults
CountAttempt(c) ==
  executed' = IF HistoryKept THEN [executed EXCEPT ![c] = @ + 1] ELSE executed

\* A thread reads the inputs of its chunk and accumulates them.
ComputeChunk(p, c) ==
  /\ phase[p] = "run"
  /\ task[p][c] = "planned"
  /\ task' = [task EXCEPT ![p][c] = "computed"]
  /\ acc' = [acc EXCEPT ![p][c] =
               [cfg |-> job[p].cfg, paths |-> job[p].paths, version |-> version]]
  /\ CountAttempt(c)
  /\ UNCHANGED <<env, faults, files, phase, job, rec, failures>>

\* Reading or accumulating raises: the chunk fails, the run goes on.
FailChunk(p, c) ==
  /\ phase[p] = "run"
  /\ task[p][c] = "planned"
  /\ task' = [task EXCEPT ![p][c] = "failed"]
  /\ CountAttempt(c)
  /\ failures' = IF HistoryKept THEN [failures EXCEPT ![c] = @ + 1] ELSE failures
  /\ UNCHANGED <<env, faults, files, phase, job, rec, acc>>

\* A record without the trajectory_id its weight needs raises SystemExit, which
\* the chunk's handler of Exception lets pass: the run is lost once the other
\* threads are done, and the attempt is in no record.  Nothing bounds this: bad
\* input that stays is met again by every run.
ExitChunk(p, c) ==
  /\ phase[p] = "run"
  /\ task[p][c] = "planned"
  /\ task' = [task EXCEPT ![p][c] = "broken"]
  /\ IF faults < MaxFaults
     THEN faults' = faults + 1 /\ CountAttempt(c) /\ UNCHANGED failures
     ELSE faults' = MaxFaults + 1 /\ executed' = NoHistory /\ failures' = NoHistory
  /\ UNCHANGED <<env, files, phase, job, rec, acc>>

\* The thread writes the partial state of its chunk.
WriteState(p, c) ==
  /\ phase[p] = "run"
  /\ task[p][c] = "computed"
  /\ task' = [task EXCEPT ![p][c] = "completed"]
  /\ stateFile' = [stateFile EXCEPT ![c] = acc[p][c]]
  /\ UNCHANGED <<env, faults, planFile, mergeState, layers, phase, job, rec, acc,
                 executed, failures>>

\* Writing the partial state raises outside the handler: the run is lost too.
WriteStateFails(p, c) ==
  /\ faults < MaxFaults
  /\ phase[p] = "run"
  /\ task[p][c] = "computed"
  /\ task' = [task EXCEPT ![p][c] = "broken"]
  /\ stateFile' = [stateFile EXCEPT ![c] = NoState]
  /\ faults' = faults + 1
  /\ UNCHANGED <<env, planFile, mergeState, layers, phase, job, rec, acc,
                 executed, failures>>

\* Mutant: a thread that raised never counts as done.
ThreadsDoneUnlessBroken(p) ==
  \A c \in Chunk : task[p][c] \notin {"planned", "computed", "broken"}

\* Every thread of the pool has returned or raised.
ThreadsDone(p) == \A c \in Chunk : task[p][c] \notin {"planned", "computed"}
Broken(p) == \E c \in Chunk : task[p][c] = "broken"

\* list(executor.map(...)) re-raises after the pool has shut down.
AbortRun(p) ==
  /\ phase[p] = "run"
  /\ ThreadsDone(p)
  /\ Broken(p)
  /\ BecomeIdle(p)
  /\ UNCHANGED <<env, faults, files, executed, failures>>

\* Mutants: a reuse counts as an attempt; a failure is not counted; a success gives
\* a failure back.
FinalRecordCountsReuse(p, c) ==
  CASE task[p][c] \in {"reused", "completed"} ->
         [rec[p][c] EXCEPT !.completion = "completed", !.attempt = @ + 1,
                           !.ownership = Released(OwnerOf[p])]
    [] task[p][c] = "failed" ->
         [rec[p][c] EXCEPT !.completion = "failed", !.attempt = @ + 1, !.retry = @ + 1,
                           !.ownership = Released(OwnerOf[p])]
    [] OTHER -> rec[p][c]
FinalRecordForgivesFailure(p, c) ==
  IF task[p][c] \in {"completed", "failed"}
  THEN [rec[p][c] EXCEPT !.completion = task[p][c], !.attempt = @ + 1,
                         !.ownership = Released(OwnerOf[p])]
  ELSE rec[p][c]
FinalRecordRefunds(p, c) ==
  IF task[p][c] = "completed"
  THEN [rec[p][c] EXCEPT !.completion = "completed", !.attempt = @ + 1, !.retry = @ - 1,
                         !.ownership = Released(OwnerOf[p])]
  ELSE rec[p][c]

\* The record after the result of its chunk, if any, is copied and released.
FinalRecord(p, c) ==
  LET r == rec[p][c]
  IN CASE task[p][c] = "reused" -> [r EXCEPT !.ownership = Released(OwnerOf[p])]
       [] task[p][c] = "completed" ->
            [r EXCEPT !.completion = "completed", !.attempt = @ + 1,
                      !.ownership = Released(OwnerOf[p])]
       [] task[p][c] = "failed" ->
            [r EXCEPT !.completion = "failed", !.attempt = @ + 1, !.retry = @ + 1,
                      !.ownership = Released(OwnerOf[p])]
       [] OTHER -> r

\* Results are merged in chunk order; the index and merge state are written.
MergeResults(p) ==
  /\ phase[p] = "run"
  /\ ThreadsDone(p)
  /\ ~Broken(p)
  /\ phase' = [phase EXCEPT ![p] = "plan"]
  /\ rec' = [rec EXCEPT ![p] = [c \in Chunk |-> FinalRecord(p, c)]]
  /\ mergeState' =
       [done |-> {c \in Chunk : FinalRecord(p, c).completion = "completed"},
        cfg |-> job[p].cfg, paths |-> job[p].paths]
  /\ UNCHANGED <<env, faults, planFile, stateFile, layers, job, task, acc, executed,
                 failures>>

\* Mutant: only exhausted and skipped chunks stop the build.
RunFailedIfRejected(p) == \E c \in Chunk : task[p][c] \in {"rejected", "skipped"}

\* failed_chunks is not empty: a chunk failed or had no attempts left, or an
\* unpartitioned run left a chunk to another owner.
RunFailed(p) ==
  \/ \E c \in Chunk : task[p][c] \in {"failed", "rejected"}
  \/ SchedulerCount = 1 /\ \E c \in Chunk : task[p][c] = "skipped"

\* The plan file is rewritten whole; SystemExit follows if a chunk failed.
WritePlan(p) ==
  /\ phase[p] = "plan"
  /\ planFile' = rec[p]
  /\ IF RunFailed(p) THEN BecomeIdle(p)
     ELSE /\ phase' = [phase EXCEPT ![p] = "layers"]
          /\ UNCHANGED <<job, rec, task, acc>>
  /\ UNCHANGED <<env, faults, stateFile, mergeState, layers, executed, failures>>

\* The layers are built from the merged accumulators of this run alone.
WriteLayers(p) ==
  /\ phase[p] = "layers"
  /\ layers' = [run |-> job[p], merged |-> acc[p]]
  /\ BecomeIdle(p)
  /\ UNCHANGED <<env, faults, planFile, stateFile, mergeState, executed, failures>>
-------------------------------------------------------------------------------
(* The environment *)

\* The process is killed.  A file being written is left unreadable.
Crash(p) ==
  /\ faults < MaxFaults
  /\ phase[p] # "idle"
  /\ faults' = faults + 1
  /\ \E torn \in SUBSET {c \in Chunk : task[p][c] = "computed"} :
       stateFile' = [c \in Chunk |-> IF c \in torn THEN NoState ELSE stateFile[c]]
  /\ planFile' \in IF phase[p] = "plan" THEN {planFile, NoPlan} ELSE {planFile}
  /\ layers' \in IF phase[p] = "layers" THEN {layers, NoLayers} ELSE {layers}
  /\ mergeState' \in IF phase[p] = "run" /\ ThreadsDone(p)
                     THEN {mergeState, NoMergeState} ELSE {mergeState}
  /\ BecomeIdle(p)
  /\ UNCHANGED <<env, executed, failures>>

Tick ==
  /\ clock < MaxClock
  /\ clock' = clock + 1
  /\ UNCHANGED <<cfg, paths, version, changes, claims, lease, faults, files, local,
                 executed, failures>>

\* The next runs are given other options or other input files.
Reconfigure ==
  /\ changes < MaxChanges
  /\ changes' = changes + 1
  /\ cfg' \in Config
  /\ paths' \in PathSet
  /\ UNCHANGED <<clock, version, claims, lease, faults, files, local, executed, failures>>

\* The inputs are regenerated in place.
RewriteInputs ==
  /\ version < MaxVersion
  /\ version' = version + 1
  /\ UNCHANGED <<clock, cfg, paths, changes, claims, lease, faults, files, local,
                 executed, failures>>

\* Another orchestrator writes a claim into the plan between two runs.
ForeignClaim(c, o) ==
  /\ claims < MaxClaims
  /\ planFile # NoPlan
  /\ \A p \in Process : phase[p] = "idle"
  /\ claims' = claims + 1
  /\ \E completion \in {planFile[c].completion, "not_started"} :
       planFile' = [planFile EXCEPT ![c].ownership = Claimed(o, clock),
                                    ![c].completion = completion]
  /\ lease' = [lease EXCEPT ![c] = Claimed(o, clock)]
  /\ UNCHANGED <<clock, cfg, paths, version, changes, faults, stateFile, mergeState,
                 layers, local, executed, failures>>
-------------------------------------------------------------------------------
\* The steps a started run takes by itself.
RunStep(p) ==
  \/ DecideChunks(p)
  \/ \E c \in Chunk : ComputeChunk(p, c) \/ FailChunk(p, c) \/ WriteState(p, c)
  \/ AbortRun(p)
  \/ MergeResults(p)
  \/ WritePlan(p)
  \/ WriteLayers(p)

Environment ==
  \/ Tick
  \/ Reconfigure
  \/ RewriteInputs
  \/ \E c \in Chunk, o \in ForeignOwner : ForeignClaim(c, o)

Next ==
  \/ \E p \in Process : StartRun(p) \/ RunStep(p) \/ Crash(p)
  \/ \E p \in Process, c \in Chunk : ExitChunk(p, c) \/ WriteStateFails(p, c)
  \/ Environment

Spec == Init /\ [][Next]_vars

\* A live process makes progress; nobody promises that a run is started.
FairSpec == Spec /\ \A p \in Process : WF_vars(RunStep(p))
-------------------------------------------------------------------------------
(* Properties *)

\* Type invariant of every file, process and history variable.
TypeOK ==
  /\ clock \in Nat /\ version \in Nat /\ changes \in Nat /\ faults \in Nat /\ claims \in Nat
  /\ cfg \in Config /\ paths \in PathSet
  /\ planFile # NoPlan => planFile \in [Chunk -> Record]
  /\ stateFile \in [Chunk -> State \cup {NoState}]
  /\ mergeState # NoMergeState =>
       mergeState \in [done : SUBSET Chunk, cfg : Config, paths : PathSet]
  /\ layers # NoLayers => layers \in [run : Job, merged : [Chunk -> State \cup {NoState}]]
  /\ phase \in [Process -> Phase]
  /\ job \in [Process -> Job]
  /\ rec \in [Process -> [Chunk -> Record]]
  /\ task \in [Process -> [Chunk -> Task]]
  /\ acc \in [Process -> [Chunk -> State \cup {NoState}]]
  /\ executed \in [Chunk -> Nat] /\ failures \in [Chunk -> Nat]
  /\ lease \in [Chunk -> Ownership]

BudgetOK(r) ==
  /\ r.retry <= MaxAttempts
  /\ r.retry <= r.attempt
  /\ r.completion = "completed" => r.retry < MaxAttempts /\ r.retry < r.attempt

\* No record, on disk or in memory, shows more failed attempts than the budget
\* of --max-chunk-attempts or than attempts in all, and a completed chunk always
\* has a successful attempt beside its failed ones and budget left to be rerun.
RetryBudget ==
  \A c \in Chunk :
    /\ planFile # NoPlan => BudgetOK(planFile[c])
    /\ \A p \in Process : BudgetOK(rec[p][c])

\* Layers never mix partial states computed under different options or input
\* path lists: whatever was merged has the execution and input signatures of the
\* run that wrote the layers, whether it was executed or reused.
LayersMatchOptions ==
  layers # NoLayers =>
    \A c \in Chunk : layers.merged[c] # NoState =>
      /\ layers.merged[c].cfg = layers.run.cfg
      /\ layers.merged[c].paths = layers.run.paths

\* An unpartitioned build writes layers only when every chunk was merged, as the
\* serial reducer would have done: a failed, exhausted or skipped chunk stops it.
LayersComplete ==
  SchedulerCount = 1 /\ layers # NoLayers => \A c \in Chunk : layers.merged[c] # NoState

\* With no run alive and no run ever killed, a merge state that lists every chunk
\* is backed by a readable partial state of each, computed under the options the
\* merge state records.  (A partitioned build needs unchanged options for this.)
ReadyIsBacked ==
  ( /\ mergeState # NoMergeState
    /\ mergeState.done = Chunk
    /\ \A p \in Process : phase[p] = "idle"
    /\ faults = 0
    /\ SchedulerCount = 1 \/ changes = 0 ) =>
      \A c \in Chunk :
        /\ stateFile[c] # NoState
        /\ stateFile[c].cfg = mergeState.cfg
        /\ stateFile[c].paths = mergeState.paths

\* Between runs the plan's counters are the true numbers of attempts and failed
\* attempts of each chunk, across any number of restarts, as long as no run was
\* killed and the input paths stayed.
CountersCumulative ==
  ( /\ planFile # NoPlan
    /\ \A p \in Process : phase[p] = "idle"
    /\ faults = 0 /\ changes = 0 ) =>
      \A c \in Chunk :
        planFile[c].attempt = executed[c] /\ planFile[c].retry = failures[c]

\* Reuse works: apart from failed attempts a chunk is executed once, plus at most
\* once more for every lost run, change of options or foreign claim.
WorkBound ==
  HistoryKept =>
    \A c \in Chunk : executed[c] <= failures[c] + 1 + faults + changes + claims

\* The retry budget bounds the failed attempts that really happened, of which a
\* lost run or a change of input paths can forget at most one budget.
FailureBudget ==
  HistoryKept => \A c \in Chunk : failures[c] <= MaxAttempts * (1 + faults + changes)

\* A chunk reported as stale_claim_recovered was reused, never executed.
StaleRecoveredOnlyIfReused ==
  \A p \in Process, c \in Chunk :
    task[p][c] \in {"planned", "computed", "completed", "failed"} =>
      rec[p][c].decision # "stale_claim_recovered"

\* A plan write keeps what other partitions completed: it leaves the completion
\* of every chunk outside the writer's own partition as it is on disk.
PartitionIsolation ==
  [][\A p \in Process, c \in Chunk :
       (/\ WritePlan(p)
        /\ ~Scheduled(p, c)
        /\ planFile # NoPlan
        /\ planFile[c].paths = job[p].paths) =>
         planFile'[c].completion = planFile[c].completion]_vars

\* Every run that is started ends: nothing waits on another process or a claim.
RunsEnd == \A p \in Process : phase[p] # "idle" ~> phase[p] = "idle"

Settled ==
  /\ planFile # NoPlan
  /\ \A c \in Chunk :
       planFile[c].completion = "completed" \/ planFile[c].retry >= MaxAttempts

\* If runs of every partition are started again and again, and if at some time bad
\* input no longer makes their threads exit, then every chunk is in the end completed
\* or out of attempts, and stays so.  The second condition is needed: an exit that
\* recurs uses up no attempt, so that the chunk never settles.
EventuallySettled ==
  (\A p \in Process : []<>(phase[p] = "decide") /\ <>[]~Broken(p)) => <>[]Settled

\* The LedgerEntry of a record.
Entry(r) ==
  [completion |-> r.completion, attempt |-> r.attempt, retry |-> r.retry,
   paths |-> r.paths]

Ledger ==
  INSTANCE PlanLedger WITH
    NoLedger <- NoPlan,
    ledger <- IF planFile = NoPlan THEN NoPlan ELSE [c \in Chunk |-> Entry(planFile[c])]

\* As long as runs do not overlap, an observer of the plan file sees each of them
\* as one transaction on a ledger of attempts, whatever its threads, partitions,
\* reuse, failures and kills were.
ImplementsLedger == Ledger!Spec

\* Layers are built from inputs at least as new as when their run started, as the
\* serial reducer's are.
LayersCurrent ==
  layers # NoLayers =>
    \A c \in Chunk : layers.merged[c] # NoState =>
      layers.merged[c].version >= layers.run.asof

\* While a foreign owner's lease of a chunk runs, no run executes the chunk.
LeaseRespected ==
  \A p \in Process, c \in Chunk :
    task[p][c] \in {"planned", "computed"} =>
      ~ActiveForOther([ownership |-> lease[c]], OwnerOf[p], job[p].now)

===============================================================================
