# Verification of rust_rockfall

TLA+ models of the parts of `rust_rockfall` that schedule, restart, thread and
merge work, stage its inputs, and step its integrator, the TLC runs that check them on small instances, and TLAPS proofs of
what matters most for every instance. Paths are relative to the repository.

1. [The system](#1-the-system)
2. [Modules](#2-modules)
3. [How the models correspond to the code](#3-how-the-models-correspond-to-the-code)
4. [Runs](#4-runs)
5. [Fairness](#5-fairness)
6. [Proofs](#6-proofs)
7. [Disagreements found](#7-disagreements-found)
8. [What is not modelled](#8-what-is-not-modelled)
9. [Plan](#9-plan)

To check a run: `tlc -config reducer_single.cfg MCReducerExecution`; to check the
proofs of a module: `tlapm ReducerExecutionProofs.tla`. `PROJECT.json` lists the
runs, the source lines behind every definition, the hazards of the code, and for
every property a mutant of the model that the property catches.

## 1. The system

A Rust crate simulates single rockfalls and ensembles of them; Python scripts
turn simulated trajectories into hazard layers, run the workflow for an area, and
submit bounded diagnostic jobs to the Slurm cluster Balfrin. Components talk
through files and subprocesses. There is concurrency in four places only: a
thread scope in `src/simulation.rs`, two thread pools in
`scripts/build_hazard_layers.py`, and the scheduler that
`scripts/run_balfrin_diagnostic.py` submits to and polls. No file is written
atomically (no temporary file and rename) and none is locked.

| Component | State it keeps | Operations | Hard because |
| --- | --- | --- | --- |
| Chunked reducer execution (`scripts/build_hazard_layers.py`, `run_reducer_accumulation`) | plan file, one partial state per chunk, index and merge-state sidecars, layers; in memory one record per chunk | plan, adopt the previous plan, decide (skip, reuse, reject, execute), execute chunks on threads, merge, write plan, write layers | restarts after kills at any point, torn files, retry budget, leases, partitions, failures that bypass the handler |
| Hazard accumulation (`HazardAccumulator`, partial states, `contiguous_partitions`) | grids, maxima, samples, counters | accumulate a file, merge, serialise, load | chunked must equal serial, reused chunks included |
| Trajectory generation plan (`scripts/build_hazard_layers.py`, `run_trajectory_generation`) | a plan file, partial states and merge state of its own | reads and counts the trajectory files in chunks on threads, before the reducer; plan, adopt, decide, read, write | as the reducer, but with signatures of contents, without counting attempts, and with failures that let the build go on |
| The build (`main` of the same script) | both sets of files | the two stages one after the other | two retry budgets, one process, kills between and inside the stages |
| Threaded ensemble (`src/simulation.rs`) | chunks, thread results | cut, spawn, simulate, join, sort | must equal the serial runner, errors included, in any interleaving |
| Balfrin diagnostic runner (`scripts/run_balfrin_diagnostic.py`) | `run_record.json`, the job's report | prepare, submit, monitor, collect, run | late answers, failing polls, lagging accounting, two shells on one run root |
| Fixed-step integrator and stop provenance (`src/integrator.rs`, `src/simulation.rs`) | body state, step count, contact | free flight, impact, sliding or rolling, stop | contact-state machine, end of time against end of steps |
| Contact dynamics, terrain, geodata (`src/dynamics.rs`, `src/terrain.rs`, `src/geodata.rs`) | none | real-valued functions | numerics |
| Random streams, probabilistic sampling (`src/stochastic.rs`, `src/probabilistic.rs`) | none | seeds from hashes, scenario weights | weights must be conserved |
| Validation runner and CLI (`src/validation.rs`, `src/validation/`, `src/main.rs`) | reports | run cases, compare metrics | sequential |
| Public geodata cache (`scripts/stage_public_geodata_cache.py`) | manifest, and per product a payload and a metadata sidecar | download, copy local candidates, stage, verify | files replaced in place one by one, the manifest last; what one command writes into a record the next one compares |
| Area workflow, packaging (`scripts/`) | reports | run subprocesses, package | stops at the first failure |
| Reports, calibration, repository checks (over a hundred scripts) | none | summarise and plan | formatting |

How they interact: the CLI and the validation runner call the ensemble, which runs
the integrator once per trajectory on a thread of its chunk and gets samples, a stop
reason or an error back; the area workflow starts the CLI as a subprocess and leaves
trajectory files. A hazard build reads those files: with `--trajectory-workers` above
1 the trajectory-generation stage first counts them in chunks on threads, then
`main` calls the reducer with the same owner, partition, lease and attempts, which
cuts the files into chunks of its own, accumulates each on a thread and merges. The
stages share no file; a chunk the first has given up ends the process before the
second. The geodata cache is filled by hand before all of this; preparation scripts
read what its manifest calls verified. The diagnostic runner starts bounded reducer probes on the cluster and
collects their report.

What makes each of them correct:

- *Reducer execution.* No restart exceeds the retry budget, repeats finished work
  without a reason, trusts a partial state of other options, or publishes layers
  that lack a chunk; what one partition completed, another does not lose; runs repeated
  until bad input is gone end with every chunk completed or out of attempts.
- *Accumulation.* Whatever the number of chunks and whichever are reused, the
  merged layers are those of the serial reducer; layers agree with each other.
- *Threaded ensemble.* The result is that of the serial ensemble, for any worker
  count and any interleaving; no failure is lost and the call returns.
- *Diagnostic runner.* The record claims no completion that did not happen, a
  completed run has its measurements, every command ends.
- *Integrator.* The contact state recorded with a sample is that of its motion; a
  stopped block rests where friction holds it; contact adds no energy; the stop
  reason names the condition that ended the run.
- *Trajectory generation.* What it counts is as new as its start; a chunk is given up
  exactly when its failures are used up, and then stops the build.
- *The build.* Builds repeated until bad input is gone deliver layers or run out of attempts.
- *Geodata cache.* What the manifest calls verified is there and is what was pinned; a
  checksum, once pinned, stays; what an interruption leaves behind can be repaired.
- *Sampling.* Weights sum to what the scenario table says.

## 2. Modules

| Module | What it is |
| --- | --- |
| `ReducerExecution` | the chunked build: one process per run, the shared files, the environment |
| `PlanLedger` | abstract: the plan file as a ledger of attempts changed by one transaction per run |
| `MCReducerExecution` | instances of it |
| `ReducerExecutionProofs` | types, retry budget, what layers are made of, what is reported as recovered; for runs that do not overlap, the plan file implements `PlanLedger`, isolation, counters, failure and work bounds, backed merge state |
| `HazardAccumulation`, `MCHazardAccumulation` | accumulators, partial states, merging, against the serial reducer |
| `FoldLaws` | lemmas on folding any operator over any sequence, for the proofs of accumulation |
| `HazardAccumulationProofs` | types, coherent layers, the merged accumulator is the serial one |
| `ParallelEnsemble`, `MCParallelEnsemble` | one call of the threaded ensemble, against the serial one |
| `ParallelEnsembleProofs` | its inductive invariant and three properties |
| `DiagnosticRun`, `MCDiagnosticRun` | commands on one run root, with the scheduler as environment |
| `DiagnosticRunProofs` | its inductive invariant and three properties |
| `ChunkClaims` | claims and leases of a chunk record, shared by both stages of a build |
| `TrajectoryGeneration` | the stage before the reducer, on its own |
| `HazardBuild`, `MCHazardBuild` | the build: `TrajectoryGeneration` and `ReducerExecution` composed |
| `HazardBuildProofs` | of the stage: types, failure budget, currency of counts, backing of completed chunks; the build implements both stages; a given-up chunk stops it |
| `FixedStepIntegrator`, `MCFixedStepIntegrator` | one trajectory on a plane and its stop reason |
| `FixedStepIntegratorProofs` | its inductive invariant and five properties |
| `GeodataCache`, `MCGeodataCache` | commands over one cache, interrupted anywhere |
| `GeodataCacheProofs` | its inductive invariant and three properties |

`ReducerExecution` and `HazardAccumulation` are two views of one component: the
first has the protocol and abstracts a chunk's accumulator to the options, paths
and input version it was computed from; the second has the contents and abstracts
the protocol to the set of chunks that are reused. `HazardBuild` extends
`TrajectoryGeneration` and takes the reducer as an instance over the same clock,
inputs and processes.

## 3. How the models correspond to the code

### ReducerExecution

`Process` are the builds that may be alive; a build that ends becomes idle and may
be started again, which is how restarts are modelled. `phase` is the position in
`run_reducer_accumulation` and the rest of `main`:

| `phase` | Code | Actions |
| --- | --- | --- |
| `idle` | not running | `StartRun`: plan the chunks, adopt the previous plan's records |
| `decide` | the decision loop | `DecideChunks` |
| `run` | `ThreadPoolExecutor`, one task per chosen chunk | `ComputeChunk`, `FailChunk`, `ExitChunk`, `WriteState`, `WriteStateFails`; then `AbortRun` or `MergeResults` |
| `plan` | plan file, `SystemExit` if chunks failed | `WritePlan` |
| `layers` | `build_layers`, writers | `WriteLayers` |

`planFile`, `stateFile`, `mergeState` and `layers` are the files, `rec` the
in-memory chunk records (`completion_status`, `orchestration_decision`,
`attempt_count`, `retry_count`, input signature, ownership), `task` what became of
each chunk in this run, `acc` the accumulators to be merged. `executed`,
`failures`, `lease` and the job's `asof` are history that only properties read; the
first two are given up (`HistoryKept`) when more than `MaxFaults` runs have been lost,
which keeps an instance finite although runs may be lost for ever.

- A file that is absent and one that does not parse are one value, because every
  reader treats them alike. A kill may leave the file being written unreadable.
- An execution signature is the pair of options (`Config`) and input path lists
  (`PathSet`); an input signature is the path lists. File contents have a
  `version`, which no signature sees.
- `ExitChunk` is the `SystemExit` that `weight_for_trajectory` raises while a chunk
  is accumulated: the handler catches `Exception` only. `WriteStateFails` is an
  error of the state file's write, which is outside the handler. Both lose the run
  at `list(executor.map(...))`, after the other threads are done. `SystemExit` is the
  result of bad input and comes again in every run until the input is corrected, so
  nothing bounds `ExitChunk`; failing writes are bounded with the kills.
- `DecideChunks` is one step. The decision loop touches one record after the other
  and reads partial states only, which nothing else writes while runs do not
  overlap, so its intermediate states are not observable.
- The number of chunks is constant, as with a fixed `--reducer-workers`; a plan
  with another number of chunks has other chunk names and is another build.
- The execution index and the per-chunk manifests are written but never read
  back, and are left out. The merge state is kept because it tells other tools
  whether a partitioned build is complete.
- `Overlap` says whether runs may overlap in time. `docs/validation_data_schema.md`
  (889-891) excludes this ("single-process local execution only"), and the runs set
  it to `FALSE`; the theorems of `ReducerExecutionProofs` do not need it.
- `ForeignClaim` stands for another orchestrator that writes a claim into the plan
  between two runs. Nothing under `scripts/` does so; the skip path for it exists
  and the repository's tests write such plans.

`PlanLedger` says what an observer of the plan file sees: per run one transaction,
in which every chunk stays or moves by one outcome (withdrawn, succeeded, failed,
exhausted) from what the file said, or the loss of the file. `ImplementsLedger` is
the refinement; the mapping keeps completion, counters and paths of each record.

### HazardAccumulation

An accumulator is a record of counting grids (one function over layer names),
probability-weighted grids, maxima, samples per cell, deposition points and
counters. `AddTrajectory`, `AddDeposition`, `AddImpactFile`, `Merge`, `Serialized`
and `Loaded` are the methods and the partial state; `Share` is
`contiguous_partitions`. Each chunk's thread reads its files one by one; the
threads interleave, and the results are merged by chunk id. A chunk in `reused`
was computed by an earlier run over the same files, so its accumulator goes
through `Loaded(Serialized(_))`. Values and weights are naturals: addition is
exact, unlike that of floats. `conditional_statistics_surfaces` is on, so that
samples are kept. A weighted build ends with `SystemExit` at a trajectory file without
samples or without a weight, serial and chunked alike, and has no such file here; deposition
points and impacts of trajectories without a weight are left out of the weighted grids. A
deposition point or impact without a trajectory id ends a weighted build with `SystemExit`
(2159-2163, 2173-2177), serial and chunked alike, and is met in unweighted builds only. Warnings, and statistics derived from the accumulator when the
layers are written, are left out.

### ParallelEnsemble

The caller checks its arguments (`Call`), cuts the request into chunks one by one
(`PlanChunk`), spawns (`SpawnAll`), joins in chunk order (`JoinNext`,
`AllJoined`), and leaves the scope when every thread is done (`LeaveScope`). A
thread simulates its trajectories in turn and stops at the first that fails
(`Simulate`, `Finish`). `outcome` fixes how simulating each trajectory ends: `ok`,
an `error`, or a `panic` that unwinds the thread. A trajectory depends on its own
request only, because its seed is a hash of the global seed, the case and its id.
That a scope waits for its threads and panics for one that panicked without being
joined is `std::thread::scope`, marked external. Spawning is one step, and the
failure of the operating system to start a thread is not modelled.

### DiagnosticRun

Each operator has at most one command on the run root. `pc` is the command's
position and `held` the record it has in memory; it writes the record back whole,
so an old copy can overwrite a newer one. `squeue` may fail or show nothing at any
time, `sacct` may fail, lag or report the job, `sbatch` may accept a job and
answer too late or print no job id, and every command may be killed, leaving the record unreadable.
A record that another command is writing may be read as unreadable. The job (the
generated script) writes its report in place and ends completed or failed; when,
is the scheduler's choice. `squeue` and `sacct` are assumed to return: the code
gives only `sbatch` a time limit, and a client that hangs would hang the command.
`plan` writes nothing and has no action.

### TrajectoryGeneration and HazardBuild

`stage` is the position in `run_trajectory_generation`: `decide` (the decision loop,
`DecideTrajectories`), `run` (the pool: `ReadTrajectories`, `ReadFails`, `ReadExits`,
`WriteTrajectoryState`, `WriteTrajectoryStateFails`, then `AbortGeneration` or
`CollectTrajectories`), `plan` (`WriteTrajectoryPlan`, which exits if a chunk was
rejected) and `done` (`ReturnSummary`). The rest is as in `ReducerExecution`; these
are the rules of its own:

- The execution signature hashes file contents. It is taken once, when the run
  starts, while each thread reads its files later: `opened` holds the one, `counted`
  the other, and a `TrajectoryState` both.
- A file that makes a thread raise `SystemExit` (`ReadExits`) does so in every run
  until it is corrected. Nothing bounds it, and `ReadHistoryKept` is to `readFailures`
  what `HistoryKept` is to the reducer's history.
- `attempt_count` is raised by nothing but a rejection, which makes it at least 1. The
  failures of a chunk are its `retry_count`.
- A failed chunk is left in the plan, its error in the summary, and the build goes on:
  `failed_chunks`, which ends it, holds rejected chunks only.
- `SettingChanges` is the environment as far as the stage can tell: time and contents
  go forward, paths change in any way. It is as weak as that so that every build,
  whose environment is that of `ReducerExecution`, implements the stage.

In `HazardBuild` a process is idle, in the stage, or in the reducer. `StartReducer` is
one step, since nothing lies between the return of the summary and the reducer's
planning. With one worker `main` skips the stage; that build is `ReducerExecution`.

### FixedStepIntegrator

One trajectory of `src/integrator.rs` with the contact model `translational_v0`, on an
inclined plane, and the stop reason of `src/simulation.rs`. The motion is the gap to
the ground and the velocities normal to it and along it. A step of time is one unit of
the motion and gaps count half units, so the ballistic step is exact in integers;
restitution is in parts of `Unit`, rounded down. A turn of the loop (`StepOn`) is one
action, with the calls in the code's order: ballistic step, projection to the ground
and impact, scar, contact test, friction, the name of the contact state.

- `Ground` is any set of contact parameters and each step may meet another member, as
  on terrain with several materials. The plane itself is the same everywhere.
- Roughness is a choice of parameters at least as dissipative as those of the ground;
  the noise of the contact normal is left out. A scar leaves any part of the velocity.
- `settings` are the duration, the gravity normal to the ground and along it, and
  whether the rounded sum of steps stays `short` of the duration. The step count and
  the clock are computed differently (`floor` of a quotient with a tolerance, and a
  running sum compared with another one), so that the two can disagree: 15,000 steps of
  2 ms sum to 5.7e-12 s less than 30 s, and the tolerance is 1e-12 s.
- `CONTACT_NORMAL_SPEED_TOLERANCE_MPS` is below the unit of velocity, so a
  speed within it is 0; the distance tolerance is kept as `NearGap`.
- A terrain query may fail in any step and ends the trajectory with an error.

### GeodataCache

Commands over one cache run one at a time; `mode` is the running one, `at` the product it
is at, `pc` what it does next:

| `pc` | Code | Action |
| --- | --- | --- |
| `idle` | no command | `StartDownload`, `StartCopy`, `StartStage`; `PlaceByHand`, `RestoreTemplate` |
| `next` | the loop over products | `NextProduct`: pass by, begin a copy, or open a payload for download |
| `fetch` | `download_public_geodata_asset`, `copy_public_geodata_asset` | `Fetch`: the download is complete; the old payload removed and the new one copied |
| `describe` | the sidecar is written or copied | `Describe` |
| `write` | every record is checked, the manifest is rewritten | `WriteManifest` |

`Interrupt` ends a command wherever it is: a refused connection, a full disk, a kill. The
code has no handler for any of them. `Publish` changes what a URL delivers, also while a
command runs.

- `Staged` is `stage_public_geodata_cache_product`, which all three modes call for every
  record; a download calls it with the record that `Downloaded` makes. `Expected(r)` is
  `checksum_sha256`, here `pin`, or else `processed_checksum`.
- A digest is the content it is of, marked for a file or a directory tree, since the
  digest of a directory covers names too. A directory is a tree, from names to contents.
  A download writes its own file (`Write`) and leaves the others; a copy removes the
  directory and takes its place. The sidecar lies beside the directory or, for the
  products in `Inside`, in it: no digest of what is staged covers it, but a copy removes
  it with the directory (`Cleared`) and brings the candidate's if that lies at the same
  place (`Arrived`). At another place it arrives as one more file, which is why a
  candidate's `copy` may differ from its `content`.
- An interrupted copy leaves any part of the old tree, or any part of the new one with
  some files short (`Leftover`); an interrupted download a directory without a file, or
  a short file.
- What a sidecar says of source, version, tile, extent and the like is one Boolean,
  `describes`: whether it agrees with the record. No command changes those fields of a
  record. Digests and the preparation are kept, because commands write them.
- An unwritten sidecar or manifest is an empty file, which reads as an empty mapping. An
  empty manifest (`Lost`) has no products: every command then ends at once, calls that
  `verified`, and leaves it so, and the model waits for `RestoreTemplate`.
- Which candidate of the local roots matches a product is any choice. A download that
  ends early without an error looks like another version. Products of unknown
  category, whose records are passed through and which block every copy, the overall
  status, the counts and the reports are left out, and so are commands that write
  nothing: dry runs, blocked proposals, downloads with a required URL missing.
- `intact` is history: the files of a product were not touched since the manifest was
  last written.

## 4. Runs

| Run | Instance | Distinct states | Shows |
| --- | --- | --- | --- |
| `reducer_single` | one unpartitioned build of 2 chunks, 2 attempts, 2 options, 2 path lists, 1 change, 1 kill or failing write, any number of exits | 197,555 | retry budget, reuse, completeness, backed merge state, bounds on work and failures, termination, settling, the ledger |
| `reducer_partitioned` | 2 partitions one after the other, 2 chunks, 2 attempts, foreign claims, lease of 1 in a clock of 2, inputs rewritten once | 1,025,510 | isolation of partitions, true counters, leases |
| `ensemble` | every call of up to 4 trajectories and 5 workers, every outcome of each | 17,041 | chunks are a partition, equals the serial runner, no failure lost, returns |
| `accumulation` | up to 3 trajectory files, 1 deposition file, 2 impact files, up to 3 chunks, any reused | 124,800 | coherent layers, merge equals serial |
| `diagnostic` | 2 operators, 1 job, 1 kill, any commands, no promise of the cluster | 556,311 | completed is true and measured; every command ends if it has a time limit |
| `build` | one build of 2 trajectory chunks and 1 reducer chunk, 2 attempts, 2 path lists, one disturbance (kill, failing write, claim or new paths), any number of exits before a claim or a change of inputs, and one such change | 509,354 | current counts, failure budget, given-up chunks stop the build, termination, delivery |
| `integrator` | 48 releases onto planes of 2 gravities, 2 slopes and 10 grounds, roughness and scars, durations of no and 3 steps, the latter whole and not | 60,344 | contact states, stopped blocks, stop reasons, energy |
| `geodata` | a required file, an optional directory with its sidecar inside, and an optional file without URL, 2 versions, 2 names of files, 6 local candidates, templates with and without checksums, 1 change from outside, 1 interruption, any commands | 816,307 | verified records hold, checksums stay, downloads repair |
| `reducer_inputs`, `reducer_lease`, `accumulation_reuse`, `diagnostic_terminal` | as above, smaller | | the disagreements of section 7 |

Why these bounds are enough:

- *Two chunks* are one that fails or is reused and one that does not; every rule of
  the reducer is about one chunk or about all of them. *Two attempts* are a retry
  that is allowed and one that is not. *Two partitions* own different chunks.
- *One fault* and *one change* already meet every phase of a run and every earlier
  history, since the number of restarts is not bounded. The clock passes a lease
  before, at and after its end.
- *Four trajectories over up to five workers* give no, equal and unequal chunks,
  more workers than trajectories, and the empty call.
- *Three files over up to three chunks* give shares of 0 to 3 files with and
  without a remainder; the files repeat a cell, leave the grid, lack a value, lie
  below, at and above a threshold, and one trajectory has no samples.
- *One job and two operators*: `sbatch` may accept the job and answer too late, after
  which the record never names it; otherwise every command of the second operator
  meets every stage of the first one's.
- *Two trajectory chunks* are one that fails or is given up and one that is read or
  reused; the reducer behind them needs one chunk to run, fail and be reused, since
  its own rules are checked in its own runs. Inputs may be rewritten, or paths changed,
  between any two steps of a build.
- *Durations of up to three steps* reach an impact, the slide after it and a stop, and
  the loop's end by the clock and before it. Ground is slippery, sticky and in between,
  soft to perfectly elastic.
- *Three products* are one of each kind; a command treats each without looking at the
  others, except that one blocks a copy or ends a command for all. Two names are the
  file a download writes and one it does not; candidates of the directory have no
  sidecar, one at a place of its own, or one file more. Commands are not
  bounded, so one interruption and one change meet every state that commands lead to.

The bounds of the environment (`MaxClock`, `MaxVersion`, `MaxChanges`, `MaxFaults`,
`MaxClaims`, `MaxTrajectoryFaults`, `MaxTrajectoryClaims`, `MaxInputChanges`,
`MaxDisturbances`, `MaxJobs`, `MaxKills`, `MaxCount`, `MaxWorkers`) are not limits of
the program. `MaxFaults` and `MaxTrajectoryFaults` bound kills and failing writes, not
the exits of bad input, which recur without a bound. `WorkBound`, `FailureBudget` and
`ReadFailureBudget` count what was used of the bounds, and speak of histories with at
most `MaxFaults` lost runs; the proofs give them for every `MaxFaults`, so for every
history. That kills, failing writes and changes of options are finite in number is an
assumption of the liveness properties: a build killed every time it starts never ends.
In `build` exits recur, after a kill too, as long as no claim has come and no inputs
were changed. There the clock stands still, so a foreign claim is live until the next
run releases it; leases that expire are met in `reducer_partitioned`, whose rules
(`ChunkClaims`) both stages share. Deadlock is checked in every run, and no run uses
symmetry.

What some of the properties say beyond their comments:

- `WorkBound`: apart from failed attempts, a chunk is executed once, plus once per
  lost run, change of options or foreign claim. It fails if reuse is broken anywhere.
- `FailureBudget`: the attempts that really failed, not the ones that are
  recorded. A lost run can forget at most one budget, since it can lose the plan file.
  An attempt that ends in an exit is not among them, and no record has it: it widens
  the bound by the run it loses.
- `EventuallySettled`: chunks that are rejected, reset, skipped and failed run after
  run do not alternate for ever. It assumes that bad input at some time stops making
  threads exit (`<>[]~Broken(p)`), after any number of lost runs. Without that
  assumption TLC refutes it: the run is lost before its plan, no counter moves, and the
  next one is lost in the same way (see section 7).
- `ReadyIsBacked`: with no run killed, a merge state that lists every chunk is backed
  by readable partial states. After a kill it need not be: the state may be torn
  while the merge state of an earlier run still stands.
- `SerialEquivalence` is stated without panics. A panic of the integrator is caught in
  both runners and is an `error` of the model; one outside that catch unwinds the
  serial call, while the threaded call returns an error for a joined thread and
  unwinds for one that was not joined. What holds then is `NoFailureLost`.
- `CountsCurrent` and `reducer_inputs` are the two sides of one design: the stage hashes
  contents and its counts are never of older files than its start, while the reducer
  hashes paths and can go on with old layers.
- `CompletedIsBacked` needs a history without lost runs: a kill can tear a state whose
  chunk the plan still calls completed. The next run finds that out and reads again.
- `GivenUpStopsBuild` allows a given-up chunk whose record another owner's claim has
  put back to `not_started`: the skip does so without looking at the counters.
- `EventuallyDelivers` is about builds that are started again and again; it would fail
  if one stage used up the attempts of the other or alternated for ever. As
  `EventuallySettled`, it assumes that bad input goes, and is false without that.
- `StoppedIsHeld` excludes a block stopped by the stop speed alone: the friction of the
  ground must carry the slope.
- `ReasonFitsMotion` holds for every duration. It shows the two corners of section 7.
- `CompletedIsTrue` survives every interleaving of commands because a record that
  names a job says completed only after accounting said so of that very job.
- `VerifiedHolds` needs its exceptions: a record verified by staging may not pass the
  verifier, see section 7. With `faults = 0` it says that only an interruption can
  make staging pin a short payload; after one, staging does.
- `PinKept` and `DownloadsRepair` pull in opposite directions: a download trusts the first
  payload it gets, and the checksum then refuses a new version upstream for ever.
  `DownloadsRepair` excepts directories with files other than the download's: no download
  removes them, and the checksum covers them. TLC refutes it without that exception.

## 5. Fairness

- `ReducerExecution`: weak fairness of `RunStep(p)`, the steps a live process takes
  by itself. Its threads never wait on a lock, another process or a claim. Nobody
  promises that a run is started: `EventuallySettled` assumes it explicitly, in the
  formula, and that exits stop. Kills, exits and failing writes are not fair.
- `ParallelEnsemble`: weak fairness of the caller and of the threads together. The
  number of integration steps of a trajectory is bounded by its duration, so no
  thread runs for ever, and the operating system schedules runnable threads.
- `HazardBuild`: weak fairness of `BuildStep(p)`, for the reasons given for the reducer,
  whose threads and order it repeats; readings that fail are steps of their own that may
  or may not be taken, and faults are not fair.
- `FixedStepIntegrator` states none: that its loop ends follows from the bound on steps.
- `GeodataCache`: weak fairness of `CommandStep`, the steps of the running command; its
  only waits are on the network, with a time limit. Interruptions are bounded.
  `DownloadsRepair` assumes in its formula that downloads are started again and again.
- `DiagnosticRun`: weak fairness of each command's steps and of its clock. The
  scheduler promises nothing: a job may stay queued for ever. `CommandsEnd` is
  therefore about commands with `--monitor-timeout-seconds` above its default of 0;
  without it `monitor` polls as long as the job is shown. That `squeue` and `sacct`
  return is assumed: they are called without a limit (374-398).

## 6. Proofs

The theorems hold for every value of the constants that meets the named
assumptions in the modules (counts are naturals, at least one chunk, attempt and
partition, null values differ from what they stand for).

- `ReducerExecutionProofs`
  - `TypeCorrect`. Inductive as it stands, one lemma per group of actions.
  - `RetryBudgetHolds`. `RetryBudget` is not inductive: a record about to be
    executed must have budget left, and one that claims completion a successful
    attempt. `BudgetInv` adds this for chosen chunks (`ClaimedWithinBudget`).
    Overlapping runs are included.
  - `LayersMatchOptionsHolds`, `LayersCompleteHolds`. `LayersInv` says that what a
    run holds for merging has the options it was started with (`Held`), and what
    each phase has established about its tasks (`Results`): when layers are written
    no task failed, was rejected or, unpartitioned, skipped, so each chunk has an
    accumulator. Overlapping runs are included.
  - `StaleRecoveredOnlyIfReusedHolds`, if no foreign owner has the name of a run. A
    decision survives in the plan from run to run, so `Reopened` says what else an
    adopted record with that decision shows: it is completed, or a foreign claim is
    still on it, which makes the run skip it or find the claim over. Overlapping runs
    are included.
- `ReducerExecutionProofs`, second part, under the assumption that `Overlap` is `FALSE`, without which
  all of these are false: the later of two writers undoes the earlier one.
  - `LedgerImplemented`. `Accounts(p)` relates the records of a live run to the
    entries on disk it will replace; nothing else writes the file while it is alive
    (`Alone`), so at the write each chunk is one outcome away from its entry.
  - `PartitionIsolationHolds`. The entry of a chunk outside the partition is
    the one on disk throughout the run (`Untouched`).
  - `CountersCumulativeHolds`. `CountersInv`: the records of a run lag behind what
    happened by exactly the threads whose results are not copied.
  - `FailureBudgetHolds`. `FundedInv`: the plan on disk and the records in memory each
    account for the failures so far, but for one budget per kill or change (`Forgotten`).
    A record for path lists that are no longer current has its own loss paid for in advance
    by the change, and a run whose thread raised by that thread's fault (`Spare`).
    Where an exit gives up the history, this and `WorkInv` have nothing left to say.
  - `ReadyIsBackedHolds`. `BackedInv` follows a completed chunk from the partial state
    through the records in memory to the plan and the merge state; chunks of other
    partitions rely on the options being the same throughout (`OneConfiguration`).
  - `WorkBoundHolds`. `WorkInv`: executions are explained by failures, kills, changes and
    claims, but for one if its result is still of use to the next run (`Usable`). A run
    executes a chunk only if that is not so, and what it then earns is lost only by
    something counted.
- `FoldLaws` holds the lemmas that the next module rests on: `FoldEmpty`, `FoldAppend`,
  `FoldType`, `FoldRelates`, `FoldConcat`. They say nothing of this code. The provers cannot use the library's induction
  theorems, which take a predicate as a parameter, so induction is by sets
  (`NumberInduction`, `SequenceInduction`): numbers that a set leaves out have a least
  one, because initial segments are well-founded under inclusion. `FoldIterates` shows
  that the recursion behind `FoldLeft` has a solution, which is what its `CHOOSE` needs.
- `HazardAccumulationProofs`, for any files, grid, thresholds, weights and any number of
  chunks, reused or not. Assumed are the shapes of the constants (`ValueAssumption`,
  `NoGridsAssumption`) and of the files (`InputAssumption`); that a weighted build has a
  weight for each trajectory is in `Init`, since the code ends otherwise.
  - `MergedIsSerialHolds`. `MergedIsSerial` speaks of the end only. `IInv` says what each
    accumulator holds at every point: a chunk the files its thread has read
    (`Gathered`), a completed one the files of its share (`ChunkResult`), and the merge
    the serial accumulation of the files of the first `nextMerge` shares
    (`SerialUpTo`), the last two up to the weighted reach of reused chunks (`Alike`). A
    merge step keeps this by `MergeChunk`: merging commutes with adding a file
    (`MergeTrajectory`, `MergeImpactFile`), trajectories commute with impact files
    (`ImpactFileTrajectory`), and the shares put end to end are the files (`CutFacts`,
    `ShareFacts`), whatever the remainder.
  - `FreshBuildsPreserveSerialOutput`, from the same invariant: without weights, or
    without a reused chunk, the merge is exactly the serial accumulator, so the
    disagreement `accumulation_reuse` of section 7 needs both.
  - `CoherentHolds` follows from `IInv`: what the invariant says an accumulator holds is
    made by adding files to an empty one, and each file keeps layers coherent
    (`TrajectoryCoherent`); loading and merging need no argument of their own.
  - `TypeCorrect` follows from `IInv` too.
- `ParallelEnsembleProofs`: `EnsembleInvariant` and, from it,
  `ChunksPartitionHolds`, `SerialEquivalenceHolds`, `NoFailureLostHolds`. The chunk
  loop's running sum gets a closed form (`Cut`), so that chunks partition the
  request whatever the remainder; the joined prefix is exactly the trajectories
  before `Cut(joined)`; and since threads are joined in order, the first failure met
  is the first in index order.
  `TypeCorrect` comes from the same invariant.
- `HazardBuildProofs`, first part, of `TrajectoryGeneration`
  - `TypeCorrect`, inductive as it stands.
  - `AttemptMeansGivenUpHolds`. A record about to be read must have budget left and
    one whose chunk was completed must not be given up: `BudgetInv` says so of each
    choice. Overlapping runs are included.
  - `CountsCurrentHolds`. `FreshInv` says that contents in any partial state are at
    least as new as its signature, and signatures no newer than the files.
    Overlapping runs are included.
  - `CompletedIsBackedHolds`, `ReadFailureBudgetHolds`, under the assumption that
    `Overlap` is `FALSE`. `BackedInv` follows a completed chunk from the thread that wrote
    its state, through the record in memory, to the plan file. `FailureInv` relates
    the failures that happened to the counter on disk, the counter in memory and
    one budget for every loss or change (`Forgotten`), by which a plan can be forgotten,
    as long as the history is kept.
- `HazardBuildProofs`, second part
  - `GenerationImplemented`, `ReducerImplemented`: every step of a build is a step of
    the stage, of the reducer, or of neither; the environment of one is the other's.
    What is proved of `ReducerExecution` thereby holds of builds: the prover cannot cite
    a theorem through an instance with other variables, so this last step, which is
    substitution, is for the reader. For the stage, which the build extends, it is
    formal: `BuildKeepsGeneration`.
  - `GivenUpStopsBuildHolds`, with `Overlap` `FALSE`. `GateInv` says at each point of the
    stage that a positive `attempt_count` in this partition belongs to a chunk that was
    rejected or put back, so that a run which leaves with a summary left none behind.
- `FixedStepIntegratorProofs`: `TypeCorrect`, `LabelTruthfulHolds`, `StoppedIsHeldHolds`,
  `ContactDissipatesHolds`, `ReasonFitsMotionHolds`, for every slope, ground, step,
  duration and release. The three invariants are inductive together (`IntegratorInv`).
  `StepFacts` takes a motion through the branches of a step; `NoFaster`, that no
  speed grows, is what all of them preserve, and energy follows from it (`Squares`).
  Restitution and friction round down, so the lemmas on `\div` come first.
- `GeodataCacheProofs`: `TypeCorrect`, `VerifiedIsThere`, `PinIsKept`, for any products,
  contents, candidates, templates and any number of changes and interruptions. `StagedFacts`
  and `FinalFacts` say what a record is after a command; `IInv` adds to the types where
  a command is, that the product at hand is not intact (`Control`), what a verified record
  of intact files says (`RecordHolds`), and that a short payload before any
  interruption is the one being written (`NoneShort`). `TornDigest` and `WriteFacts` are
  about trees: a short file shows in the digest of its tree, and a download that is
  complete leaves a whole tree if the other files are whole.
- `DiagnosticRunProofs`: `DiagnosticInvariant`, `TypeCorrect`,
  `CompletedIsTrueHolds`, `CompletedIsMeasuredHolds`, for any number of operators,
  jobs and kills. `CompletedIsTrue` is not inductive because commands write back
  copies; `AllHonest` says it of every copy held in memory. `Reported` says that a
  job that completed left a report.

Only model-checked: liveness (`RunsEnd`, `EventuallySettled`, `BuildsEnd`,
`EventuallyDelivers`, `Returns`, `CommandsEnd`, `DownloadsRepair`), which the prover
cannot do under fairness. Every invariant and every other action property that a
passing run checks is proved.

## 7. Disagreements found

Each is the counterexample of a run that expects a violation.

- `reducer_inputs`: `docs/validation_data_schema.md` (848-849) requires the serial values. A chunk's
  input signature hashes paths, so inputs rewritten in place are not noticed and the
  layers keep the old contents.
- `reducer_lease`: the option help calls the lease a window before a claim becomes
  stale. Skipping a chunk claimed by another owner releases the claim, so the next
  run executes the chunk while that window still runs.
- `accumulation_reuse`: the partial state leaves `weighted_reach` out, so a reused
  chunk adds nothing to the weighted reach layer.
- `diagnostic_terminal`: `monitor` asks `sacct` once, when `squeue` first shows nothing
  or fails, and records `terminal_non_success` for every answer but `COMPLETED`, also
  of a job that is still queued or whose accounting lags.

Some things the models show that no text of the repository contradicts clearly enough to
be listed as findings:

- In the trajectory-generation stage `attempt_count` is not a count of attempts
  (`scripts/build_hazard_layers.py`, 837 and 1188): it is 0 until a chunk is given up.
  `AttemptMeansGivenUp` states what it means instead.
- A block still moving when its duration is no whole number of steps, or when the
  rounded sum of steps stays short of it, ends with the reason `unknown`, and a slow
  block in the air then ends with `final_speed_below_stop_threshold`, which otherwise
  is told of blocks on the ground only.
  `docs/terrain_material_interaction_diagnostic_protocol.md` (89) groups results by these
  reasons.
- A trajectory without a weight, or a file with two trajectory ids, ends a threaded build
  before its plan is written (`scripts/build_hazard_layers.py`, 339-345 and 5168-5201, past
  the handler at 4468). No attempt is counted, so the retry budget never rejects the chunk
  and every rerun is lost in the same way until the input is corrected.
- A file that lies in the directory of a product beside the download's makes the digest of
  the directory wrong (`scripts/check_second_site_public_geodata_preflight.py`, 1152), and
  downloads never remove it (`scripts/stage_public_geodata_cache.py`, 852-860): the product
  stays `checksum_mismatch` although its URL delivers what was pinned.
- A chunk executed by the partition that owns it keeps the decision `not_scheduled`
  which the other partition's run wrote (4099), because an adopted decision is
  overwritten in some branches only.
- Staging writes the digest of a directory into `raw_checksum`, where the sidecar of a
  download has the digest of the file in it, and a default preparation where the record
  has none. The record says verified; the verifier, and the next staging, say
  `metadata_mismatch`. `docs/agent_work_log.md` (1769) has it that staged inputs "can
  round-trip through the same manifest contract". `VerifiedHolds` states exactly when they do.
- `scripts/stage_public_geodata_cache.py` (371) calls a copied cache verified as a whole
  whatever its records say, for instance of an optional product without a candidate.

## 8. What is not modelled

Of the 150,000 lines of implementation most are some hundred and fifty sequential
scripts under `scripts/` that read artifacts, derive tables and write reports,
handoffs, readiness matrices and plans. They have no second actor, keep no state
between runs beyond the files they write whole, and retry nothing: a model of one would
repeat its dataflow and could only be wrong where it was copied wrongly. The models
therefore cover the code where order, failure, restart or numbers interact, and a small
share of the lines. In particular:

- *Terrain, geodata, shape.* Interpolation of rasters, map projections and the polyhedral
  contact scaffold (`src/terrain.rs`, `src/geodata.rs`, `src/shape.rs`) are pure
  functions of reals; questions about them are numerical.
- *The rest of contact dynamics.* `sphere_rotational_v1`, curved terrain, the noise of
  the contact normal and the recorded diagnostics of an impact. Rotation couples spin
  and slip by real factors for which whole numbers give no faithful step.
- *Random streams.* Seeds are hashes. Their only use in a model is that a trajectory
  depends on its own request, which `ParallelEnsemble` assumes.
- *Probabilistic sampling.* Tables of weights, each read and normalised once.
- *Validation runner, CLI, manifests.* Sequential: read a case, call the ensemble,
  compare, write.
- *Area workflow, packaging.* Pipelines of subprocesses that stop at the first failure and are started again from the beginning.
- *Older Balfrin helpers.* The repository says not to start from them.
- Rounding of float sums in the accumulators, chunk ids beyond four digits, whose order as
  text is not that of the input, and builds in two processes at a time, which the
  repository's documentation excludes.

## 9. Plan

Done, in this order: `ReducerExecution` with `PlanLedger`; `ParallelEnsemble`;
`HazardAccumulation`; `DiagnosticRun`; `TrajectoryGeneration`; `HazardBuild`, the
composition of the two stages; `FixedStepIntegrator`; `GeodataCache`; the proofs of section 6.

What could follow:

1. Proofs of `WorkBound`'s analogue for reads in `TrajectoryGeneration`, and of what the
   merge keeps beyond `MergedIsSerial`, such as the statistics derived from samples.
2. Composition of `ReducerExecution` and `HazardAccumulation` through the partial
   state: a reducer whose accumulators are contents.
3. The integrator on a plane with a step or an edge, where the normal changes between
   two samples.
4. Weight conservation in `src/probabilistic.rs` over bounded inputs.
