------------------------------ MODULE HazardBuild ------------------------------
(***************************************************************************)
(* A build with --trajectory-workers above 1 (main of                      *)
(* scripts/build_hazard_layers.py): trajectory generation and the chunked  *)
(* reducer one after the other in one process, with the same owner,        *)
(* partition, lease and attempts.  The reducer is ReducerExecution, whose  *)
(* runs now start only when the stage before has returned its summary.     *)
(***************************************************************************)
EXTENDS TrajectoryGeneration, FiniteSets

CONSTANTS
  ChunkCount, Config, NoState, NoPlan, NoMergeState, NoLayers,
  MaxClock, MaxVersion, MaxChanges, MaxFaults, MaxClaims,
  \* Bounds of the environment: changes of the inputs; faults, claims and new paths.
  MaxInputChanges, MaxDisturbances

VARIABLES
  cfg, faults, claims, planFile, stateFile, mergeState, layers, phase, job, rec, task,
  acc, executed, failures, lease

Reducer == INSTANCE ReducerExecution

\* What the reducer does not share with the stage before it.
reducer ==
  <<cfg, faults, claims, planFile, stateFile, mergeState, layers, phase, job, rec, task,
    acc, executed, failures, lease>>
buildVars == <<generationVars, reducer>>
-------------------------------------------------------------------------------
BuildInit == Reducer!Init /\ GenerationInit

\* A build begins with the stage, whatever the reducer's files say.
StartBuild(p) ==
  /\ phase[p] = "idle"
  /\ Overlap \/ \A q \in Process : phase[q] = "idle"
  /\ StartGeneration(p)
  /\ UNCHANGED reducer

\* main passes on to run_reducer_accumulation, with nothing in between.
StartReducer(p) == ReturnSummary(p) /\ Reducer!StartRun(p)

BuildStep(p) ==
  \/ GenerationStep(p) /\ UNCHANGED reducer
  \/ StartReducer(p)
  \/ Reducer!RunStep(p) /\ UNCHANGED generation

Disturbed == changes + faults + claims + trajectoryFaults + trajectoryClaims

BuildFault(p) ==
  /\ Disturbed < MaxDisturbances
  /\ \/ GenerationFault(p) /\ UNCHANGED reducer
     \/ /\ Reducer!Crash(p) \/ \E c \in Reducer!Chunk : Reducer!WriteStateFails(p, c)
        /\ UNCHANGED generation

\* Bad input ends the build in either stage, as often as it is met; to bound the
\* instance, only as long as no claim has come and no inputs were changed.
BuildExit(p) ==
  /\ changes + version + claims + trajectoryClaims < MaxDisturbances
  /\ \/ (\E c \in TrajectoryChunk : ReadExits(p, c)) /\ UNCHANGED reducer
     \/ (\E c \in Reducer!Chunk : Reducer!ExitChunk(p, c)) /\ UNCHANGED generation

\* Another orchestrator claims a chunk of either plan.
OutsideClaim ==
  /\ Disturbed < MaxDisturbances
  /\ \/ /\ \E c \in TrajectoryChunk, o \in ForeignOwner : ClaimTrajectory(c, o)
        /\ UNCHANGED reducer
     \/ /\ \E c \in Reducer!Chunk, o \in ForeignOwner : Reducer!ForeignClaim(c, o)
        /\ UNCHANGED generation

\* Time passes, the inputs are rewritten or the next build is given other ones.
BuildSettingChanges ==
  /\ \/ Reducer!Tick
     \/ Reducer!RewriteInputs /\ changes + version < MaxInputChanges
     \/ Reducer!Reconfigure /\ changes + version < MaxInputChanges /\ Disturbed < MaxDisturbances
  /\ UNCHANGED generation

BuildNext ==
  \/ \E p \in Process : StartBuild(p) \/ BuildStep(p) \/ BuildFault(p) \/ BuildExit(p)
  \/ OutsideClaim
  \/ BuildSettingChanges

BuildSpec == BuildInit /\ [][BuildNext]_buildVars

\* A live process makes progress; nobody promises that a build is started.
FairBuildSpec == BuildSpec /\ \A p \in Process : WF_buildVars(BuildStep(p))
-------------------------------------------------------------------------------
(* Properties *)

\* A trajectory chunk that is out of attempts stops the build before the reducer:
\* no build reduces, let alone writes layers, while its own partition holds a chunk
\* that an earlier run gave up, unless that chunk is another owner's at the moment.
GivenUpStopsBuild ==
  \A p \in Process :
    phase[p] # "idle" =>
      /\ trajectoryPlan # NoTrajectoryPlan
      /\ \A c \in TrajectoryChunk :
           c % SchedulerCount = SchedulerIndex[p] /\ trajectoryPlan[c].attempt > 0 =>
             trajectoryPlan[c].completion = "not_started"

\* Every build that is started ends.
BuildsEnd ==
  \A p \in Process : stage[p] = "decide" ~> stage[p] = "idle" /\ phase[p] = "idle"

OutOfAttempts ==
  \/ /\ trajectoryPlan # NoTrajectoryPlan
     /\ \E c \in TrajectoryChunk : trajectoryPlan[c].retry >= MaxAttempts
  \/ planFile # NoPlan /\ \E c \in Reducer!Chunk : planFile[c].retry >= MaxAttempts

\* If builds are started again and again, and if at some time bad input no longer makes
\* threads of either stage exit, then either layers are written again and again or some
\* chunk of either stage has in the end used up its attempts: the two stages never keep
\* each other from finishing.  While the bad input stays they do neither.
EventuallyDelivers ==
  (\A p \in Process :
     []<>(stage[p] = "decide") /\ <>[]~(ReaderBroken(p) \/ Reducer!Broken(p))) =>
    <>[]OutOfAttempts \/ []<>(\E p \in Process : phase[p] = "layers")

\* The reducer of a build is still the reducer on its own, so that what is proved
\* of ReducerExecution holds of the composition.
ImplementsReducer == Reducer!Spec

\* The stage of a build is the stage on its own.
ImplementsGeneration == GenerationSpec
===============================================================================
