--------------------------- MODULE ParallelEnsemble ---------------------------
(***************************************************************************)
(* simulate_ensemble_parallel of src/simulation.rs: one call.              *)
(*                                                                         *)
(* The call cuts the requested trajectories into contiguous chunks, runs   *)
(* one scoped thread per chunk, joins the threads in chunk order and sorts *)
(* what they return by trajectory index.  A thread stops at the first      *)
(* trajectory that fails; the first failed thread in join order decides    *)
(* the error of the call, and leaving the scope waits for all threads.     *)
(*                                                                         *)
(* A trajectory depends on its own request only (its seed is derived from  *)
(* the global seed, the case and its id), so its run is abstracted to its  *)
(* index and outcome[i] says how simulating it ends.                       *)
(***************************************************************************)
EXTENDS Integers, FiniteSets

CONSTANTS
  MaxCount,    \* bound on the number of trajectories of the call
  MaxWorkers   \* bound on the worker count it asks for

ASSUME BoundsAssumption == MaxCount \in Nat /\ MaxWorkers \in Nat

VARIABLES
  \* the arguments of the call
  count,       \* trajectory_ids.len()
  requested,   \* worker_count
  terrainOk,   \* whether the terrain can be built
  outcome,     \* how each trajectory ends
  \* the calling thread
  pc,
  start, planned, chunks,   \* the chunk loop of local_parallel_ensemble_execution
  joined, merged, result,
  \* the scoped threads
  worker, next

args == <<count, requested, terrainOk, outcome>>
planning == <<start, planned, chunks>>
threads == <<worker, next>>
vars == <<args, pc, planning, joined, merged, result, threads>>

Index == 0 .. count - 1
Outcome == {"ok", "error", "panic"}
Chunk == [first : Nat, end : Nat]

\* Results of the call.  Runs are in index order, so a set tells them apart.
Pending == [kind |-> "pending"]
Runs(S) == [kind |-> "runs", runs |-> S]
Error(i) == [kind |-> "error", index |-> i]
Panicked(i) == [kind |-> "integration_panic", index |-> i]
InvalidWorkerCount == [kind |-> "invalid_worker_count"]
TerrainError == [kind |-> "terrain"]
ScopePanic == [kind |-> "scope_panic"]  \* the call itself unwinds

\* What the serial simulate_ensemble returns if no trajectory panics.
SerialResult ==
  IF ~terrainOk THEN TerrainError
  ELSE IF \A i \in Index : outcome[i] = "ok" THEN Runs(Index)
  ELSE Error(CHOOSE i \in Index :
               outcome[i] # "ok" /\ \A j \in 0 .. i - 1 : outcome[j] = "ok")
-------------------------------------------------------------------------------
(* Planning the chunks *)

\* Mutant: a worker is started even for nothing.
AtLeastOneWorker == IF requested < count THEN requested ELSE IF count = 0 THEN 1 ELSE count

\* One thread per chunk, never more than there are trajectories.
WorkerCount ==
  LET capped == IF requested < count THEN requested ELSE count
  IN IF count > 0 /\ capped = 0 THEN 1 ELSE capped

\* The first remainder chunks are one longer than the others.
ChunkSize(w) ==
  (count \div WorkerCount) + IF w < count % WorkerCount THEN 1 ELSE 0

Init ==
  /\ count \in 0 .. MaxCount
  /\ requested \in 0 .. MaxWorkers
  /\ terrainOk \in BOOLEAN
  /\ outcome \in [Index -> Outcome]
  /\ pc = "call"
  /\ start = 0 /\ planned = 0 /\ chunks = [w \in {} |-> 0]
  /\ joined = 0 /\ merged = {} /\ result = Pending
  /\ worker = [w \in {} |-> "done"] /\ next = [w \in {} |-> 0]

\* The checks before any work.
Call ==
  /\ pc = "call"
  /\ IF requested = 0
     THEN pc' = "returned" /\ result' = InvalidWorkerCount
     ELSE IF ~terrainOk
     THEN pc' = "returned" /\ result' = TerrainError
     ELSE pc' = "plan" /\ UNCHANGED result
  /\ UNCHANGED <<args, planning, joined, merged, threads>>

\* One iteration of the chunk loop; start carries the end of the last chunk.
PlanChunk ==
  /\ pc = "plan"
  /\ planned < WorkerCount
  /\ chunks' = [w \in 0 .. planned |->
                  IF w = planned THEN [first |-> start, end |-> start + ChunkSize(planned)]
                  ELSE chunks[w]]
  /\ start' = start + ChunkSize(planned)
  /\ planned' = planned + 1
  /\ UNCHANGED <<args, pc, joined, merged, result, threads>>

\* All threads are spawned, in chunk order.
SpawnAll ==
  /\ pc = "plan"
  /\ planned = WorkerCount
  /\ pc' = "join"
  /\ worker' = [w \in DOMAIN chunks |-> "running"]
  /\ next' = [w \in DOMAIN chunks |-> chunks[w].first]
  /\ UNCHANGED <<args, planning, joined, merged, result>>
-------------------------------------------------------------------------------
(* The threads *)

\* A thread simulates its next trajectory; ? leaves the loop at an error.
Simulate(w) ==
  /\ pc \in {"join", "close"}
  /\ worker[w] = "running"
  /\ next[w] < chunks[w].end
  /\ CASE outcome[next[w]] = "ok" ->
            next' = [next EXCEPT ![w] = @ + 1] /\ UNCHANGED worker
       [] outcome[next[w]] = "error" ->
            worker' = [worker EXCEPT ![w] = "failed"] /\ UNCHANGED next
       [] outcome[next[w]] = "panic" ->
            worker' = [worker EXCEPT ![w] = "panicked"] /\ UNCHANGED next
  /\ UNCHANGED <<args, pc, planning, joined, merged, result>>

\* A thread returns the runs of its chunk.
Finish(w) ==
  /\ pc \in {"join", "close"}
  /\ worker[w] = "running"
  /\ next[w] = chunks[w].end
  /\ worker' = [worker EXCEPT ![w] = "done"]
  /\ UNCHANGED <<args, pc, planning, joined, merged, result, next>>
-------------------------------------------------------------------------------
(* Joining *)

\* Mutant: whichever thread failed first in time decides.
JoinAny ==
  /\ pc = "join"
  /\ joined < planned
  /\ \/ /\ worker[joined] = "done"
        /\ joined' = joined + 1
        /\ merged' = merged \cup chunks[joined].first .. chunks[joined].end - 1
        /\ UNCHANGED <<pc, result>>
     \/ \E w \in joined .. planned - 1 :
          /\ worker[w] = "failed"
          /\ pc' = "close" /\ result' = Error(next[w])
          /\ UNCHANGED <<joined, merged>>
  /\ UNCHANGED <<args, planning, threads>>

\* Mutants: a chunk's range is read as starting one earlier; a failed thread is
\* passed over; a thread that panicked never counts as finished.
JoinNextEarly ==
  /\ pc = "join"
  /\ joined < planned
  /\ worker[joined] = "done"
  /\ joined' = joined + 1
  /\ merged' = merged \cup chunks[joined].first - 1 .. chunks[joined].end - 1
  /\ UNCHANGED <<args, pc, planning, threads, result>>
JoinNextSkips ==
  /\ pc = "join"
  /\ joined < planned
  /\ worker[joined] # "running"
  /\ joined' = joined + 1
  /\ merged' = merged \cup chunks[joined].first .. next[joined] - 1
  /\ UNCHANGED <<args, pc, planning, threads, result>>
JoinNextUnlessPanicked ==
  /\ pc = "join"
  /\ joined < planned
  /\ worker[joined] = "done"
  /\ joined' = joined + 1
  /\ merged' = merged \cup chunks[joined].first .. chunks[joined].end - 1
  /\ UNCHANGED <<args, pc, planning, threads, result>>

\* The handles are joined in chunk order; a failure ends the loop at once.
JoinNext ==
  /\ pc = "join"
  /\ joined < planned
  /\ worker[joined] # "running"
  /\ joined' = joined + 1
  /\ CASE worker[joined] = "done" ->
            /\ merged' = merged \cup chunks[joined].first .. chunks[joined].end - 1
            /\ UNCHANGED <<pc, result>>
       [] worker[joined] = "failed" ->
            pc' = "close" /\ result' = Error(next[joined]) /\ UNCHANGED merged
       [] worker[joined] = "panicked" ->
            pc' = "close" /\ result' = Panicked(next[joined]) /\ UNCHANGED merged
  /\ UNCHANGED <<args, planning, threads>>

\* Every handle joined: the runs, sorted by index, are the result.
AllJoined ==
  /\ pc = "join"
  /\ joined = planned
  /\ pc' = "close"
  /\ result' = Runs(merged)
  /\ UNCHANGED <<args, planning, joined, merged, threads>>

\* The scope waits for every thread and re-panics for one nobody joined.
LeaveScope ==
  /\ pc = "close"
  /\ \A w \in DOMAIN worker : worker[w] # "running"
  /\ pc' = "returned"
  /\ result' = IF \E w \in joined .. planned - 1 : worker[w] = "panicked"
               THEN ScopePanic ELSE result
  /\ UNCHANGED <<args, planning, joined, merged, threads>>

\* The call is over.
Stay == pc = "returned" /\ UNCHANGED vars

Caller == Call \/ PlanChunk \/ SpawnAll \/ JoinNext \/ AllJoined \/ LeaveScope
Thread(w) == Simulate(w) \/ Finish(w)

Next == Caller \/ (\E w \in DOMAIN worker : Thread(w)) \/ Stay

Spec == Init /\ [][Next]_vars

\* Every trajectory takes a bounded number of steps, so threads make progress.
FairSpec ==
  /\ Spec
  /\ WF_vars(Caller)
  /\ WF_vars(\E w \in DOMAIN worker : Thread(w))
-------------------------------------------------------------------------------
(* Properties *)

\* Types of the arguments and of the caller's and the threads' state.
TypeOK ==
  /\ count \in Nat /\ requested \in Nat /\ terrainOk \in BOOLEAN
  /\ outcome \in [Index -> Outcome]
  /\ pc \in {"call", "plan", "join", "close", "returned"}
  /\ start \in Nat /\ planned \in Nat /\ joined \in Nat
  /\ chunks \in [0 .. planned - 1 -> Chunk]
  /\ merged \subseteq Nat
  /\ pc \in {"join", "close"} =>
       /\ worker \in [0 .. planned - 1 -> {"running", "done", "failed", "panicked"}]
       /\ next \in [0 .. planned - 1 -> Nat]

\* The recorded chunks are contiguous, none is empty, and together they are
\* exactly the requested trajectories: none is simulated twice or left out.
ChunksPartition ==
  pc \in {"join", "close"} =>
    /\ planned <= count /\ planned <= requested
    /\ \A w \in 0 .. planned - 1 :
         /\ chunks[w].first < chunks[w].end
         /\ chunks[w].first = IF w = 0 THEN 0 ELSE chunks[w - 1].end
    /\ IF planned = 0 THEN count = 0 ELSE chunks[planned - 1].end = count

\* For any worker count and any interleaving of the threads the call returns what
\* the serial runner returns, its error included, unless a trajectory panics.
SerialEquivalence ==
  pc = "returned" /\ requested # 0 /\ (\A i \in Index : outcome[i] # "panic") =>
    result = SerialResult

\* Runs are returned only if every trajectory was simulated: no error or panic of
\* any thread is lost, joined or not.
NoFailureLost ==
  pc = "returned" /\ result.kind = "runs" =>
    result.runs = Index /\ \A i \in Index : outcome[i] = "ok"

\* The call returns: no failure leaves the caller waiting on a thread.
Returns == <>(pc = "returned")
===============================================================================
