------------------------ MODULE ParallelEnsembleProofs ------------------------
(***************************************************************************)
(* ParallelEnsemble for any number of trajectories, workers and failures   *)
(* and any interleaving of the threads.                                    *)
(*                                                                         *)
(* The inductive invariant EnsembleInv has a closed form of the running    *)
(* sum of the chunk loop (Cut), so that the chunks are a partition         *)
(* whatever the remainder is; says of every thread that all it passed was  *)
(* ok; and says of the joined prefix that it is exactly 0 .. Cut(joined)-1.*)
(***************************************************************************)
EXTENDS ParallelEnsemble, TLAPS

\* Where chunk w begins: what the chunk loop's running sum has reached.
Cut(w) ==
  IF w = 0 THEN 0
  ELSE w * (count \div WorkerCount)
       + (IF w < count % WorkerCount THEN w ELSE count % WorkerCount)

\* The chunk loop has made the first planned chunks.
Planned ==
  /\ requested # 0 /\ terrainOk
  /\ planned <= WorkerCount
  /\ start = Cut(planned)
  /\ \A w \in 0 .. planned - 1 : chunks[w] = [first |-> Cut(w), end |-> Cut(w + 1)]

AllOk(S) == \A i \in S : outcome[i] = "ok"

\* What thread w has done: the trajectories it passed were ok, and it stopped at
\* the end of its chunk or at one that was not.
ThreadState(w) ==
  /\ Cut(w) <= next[w] /\ next[w] <= Cut(w + 1)
  /\ AllOk(Cut(w) .. next[w] - 1)
  /\ worker[w] = "done" => next[w] = Cut(w + 1)
  /\ worker[w] = "failed" => next[w] < Cut(w + 1) /\ outcome[next[w]] = "error"
  /\ worker[w] = "panicked" => next[w] < Cut(w + 1) /\ outcome[next[w]] = "panic"

\* The first trajectory that is not ok is i.
FirstNotOk(i) == i \in Index /\ outcome[i] # "ok" /\ AllOk(0 .. i - 1)

\* The result of the join loop.
Decided ==
  \/ result = Runs(Index) /\ AllOk(Index)
  \/ \E i \in Index : result = Error(i) /\ FirstNotOk(i)
  \/ \E i \in Index : result = Panicked(i) /\ outcome[i] = "panic"

Returned ==
  \/ requested = 0 /\ result = InvalidWorkerCount
  \/ ~terrainOk /\ result = TerrainError
  \/ terrainOk /\ Decided
  \/ result = ScopePanic /\ \E i \in Index : outcome[i] = "panic"

EnsembleInv ==
  /\ TypeOK
  /\ pc = "call" => planned = 0 /\ start = 0 /\ joined = 0 /\ merged = {}
  /\ pc = "plan" => Planned /\ joined = 0 /\ merged = {}
  /\ pc \in {"join", "close"} =>
       /\ Planned /\ planned = WorkerCount
       /\ joined <= planned
       /\ \A w \in 0 .. planned - 1 : ThreadState(w)
  /\ pc = "join" => merged = 0 .. Cut(joined) - 1 /\ AllOk(0 .. Cut(joined) - 1)
  /\ pc = "close" => Decided
  /\ pc = "returned" => Returned
-------------------------------------------------------------------------------
(* Arithmetic of the chunks *)

LEMMA MulMonotone ==
  ASSUME NEW a \in Nat, NEW b \in Nat, a <= b, NEW k \in Nat
  PROVE  a * k <= b * k /\ a * k \in Nat
<1>1. PICK d \in Nat : b = a + d
  <2>1. b - a \in Nat /\ b = a + (b - a)
    OBVIOUS
  <2>2. QED
    BY <2>1
<1>2. b * k = a * k + d * k
  BY <1>1
<1>3. d * k \in Nat /\ a * k \in Nat
  BY <1>1
<1>4. QED
  BY <1>2, <1>3

\* Division by the worker count.
LEMMA DivisionFacts ==
  ASSUME NEW n \in Nat, NEW w \in Nat, 0 < w, w <= n
  PROVE  /\ n \div w \in Nat /\ 1 <= n \div w
         /\ (n % w) \in Nat /\ (n % w) < w
         /\ n = w * (n \div w) + (n % w)
<1>1. (n % w) \in Nat /\ (n % w) < w
  OBVIOUS
<1>2. n = w * (n \div w) + (n % w) /\ n \div w \in Int
  OBVIOUS
<1>3. 1 <= n \div w
  OBVIOUS
<1>4. QED
  BY <1>1, <1>2, <1>3

\* The worker count is at most the count and what was asked for, and 0 only if
\* there is nothing to do.
LEMMA WorkerCountFacts ==
  ASSUME count \in Nat, requested \in Nat, requested # 0
  PROVE  /\ WorkerCount \in Nat
         /\ WorkerCount <= count /\ WorkerCount <= requested
         /\ WorkerCount = 0 <=> count = 0
BY DEF WorkerCount

\* The cuts ascend from 0 to count, each a chunk size after the one before it.
LEMMA CutFacts ==
  ASSUME count \in Nat, requested \in Nat, requested # 0
  PROVE  /\ Cut(0) = 0 /\ Cut(WorkerCount) = count
         /\ \A w \in 0 .. WorkerCount : Cut(w) \in Nat /\ Cut(w) <= count
         /\ \A w \in 0 .. WorkerCount - 1 :
              /\ Cut(w + 1) = Cut(w) + ChunkSize(w)
              /\ ChunkSize(w) \in Nat /\ 1 <= ChunkSize(w)
<1> DEFINE W == WorkerCount
           q == count \div W
           r == count % W
<1>1. W \in Nat /\ W <= count /\ (W = 0 <=> count = 0)
  BY WorkerCountFacts
<1>2. Cut(0) = 0
  BY DEF Cut
<1>3. CASE count = 0
  <2>1. W = 0
    BY <1>1, <1>3
  <2>2. QED
    BY <1>2, <1>3, <2>1
<1>4. CASE count # 0
  <2>1. q \in Nat /\ 1 <= q /\ r \in Nat /\ r < W /\ count = W * q + r
    BY <1>1, <1>4, DivisionFacts
  <2>2. \A w \in Nat \ {0} : Cut(w) = w * q + (IF w < r THEN w ELSE r)
    BY DEF Cut
  <2>3. Cut(0) = 0 * q + (IF 0 < r THEN 0 ELSE r)
    BY <1>2, <2>1
  <2>4. \A w \in Nat : Cut(w) = w * q + (IF w < r THEN w ELSE r)
    BY <2>2, <2>3
  <2>5. \A w \in Nat : ChunkSize(w) = q + (IF w < r THEN 1 ELSE 0)
    BY DEF ChunkSize
  <2> HIDE DEF W, q, r
  <2>6. W # 0 /\ W \in Nat
    BY <1>1, <1>4
  <2>7. Cut(W) = count
    BY <2>1, <2>4, <2>6
  <2>8. ASSUME NEW w \in 0 .. W PROVE Cut(w) \in Nat /\ Cut(w) <= count
    <3>1. w * q <= W * q /\ w * q \in Nat
      BY <2>1, <2>6, MulMonotone
    <3>2. W * q \in Nat
      BY <2>1, <2>6, MulMonotone
    <3>3. QED
      BY <2>1, <2>4, <3>1, <3>2
  <2>9. ASSUME NEW w \in 0 .. W - 1
        PROVE  /\ Cut(w + 1) = Cut(w) + ChunkSize(w)
               /\ ChunkSize(w) \in Nat /\ 1 <= ChunkSize(w)
    <3>1. w \in Nat /\ w + 1 \in Nat
      BY <2>6
    <3>2. (w + 1) * q = w * q + q /\ w * q \in Nat
      BY <2>1, <3>1
    <3>3. QED
      BY <2>1, <2>4, <2>5, <3>1, <3>2
  <2>10. QED
    BY <1>2, <2>7, <2>8, <2>9 DEF W
<1>5. QED
  BY <1>3, <1>4
-------------------------------------------------------------------------------
(* Every step keeps EnsembleInv *)

LEMMA InitInv == Init => EnsembleInv
BY DEF Init, EnsembleInv, TypeOK, Chunk, Pending

\* A step that leaves the arguments alone leaves the cuts alone.
LEMMA CutsStay ==
  ASSUME UNCHANGED args
  PROVE  /\ WorkerCount' = WorkerCount
         /\ Index' = Index
         /\ \A w : Cut(w)' = Cut(w)
         /\ \A S : AllOk(S)' = AllOk(S)
         /\ \A i : FirstNotOk(i)' = FirstNotOk(i)
BY DEF args, WorkerCount, Index, Cut, AllOk, FirstNotOk

LEMMA CallInv ==
  ASSUME EnsembleInv, Call
  PROVE  EnsembleInv'
<1>1. TypeOK'
  BY DEF EnsembleInv, TypeOK, Call, args, planning, threads, Index
<1>2. pc' = "plan" => Planned' /\ joined' = 0 /\ merged' = {}
  <2>1. Cut(0)' = 0
    BY DEF Cut
  <2>2. WorkerCount \in Nat \/ requested = 0
    BY WorkerCountFacts DEF EnsembleInv, TypeOK
  <2>3. WorkerCount' = WorkerCount
    BY CutsStay DEF Call
  <2>4. QED
    BY <2>1, <2>2, <2>3 DEF EnsembleInv, TypeOK, Call, Planned, args, planning, threads
<1>3. pc' = "returned" => Returned'
  BY DEF Call, Returned, args
<1>4. QED
  BY <1>1, <1>2, <1>3 DEF EnsembleInv, Call

LEMMA PlanChunkInv ==
  ASSUME EnsembleInv, PlanChunk
  PROVE  EnsembleInv'
<1>1. Planned /\ planned \in Nat /\ planned < WorkerCount /\ WorkerCount \in Nat
  BY WorkerCountFacts DEF EnsembleInv, PlanChunk, TypeOK, Planned
<1>2. /\ Cut(planned + 1) = Cut(planned) + ChunkSize(planned)
      /\ ChunkSize(planned) \in Nat /\ Cut(planned) \in Nat
  BY <1>1, CutFacts DEF EnsembleInv, TypeOK, Planned
<1>3. chunks'[planned] = [first |-> Cut(planned), end |-> Cut(planned + 1)]
  BY <1>1, <1>2 DEF PlanChunk, Planned
<1>4. \A w \in 0 .. planned - 1 : chunks'[w] = chunks[w]
  BY <1>1 DEF PlanChunk
<1>5. Planned'
  BY <1>1, <1>2, <1>3, <1>4, CutsStay DEF Planned, PlanChunk, args
<1>6. chunks' \in [0 .. planned -> Chunk]
  BY <1>1, <1>2 DEF EnsembleInv, TypeOK, PlanChunk, Planned, Chunk
<1>7. TypeOK'
  <2>1. planned' = planned + 1 /\ planned' - 1 = planned
    BY <1>1 DEF PlanChunk
  <2>2. start' \in Nat
    BY <1>2 DEF PlanChunk, EnsembleInv, TypeOK
  <2>3. QED
    BY <1>6, <2>1, <2>2 DEF EnsembleInv, TypeOK, PlanChunk, args, threads, Index
<1>8. QED
  BY <1>5, <1>7 DEF EnsembleInv, PlanChunk

LEMMA SpawnAllInv ==
  ASSUME EnsembleInv, SpawnAll
  PROVE  EnsembleInv'
<1>1. Planned /\ planned \in Nat /\ planned = WorkerCount
  BY DEF EnsembleInv, SpawnAll, TypeOK
<1>2. /\ Cut(0) = 0
      /\ \A w \in 0 .. planned - 1 :
           Cut(w) \in Nat /\ Cut(w + 1) \in Nat /\ Cut(w) <= Cut(w + 1)
  <2>1. ASSUME NEW w \in 0 .. planned - 1
        PROVE  Cut(w) \in Nat /\ Cut(w + 1) \in Nat /\ Cut(w) <= Cut(w + 1)
    <3>1. w \in 0 .. WorkerCount - 1 /\ w \in 0 .. WorkerCount
      BY <1>1
    <3>2. QED
      BY <1>1, <3>1, CutFacts DEF EnsembleInv, TypeOK, Planned
  <2>2. QED
    BY <1>1, <2>1, CutFacts DEF EnsembleInv, TypeOK, Planned
<1>3. \A w \in 0 .. planned - 1 : worker'[w] = "running" /\ next'[w] = Cut(w)
  BY <1>1 DEF EnsembleInv, TypeOK, SpawnAll, Planned
<1>4. TypeOK'
  BY <1>1 DEF EnsembleInv, TypeOK, SpawnAll, args, planning, Index, Chunk
<1>5. Planned' /\ planned' = WorkerCount'
  BY <1>1, CutsStay DEF SpawnAll, Planned, args, planning
<1>6. \A w \in 0 .. planned - 1 : ThreadState(w)'
  BY <1>2, <1>3, CutsStay DEF ThreadState, AllOk, SpawnAll
<1>7. merged' = 0 .. Cut(joined)' - 1 /\ AllOk(0 .. Cut(joined) - 1)'
  BY <1>2, CutsStay DEF AllOk, SpawnAll, EnsembleInv, Cut
<1>8. joined' <= planned'
  BY <1>1 DEF EnsembleInv, SpawnAll, planning
<1>9. planned' = planned /\ pc' = "join"
  BY DEF SpawnAll, planning
<1>10. QED
  BY <1>4, <1>5, <1>6, <1>7, <1>8, <1>9 DEF EnsembleInv

\* What EnsembleInv says of a thread that may still move.
LEMMA ThreadFacts ==
  ASSUME EnsembleInv, pc \in {"join", "close"}, NEW w \in DOMAIN worker
  PROVE  /\ w \in 0 .. planned - 1 /\ w \in Nat
         /\ DOMAIN worker = 0 .. planned - 1 /\ DOMAIN next = 0 .. planned - 1
         /\ ThreadState(w)
         /\ chunks[w].first = Cut(w) /\ chunks[w].end = Cut(w + 1)
         /\ Cut(w) \in Nat /\ Cut(w + 1) \in Nat /\ next[w] \in Nat
         /\ Cut(w) <= count /\ Cut(w + 1) <= count
<1>1. Planned /\ planned = WorkerCount /\ planned \in Nat
  BY DEF EnsembleInv, TypeOK
<1>2. /\ DOMAIN worker = 0 .. planned - 1 /\ DOMAIN next = 0 .. planned - 1
      /\ w \in 0 .. planned - 1
      /\ next[w] \in Nat
  BY DEF EnsembleInv, TypeOK
<1>3. w \in 0 .. WorkerCount /\ w + 1 \in 0 .. WorkerCount
  BY <1>1, <1>2
<1>4. Cut(w) \in Nat /\ Cut(w + 1) \in Nat /\ Cut(w) <= count /\ Cut(w + 1) <= count
  BY <1>1, <1>3, CutFacts DEF EnsembleInv, TypeOK, Planned
<1>5. ThreadState(w) /\ chunks[w].first = Cut(w) /\ chunks[w].end = Cut(w + 1)
  <2>1. ThreadState(w)
    BY <1>2 DEF EnsembleInv
  <2>2. chunks[w] = [first |-> Cut(w), end |-> Cut(w + 1)]
    BY <1>1, <1>2 DEF Planned
  <2>3. QED
    BY <2>1, <2>2
<1>6. QED
  BY <1>1, <1>2, <1>4, <1>5

\* A step of one thread keeps the invariant if it keeps that thread's part of it.
LEMMA ThreadStepInv ==
  ASSUME EnsembleInv, pc \in {"join", "close"}, NEW w \in DOMAIN worker,
         UNCHANGED <<args, pc, planning, joined, merged, result>>,
         NEW v \in {"running", "done", "failed", "panicked"}, NEW n \in Nat,
         worker' = [worker EXCEPT ![w] = v], next' = [next EXCEPT ![w] = n],
         ThreadState(w)'
  PROVE  EnsembleInv'
<1>1. TypeOK'
  BY DEF EnsembleInv, TypeOK, args, planning, Index, Chunk
<1>2. Planned' /\ planned' = planned /\ planned' = WorkerCount' /\ joined' <= planned'
  BY CutsStay DEF EnsembleInv, Planned, args, planning
<1>3. ASSUME NEW u \in 0 .. planned - 1, u # w PROVE ThreadState(u)'
  <2>1. worker'[u] = worker[u] /\ next'[u] = next[u] /\ outcome' = outcome
    BY <1>3 DEF args
  <2>2. ThreadState(u)
    BY DEF EnsembleInv
  <2>3. QED
    BY <2>1, <2>2, CutsStay DEF ThreadState
<1>4. \A u \in 0 .. planned - 1 : ThreadState(u)'
  BY <1>3
<1>5. /\ pc' = "join" => merged' = 0 .. Cut(joined)' - 1 /\ AllOk(0 .. Cut(joined) - 1)'
      /\ pc' = "close" => Decided'
  <2>1. joined' = joined /\ merged' = merged /\ result' = result /\ pc' = pc
    OBVIOUS
  <2>2. Cut(joined)' = Cut(joined)
    BY <2>1, CutsStay DEF Cut
  <2>3. QED
    BY <2>1, <2>2, CutsStay DEF EnsembleInv, Decided, AllOk, FirstNotOk, args, Error, Panicked, Runs
<1>6. QED
  BY <1>1, <1>2, <1>4, <1>5 DEF EnsembleInv

LEMMA SimulateInv ==
  ASSUME EnsembleInv, NEW w \in DOMAIN worker, Simulate(w)
  PROVE  EnsembleInv'
<1>1. pc \in {"join", "close"} /\ UNCHANGED <<args, pc, planning, joined, merged, result>>
  BY DEF Simulate
<1> DEFINE i == next[w]
<1>2. /\ ThreadState(w) /\ i \in Nat /\ i < Cut(w + 1) /\ Cut(w) \in Nat
      /\ Cut(w + 1) \in Nat /\ Cut(w + 1) <= count /\ worker[w] = "running"
      /\ w \in DOMAIN next
  BY <1>1, ThreadFacts DEF Simulate
<1>3. i \in Index /\ outcome \in [Index -> Outcome]
  BY <1>2 DEF EnsembleInv, TypeOK, Index
<1>4. outcome' = outcome /\ Cut(w)' = Cut(w) /\ Cut(w + 1)' = Cut(w + 1)
  BY <1>1, CutsStay DEF args
<1>5. worker = [worker EXCEPT ![w] = worker[w]] /\ next = [next EXCEPT ![w] = next[w]]
  BY <1>1, <1>2 DEF EnsembleInv, TypeOK
<1>6. DOMAIN worker = DOMAIN next
  BY <1>1, ThreadFacts
<1>7. CASE outcome[i] = "ok"
  <2>1. next' = [next EXCEPT ![w] = i + 1] /\ worker' = worker /\ i + 1 \in Nat
    BY <1>2, <1>7 DEF Simulate
  <2>2. AllOk(Cut(w) .. i)
    BY <1>2, <1>7 DEF ThreadState, AllOk
  <2>3. ThreadState(w)'
    BY <1>2, <1>4, <2>1, <2>2 DEF ThreadState, AllOk
  <2>4. worker' = [worker EXCEPT ![w] = "running"]
    BY <1>2, <1>5, <2>1
  <2>5. QED
    BY <1>1, <2>1, <2>3, <2>4, ThreadStepInv
<1>8. CASE outcome[i] = "error"
  <2>1. worker' = [worker EXCEPT ![w] = "failed"] /\ next' = next
    BY <1>8 DEF Simulate
  <2>2. ThreadState(w)'
    BY <1>2, <1>4, <1>8, <2>1 DEF ThreadState, AllOk
  <2>3. QED
    BY <1>1, <1>2, <1>5, <2>1, <2>2, ThreadStepInv
<1>9. CASE outcome[i] = "panic"
  <2>1. worker' = [worker EXCEPT ![w] = "panicked"] /\ next' = next
    BY <1>9 DEF Simulate
  <2>2. ThreadState(w)'
    BY <1>2, <1>4, <1>9, <2>1 DEF ThreadState, AllOk
  <2>3. QED
    BY <1>1, <1>2, <1>5, <2>1, <2>2, ThreadStepInv
<1>10. QED
  BY <1>3, <1>7, <1>8, <1>9 DEF Outcome

LEMMA FinishInv ==
  ASSUME EnsembleInv, NEW w \in DOMAIN worker, Finish(w)
  PROVE  EnsembleInv'
<1>1. /\ pc \in {"join", "close"} /\ worker[w] = "running" /\ next[w] = chunks[w].end
      /\ UNCHANGED <<args, pc, planning, joined, merged, result>>
      /\ worker' = [worker EXCEPT ![w] = "done"] /\ next' = next
  BY DEF Finish
<1>2. /\ ThreadState(w) /\ next[w] \in Nat /\ next[w] = Cut(w + 1) /\ w \in DOMAIN next
      /\ DOMAIN worker = DOMAIN next
  BY <1>1, ThreadFacts
<1>3. outcome' = outcome /\ Cut(w)' = Cut(w) /\ Cut(w + 1)' = Cut(w + 1)
  BY <1>1, CutsStay DEF args
<1>4. ThreadState(w)'
  BY <1>1, <1>2, <1>3 DEF ThreadState, AllOk
<1>5. next = [next EXCEPT ![w] = next[w]]
  BY <1>1 DEF EnsembleInv, TypeOK
<1>6. QED
  BY <1>1, <1>2, <1>4, <1>5, ThreadStepInv

\* A step of the caller after spawning touches neither arguments, chunks nor threads.
LEMMA CallerStepFrame ==
  ASSUME EnsembleInv, pc \in {"join", "close"}, UNCHANGED <<args, planning, threads>>
  PROVE  /\ Planned' /\ planned' = planned /\ planned' = WorkerCount'
         /\ \A w \in 0 .. planned - 1 : ThreadState(w)'
         /\ worker' \in [0 .. planned - 1 -> {"running", "done", "failed", "panicked"}]
         /\ next' \in [0 .. planned - 1 -> Nat]
         /\ (joined' \in Nat /\ merged' \subseteq Nat /\ pc' \in {"join", "close", "returned"}
               => TypeOK')
<1>1. Planned' /\ planned' = planned /\ planned' = WorkerCount'
  BY CutsStay DEF EnsembleInv, Planned, args, planning
<1>2. ASSUME NEW w \in 0 .. planned - 1 PROVE ThreadState(w)'
  <2>1. worker'[w] = worker[w] /\ next'[w] = next[w] /\ outcome' = outcome
    BY DEF args, threads
  <2>2. ThreadState(w)
    BY DEF EnsembleInv
  <2>3. QED
    BY <2>1, <2>2, CutsStay DEF ThreadState
<1>3. /\ worker' \in [0 .. planned - 1 -> {"running", "done", "failed", "panicked"}]
      /\ next' \in [0 .. planned - 1 -> Nat]
  BY DEF EnsembleInv, TypeOK, threads
<1>4. joined' \in Nat /\ merged' \subseteq Nat /\ pc' \in {"join", "close", "returned"}
        => TypeOK'
  BY <1>3 DEF EnsembleInv, TypeOK, args, planning, Index, Chunk
<1>5. QED
  BY <1>1, <1>2, <1>3, <1>4

LEMMA JoinNextInv ==
  ASSUME EnsembleInv, JoinNext
  PROVE  EnsembleInv'
<1> DEFINE j == joined
<1>1. /\ pc = "join" /\ j \in 0 .. planned - 1 /\ j \in DOMAIN worker /\ j \in Nat
      /\ joined' = j + 1 /\ UNCHANGED <<args, planning, threads>>
      /\ merged = 0 .. Cut(j) - 1 /\ AllOk(0 .. Cut(j) - 1)
      /\ planned \in Nat
      /\ worker[j] \in {"running", "done", "failed", "panicked"} /\ worker[j] # "running"
  BY DEF EnsembleInv, TypeOK, JoinNext
<1>2. /\ ThreadState(j) /\ next[j] \in Nat /\ Cut(j) \in Nat /\ Cut(j + 1) \in Nat
      /\ chunks[j].first = Cut(j) /\ chunks[j].end = Cut(j + 1)
      /\ Cut(j + 1) <= count /\ count \in Nat
  <2>1. pc \in {"join", "close"} /\ count \in Nat
    BY <1>1 DEF EnsembleInv, TypeOK
  <2>2. QED
    BY <1>1, <2>1, ThreadFacts
<1>3. joined' \in Nat /\ joined' <= planned
  BY <1>1
<1>4. \A i \in Nat : i < next[j] => outcome[i] = "ok"
  BY <1>1, <1>2 DEF ThreadState, AllOk
<1>5. CASE worker[j] = "done"
  <2>1. /\ merged' = merged \cup chunks[j].first .. chunks[j].end - 1
        /\ pc' = "join"
    BY <1>1, <1>5 DEF JoinNext
  <2>2. merged' = 0 .. Cut(j + 1) - 1
    BY <1>1, <1>2, <2>1 DEF ThreadState
  <2>3. AllOk(0 .. Cut(j + 1) - 1)
    BY <1>2, <1>4, <1>5 DEF ThreadState, AllOk
  <2>4. Cut(joined)' = Cut(j + 1) /\ outcome' = outcome
    BY <1>1, CutsStay DEF Cut, args
  <2>5. merged' = 0 .. Cut(joined)' - 1 /\ AllOk(0 .. Cut(joined) - 1)'
    BY <2>2, <2>3, <2>4 DEF AllOk
  <2>6. merged' \subseteq Nat
    BY <1>2, <2>2
  <2>7. QED
    BY <1>1, <1>3, <2>1, <2>5, <2>6, CallerStepFrame DEF EnsembleInv
<1>6. CASE worker[j] \in {"failed", "panicked"}
  <2>1. pc' = "close" /\ merged' = merged
    BY <1>1, <1>6 DEF JoinNext
  <2>2. next[j] \in Index /\ outcome[next[j]] # "ok" /\ AllOk(0 .. next[j] - 1)
    BY <1>2, <1>4, <1>6 DEF ThreadState, AllOk, Index
  <2>3. result' = Error(next[j]) \/ (result' = Panicked(next[j]) /\ outcome[next[j]] = "panic")
    BY <1>1, <1>2, <1>6 DEF JoinNext, ThreadState
  <2>4. Decided'
    <3>1. outcome' = outcome /\ Index' = Index
      BY <1>1, CutsStay DEF args
    <3>2. PICK i : /\ i \in Index /\ FirstNotOk(i)
                   /\ result' = Error(i) \/ (result' = Panicked(i) /\ outcome[i] = "panic")
      BY <2>2, <2>3 DEF FirstNotOk
    <3>3. FirstNotOk(i)'
      BY <3>1, <3>2 DEF FirstNotOk, AllOk
    <3>4. QED
      BY <3>1, <3>2, <3>3 DEF Decided, Error, Panicked
  <2>5. merged' \subseteq Nat
    BY <2>1 DEF EnsembleInv, TypeOK
  <2>6. QED
    BY <1>1, <1>3, <2>1, <2>4, <2>5, CallerStepFrame DEF EnsembleInv
<1>7. QED
  BY <1>1, <1>5, <1>6

LEMMA AllJoinedInv ==
  ASSUME EnsembleInv, AllJoined
  PROVE  EnsembleInv'
<1>1. /\ pc = "join" /\ joined = planned /\ pc' = "close" /\ result' = Runs(merged)
      /\ joined' = joined /\ merged' = merged /\ UNCHANGED <<args, planning, threads>>
      /\ merged = 0 .. Cut(joined) - 1 /\ AllOk(0 .. Cut(joined) - 1)
      /\ joined \in Nat /\ merged \subseteq Nat /\ joined <= planned
  BY DEF AllJoined, EnsembleInv, TypeOK
<1>2. Cut(planned) = count
  BY <1>1, CutFacts DEF EnsembleInv, TypeOK, Planned
<1>3. Decided'
  BY <1>1, <1>2, CutsStay DEF Decided, Index, Runs, AllOk, args
<1>4. QED
  BY <1>1, <1>3, CallerStepFrame DEF EnsembleInv

LEMMA LeaveScopeInv ==
  ASSUME EnsembleInv, LeaveScope
  PROVE  EnsembleInv'
<1>1. /\ pc = "close" /\ pc' = "returned" /\ joined' = joined /\ merged' = merged
      /\ UNCHANGED <<args, planning, threads>>
      /\ joined \in Nat /\ merged \subseteq Nat /\ planned \in Nat /\ terrainOk
  BY DEF LeaveScope, EnsembleInv, TypeOK, Planned
<1>2. TypeOK'
  BY <1>1, CallerStepFrame
<1>3. CASE \E w \in joined .. planned - 1 : worker[w] = "panicked"
  <2>1. PICK w \in joined .. planned - 1 : worker[w] = "panicked"
    BY <1>3
  <2>2. w \in DOMAIN worker
    BY <1>1, <2>1 DEF EnsembleInv, TypeOK
  <2>3. next[w] \in Index /\ outcome[next[w]] = "panic"
    <3>1. /\ ThreadState(w) /\ next[w] \in Nat /\ Cut(w + 1) \in Nat /\ Cut(w + 1) <= count
          /\ count \in Nat
      BY <1>1, <2>2, ThreadFacts DEF EnsembleInv, TypeOK
    <3>2. QED
      BY <2>1, <3>1 DEF ThreadState, Index
  <2>4. result' = ScopePanic
    BY <1>3 DEF LeaveScope
  <2>5. Returned'
    BY <1>1, <2>3, <2>4, CutsStay DEF Returned, ScopePanic, args
  <2>6. QED
    BY <1>1, <1>2, <2>5 DEF EnsembleInv
<1>4. CASE ~ \E w \in joined .. planned - 1 : worker[w] = "panicked"
  <2>1. result' = result
    BY <1>4 DEF LeaveScope
  <2>2. Decided'
    BY <1>1, <2>1, CutsStay DEF EnsembleInv, Decided, AllOk, FirstNotOk, Runs, Error, Panicked, args
  <2>3. terrainOk'
    BY <1>1 DEF args
  <2>4. Returned'
    BY <2>2, <2>3 DEF Returned
  <2>5. QED
    BY <1>1, <1>2, <2>4 DEF EnsembleInv
<1>5. QED
  BY <1>3, <1>4

LEMMA StepInv == EnsembleInv /\ [Next]_vars => EnsembleInv'
<1> SUFFICES ASSUME EnsembleInv, [Next]_vars
             PROVE  EnsembleInv'
  OBVIOUS
<1>1. CASE Caller
  BY <1>1, CallInv, PlanChunkInv, SpawnAllInv, JoinNextInv, AllJoinedInv, LeaveScopeInv
  DEF Caller
<1>2. CASE \E w \in DOMAIN worker : Thread(w)
  BY <1>2, SimulateInv, FinishInv DEF Thread
<1>3. CASE UNCHANGED vars
  <2>1. UNCHANGED <<args, pc, planning, joined, merged, result, threads>>
    BY <1>3 DEF vars
  <2>2. TypeOK'
    BY <2>1 DEF EnsembleInv, TypeOK, args, planning, threads, Index
  <2>3. pc' \in {"plan", "join", "close"} => Planned' /\ WorkerCount' = WorkerCount
    BY <2>1, CutsStay DEF EnsembleInv, Planned, args, planning
  <2>4. pc' \in {"join", "close"} => \A w \in 0 .. planned - 1 : ThreadState(w)'
    BY <2>1, CallerStepFrame DEF EnsembleInv
  <2>5. Cut(joined)' = Cut(joined) /\ outcome' = outcome
    BY <2>1, CutsStay DEF args, Cut
  <2>6. Decided => Decided'
    BY <2>1, CutsStay DEF Decided, Runs, Error, Panicked, args, FirstNotOk, AllOk, Index
  <2>7. Returned => Returned'
    BY <2>1, <2>6, CutsStay DEF Returned, InvalidWorkerCount, TerrainError, ScopePanic, args
  <2>8. pc' = pc /\ planned' = planned /\ joined' = joined /\ merged' = merged /\ start' = start
    BY <2>1 DEF planning
  <2>9. QED
    BY <2>2, <2>3, <2>4, <2>5, <2>6, <2>7, <2>8 DEF EnsembleInv, AllOk
<1>4. QED
  BY <1>1, <1>2, <1>3 DEF Next, Stay

\* EnsembleInv holds in every reachable state of simulate_ensemble_parallel.
THEOREM EnsembleInvariant == Spec => []EnsembleInv
BY InitInv, StepInv, PTL DEF Spec
-------------------------------------------------------------------------------
(* What follows from it *)

LEMMA PartitionFollows == EnsembleInv => ChunksPartition
<1> SUFFICES ASSUME EnsembleInv, pc \in {"join", "close"}
             PROVE  /\ planned <= count /\ planned <= requested
                    /\ \A w \in 0 .. planned - 1 :
                         /\ chunks[w].first < chunks[w].end
                         /\ chunks[w].first = IF w = 0 THEN 0 ELSE chunks[w - 1].end
                    /\ IF planned = 0 THEN count = 0 ELSE chunks[planned - 1].end = count
  BY DEF ChunksPartition
<1>1. Planned /\ planned = WorkerCount /\ planned \in Nat /\ count \in Nat /\ requested \in Nat
  BY DEF EnsembleInv, TypeOK
<1>2. /\ planned <= count /\ planned <= requested /\ (planned = 0 => count = 0)
      /\ Cut(0) = 0 /\ Cut(planned) = count
  BY <1>1, WorkerCountFacts, CutFacts DEF Planned
<1>3. \A w \in 0 .. planned - 1 : chunks[w].first = Cut(w) /\ chunks[w].end = Cut(w + 1)
  <2>1. ASSUME NEW w \in 0 .. planned - 1
        PROVE  chunks[w].first = Cut(w) /\ chunks[w].end = Cut(w + 1)
    <3>1. chunks[w] = [first |-> Cut(w), end |-> Cut(w + 1)]
      BY <1>1 DEF Planned
    <3>2. QED
      BY <3>1
  <2>2. QED
    BY <2>1
<1>4. ASSUME NEW w \in 0 .. planned - 1
      PROVE  /\ chunks[w].first < chunks[w].end
             /\ chunks[w].first = IF w = 0 THEN 0 ELSE chunks[w - 1].end
  <2>1. Cut(w) \in Nat /\ Cut(w + 1) = Cut(w) + ChunkSize(w)
        /\ ChunkSize(w) \in Nat /\ 1 <= ChunkSize(w)
    <3>1. w \in 0 .. WorkerCount /\ w \in 0 .. WorkerCount - 1
      BY <1>1
    <3>2. QED
      BY <1>1, <3>1, CutFacts DEF Planned
  <2>2. CASE w = 0
    BY <1>2, <1>3, <2>1, <2>2
  <2>3. CASE w # 0
    <3>1. w - 1 \in 0 .. planned - 1 /\ (w - 1) + 1 = w
      BY <1>1, <2>3
    <3>2. chunks[w - 1].end = Cut((w - 1) + 1)
      BY <1>3, <3>1
    <3>3. chunks[w - 1].end = Cut(w)
      BY <3>1, <3>2
    <3>4. QED
      BY <1>3, <2>1, <2>3, <3>3
  <2>4. QED
    BY <2>2, <2>3
<1>5. ASSUME planned # 0 PROVE chunks[planned - 1].end = count
  <2>1. planned - 1 \in 0 .. planned - 1 /\ (planned - 1) + 1 = planned
    BY <1>1, <1>5
  <2>2. QED
    BY <1>2, <1>3, <2>1
<1>6. QED
  BY <1>2, <1>4, <1>5

\* The first trajectory that is not ok is the one the serial runner reports.
LEMMA FirstIsSerial ==
  ASSUME EnsembleInv, terrainOk, NEW i \in Index, FirstNotOk(i)
  PROVE  SerialResult = Error(i)
<1> DEFINE P(k) == outcome[k] # "ok" /\ \A j \in 0 .. k - 1 : outcome[j] = "ok"
<1>1. P(i)
  BY DEF FirstNotOk, AllOk
<1>2. ASSUME NEW k \in Index, P(k) PROVE k = i
  <2>1. count \in Nat
    BY DEF EnsembleInv, TypeOK
  <2>2. ~(k < i) /\ ~(i < k)
    BY <1>1, <1>2, <2>1 DEF Index
  <2>3. QED
    BY <2>1, <2>2 DEF Index
<1>3. (CHOOSE k \in Index : P(k)) = i
  BY <1>1, <1>2
<1>4. ~ \A k \in Index : outcome[k] = "ok"
  BY <1>1
<1>5. QED
  BY <1>3, <1>4 DEF SerialResult

LEMMA EquivalenceFollows == EnsembleInv => SerialEquivalence
<1> SUFFICES ASSUME EnsembleInv, pc = "returned", requested # 0,
                    \A i \in Index : outcome[i] # "panic"
             PROVE  result = SerialResult
  BY DEF SerialEquivalence
<1>1. Returned
  BY DEF EnsembleInv
<1>2. CASE ~terrainOk /\ result = TerrainError
  BY <1>2 DEF SerialResult
<1>3. CASE terrainOk /\ result = Runs(Index) /\ AllOk(Index)
  BY <1>3 DEF SerialResult, AllOk
<1>4. CASE terrainOk /\ \E i \in Index : result = Error(i) /\ FirstNotOk(i)
  BY <1>4, FirstIsSerial
<1>5. QED
  BY <1>1, <1>2, <1>3, <1>4 DEF Returned, Decided

LEMMA NoFailureLostFollows == EnsembleInv => NoFailureLost
<1> SUFFICES ASSUME EnsembleInv, pc = "returned", result.kind = "runs"
             PROVE  result.runs = Index /\ \A i \in Index : outcome[i] = "ok"
  BY DEF NoFailureLost
<1>1. Returned
  BY DEF EnsembleInv
<1>2. result = Runs(Index) /\ AllOk(Index)
  BY <1>1 DEF Returned, Decided, InvalidWorkerCount, TerrainError, ScopePanic, Error, Panicked
<1>3. QED
  BY <1>2 DEF Runs, AllOk

\* Calls, threads and results keep their types, and the chunk loop never runs past
\* the trajectories, for any count and worker count.
THEOREM TypeCorrect == Spec => []TypeOK
<1>1. EnsembleInv => TypeOK
  BY DEF EnsembleInv
<1>2. QED
  BY <1>1, EnsembleInvariant, PTL

\* The chunk loop cuts any number of trajectories for any worker count into
\* contiguous, nonempty chunks that lose and repeat none.
THEOREM ChunksPartitionHolds == Spec => []ChunksPartition
BY EnsembleInvariant, PartitionFollows, PTL

\* The parallel runner returns what the serial one does, for any number of
\* trajectories and workers, any failures and any interleaving of the threads.
THEOREM SerialEquivalenceHolds == Spec => []SerialEquivalence
BY EnsembleInvariant, EquivalenceFollows, PTL

\* No failure of any thread is lost when runs are returned.
THEOREM NoFailureLostHolds == Spec => []NoFailureLost
BY EnsembleInvariant, NoFailureLostFollows, PTL
===============================================================================
