-------------------------- MODULE HazardAccumulation --------------------------
(***************************************************************************)
(* HazardAccumulator of scripts/build_hazard_layers.py and its use by the  *)
(* chunked reducer: each chunk accumulates its share of the input files on *)
(* a thread of its own, a chunk that an earlier run completed is loaded    *)
(* from its partial state, and the accumulators are merged by chunk id.    *)
(*                                                                         *)
(* The kinetic energy, jump height and speed of a sample are one function  *)
(* of the quantity, and a grid is named by the tuple of what it counts.    *)
(* Values and weights are naturals: sums are exact, unlike those of floats.*)
(* conditional_statistics_surfaces is on, so that samples are kept.        *)
(***************************************************************************)
EXTENDS Naturals, SequencesExt

CONSTANTS
  Cell,         \* cells of the raster grid
  Outside,      \* the cell of a position that is missing or off the grid
  Missing,      \* a value that is missing, not finite or not evaluable
  NoData,       \* the NODATA value of a maximum
  NoGrids,      \* the weighted grids of a build without probability weights
  Threshold,    \* exceedance thresholds, the same for each quantity
  Weight,       \* the filtered sampling weight by trajectory id
  Trajectories, Depositions, Impacts,   \* the input files a build may be given
  MaxWorkers    \* bound on --reducer-workers

ASSUME ValueAssumption ==
  /\ Outside \notin Cell
  /\ Missing \notin Nat /\ NoData \notin Nat
  /\ Threshold \subseteq Nat
  /\ Weight \in [DOMAIN Weight -> Nat]
  /\ MaxWorkers \in Nat \ {0}

Quantity == {"kinetic", "jump", "speed"}
Peaked == {"kinetic", "jump"}

\* Positions and values of samples, as read from a trajectory file.
Sample == [cell : Cell \cup {Outside}, value : [Quantity -> Nat \cup {Missing}]]

\* The files of an input are in order, and so are their samples and points.
IsSequence(s) == s \in Seq(ToSet(s))
ASSUME InputAssumption ==
  /\ \A files \in Trajectories :
       IsSequence(files) /\ \A t \in ToSet(files) : t.samples \in Seq(Sample)
  /\ \A points \in Depositions : IsSequence(points)
  /\ \A files \in Impacts :
       /\ IsSequence(files)
       /\ \A f \in ToSet(files) :
            IsSequence(f.points) /\ f.events \in Nat /\ f.significant \in Nat

VARIABLES
  input,     \* the files: trajectories, depositions and impact files, in order
  workers,   \* --reducer-workers: the number of chunks
  weighted,  \* whether hazard_probability is configured
  reused,    \* chunks whose partial state an earlier run left
  stage,     \* what each chunk's thread is at
  read,      \* how many files of that stage it has read
  acc,       \* accumulator of each chunk
  nextMerge, merged  \* the merge loop

build == <<input, workers, weighted, reused>>
vars == <<build, stage, read, acc, nextMerge, merged>>

Chunks == 0 .. workers - 1
-------------------------------------------------------------------------------
(* Accumulators *)

\* Counting grids: trajectories per cell, trajectories at or above a threshold,
\* final positions, significant impacts, and samples behind each maximum.
Weighable ==
  {<<"reach">>, <<"deposition">>, <<"impact">>}
    \cup {<<"exceed", q, t>> : q \in Quantity, t \in Threshold}
Layer == Weighable \cup {<<"support", q>> : q \in Peaked}

ASSUME NoGridsAssumption == \A L \in SUBSET Weighable : NoGrids \notin [L -> [Cell -> Nat]]

Counter == {"trajectories", "samples", "points", "events", "significant"}

\* A sample adds the values it has to the samples of its cell.
NoValues == [q \in Quantity |-> [c \in Cell |-> <<>>]]
AddValues(values, s) ==
  [q \in Quantity |-> [c \in Cell |->
     IF s.cell = c /\ s.value[q] # Missing THEN Append(values[q][c], s.value[q])
     ELSE values[q][c]]]

\* __init__.
EmptyAccumulator ==
  [grids |-> [l \in Layer |-> [c \in Cell |-> 0]],
   weighted |-> IF weighted THEN [l \in Weighable |-> [c \in Cell |-> 0]] ELSE NoGrids,
   impactWeight |-> 0,
   peak |-> [q \in Peaked |-> [c \in Cell |-> NoData]],
   samples |-> NoValues,
   points |-> <<>>,
   count |-> [k \in Counter |-> 0]]

\* Values of quantity q that a sequence of samples has in cell c.
ValuesIn(samples, q, c) == FoldLeft(AddValues, NoValues, samples)[q][c]

\* Mutant: every sample is counted, not every trajectory once.
HitsPerSample(samples, l, c) ==
  CASE l[1] = "reach" -> Len(SelectSeq(samples, LAMBDA s : s.cell = c))
    [] l[1] = "support" -> Len(ValuesIn(samples, l[2], c))
    [] l[1] = "exceed" ->
         Len(SelectSeq(ValuesIn(samples, l[2], c), LAMBDA v : v >= l[3]))
    [] OTHER -> 0

\* What one trajectory adds to grid l in cell c: it is counted once per cell it
\* visits or exceeds a threshold in, its samples each count as support.
Hits(samples, l, c) ==
  CASE l[1] = "reach" -> IF \E s \in ToSet(samples) : s.cell = c THEN 1 ELSE 0
    [] l[1] = "support" -> Len(ValuesIn(samples, l[2], c))
    [] l[1] = "exceed" ->
         IF \E v \in ToSet(ValuesIn(samples, l[2], c)) : v >= l[3] THEN 1 ELSE 0
    [] OTHER -> 0

\* The greater of two maxima, either of which may be NoData.
Greater(v, w) == IF v = NoData \/ (w # NoData /\ w > v) THEN w ELSE v

\* accumulate_trajectory, with the sets commit_*_sets add to the grids.
AddTrajectory(a, t) ==
  [a EXCEPT
    !.grids = [l \in Layer |-> [c \in Cell |-> @[l][c] + Hits(t.samples, l, c)]],
    !.weighted = IF @ = NoGrids THEN @
                 ELSE [l \in Weighable |-> [c \in Cell |->
                         @[l][c] + Weight[t.id] * Hits(t.samples, l, c)]],
    !.peak = [q \in Peaked |-> [c \in Cell |->
                FoldLeft(Greater, @[q][c], ValuesIn(t.samples, q, c))]],
    !.samples = [q \in Quantity |-> [c \in Cell |-> @[q][c] \o ValuesIn(t.samples, q, c)]],
    !.count["trajectories"] = @ + 1,
    !.count["samples"] = @ + Len(t.samples)]

\* A grid with n more in a cell.
Marked(grid, cell, n) == [c \in Cell |-> IF c = cell THEN grid[c] + n ELSE grid[c]]

\* A point of grid l, with the weight of its trajectory unless the filters left
\* that trajectory out.
Weighs(a, p) == a.weighted # NoGrids /\ p.id \in DOMAIN Weight
AddPoint(a, l, p) ==
  [a EXCEPT
    !.grids[l] = Marked(@, p.cell, 1),
    !.weighted = IF Weighs(a, p)
                 THEN [@ EXCEPT ![l] = Marked(a.weighted[l], p.cell, Weight[p.id])]
                 ELSE @]

\* accumulate_deposition, of one point.
AddDeposition(a, p) ==
  [AddPoint(a, <<"deposition">>, p) EXCEPT
    !.points = Append(@, p),
    !.count["points"] = @ + 1]

\* accumulate_impacts, of one significant impact with a position.
AddImpact(a, p) ==
  [AddPoint(a, <<"impact">>, p) EXCEPT
    !.impactWeight = IF Weighs(a, p) THEN @ + Weight[p.id] ELSE @]

\* accumulate_impacts, of one impact-event file.
AddImpactFile(a, f) ==
  [FoldLeft(AddImpact, a, f.points) EXCEPT
    !.count["events"] = @ + f.events,
    !.count["significant"] = @ + f.significant]
-------------------------------------------------------------------------------
(* Merging and persisting *)

\* merge.
Merge(a, b) ==
  [a EXCEPT
    !.grids = [l \in Layer |-> [c \in Cell |-> @[l][c] + b.grids[l][c]]],
    !.weighted = IF @ = NoGrids \/ b.weighted = NoGrids THEN @
                 ELSE [l \in Weighable |-> [c \in Cell |-> @[l][c] + b.weighted[l][c]]],
    !.impactWeight = @ + b.impactWeight,
    !.peak = [q \in Peaked |-> [c \in Cell |-> Greater(@[q][c], b.peak[q][c])]],
    !.samples = [q \in Quantity |-> [c \in Cell |-> @[q][c] \o b.samples[q][c]]],
    !.points = @ \o b.points,
    !.count = [k \in Counter |-> @[k] + b.count[k]]]

\* serialize_chunk_accumulator_state: every field but the weighted reach grid.
Serialized(a) ==
  [a EXCEPT !.weighted = IF @ = NoGrids THEN @
                         ELSE [l \in Weighable \ {<<"reach">>} |-> @[l]]]

\* Mutant: a grid the state leaves out stays out.
LoadedAsStored(state) == state

\* load_chunk_accumulator_state: a new accumulator takes over what was serialised.
Loaded(state) ==
  [state EXCEPT !.weighted = IF @ = NoGrids THEN @
                             ELSE [l \in Weighable |->
                                     IF l \in DOMAIN @ THEN @[l]
                                     ELSE EmptyAccumulator.weighted[l]]]
-------------------------------------------------------------------------------
(* Chunks *)

\* Mutant: the last file of a share is left out if the division has a remainder.
CutTruncated(k, n) == k * (n \div workers)

\* contiguous_partitions: the files of chunk k are those in Cut(k, n) + 1 .. Cut(k + 1, n).
Cut(k, n) == (k * n) \div workers
Share(files, k) == SubSeq(files, Cut(k, Len(files)) + 1, Cut(k + 1, Len(files)))

\* Only the first chunk has the deposition file.
DepositionOf(k) == IF k = 0 THEN input.depositions ELSE <<>>

\* A weighted build ends at a trajectory without samples or weight, as the serial one.
Init ==
  /\ input \in [trajectories : Trajectories, depositions : Depositions, impacts : Impacts]
  /\ workers \in 1 .. MaxWorkers
  /\ weighted \in BOOLEAN
  /\ weighted => \A t \in ToSet(input.trajectories) : t.samples # <<>> /\ t.id \in DOMAIN Weight
  /\ reused \in SUBSET Chunks
  /\ stage = [k \in Chunks |-> "deposition"]
  /\ read = [k \in Chunks |-> 0]
  /\ acc = [k \in Chunks |-> EmptyAccumulator]
  /\ nextMerge = 0
  /\ merged = EmptyAccumulator

\* The chunk's thread reads the deposition file, if it has one.
AccumulateDeposition(k) ==
  /\ stage[k] = "deposition"
  /\ stage' = [stage EXCEPT ![k] = "trajectories"]
  /\ acc' = [acc EXCEPT ![k] = FoldLeft(AddDeposition, @, DepositionOf(k))]
  /\ UNCHANGED <<build, read, nextMerge, merged>>

\* It reads its next trajectory file.
AccumulateTrajectory(k) ==
  LET files == Share(input.trajectories, k)
  IN /\ stage[k] = "trajectories"
     /\ read[k] < Len(files)
     /\ acc' = [acc EXCEPT ![k] = AddTrajectory(@, files[read[k] + 1])]
     /\ read' = [read EXCEPT ![k] = @ + 1]
     /\ UNCHANGED <<build, stage, nextMerge, merged>>

\* Then its impact files; the chunk is completed.  A chunk that is reused was
\* completed like this by an earlier run, and this one loads its state.
AccumulateImpacts(k) ==
  /\ stage[k] = "trajectories"
  /\ read[k] = Len(Share(input.trajectories, k))
  /\ stage' = [stage EXCEPT ![k] = "completed"]
  /\ LET a == FoldLeft(AddImpactFile, acc[k], Share(input.impacts, k))
     IN acc' = [acc EXCEPT ![k] = IF k \in reused THEN Loaded(Serialized(a)) ELSE a]
  /\ UNCHANGED <<build, read, nextMerge, merged>>

\* All results are in: the next one in chunk order is merged.
MergeNext ==
  /\ \A k \in Chunks : stage[k] = "completed"
  /\ nextMerge < workers
  /\ merged' = Merge(merged, acc[nextMerge])
  /\ nextMerge' = nextMerge + 1
  /\ UNCHANGED <<build, stage, read, acc>>

Done == nextMerge = workers /\ UNCHANGED vars

Next ==
  \/ \E k \in Chunks : AccumulateDeposition(k) \/ AccumulateTrajectory(k) \/ AccumulateImpacts(k)
  \/ MergeNext
  \/ Done

Spec == Init /\ [][Next]_vars
-------------------------------------------------------------------------------
(* Properties *)

\* Shape of every accumulator and of the loops.
AccumulatorOK(a) ==
  /\ a.grids \in [Layer -> [Cell -> Nat]]
  /\ IF weighted THEN a.weighted \in [Weighable -> [Cell -> Nat]] ELSE a.weighted = NoGrids
  /\ a.impactWeight \in Nat
  /\ a.peak \in [Peaked -> [Cell -> Nat \cup {NoData}]]
  /\ \A q \in Quantity, c \in Cell : ToSet(a.samples[q][c]) \subseteq Nat
  /\ a.count \in [Counter -> Nat]

\* Type invariant.
TypeOK ==
  /\ stage \in [Chunks -> {"deposition", "trajectories", "completed"}]
  /\ nextMerge \in 0 .. workers
  /\ \A k \in Chunks : read[k] \in 0 .. Len(input.trajectories) /\ AccumulatorOK(acc[k])
  /\ AccumulatorOK(merged)

\* run_serial_reducer_accumulation.
SerialAccumulator ==
  FoldLeft(AddImpactFile,
    FoldLeft(AddTrajectory,
      FoldLeft(AddDeposition, EmptyAccumulator, input.depositions),
      input.trajectories),
    input.impacts)

\* The layers of an accumulator agree with each other, in every thread, after
\* every load and throughout the merge: each maximum is one of the samples behind
\* it and reaches a threshold exactly where that threshold was exceeded, no cell
\* is reached by more trajectories than were read, and exceedance only falls with
\* the threshold and never beyond reach.
Coherent ==
  \A a \in {acc[k] : k \in Chunks} \cup {merged}, c \in Cell :
    /\ a.grids[<<"reach">>][c] <= a.count["trajectories"]
    /\ \A q \in Peaked :
         /\ a.grids[<<"support", q>>][c] = Len(a.samples[q][c])
         /\ IF a.samples[q][c] = <<>> THEN a.peak[q][c] = NoData
            ELSE a.peak[q][c] \in ToSet(a.samples[q][c])
         /\ \A t \in Threshold :
              a.grids[<<"exceed", q, t>>][c] > 0
                <=> a.peak[q][c] # NoData /\ a.peak[q][c] >= t
    /\ \A q \in Quantity, t \in Threshold :
         /\ a.grids[<<"exceed", q, t>>][c] <= a.grids[<<"reach">>][c]
         /\ \A u \in Threshold :
              t <= u => a.grids[<<"exceed", q, u>>][c] <= a.grids[<<"exceed", q, t>>][c]

Unweighted(a) == [a EXCEPT !.weighted = NoGrids]

\* For any number of chunks, any of them reused, and any interleaving of the
\* threads the merged accumulator is the serial one, down to the order of samples
\* and points: no file is lost or read twice.  Only the weighted reach of a build
\* that reuses a chunk is left out of this.
MergedIsSerial ==
  nextMerge = workers =>
    /\ Unweighted(merged) = Unweighted(SerialAccumulator)
    /\ weighted =>
         \A l \in Weighable :
           l # <<"reach">> \/ reused = {} => merged.weighted[l] = SerialAccumulator.weighted[l]

\* The chunked reducer preserves every serial output value, reused chunks or not.
PreservesSerialOutput == nextMerge = workers => merged = SerialAccumulator
===============================================================================
