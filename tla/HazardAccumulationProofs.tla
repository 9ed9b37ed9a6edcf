----------------------- MODULE HazardAccumulationProofs -----------------------
(***************************************************************************)
(* Theorems about HazardAccumulation, for any files, grid, thresholds,     *)
(* weights and number of chunks.                                           *)
(*                                                                         *)
(* The argument: merging into an accumulator and then going on with files  *)
(* of the second is accumulating those files into the first (each operator *)
(* adds to each place of each layer, and neither order nor grouping of the *)
(* additions matters there), and the shares of the chunks, put end to end, *)
(* are the files.  So the merge of the first k results is the serial       *)
(* accumulation of their files, except for the weighted reach of a chunk   *)
(* that was loaded.                                                        *)
(***************************************************************************)
EXTENDS HazardAccumulation, SequenceTheorems, TLAPS

\* The laws of the folds over samples; those over files follow further down.
Gathering == INSTANCE FoldLaws WITH op <- AddValues
Peaking == INSTANCE FoldLaws WITH op <- Greater

\* The laws are about the fold of the instance, which is the one of the model.
LEMMA SampleFolds ==
  ASSUME NEW a, NEW s
  PROVE  /\ FoldLeft(AddValues, a, s) = Gathering!Folded(a, s)
         /\ FoldLeft(Greater, a, s) = Peaking!Folded(a, s)
<1>1. FoldLeft(AddValues, a, s) = Gathering!Folded(a, s)
  BY DEF FoldLeft, MapThenFoldSet, Max, Gathering!Folded, Gathering!MapThenFoldSet,
         Gathering!Greatest
<1>2. FoldLeft(Greater, a, s) = Peaking!Folded(a, s)
  BY DEF FoldLeft, MapThenFoldSet, Max, Peaking!Folded, Peaking!MapThenFoldSet,
         Peaking!Greatest
<1>3. QED
  BY <1>1, <1>2
-------------------------------------------------------------------------------
(* Types *)

\* What Init establishes of a build, which never changes.
BuildOK ==
  /\ input \in [trajectories : Trajectories, depositions : Depositions, impacts : Impacts]
  /\ workers \in 1 .. MaxWorkers
  /\ weighted \in BOOLEAN
  /\ weighted => \A t \in ToSet(input.trajectories) : t.id \in DOMAIN Weight
  /\ reused \in SUBSET Chunks

Tracks == ToSet(input.trajectories)
Points == ToSet(input.depositions)
ImpactFiles == ToSet(input.impacts)

Accumulator ==
  [grids : [Layer -> [Cell -> Nat]],
   weighted : IF weighted THEN [Weighable -> [Cell -> Nat]] ELSE {NoGrids},
   impactWeight : Nat,
   peak : [Peaked -> [Cell -> Nat \cup {NoData}]],
   samples : [Quantity -> [Cell -> Seq(Nat)]],
   points : Seq(Points),
   count : [Counter -> Nat]]

\* A point adds weight in a weighted build unless its trajectory was left out.
Weighted(p) == weighted /\ p.id \in DOMAIN Weight

LEMMA GridsIfWeighted ==
  ASSUME NEW a \in Accumulator
  PROVE  /\ a.weighted = NoGrids <=> ~ weighted
         /\ \A p : Weighs(a, p) <=> Weighted(p)
<1>1. weighted => a.weighted # NoGrids
  <2>1. weighted => a.weighted \in [Weighable -> [Cell -> Nat]]
    BY DEF Accumulator
  <2>2. NoGrids \notin [Weighable -> [Cell -> Nat]]
    BY NoGridsAssumption
  <2>3. QED
    BY <2>1, <2>2
<1>2. ~ weighted => a.weighted = NoGrids
  BY DEF Accumulator
<1>3. QED
  BY <1>1, <1>2 DEF Weighs, Weighted

LEMMA Files ==
  ASSUME BuildOK
  PROVE  /\ input.trajectories \in Seq(Tracks)
         /\ input.depositions \in Seq(Points)
         /\ input.impacts \in Seq(ImpactFiles)
         /\ \A t \in Tracks :
              t.samples \in Seq(Sample) /\ (weighted => t.id \in DOMAIN Weight)
         /\ \A f \in ImpactFiles :
              /\ f.points \in Seq(ToSet(f.points))
              /\ f.events \in Nat /\ f.significant \in Nat
BY InputAssumption DEF BuildOK, Tracks, Points, ImpactFiles, IsSequence

LEMMA ValuesType ==
  ASSUME NEW s \in Seq(Sample), NEW q \in Quantity, NEW c \in Cell
  PROVE  ValuesIn(s, q, c) \in Seq(Nat)
<1> DEFINE D == [Quantity -> [Cell -> Seq(Nat)]]
<1>1. NoValues \in D
  BY EmptySeq DEF NoValues
<1>2. ASSUME NEW v \in D, NEW e \in Sample PROVE AddValues(v, e) \in D
  <2>1. ASSUME NEW p \in Quantity, NEW d \in Cell, e.value[p] # Missing
        PROVE  Append(v[p][d], e.value[p]) \in Seq(Nat)
    <3>1. e.value[p] \in Nat /\ v[p][d] \in Seq(Nat)
      BY <2>1 DEF Sample
    <3>2. QED
      BY <3>1, AppendProperties
  <2>2. QED
    BY <2>1 DEF AddValues
<1>3. Gathering!Folded(NoValues, s) \in D
  <2> HIDE DEF D
  <2>1. QED
    BY <1>1, <1>2, Gathering!FoldType
<1>4. QED
  BY <1>3, SampleFolds DEF ValuesIn

LEMMA HitsFacts ==
  ASSUME NEW s \in Seq(Sample), NEW c \in Cell
  PROVE  /\ \A l \in Layer : Hits(s, l, c) \in Nat
         /\ Hits(s, <<"impact">>, c) = 0 /\ Hits(s, <<"deposition">>, c) = 0
<1>1. \A q \in Quantity : Len(ValuesIn(s, q, c)) \in Nat
  BY ValuesType, LenProperties
<1>2. QED
  BY <1>1 DEF Hits, Layer, Weighable, Peaked, Quantity

\* The operators, field by field.
LEMMA TrajectoryFields ==
  ASSUME NEW a \in Accumulator, NEW t
  PROVE  AddTrajectory(a, t) =
           [grids |-> [l \in Layer |-> [c \in Cell |->
                         a.grids[l][c] + Hits(t.samples, l, c)]],
            weighted |-> IF weighted
                         THEN [l \in Weighable |-> [c \in Cell |->
                                 a.weighted[l][c] + Weight[t.id] * Hits(t.samples, l, c)]]
                         ELSE a.weighted,
            impactWeight |-> a.impactWeight,
            peak |-> [q \in Peaked |-> [c \in Cell |->
                        FoldLeft(Greater, a.peak[q][c], ValuesIn(t.samples, q, c))]],
            samples |-> [q \in Quantity |-> [c \in Cell |->
                           a.samples[q][c] \o ValuesIn(t.samples, q, c)]],
            points |-> a.points,
            count |-> [a.count EXCEPT !["trajectories"] = @ + 1,
                                      !["samples"] = @ + Len(t.samples)]]
<1> DEFINE G == [l \in Layer |-> [c \in Cell |-> a.grids[l][c] + Hits(t.samples, l, c)]]
           W == IF weighted
                THEN [l \in Weighable |-> [c \in Cell |->
                        a.weighted[l][c] + Weight[t.id] * Hits(t.samples, l, c)]]
                ELSE a.weighted
           P == [q \in Peaked |-> [c \in Cell |->
                   FoldLeft(Greater, a.peak[q][c], ValuesIn(t.samples, q, c))]]
           S == [q \in Quantity |-> [c \in Cell |->
                   a.samples[q][c] \o ValuesIn(t.samples, q, c)]]
           N == [a.count EXCEPT !["trajectories"] = @ + 1, !["samples"] = @ + Len(t.samples)]
<1>1. AddTrajectory(a, t) =
        [a EXCEPT !.grids = G, !.weighted = W, !.peak = P, !.samples = S, !.count = N]
  BY GridsIfWeighted DEF AddTrajectory, Accumulator
<1> HIDE DEF G, W, P, S, N
<1>2. AddTrajectory(a, t) =
        [grids |-> G, weighted |-> W, impactWeight |-> a.impactWeight, peak |-> P,
         samples |-> S, points |-> a.points, count |-> N]
  BY <1>1 DEF Accumulator
<1>3. QED
  BY <1>2 DEF G, W, P, S, N

LEMMA PointFields ==
  ASSUME NEW a \in Accumulator, NEW l \in Weighable, NEW p
  PROVE  AddPoint(a, l, p) =
           [grids |-> [a.grids EXCEPT ![l] = Marked(@, p.cell, 1)],
            weighted |-> IF Weighted(p)
                         THEN [a.weighted EXCEPT ![l] = Marked(@, p.cell, Weight[p.id])]
                         ELSE a.weighted,
            impactWeight |-> a.impactWeight,
            peak |-> a.peak,
            samples |-> a.samples,
            points |-> a.points,
            count |-> a.count]
<1> DEFINE G == [a.grids EXCEPT ![l] = Marked(@, p.cell, 1)]
           W == IF Weighted(p)
                THEN [a.weighted EXCEPT ![l] = Marked(@, p.cell, Weight[p.id])]
                ELSE a.weighted
<1>1. AddPoint(a, l, p) = [a EXCEPT !.grids = G, !.weighted = W]
  BY GridsIfWeighted DEF AddPoint, Accumulator
<1> HIDE DEF G, W
<1>2. AddPoint(a, l, p) =
        [grids |-> G, weighted |-> W, impactWeight |-> a.impactWeight, peak |-> a.peak,
         samples |-> a.samples, points |-> a.points, count |-> a.count]
  BY <1>1 DEF Accumulator
<1>3. QED
  BY <1>2 DEF G, W

LEMMA ImpactFields ==
  ASSUME NEW a \in Accumulator, NEW p
  PROVE  AddImpact(a, p) =
           [grids |-> [a.grids EXCEPT ![<<"impact">>] = Marked(@, p.cell, 1)],
            weighted |-> IF Weighted(p)
                         THEN [a.weighted EXCEPT ![<<"impact">>] = Marked(@, p.cell, Weight[p.id])]
                         ELSE a.weighted,
            impactWeight |-> IF Weighted(p) THEN a.impactWeight + Weight[p.id] ELSE a.impactWeight,
            peak |-> a.peak,
            samples |-> a.samples,
            points |-> a.points,
            count |-> a.count]
<1> DEFINE G == [a.grids EXCEPT ![<<"impact">>] = Marked(@, p.cell, 1)]
           W == IF Weighted(p)
                THEN [a.weighted EXCEPT ![<<"impact">>] = Marked(@, p.cell, Weight[p.id])]
                ELSE a.weighted
<1>1. AddPoint(a, <<"impact">>, p) =
        [grids |-> G, weighted |-> W, impactWeight |-> a.impactWeight, peak |-> a.peak,
         samples |-> a.samples, points |-> a.points, count |-> a.count]
  <2>1. <<"impact">> \in Weighable
    BY DEF Weighable
  <2>2. QED
    BY <2>1, PointFields
<1> HIDE DEF G, W
<1>2. AddImpact(a, p) =
        [grids |-> G, weighted |-> W,
         impactWeight |-> IF Weighted(p) THEN a.impactWeight + Weight[p.id] ELSE a.impactWeight,
         peak |-> a.peak, samples |-> a.samples, points |-> a.points, count |-> a.count]
  BY <1>1, GridsIfWeighted DEF AddImpact
<1>3. QED
  BY <1>2 DEF G, W

LEMMA DepositionFields ==
  ASSUME NEW a \in Accumulator, NEW p
  PROVE  AddDeposition(a, p) =
           [grids |-> [a.grids EXCEPT ![<<"deposition">>] = Marked(@, p.cell, 1)],
            weighted |-> IF Weighted(p)
                         THEN [a.weighted EXCEPT ![<<"deposition">>] =
                                 Marked(@, p.cell, Weight[p.id])]
                         ELSE a.weighted,
            impactWeight |-> a.impactWeight,
            peak |-> a.peak,
            samples |-> a.samples,
            points |-> Append(a.points, p),
            count |-> [a.count EXCEPT !["points"] = @ + 1]]
<1> DEFINE G == [a.grids EXCEPT ![<<"deposition">>] = Marked(@, p.cell, 1)]
           W == IF Weighted(p)
                THEN [a.weighted EXCEPT ![<<"deposition">>] = Marked(@, p.cell, Weight[p.id])]
                ELSE a.weighted
<1>1. AddPoint(a, <<"deposition">>, p) =
        [grids |-> G, weighted |-> W, impactWeight |-> a.impactWeight, peak |-> a.peak,
         samples |-> a.samples, points |-> a.points, count |-> a.count]
  <2>1. <<"deposition">> \in Weighable
    BY DEF Weighable
  <2>2. QED
    BY <2>1, PointFields
<1> HIDE DEF G, W
<1>2. AddDeposition(a, p) =
        [grids |-> G, weighted |-> W, impactWeight |-> a.impactWeight, peak |-> a.peak,
         samples |-> a.samples, points |-> Append(a.points, p),
         count |-> [a.count EXCEPT !["points"] = @ + 1]]
  <2> DEFINE b == AddPoint(a, <<"deposition">>, p)
  <2>1. AddDeposition(a, p) =
          [b EXCEPT !.points = Append(b.points, p), !.count = [b.count EXCEPT !["points"] = @ + 1]]
    BY DEF AddDeposition
  <2> HIDE DEF b
  <2>2. b = [grids |-> G, weighted |-> W, impactWeight |-> a.impactWeight, peak |-> a.peak,
             samples |-> a.samples, points |-> a.points, count |-> a.count]
    BY <1>1 DEF b
  <2>3. QED
    BY <2>1, <2>2
<1>3. QED
  BY <1>2 DEF G, W

LEMMA MergeFields ==
  ASSUME NEW a \in Accumulator, NEW b \in Accumulator, weighted \in BOOLEAN
  PROVE  Merge(a, b) =
           [grids |-> [l \in Layer |-> [c \in Cell |-> a.grids[l][c] + b.grids[l][c]]],
            weighted |-> IF weighted
                         THEN [l \in Weighable |-> [c \in Cell |->
                                 a.weighted[l][c] + b.weighted[l][c]]]
                         ELSE a.weighted,
            impactWeight |-> a.impactWeight + b.impactWeight,
            peak |-> [q \in Peaked |-> [c \in Cell |-> Greater(a.peak[q][c], b.peak[q][c])]],
            samples |-> [q \in Quantity |-> [c \in Cell |->
                           a.samples[q][c] \o b.samples[q][c]]],
            points |-> a.points \o b.points,
            count |-> [k \in Counter |-> a.count[k] + b.count[k]]]
<1>1. weighted => a.weighted # NoGrids /\ b.weighted # NoGrids
  BY GridsIfWeighted
<1>2. ~ weighted => a.weighted = NoGrids
  BY GridsIfWeighted
<1> DEFINE G == [l \in Layer |-> [c \in Cell |-> a.grids[l][c] + b.grids[l][c]]]
           W == IF weighted
                THEN [l \in Weighable |-> [c \in Cell |-> a.weighted[l][c] + b.weighted[l][c]]]
                ELSE a.weighted
           P == [q \in Peaked |-> [c \in Cell |-> Greater(a.peak[q][c], b.peak[q][c])]]
           S == [q \in Quantity |-> [c \in Cell |-> a.samples[q][c] \o b.samples[q][c]]]
           N == [k \in Counter |-> a.count[k] + b.count[k]]
<1>3. Merge(a, b) =
        [a EXCEPT !.grids = G, !.weighted = W, !.impactWeight = a.impactWeight + b.impactWeight,
                  !.peak = P, !.samples = S, !.points = a.points \o b.points, !.count = N]
  BY <1>1, <1>2 DEF Merge, Accumulator
<1> HIDE DEF G, W, P, S, N
<1>4. Merge(a, b) =
        [grids |-> G, weighted |-> W, impactWeight |-> a.impactWeight + b.impactWeight,
         peak |-> P, samples |-> S, points |-> a.points \o b.points, count |-> N]
  BY <1>3 DEF Accumulator
<1>5. QED
  BY <1>4 DEF G, W, P, S, N

\* Accumulators stay accumulators.
LEMMA FieldTypes ==
  ASSUME NEW a \in Accumulator
  PROVE  /\ a.grids \in [Layer -> [Cell -> Nat]]
         /\ IF weighted THEN a.weighted \in [Weighable -> [Cell -> Nat]] ELSE a.weighted = NoGrids
         /\ a.impactWeight \in Nat
         /\ a.peak \in [Peaked -> [Cell -> Nat \cup {NoData}]]
         /\ a.samples \in [Quantity -> [Cell -> Seq(Nat)]]
         /\ a.points \in Seq(Points)
         /\ a.count \in [Counter -> Nat]
BY DEF Accumulator

LEMMA MarkedType ==
  ASSUME NEW grid \in [Cell -> Nat], NEW cell, NEW n \in Nat
  PROVE  Marked(grid, cell, n) \in [Cell -> Nat]
BY DEF Marked

LEMMA EmptyType ==
  ASSUME weighted \in BOOLEAN
  PROVE  EmptyAccumulator \in Accumulator
<1>1. NoValues \in [Quantity -> [Cell -> Seq(Nat)]] /\ <<>> \in Seq(Points)
  BY EmptySeq DEF NoValues
<1>2. QED
  BY <1>1 DEF EmptyAccumulator, Accumulator

LEMMA GreaterType ==
  ASSUME NEW v \in Nat \cup {NoData}, NEW w \in Nat \cup {NoData}
  PROVE  Greater(v, w) \in Nat \cup {NoData}
BY DEF Greater

LEMMA PeakType ==
  ASSUME NEW v \in Nat \cup {NoData}, NEW s \in Seq(Nat)
  PROVE  FoldLeft(Greater, v, s) \in Nat \cup {NoData}
<1> DEFINE D == Nat \cup {NoData}
<1>1. \A x \in D, e \in Nat : Greater(x, e) \in D
  BY GreaterType
<1>2. Peaking!Folded(v, s) \in D
  <2> HIDE DEF D
  <2>1. v \in D
    BY DEF D
  <2>2. QED
    BY <1>1, <2>1, Peaking!FoldType
<1>3. QED
  BY <1>2, SampleFolds

LEMMA TrajectoryType ==
  ASSUME BuildOK, NEW a \in Accumulator, NEW t \in Tracks
  PROVE  AddTrajectory(a, t) \in Accumulator
<1>1. t.samples \in Seq(Sample) /\ (weighted => t.id \in DOMAIN Weight)
  BY Files
<1>2. Len(t.samples) \in Nat
  BY <1>1, LenProperties
<1>3. [l \in Layer |-> [c \in Cell |-> a.grids[l][c] + Hits(t.samples, l, c)]]
        \in [Layer -> [Cell -> Nat]]
  BY <1>1, HitsFacts DEF Accumulator
<1>4. weighted =>
        [l \in Weighable |-> [c \in Cell |->
           a.weighted[l][c] + Weight[t.id] * Hits(t.samples, l, c)]]
          \in [Weighable -> [Cell -> Nat]]
  <2>1. SUFFICES ASSUME weighted, NEW l \in Weighable, NEW c \in Cell
                 PROVE  a.weighted[l][c] + Weight[t.id] * Hits(t.samples, l, c) \in Nat
    OBVIOUS
  <2>2. a.weighted[l][c] \in Nat
    BY <2>1 DEF Accumulator
  <2>3. Weight[t.id] \in Nat
    BY <1>1, <2>1, ValueAssumption
  <2>4. Hits(t.samples, l, c) \in Nat
    BY <1>1, HitsFacts DEF Layer
  <2>5. \A x, y, z \in Nat : x + y * z \in Nat
    OBVIOUS
  <2>6. QED
    BY <2>2, <2>3, <2>4, <2>5
<1>5. [q \in Peaked |-> [c \in Cell |->
        FoldLeft(Greater, a.peak[q][c], ValuesIn(t.samples, q, c))]]
        \in [Peaked -> [Cell -> Nat \cup {NoData}]]
  <2>1. ASSUME NEW q \in Peaked, NEW c \in Cell
        PROVE  FoldLeft(Greater, a.peak[q][c], ValuesIn(t.samples, q, c)) \in Nat \cup {NoData}
    <3>1. ValuesIn(t.samples, q, c) \in Seq(Nat)
      BY <1>1, ValuesType DEF Peaked, Quantity
    <3>2. a.peak[q][c] \in Nat \cup {NoData}
      BY DEF Accumulator
    <3>3. QED
      BY <3>1, <3>2, PeakType
  <2>2. QED
    BY <2>1
<1>6. [q \in Quantity |-> [c \in Cell |-> a.samples[q][c] \o ValuesIn(t.samples, q, c)]]
        \in [Quantity -> [Cell -> Seq(Nat)]]
  <2>1. ASSUME NEW q \in Quantity, NEW c \in Cell
        PROVE  a.samples[q][c] \o ValuesIn(t.samples, q, c) \in Seq(Nat)
    <3>1. ValuesIn(t.samples, q, c) \in Seq(Nat) /\ a.samples[q][c] \in Seq(Nat)
      BY <1>1, ValuesType DEF Accumulator
    <3>2. QED
      BY <3>1, ConcatProperties
  <2>2. QED
    BY <2>1
<1>7. [a.count EXCEPT !["trajectories"] = @ + 1, !["samples"] = @ + Len(t.samples)]
        \in [Counter -> Nat]
  <2>1. a.count \in [Counter -> Nat]
    BY FieldTypes
  <2>2. [a.count EXCEPT !["trajectories"] = @ + 1] \in [Counter -> Nat]
    BY <2>1 DEF Counter
  <2>3. \A n \in [Counter -> Nat] :
          [n EXCEPT !["samples"] = @ + Len(t.samples)] \in [Counter -> Nat]
    BY <1>2 DEF Counter
  <2>4. [a.count EXCEPT !["trajectories"] = @ + 1, !["samples"] = @ + Len(t.samples)]
          = [[a.count EXCEPT !["trajectories"] = @ + 1] EXCEPT !["samples"] = @ + Len(t.samples)]
    OBVIOUS
  <2>5. QED
    BY <2>2, <2>3, <2>4
<1> DEFINE W == IF weighted
                THEN [l \in Weighable |-> [c \in Cell |->
                        a.weighted[l][c] + Weight[t.id] * Hits(t.samples, l, c)]]
                ELSE a.weighted
<1>8. IF weighted THEN W \in [Weighable -> [Cell -> Nat]] ELSE W = NoGrids
  BY <1>4, FieldTypes
<1>9. a.impactWeight \in Nat /\ a.points \in Seq(Points)
  BY FieldTypes
<1> DEFINE G == [l \in Layer |-> [c \in Cell |-> a.grids[l][c] + Hits(t.samples, l, c)]]
           P == [q \in Peaked |-> [c \in Cell |->
                   FoldLeft(Greater, a.peak[q][c], ValuesIn(t.samples, q, c))]]
           S == [q \in Quantity |-> [c \in Cell |->
                   a.samples[q][c] \o ValuesIn(t.samples, q, c)]]
           N == [a.count EXCEPT !["trajectories"] = @ + 1, !["samples"] = @ + Len(t.samples)]
<1>10. AddTrajectory(a, t) =
         [grids |-> G, weighted |-> W, impactWeight |-> a.impactWeight, peak |-> P,
          samples |-> S, points |-> a.points, count |-> N]
  BY TrajectoryFields
<1>11. /\ G \in [Layer -> [Cell -> Nat]]
      /\ P \in [Peaked -> [Cell -> Nat \cup {NoData}]]
      /\ S \in [Quantity -> [Cell -> Seq(Nat)]]
      /\ N \in [Counter -> Nat]
  BY <1>3, <1>5, <1>6, <1>7
<1> HIDE DEF W, G, P, S, N
<1>12. QED
  BY <1>8, <1>9, <1>10, <1>11 DEF Accumulator

LEMMA MarkedGrids ==
  ASSUME NEW a \in Accumulator, NEW l \in Weighable, NEW p
  PROVE  /\ [a.grids EXCEPT ![l] = Marked(@, p.cell, 1)] \in [Layer -> [Cell -> Nat]]
         /\ Weighted(p) =>
              /\ weighted /\ Weight[p.id] \in Nat
              /\ [a.weighted EXCEPT ![l] = Marked(@, p.cell, Weight[p.id])]
                   \in [Weighable -> [Cell -> Nat]]
<1>1. Weighted(p) => Weight[p.id] \in Nat /\ weighted
  BY ValueAssumption DEF Weighted
<1>2. a.grids \in [Layer -> [Cell -> Nat]] /\ l \in Layer
  BY DEF Accumulator, Layer
<1>3. weighted => a.weighted \in [Weighable -> [Cell -> Nat]]
  BY DEF Accumulator
<1>4. QED
  BY <1>1, <1>2, <1>3, MarkedType

LEMMA ImpactType ==
  ASSUME NEW a \in Accumulator, NEW p
  PROVE  AddImpact(a, p) \in Accumulator
<1>1. <<"impact">> \in Weighable
  BY DEF Weighable
<1> DEFINE W == IF Weighted(p)
                THEN [a.weighted EXCEPT ![<<"impact">>] = Marked(@, p.cell, Weight[p.id])]
                ELSE a.weighted
<1>2. [a.grids EXCEPT ![<<"impact">>] = Marked(@, p.cell, 1)] \in [Layer -> [Cell -> Nat]]
  BY <1>1, MarkedGrids
<1>3. IF weighted THEN W \in [Weighable -> [Cell -> Nat]] ELSE W = NoGrids
  BY <1>1, MarkedGrids, FieldTypes
<1>4. (IF Weighted(p) THEN a.impactWeight + Weight[p.id] ELSE a.impactWeight) \in Nat
  BY <1>1, MarkedGrids, FieldTypes
<1>5. /\ a.peak \in [Peaked -> [Cell -> Nat \cup {NoData}]]
      /\ a.samples \in [Quantity -> [Cell -> Seq(Nat)]]
      /\ a.points \in Seq(Points) /\ a.count \in [Counter -> Nat]
  BY FieldTypes
<1> DEFINE G == [a.grids EXCEPT ![<<"impact">>] = Marked(@, p.cell, 1)]
           w == IF Weighted(p) THEN a.impactWeight + Weight[p.id] ELSE a.impactWeight
<1>6. AddImpact(a, p) =
        [grids |-> G, weighted |-> W, impactWeight |-> w, peak |-> a.peak,
         samples |-> a.samples, points |-> a.points, count |-> a.count]
  BY ImpactFields
<1>7. /\ G \in [Layer -> [Cell -> Nat]]
      /\ w \in Nat
  BY <1>2, <1>3, <1>4, <1>5, <1>6
<1> HIDE DEF W, G, w
<1>8. QED
  BY <1>3, <1>5, <1>6, <1>7 DEF Accumulator

LEMMA DepositionType ==
  ASSUME NEW a \in Accumulator, NEW p \in Points
  PROVE  AddDeposition(a, p) \in Accumulator
<1>1. <<"deposition">> \in Weighable
  BY DEF Weighable
<1> DEFINE W == IF Weighted(p)
                THEN [a.weighted EXCEPT ![<<"deposition">>] = Marked(@, p.cell, Weight[p.id])]
                ELSE a.weighted
<1>2. Append(a.points, p) \in Seq(Points)
  BY AppendProperties, FieldTypes
<1>3. [a.count EXCEPT !["points"] = @ + 1] \in [Counter -> Nat]
  BY FieldTypes DEF Counter
<1>4. [a.grids EXCEPT ![<<"deposition">>] = Marked(@, p.cell, 1)] \in [Layer -> [Cell -> Nat]]
  BY <1>1, MarkedGrids
<1>5. IF weighted THEN W \in [Weighable -> [Cell -> Nat]] ELSE W = NoGrids
  BY <1>1, MarkedGrids, FieldTypes
<1>6. /\ a.peak \in [Peaked -> [Cell -> Nat \cup {NoData}]]
      /\ a.samples \in [Quantity -> [Cell -> Seq(Nat)]]
      /\ a.impactWeight \in Nat
  BY FieldTypes
<1> DEFINE G == [a.grids EXCEPT ![<<"deposition">>] = Marked(@, p.cell, 1)]
           N == [a.count EXCEPT !["points"] = @ + 1]
<1>7. AddDeposition(a, p) =
        [grids |-> G, weighted |-> W, impactWeight |-> a.impactWeight, peak |-> a.peak,
         samples |-> a.samples, points |-> Append(a.points, p), count |-> N]
  BY DepositionFields
<1>8. /\ G \in [Layer -> [Cell -> Nat]]
      /\ N \in [Counter -> Nat]
  BY <1>2, <1>3, <1>4, <1>5, <1>6, <1>7
<1> HIDE DEF W, G, N
<1>9. QED
  BY <1>2, <1>5, <1>6, <1>7, <1>8 DEF Accumulator

LEMMA MergeType ==
  ASSUME weighted \in BOOLEAN, NEW a \in Accumulator, NEW b \in Accumulator
  PROVE  Merge(a, b) \in Accumulator
<1>1. [l \in Layer |-> [c \in Cell |-> a.grids[l][c] + b.grids[l][c]]]
        \in [Layer -> [Cell -> Nat]]
  BY DEF Accumulator
<1>2. weighted =>
        [l \in Weighable |-> [c \in Cell |-> a.weighted[l][c] + b.weighted[l][c]]]
          \in [Weighable -> [Cell -> Nat]]
  BY DEF Accumulator
<1>3. [q \in Peaked |-> [c \in Cell |-> Greater(a.peak[q][c], b.peak[q][c])]]
        \in [Peaked -> [Cell -> Nat \cup {NoData}]]
  BY GreaterType DEF Accumulator
<1>4. [q \in Quantity |-> [c \in Cell |-> a.samples[q][c] \o b.samples[q][c]]]
        \in [Quantity -> [Cell -> Seq(Nat)]]
  BY ConcatProperties DEF Accumulator
<1>5. a.points \o b.points \in Seq(Points)
  BY ConcatProperties DEF Accumulator
<1>6. [k \in Counter |-> a.count[k] + b.count[k]] \in [Counter -> Nat]
  BY DEF Accumulator
<1>7. a.impactWeight + b.impactWeight \in Nat
  BY DEF Accumulator
<1> DEFINE W == IF weighted
                THEN [l \in Weighable |-> [c \in Cell |-> a.weighted[l][c] + b.weighted[l][c]]]
                ELSE a.weighted
<1>8. IF weighted THEN W \in [Weighable -> [Cell -> Nat]] ELSE W = NoGrids
  BY <1>2, FieldTypes
<1> DEFINE G == [l \in Layer |-> [c \in Cell |-> a.grids[l][c] + b.grids[l][c]]]
           P == [q \in Peaked |-> [c \in Cell |-> Greater(a.peak[q][c], b.peak[q][c])]]
           S == [q \in Quantity |-> [c \in Cell |-> a.samples[q][c] \o b.samples[q][c]]]
           N == [k \in Counter |-> a.count[k] + b.count[k]]
<1>9. Merge(a, b) =
        [grids |-> G, weighted |-> W, impactWeight |-> a.impactWeight + b.impactWeight,
         peak |-> P, samples |-> S, points |-> a.points \o b.points, count |-> N]
  BY MergeFields
<1>10. /\ G \in [Layer -> [Cell -> Nat]]
      /\ P \in [Peaked -> [Cell -> Nat \cup {NoData}]]
      /\ S \in [Quantity -> [Cell -> Seq(Nat)]]
      /\ N \in [Counter -> Nat]
  BY <1>1, <1>3, <1>4, <1>5, <1>6, <1>7, <1>8, <1>9
<1> HIDE DEF W, G, P, S, N
<1>11. QED
  BY <1>5, <1>7, <1>8, <1>9, <1>10 DEF Accumulator
-------------------------------------------------------------------------------
(* Merging and accumulating commute *)

LEMMA RecordEqual ==
  ASSUME NEW a \in Accumulator, NEW b \in Accumulator,
         a.grids = b.grids, a.weighted = b.weighted, a.impactWeight = b.impactWeight,
         a.peak = b.peak, a.samples = b.samples, a.points = b.points, a.count = b.count
  PROVE  a = b
<1>1. \A r \in Accumulator :
        r = [grids |-> r.grids, weighted |-> r.weighted, impactWeight |-> r.impactWeight,
             peak |-> r.peak, samples |-> r.samples, points |-> r.points, count |-> r.count]
  BY DEF Accumulator
<1>2. QED
  BY <1>1

LEMMA JoinAssociates ==
  ASSUME NEW s \in Seq(Nat), NEW t \in Seq(Nat), NEW u \in Seq(Nat)
  PROVE  (s \o t) \o u = s \o (t \o u)
<1> DEFINE N == Nat
<1>1. s \in Seq(N) /\ t \in Seq(N) /\ u \in Seq(N)
  OBVIOUS
<1> HIDE DEF N
<1>2. QED
  BY <1>1

LEMMA GreaterAssociates ==
  ASSUME NEW u \in Nat \cup {NoData}, NEW v \in Nat \cup {NoData}, NEW w \in Nat \cup {NoData}
  PROVE  Greater(u, Greater(v, w)) = Greater(Greater(u, v), w)
BY ValueAssumption DEF Greater

\* A maximum taken over may be that of later values or be merged with it.
LEMMA PeakMerges ==
  ASSUME NEW u \in Nat \cup {NoData}, NEW v \in Nat \cup {NoData}, NEW s \in Seq(Nat)
  PROVE  Greater(u, FoldLeft(Greater, v, s)) = FoldLeft(Greater, Greater(u, v), s)
<1> DEFINE D == Nat \cup {NoData}
           R == {<<x, Greater(u, x)>> : x \in D}
<1>1. <<v, Greater(u, v)>> \in R
  OBVIOUS
<1>2. ASSUME NEW x, NEW y, <<x, y>> \in R, NEW e \in Nat
      PROVE  <<Greater(x, e), Greater(y, e)>> \in R
  <2>1. x \in D /\ y = Greater(u, x)
    BY <1>2
  <2>2. Greater(x, e) \in D /\ Greater(y, e) = Greater(u, Greater(x, e))
    BY <2>1, GreaterType, GreaterAssociates
  <2>3. QED
    BY <2>2
<1>3. <<Peaking!Folded(v, s), Peaking!Folded(Greater(u, v), s)>> \in R
  <2> HIDE DEF R
  <2>1. QED
    BY <1>1, <1>2, Peaking!FoldRelates
<1>4. QED
  BY <1>3, SampleFolds

\* What each operator does to each place of each layer.
MergeOf(m, a, b) ==
  /\ m \in Accumulator
  /\ \A l \in Layer, c \in Cell : m.grids[l][c] = a.grids[l][c] + b.grids[l][c]
  /\ weighted => \A l \in Weighable, c \in Cell :
       m.weighted[l][c] = a.weighted[l][c] + b.weighted[l][c]
  /\ m.impactWeight = a.impactWeight + b.impactWeight
  /\ \A q \in Peaked, c \in Cell : m.peak[q][c] = Greater(a.peak[q][c], b.peak[q][c])
  /\ \A q \in Quantity, c \in Cell : m.samples[q][c] = a.samples[q][c] \o b.samples[q][c]
  /\ m.points = a.points \o b.points
  /\ \A k \in Counter : m.count[k] = a.count[k] + b.count[k]

TrajectoryIn(m, a, t) ==
  /\ m \in Accumulator
  /\ \A l \in Layer, c \in Cell : m.grids[l][c] = a.grids[l][c] + Hits(t.samples, l, c)
  /\ weighted => \A l \in Weighable, c \in Cell :
       m.weighted[l][c] = a.weighted[l][c] + Weight[t.id] * Hits(t.samples, l, c)
  /\ m.impactWeight = a.impactWeight
  /\ \A q \in Peaked, c \in Cell :
       m.peak[q][c] = FoldLeft(Greater, a.peak[q][c], ValuesIn(t.samples, q, c))
  /\ \A q \in Quantity, c \in Cell :
       m.samples[q][c] = a.samples[q][c] \o ValuesIn(t.samples, q, c)
  /\ m.points = a.points
  /\ m.count["trajectories"] = a.count["trajectories"] + 1
  /\ m.count["samples"] = a.count["samples"] + Len(t.samples)
  /\ \A k \in Counter \ {"trajectories", "samples"} : m.count[k] = a.count[k]

ImpactIn(m, a, p) ==
  /\ m \in Accumulator
  /\ Weighted(p) => weighted /\ Weight[p.id] \in Nat
  /\ \A l \in Layer, c \in Cell :
       m.grids[l][c] = a.grids[l][c] + (IF l = <<"impact">> /\ c = p.cell THEN 1 ELSE 0)
  /\ weighted => \A l \in Weighable, c \in Cell :
       m.weighted[l][c] =
         a.weighted[l][c] +
           (IF l = <<"impact">> /\ c = p.cell /\ Weighted(p) THEN Weight[p.id] ELSE 0)
  /\ m.impactWeight = a.impactWeight + (IF Weighted(p) THEN Weight[p.id] ELSE 0)
  /\ m.peak = a.peak /\ m.samples = a.samples
  /\ m.points = a.points /\ m.count = a.count

DepositionIn(m, a) ==
  /\ m \in Accumulator
  /\ \A l \in Layer \ {<<"deposition">>} : m.grids[l] = a.grids[l]
  /\ m.peak = a.peak /\ m.samples = a.samples
  /\ m.count["trajectories"] = a.count["trajectories"]

LEMMA MergeView ==
  ASSUME weighted \in BOOLEAN, NEW a \in Accumulator, NEW b \in Accumulator
  PROVE  MergeOf(Merge(a, b), a, b)
<1> DEFINE G == [l \in Layer |-> [c \in Cell |-> a.grids[l][c] + b.grids[l][c]]]
           W == IF weighted
                THEN [l \in Weighable |-> [c \in Cell |-> a.weighted[l][c] + b.weighted[l][c]]]
                ELSE a.weighted
           w == a.impactWeight + b.impactWeight
           P == [q \in Peaked |-> [c \in Cell |-> Greater(a.peak[q][c], b.peak[q][c])]]
           S == [q \in Quantity |-> [c \in Cell |-> a.samples[q][c] \o b.samples[q][c]]]
           p == a.points \o b.points
           N == [k \in Counter |-> a.count[k] + b.count[k]]
           m == Merge(a, b)
<1>1. m = [grids |-> G, weighted |-> W, impactWeight |-> w, peak |-> P, samples |-> S,
           points |-> p, count |-> N]
  BY MergeFields
<1>2. m \in Accumulator
  BY MergeType
<1>3. /\ m.grids = G /\ m.weighted = W /\ m.impactWeight = w /\ m.peak = P
      /\ m.samples = S /\ m.points = p /\ m.count = N
  <2> HIDE DEF G, W, w, P, S, p, N, m
  <2>1. QED
    BY <1>1
<1> HIDE DEF m
<1>4. /\ \A l \in Layer, c \in Cell : m.grids[l][c] = a.grids[l][c] + b.grids[l][c]
      /\ weighted => \A l \in Weighable, c \in Cell :
           m.weighted[l][c] = a.weighted[l][c] + b.weighted[l][c]
  BY <1>3
<1>5. /\ \A q \in Peaked, c \in Cell : m.peak[q][c] = Greater(a.peak[q][c], b.peak[q][c])
      /\ \A q \in Quantity, c \in Cell : m.samples[q][c] = a.samples[q][c] \o b.samples[q][c]
      /\ \A k \in Counter : m.count[k] = a.count[k] + b.count[k]
  <2>1. m.peak = P /\ m.samples = S /\ m.count = N
    BY <1>3
  <2>2. \A q \in Peaked, c \in Cell : m.peak[q][c] = Greater(a.peak[q][c], b.peak[q][c])
    BY <2>1
  <2>3. ASSUME NEW q \in Quantity, NEW c \in Cell
        PROVE  m.samples[q][c] = a.samples[q][c] \o b.samples[q][c]
    <3>1. m.samples[q] = [d \in Cell |-> a.samples[q][d] \o b.samples[q][d]]
      BY <2>1, Zenon
    <3>2. QED
      BY <3>1, Zenon
  <2>4. \A k \in Counter : m.count[k] = a.count[k] + b.count[k]
    BY <2>1
  <2>5. QED
    BY <2>2, <2>3, <2>4
<1>6. MergeOf(m, a, b)
  <2> HIDE DEF G, W, P, S, N
  <2>1. QED
    BY <1>2, <1>3, <1>4, <1>5, Zenon DEF MergeOf
<1>7. QED
  BY <1>6 DEF m

LEMMA TrajectoryView ==
  ASSUME BuildOK, NEW a \in Accumulator, NEW t \in Tracks
  PROVE  TrajectoryIn(AddTrajectory(a, t), a, t)
<1> DEFINE G == [l \in Layer |-> [c \in Cell |-> a.grids[l][c] + Hits(t.samples, l, c)]]
           W == IF weighted
                THEN [l \in Weighable |-> [c \in Cell |->
                        a.weighted[l][c] + Weight[t.id] * Hits(t.samples, l, c)]]
                ELSE a.weighted
           P == [q \in Peaked |-> [c \in Cell |->
                   FoldLeft(Greater, a.peak[q][c], ValuesIn(t.samples, q, c))]]
           S == [q \in Quantity |-> [c \in Cell |->
                   a.samples[q][c] \o ValuesIn(t.samples, q, c)]]
           N == [a.count EXCEPT !["trajectories"] = @ + 1, !["samples"] = @ + Len(t.samples)]
           m == AddTrajectory(a, t)
<1>1. m = [grids |-> G, weighted |-> W, impactWeight |-> a.impactWeight, peak |-> P,
           samples |-> S, points |-> a.points, count |-> N]
  BY TrajectoryFields
<1>2. m \in Accumulator /\ a.count \in [Counter -> Nat]
  BY TrajectoryType, FieldTypes
<1>3. /\ m.grids = G /\ m.weighted = W /\ m.impactWeight = a.impactWeight /\ m.peak = P
      /\ m.samples = S /\ m.points = a.points /\ m.count = N
  <2> HIDE DEF G, W, P, S, N, m
  <2>1. QED
    BY <1>1
<1> HIDE DEF m
<1>4. /\ m.count["trajectories"] = a.count["trajectories"] + 1
      /\ m.count["samples"] = a.count["samples"] + Len(t.samples)
      /\ \A k \in Counter \ {"trajectories", "samples"} : m.count[k] = a.count[k]
  BY <1>2, <1>3 DEF Counter
<1>5. /\ \A l \in Layer, c \in Cell : m.grids[l][c] = a.grids[l][c] + Hits(t.samples, l, c)
      /\ weighted => \A l \in Weighable, c \in Cell :
           m.weighted[l][c] = a.weighted[l][c] + Weight[t.id] * Hits(t.samples, l, c)
  BY <1>3
<1>6. /\ \A q \in Peaked, c \in Cell :
           m.peak[q][c] = FoldLeft(Greater, a.peak[q][c], ValuesIn(t.samples, q, c))
      /\ \A q \in Quantity, c \in Cell :
           m.samples[q][c] = a.samples[q][c] \o ValuesIn(t.samples, q, c)
  <2>1. m.peak = P /\ m.samples = S
    BY <1>3
  <2>2. \A q \in Peaked, c \in Cell :
          m.peak[q][c] = FoldLeft(Greater, a.peak[q][c], ValuesIn(t.samples, q, c))
    BY <2>1
  <2>3. ASSUME NEW q \in Quantity, NEW c \in Cell
        PROVE  m.samples[q][c] = a.samples[q][c] \o ValuesIn(t.samples, q, c)
    <3>1. m.samples[q] = [d \in Cell |-> a.samples[q][d] \o ValuesIn(t.samples, q, d)]
      BY <2>1, Zenon
    <3>2. QED
      BY <3>1, Zenon
  <2>4. QED
    BY <2>2, <2>3
<1>7. TrajectoryIn(m, a, t)
  <2> HIDE DEF G, W, P, S, N
  <2>1. QED
    BY <1>2, <1>3, <1>4, <1>5, <1>6, Zenon DEF TrajectoryIn
<1>8. QED
  BY <1>7 DEF m

LEMMA ImpactView ==
  ASSUME NEW a \in Accumulator, NEW p
  PROVE  ImpactIn(AddImpact(a, p), a, p)
<1> DEFINE G == [a.grids EXCEPT ![<<"impact">>] = Marked(@, p.cell, 1)]
           W == IF Weighted(p)
                THEN [a.weighted EXCEPT ![<<"impact">>] = Marked(@, p.cell, Weight[p.id])]
                ELSE a.weighted
           w == IF Weighted(p) THEN a.impactWeight + Weight[p.id] ELSE a.impactWeight
           m == AddImpact(a, p)
<1>1. m = [grids |-> G, weighted |-> W, impactWeight |-> w, peak |-> a.peak,
           samples |-> a.samples, points |-> a.points, count |-> a.count]
  BY ImpactFields
<1>2. /\ m \in Accumulator
      /\ a.grids \in [Layer -> [Cell -> Nat]]
      /\ weighted => a.weighted \in [Weighable -> [Cell -> Nat]]
      /\ a.impactWeight \in Nat
  BY ImpactType, FieldTypes
<1>3. /\ m.grids = G /\ m.weighted = W /\ m.impactWeight = w /\ m.peak = a.peak
      /\ m.samples = a.samples /\ m.points = a.points /\ m.count = a.count
  <2> HIDE DEF G, W, w, m
  <2>1. QED
    BY <1>1
<1> HIDE DEF m
<1>4. Weighted(p) => weighted /\ Weight[p.id] \in Nat
  BY ValueAssumption DEF Weighted
<1>5. \A l \in Layer, c \in Cell :
        m.grids[l][c] = a.grids[l][c] + (IF l = <<"impact">> /\ c = p.cell THEN 1 ELSE 0)
  BY <1>2, <1>3 DEF Marked
<1>6. weighted => \A l \in Weighable, c \in Cell :
        m.weighted[l][c] =
          a.weighted[l][c] +
            (IF l = <<"impact">> /\ c = p.cell /\ Weighted(p) THEN Weight[p.id] ELSE 0)
  <2>1. CASE ~ Weighted(p)
    BY <1>2, <1>3, <2>1
  <2>2. CASE Weighted(p)
    <3>1. W = [a.weighted EXCEPT ![<<"impact">>] = Marked(@, p.cell, Weight[p.id])]
      BY <2>2
    <3> HIDE DEF W
    <3>2. QED
      BY <1>2, <1>3, <1>4, <2>2, <3>1 DEF Marked
  <2>3. QED
    BY <2>1, <2>2
<1>7. m.impactWeight = a.impactWeight + (IF Weighted(p) THEN Weight[p.id] ELSE 0)
  BY <1>2, <1>3
<1>8. ImpactIn(m, a, p)
  BY <1>2, <1>3, <1>4, <1>5, <1>6, <1>7 DEF ImpactIn
<1>9. QED
  BY <1>8 DEF m

LEMMA DepositionView ==
  ASSUME NEW a \in Accumulator, NEW p \in Points
  PROVE  DepositionIn(AddDeposition(a, p), a)
<1> DEFINE G == [a.grids EXCEPT ![<<"deposition">>] = Marked(@, p.cell, 1)]
           W == IF Weighted(p)
                THEN [a.weighted EXCEPT ![<<"deposition">>] = Marked(@, p.cell, Weight[p.id])]
                ELSE a.weighted
           N == [a.count EXCEPT !["points"] = @ + 1]
           m == AddDeposition(a, p)
<1>1. m = [grids |-> G, weighted |-> W, impactWeight |-> a.impactWeight, peak |-> a.peak,
           samples |-> a.samples, points |-> Append(a.points, p), count |-> N]
  BY DepositionFields
<1>2. m \in Accumulator /\ a.grids \in [Layer -> [Cell -> Nat]] /\ a.count \in [Counter -> Nat]
  BY DepositionType, FieldTypes
<1>3. m.grids = G /\ m.peak = a.peak /\ m.samples = a.samples /\ m.count = N
  <2> HIDE DEF G, W, N, m
  <2>1. QED
    BY <1>1
<1> HIDE DEF m
<1>4. DepositionIn(m, a)
  BY <1>2, <1>3 DEF DepositionIn, Counter
<1>5. QED
  BY <1>4 DEF m

LEMMA EmptyView ==
  ASSUME weighted \in BOOLEAN, NEW e, e = EmptyAccumulator
  PROVE  /\ e \in Accumulator
         /\ \A l \in Layer, c \in Cell : e.grids[l][c] = 0
         /\ weighted => \A l \in Weighable, c \in Cell : e.weighted[l][c] = 0
         /\ e.impactWeight = 0
         /\ \A q \in Peaked, c \in Cell : e.peak[q][c] = NoData
         /\ \A q \in Quantity, c \in Cell : e.samples[q][c] = <<>>
         /\ e.points = <<>>
         /\ \A k \in Counter : e.count[k] = 0
BY EmptyType DEF EmptyAccumulator, NoValues

\* Accumulators with the same entries are the same.
LEMMA SameEntries ==
  ASSUME NEW a \in Accumulator, NEW b \in Accumulator,
         \A l \in Layer, c \in Cell : a.grids[l][c] = b.grids[l][c],
         \A q \in Peaked, c \in Cell : a.peak[q][c] = b.peak[q][c],
         \A q \in Quantity, c \in Cell : a.samples[q][c] = b.samples[q][c],
         \A k \in Counter : a.count[k] = b.count[k]
  PROVE  /\ a.grids = b.grids /\ a.peak = b.peak
         /\ a.samples = b.samples /\ a.count = b.count
<1>1. a.grids = b.grids
  BY FieldTypes
<1>2. a.peak = b.peak
  <2>1. /\ a.peak \in [Peaked -> [Cell -> Nat \cup {NoData}]]
        /\ b.peak \in [Peaked -> [Cell -> Nat \cup {NoData}]]
    BY FieldTypes
  <2>2. QED
    BY <2>1
<1>3. a.samples = b.samples
  BY FieldTypes
<1>4. a.count = b.count
  BY FieldTypes
<1>5. QED
  BY <1>1, <1>2, <1>3, <1>4

LEMMA Extensional ==
  ASSUME NEW a \in Accumulator, NEW b \in Accumulator,
         \A l \in Layer, c \in Cell : a.grids[l][c] = b.grids[l][c],
         weighted => \A l \in Weighable, c \in Cell : a.weighted[l][c] = b.weighted[l][c],
         a.impactWeight = b.impactWeight,
         \A q \in Peaked, c \in Cell : a.peak[q][c] = b.peak[q][c],
         \A q \in Quantity, c \in Cell : a.samples[q][c] = b.samples[q][c],
         a.points = b.points,
         \A k \in Counter : a.count[k] = b.count[k]
  PROVE  a = b
<1>1. a.weighted = b.weighted
  BY FieldTypes
<1>2. /\ a.grids = b.grids /\ a.peak = b.peak
      /\ a.samples = b.samples /\ a.count = b.count
  BY SameEntries
<1>3. QED
  BY <1>1, <1>2, RecordEqual

LEMMA MergeTrajectory ==
  ASSUME BuildOK, NEW x \in Accumulator, NEW y \in Accumulator, NEW t \in Tracks
  PROVE  Merge(x, AddTrajectory(y, t)) = AddTrajectory(Merge(x, y), t)
<1> DEFINE H(l, c) == Hits(t.samples, l, c)
           V(q, c) == ValuesIn(t.samples, q, c)
<1>1. PICK u : u = AddTrajectory(y, t)
  OBVIOUS
<1>2. PICK m : m = Merge(x, y)
  OBVIOUS
<1>3. PICK a : a = Merge(x, u)
  OBVIOUS
<1>4. PICK b : b = AddTrajectory(m, t)
  OBVIOUS
<1>5. /\ weighted \in BOOLEAN /\ t.samples \in Seq(Sample) /\ Len(t.samples) \in Nat
      /\ weighted => Weight[t.id] \in Nat
  BY Files, LenProperties, ValueAssumption DEF BuildOK
<1>6. TrajectoryIn(u, y, t) /\ MergeOf(m, x, y)
  BY <1>1, <1>2, <1>5, TrajectoryView, MergeView
<1>7. u \in Accumulator /\ m \in Accumulator
  BY <1>6 DEF TrajectoryIn, MergeOf
<1>8. TrajectoryIn(b, m, t) /\ MergeOf(a, x, u)
  BY <1>3, <1>4, <1>5, <1>7, TrajectoryView, MergeView
<1>9. a \in Accumulator /\ b \in Accumulator
  BY <1>8 DEF TrajectoryIn, MergeOf
<1>10. \A l \in Layer, c \in Cell : a.grids[l][c] = b.grids[l][c]
  <2>1. SUFFICES ASSUME NEW l \in Layer, NEW c \in Cell PROVE a.grids[l][c] = b.grids[l][c]
    OBVIOUS
  <2>2. H(l, c) \in Nat /\ x.grids[l][c] \in Nat /\ y.grids[l][c] \in Nat
    BY <1>5, HitsFacts, FieldTypes
  <2>3. u.grids[l][c] = y.grids[l][c] + H(l, c) /\ b.grids[l][c] = m.grids[l][c] + H(l, c)
    BY <1>6, <1>8 DEF TrajectoryIn
  <2>4. /\ m.grids[l][c] = x.grids[l][c] + y.grids[l][c]
        /\ a.grids[l][c] = x.grids[l][c] + u.grids[l][c]
    BY <1>6, <1>8 DEF MergeOf
  <2> HIDE DEF H
  <2>5. QED
    BY <2>2, <2>3, <2>4
<1>11. weighted => \A l \in Weighable, c \in Cell : a.weighted[l][c] = b.weighted[l][c]
  <2>1. SUFFICES ASSUME weighted, NEW l \in Weighable, NEW c \in Cell
                 PROVE  a.weighted[l][c] = b.weighted[l][c]
    OBVIOUS
  <2> DEFINE h == Weight[t.id] * H(l, c)
  <2>2. h \in Nat
    <3>1. Weight[t.id] \in Nat /\ H(l, c) \in Nat
      BY <1>5, <2>1, HitsFacts DEF Layer
    <3>2. \A i, j \in Nat : i * j \in Nat
      OBVIOUS
    <3>3. QED
      BY <3>1, <3>2
  <2>3. x.weighted[l][c] \in Nat /\ y.weighted[l][c] \in Nat
    BY <2>1, FieldTypes
  <2>4. u.weighted[l][c] = y.weighted[l][c] + h /\ b.weighted[l][c] = m.weighted[l][c] + h
    BY <1>6, <1>8, <2>1 DEF TrajectoryIn
  <2>5. /\ m.weighted[l][c] = x.weighted[l][c] + y.weighted[l][c]
        /\ a.weighted[l][c] = x.weighted[l][c] + u.weighted[l][c]
    BY <1>6, <1>8, <2>1 DEF MergeOf
  <2> HIDE DEF h
  <2>6. QED
    BY <2>2, <2>3, <2>4, <2>5
<1>12. a.impactWeight = b.impactWeight /\ a.points = b.points
  BY <1>6, <1>8 DEF TrajectoryIn, MergeOf
<1>13. \A q \in Peaked, c \in Cell : a.peak[q][c] = b.peak[q][c]
  <2>1. SUFFICES ASSUME NEW q \in Peaked, NEW c \in Cell PROVE a.peak[q][c] = b.peak[q][c]
    OBVIOUS
  <2>2. /\ V(q, c) \in Seq(Nat)
        /\ x.peak[q][c] \in Nat \cup {NoData} /\ y.peak[q][c] \in Nat \cup {NoData}
    <3>1. q \in Quantity
      BY DEF Peaked, Quantity
    <3>2. QED
      BY <1>5, <3>1, ValuesType, FieldTypes
  <2>3. /\ u.peak[q][c] = FoldLeft(Greater, y.peak[q][c], V(q, c))
        /\ b.peak[q][c] = FoldLeft(Greater, m.peak[q][c], V(q, c))
    BY <1>6, <1>8 DEF TrajectoryIn
  <2>4. /\ m.peak[q][c] = Greater(x.peak[q][c], y.peak[q][c])
        /\ a.peak[q][c] = Greater(x.peak[q][c], u.peak[q][c])
    BY <1>6, <1>8 DEF MergeOf
  <2>5. Greater(x.peak[q][c], FoldLeft(Greater, y.peak[q][c], V(q, c)))
          = FoldLeft(Greater, Greater(x.peak[q][c], y.peak[q][c]), V(q, c))
    <3> HIDE DEF V
    <3>1. QED
      BY <2>2, PeakMerges
  <2>6. QED
    BY <2>3, <2>4, <2>5
<1>14. \A q \in Quantity, c \in Cell : a.samples[q][c] = b.samples[q][c]
  <2>1. SUFFICES ASSUME NEW q \in Quantity, NEW c \in Cell
                 PROVE  a.samples[q][c] = b.samples[q][c]
    OBVIOUS
  <2>2. V(q, c) \in Seq(Nat) /\ x.samples[q][c] \in Seq(Nat) /\ y.samples[q][c] \in Seq(Nat)
    BY <1>5, ValuesType, FieldTypes
  <2>3. /\ u.samples[q][c] = y.samples[q][c] \o V(q, c)
        /\ b.samples[q][c] = m.samples[q][c] \o V(q, c)
    BY <1>6, <1>8 DEF TrajectoryIn
  <2>4. /\ m.samples[q][c] = x.samples[q][c] \o y.samples[q][c]
        /\ a.samples[q][c] = x.samples[q][c] \o u.samples[q][c]
    BY <1>6, <1>8 DEF MergeOf
  <2>5. (x.samples[q][c] \o y.samples[q][c]) \o V(q, c)
          = x.samples[q][c] \o (y.samples[q][c] \o V(q, c))
    <3> HIDE DEF V
    <3>1. QED
      BY <2>2, JoinAssociates
  <2>6. QED
    BY <2>3, <2>4, <2>5, Zenon
<1>15. \A k \in Counter : a.count[k] = b.count[k]
  <2>1. SUFFICES ASSUME NEW k \in Counter PROVE a.count[k] = b.count[k]
    OBVIOUS
  <2>2. x.count[k] \in Nat /\ y.count[k] \in Nat
    BY FieldTypes
  <2>3. m.count[k] = x.count[k] + y.count[k] /\ a.count[k] = x.count[k] + u.count[k]
    BY <1>6, <1>8 DEF MergeOf
  <2>4. \E n \in Nat : u.count[k] = y.count[k] + n /\ b.count[k] = m.count[k] + n
    <3>1. CASE k = "trajectories"
      BY <1>6, <1>8, <3>1 DEF TrajectoryIn
    <3>2. CASE k = "samples"
      BY <1>5, <1>6, <1>8, <3>2 DEF TrajectoryIn
    <3>3. CASE k \in Counter \ {"trajectories", "samples"}
      <4>1. u.count[k] = y.count[k] /\ b.count[k] = m.count[k]
        BY <1>6, <1>8, <3>3 DEF TrajectoryIn
      <4>2. QED
        BY <2>2, <2>3, <4>1
    <3>4. QED
      BY <3>1, <3>2, <3>3
  <2>5. QED
    BY <2>2, <2>3, <2>4
<1>16. a = b
  BY <1>9, <1>10, <1>11, <1>12, <1>13, <1>14, <1>15, Extensional
<1>17. QED
  BY <1>1, <1>2, <1>3, <1>4, <1>16

LEMMA MergeImpact ==
  ASSUME weighted \in BOOLEAN, NEW x \in Accumulator, NEW y \in Accumulator, NEW p
  PROVE  Merge(x, AddImpact(y, p)) = AddImpact(Merge(x, y), p)
<1>1. PICK u : u = AddImpact(y, p)
  OBVIOUS
<1>2. PICK m : m = Merge(x, y)
  OBVIOUS
<1>3. PICK a : a = Merge(x, u)
  OBVIOUS
<1>4. PICK b : b = AddImpact(m, p)
  OBVIOUS
<1>5. ImpactIn(u, y, p) /\ MergeOf(m, x, y)
  BY <1>1, <1>2, ImpactView, MergeView
<1>6. u \in Accumulator /\ m \in Accumulator
  BY <1>5 DEF ImpactIn, MergeOf
<1>7. ImpactIn(b, m, p) /\ MergeOf(a, x, u)
  BY <1>3, <1>4, <1>6, ImpactView, MergeView
<1>8. a \in Accumulator /\ b \in Accumulator
  BY <1>7 DEF ImpactIn, MergeOf
<1>9. Weighted(p) => weighted /\ Weight[p.id] \in Nat
  BY <1>5 DEF ImpactIn
<1>10. \A l \in Layer, c \in Cell : a.grids[l][c] = b.grids[l][c]
  <2>1. SUFFICES ASSUME NEW l \in Layer, NEW c \in Cell PROVE a.grids[l][c] = b.grids[l][c]
    OBVIOUS
  <2>2. x.grids[l][c] \in Nat /\ y.grids[l][c] \in Nat
    BY FieldTypes
  <2> DEFINE h == IF l = <<"impact">> /\ c = p.cell THEN 1 ELSE 0
  <2>3. h \in Nat /\ u.grids[l][c] = y.grids[l][c] + h /\ b.grids[l][c] = m.grids[l][c] + h
    BY <1>5, <1>7 DEF ImpactIn
  <2>4. /\ m.grids[l][c] = x.grids[l][c] + y.grids[l][c]
        /\ a.grids[l][c] = x.grids[l][c] + u.grids[l][c]
    BY <1>5, <1>7 DEF MergeOf
  <2> HIDE DEF h
  <2>5. QED
    BY <2>2, <2>3, <2>4
<1>11. weighted => \A l \in Weighable, c \in Cell : a.weighted[l][c] = b.weighted[l][c]
  <2>1. SUFFICES ASSUME weighted, NEW l \in Weighable, NEW c \in Cell
                 PROVE  a.weighted[l][c] = b.weighted[l][c]
    OBVIOUS
  <2>2. x.weighted[l][c] \in Nat /\ y.weighted[l][c] \in Nat
    BY <2>1, FieldTypes
  <2> DEFINE h == IF l = <<"impact">> /\ c = p.cell /\ Weighted(p) THEN Weight[p.id] ELSE 0
  <2>3. /\ h \in Nat
        /\ u.weighted[l][c] = y.weighted[l][c] + h /\ b.weighted[l][c] = m.weighted[l][c] + h
    BY <1>5, <1>7, <1>9, <2>1 DEF ImpactIn
  <2>4. /\ m.weighted[l][c] = x.weighted[l][c] + y.weighted[l][c]
        /\ a.weighted[l][c] = x.weighted[l][c] + u.weighted[l][c]
    BY <1>5, <1>7, <2>1 DEF MergeOf
  <2> HIDE DEF h
  <2>5. QED
    BY <2>2, <2>3, <2>4
<1>12. a.impactWeight = b.impactWeight
  <2> DEFINE h == IF Weighted(p) THEN Weight[p.id] ELSE 0
  <2>1. h \in Nat /\ u.impactWeight = y.impactWeight + h /\ b.impactWeight = m.impactWeight + h
    BY <1>5, <1>7, <1>9 DEF ImpactIn
  <2>2. /\ m.impactWeight = x.impactWeight + y.impactWeight
        /\ a.impactWeight = x.impactWeight + u.impactWeight
        /\ x.impactWeight \in Nat /\ y.impactWeight \in Nat
    BY <1>5, <1>7, FieldTypes DEF MergeOf
  <2> HIDE DEF h
  <2>3. QED
    BY <2>1, <2>2
<1>13. /\ \A q \in Peaked, c \in Cell : a.peak[q][c] = b.peak[q][c]
       /\ \A q \in Quantity, c \in Cell : a.samples[q][c] = b.samples[q][c]
       /\ a.points = b.points
       /\ \A k \in Counter : a.count[k] = b.count[k]
  <2>1. /\ u.peak = y.peak /\ u.samples = y.samples /\ u.points = y.points /\ u.count = y.count
        /\ b.peak = m.peak /\ b.samples = m.samples /\ b.points = m.points /\ b.count = m.count
    BY <1>5, <1>7 DEF ImpactIn
  <2>2. ASSUME NEW q \in Peaked, NEW c \in Cell PROVE a.peak[q][c] = b.peak[q][c]
    <3>1. /\ m.peak[q][c] = Greater(x.peak[q][c], y.peak[q][c])
          /\ a.peak[q][c] = Greater(x.peak[q][c], u.peak[q][c])
      BY <1>5, <1>7 DEF MergeOf
    <3>2. QED
      BY <2>1, <3>1
  <2>3. ASSUME NEW q \in Quantity, NEW c \in Cell PROVE a.samples[q][c] = b.samples[q][c]
    <3>1. /\ m.samples[q][c] = x.samples[q][c] \o y.samples[q][c]
          /\ a.samples[q][c] = x.samples[q][c] \o u.samples[q][c]
      BY <1>5, <1>7 DEF MergeOf
    <3>2. QED
      BY <2>1, <3>1
  <2>4. a.points = b.points
    BY <1>5, <1>7, <2>1 DEF MergeOf
  <2>5. ASSUME NEW k \in Counter PROVE a.count[k] = b.count[k]
    <3>1. m.count[k] = x.count[k] + y.count[k] /\ a.count[k] = x.count[k] + u.count[k]
      BY <1>5, <1>7 DEF MergeOf
    <3>2. QED
      BY <2>1, <3>1
  <2>6. QED
    BY <2>2, <2>3, <2>4, <2>5
<1>14. a = b
  BY <1>8, <1>10, <1>11, <1>12, <1>13, Extensional
<1>15. QED
  BY <1>1, <1>2, <1>3, <1>4, <1>14

LEMMA ImpactTrajectory ==
  ASSUME BuildOK, NEW x \in Accumulator, NEW p, NEW t \in Tracks
  PROVE  AddImpact(AddTrajectory(x, t), p) = AddTrajectory(AddImpact(x, p), t)
<1> DEFINE H(l, c) == Hits(t.samples, l, c)
<1>1. PICK u : u = AddTrajectory(x, t)
  OBVIOUS
<1>2. PICK m : m = AddImpact(x, p)
  OBVIOUS
<1>3. PICK a : a = AddImpact(u, p)
  OBVIOUS
<1>4. PICK b : b = AddTrajectory(m, t)
  OBVIOUS
<1>5. /\ weighted \in BOOLEAN /\ t.samples \in Seq(Sample)
      /\ weighted => Weight[t.id] \in Nat
  BY Files, ValueAssumption DEF BuildOK
<1>6. TrajectoryIn(u, x, t) /\ ImpactIn(m, x, p)
  BY <1>1, <1>2, TrajectoryView, ImpactView
<1>7. u \in Accumulator /\ m \in Accumulator
  BY <1>6 DEF TrajectoryIn, ImpactIn
<1>8. ImpactIn(a, u, p) /\ TrajectoryIn(b, m, t)
  BY <1>3, <1>4, <1>7, TrajectoryView, ImpactView
<1>9. /\ a \in Accumulator /\ b \in Accumulator
      /\ Weighted(p) => weighted /\ Weight[p.id] \in Nat
  BY <1>8 DEF TrajectoryIn, ImpactIn
<1>10. \A l \in Layer, c \in Cell : a.grids[l][c] = b.grids[l][c]
  <2>1. SUFFICES ASSUME NEW l \in Layer, NEW c \in Cell PROVE a.grids[l][c] = b.grids[l][c]
    OBVIOUS
  <2>2. H(l, c) \in Nat /\ x.grids[l][c] \in Nat
    BY <1>5, HitsFacts, FieldTypes
  <2> DEFINE h == IF l = <<"impact">> /\ c = p.cell THEN 1 ELSE 0
  <2>3. h \in Nat /\ m.grids[l][c] = x.grids[l][c] + h /\ a.grids[l][c] = u.grids[l][c] + h
    BY <1>6, <1>8 DEF ImpactIn
  <2>4. u.grids[l][c] = x.grids[l][c] + H(l, c) /\ b.grids[l][c] = m.grids[l][c] + H(l, c)
    BY <1>6, <1>8 DEF TrajectoryIn
  <2> HIDE DEF h, H
  <2>5. QED
    BY <2>2, <2>3, <2>4
<1>11. weighted => \A l \in Weighable, c \in Cell : a.weighted[l][c] = b.weighted[l][c]
  <2>1. SUFFICES ASSUME weighted, NEW l \in Weighable, NEW c \in Cell
                 PROVE  a.weighted[l][c] = b.weighted[l][c]
    OBVIOUS
  <2> DEFINE h == IF l = <<"impact">> /\ c = p.cell /\ Weighted(p) THEN Weight[p.id] ELSE 0
             g == Weight[t.id] * H(l, c)
  <2>2. x.weighted[l][c] \in Nat /\ g \in Nat
    <3>1. Weight[t.id] \in Nat /\ H(l, c) \in Nat /\ x.weighted[l][c] \in Nat
      BY <1>5, <2>1, HitsFacts, FieldTypes DEF Layer
    <3>2. \A i, j \in Nat : i * j \in Nat
      OBVIOUS
    <3>3. QED
      BY <3>1, <3>2
  <2>3. /\ h \in Nat
        /\ m.weighted[l][c] = x.weighted[l][c] + h /\ a.weighted[l][c] = u.weighted[l][c] + h
    BY <1>6, <1>8, <1>9, <2>1 DEF ImpactIn
  <2>4. u.weighted[l][c] = x.weighted[l][c] + g /\ b.weighted[l][c] = m.weighted[l][c] + g
    BY <1>6, <1>8, <2>1 DEF TrajectoryIn
  <2> HIDE DEF g, h
  <2>5. QED
    BY <2>2, <2>3, <2>4
<1>12. a.impactWeight = b.impactWeight /\ a.points = b.points
  BY <1>6, <1>8 DEF TrajectoryIn, ImpactIn
<1>13. m.peak = x.peak /\ m.samples = x.samples /\ m.count = x.count
       /\ a.peak = u.peak /\ a.samples = u.samples /\ a.count = u.count
  BY <1>6, <1>8 DEF ImpactIn
<1>14. /\ \A q \in Peaked, c \in Cell : a.peak[q][c] = b.peak[q][c]
       /\ \A q \in Quantity, c \in Cell : a.samples[q][c] = b.samples[q][c]
  <2> DEFINE V(q, c) == ValuesIn(t.samples, q, c)
  <2>1. ASSUME NEW q \in Peaked, NEW c \in Cell PROVE a.peak[q][c] = b.peak[q][c]
    <3>1. /\ u.peak[q][c] = FoldLeft(Greater, x.peak[q][c], V(q, c))
          /\ b.peak[q][c] = FoldLeft(Greater, m.peak[q][c], V(q, c))
      BY <1>6, <1>8 DEF TrajectoryIn
    <3>2. QED
      BY <1>13, <3>1
  <2>2. ASSUME NEW q \in Quantity, NEW c \in Cell PROVE a.samples[q][c] = b.samples[q][c]
    <3>1. /\ u.samples[q][c] = x.samples[q][c] \o V(q, c)
          /\ b.samples[q][c] = m.samples[q][c] \o V(q, c)
      BY <1>6, <1>8 DEF TrajectoryIn
    <3>2. QED
      BY <1>13, <3>1
  <2>3. QED
    BY <2>1, <2>2
<1>15. \A k \in Counter : a.count[k] = b.count[k]
  <2>1. SUFFICES ASSUME NEW k \in Counter PROVE a.count[k] = b.count[k]
    OBVIOUS
  <2>2. CASE k \in {"trajectories", "samples"}
    BY <1>6, <1>8, <1>13, <2>2 DEF TrajectoryIn
  <2>3. CASE k \in Counter \ {"trajectories", "samples"}
    BY <1>6, <1>8, <1>13, <2>3 DEF TrajectoryIn
  <2>4. QED
    BY <2>2, <2>3
<1>16. a = b
  BY <1>9, <1>10, <1>11, <1>12, <1>14, <1>15, Extensional
<1>17. QED
  BY <1>1, <1>2, <1>3, <1>4, <1>16

\* The counters an impact-event file adds to, besides its points.
Tally(a, f) ==
  [a EXCEPT !.count["events"] = @ + f.events, !.count["significant"] = @ + f.significant]

TallyIn(m, a, f) ==
  /\ m \in Accumulator
  /\ m.grids = a.grids /\ m.weighted = a.weighted /\ m.impactWeight = a.impactWeight
  /\ m.peak = a.peak /\ m.samples = a.samples /\ m.points = a.points
  /\ m.count["events"] = a.count["events"] + f.events
  /\ m.count["significant"] = a.count["significant"] + f.significant
  /\ \A k \in Counter \ {"events", "significant"} : m.count[k] = a.count[k]

LEMMA TallyView ==
  ASSUME BuildOK, NEW a \in Accumulator, NEW f \in ImpactFiles
  PROVE  TallyIn(Tally(a, f), a, f)
<1> DEFINE N == [a.count EXCEPT !["events"] = @ + f.events, !["significant"] = @ + f.significant]
           m == Tally(a, f)
<1>1. m = [a EXCEPT !.count = N]
  BY DEF Tally, Accumulator
<1>2. f.events \in Nat /\ f.significant \in Nat /\ a.count \in [Counter -> Nat]
  BY Files, FieldTypes
<1>3. /\ N["events"] = a.count["events"] + f.events
      /\ N["significant"] = a.count["significant"] + f.significant
      /\ \A k \in Counter \ {"events", "significant"} : N[k] = a.count[k]
  BY <1>2 DEF Counter
<1>4. N \in [Counter -> Nat]
  <2>1. \A k \in Counter : N[k] \in Nat
    <3>1. \A k \in Counter : a.count[k] \in Nat
      BY <1>2
    <3> HIDE DEF N
    <3>2. QED
      BY <1>2, <1>3, <3>1 DEF Counter
  <2>2. N = [k \in Counter |-> N[k]]
    BY <1>2
  <2> HIDE DEF N
  <2>3. QED
    BY <2>1, <2>2
<1> HIDE DEF N, m
<1>5. m = [grids |-> a.grids, weighted |-> a.weighted, impactWeight |-> a.impactWeight,
           peak |-> a.peak, samples |-> a.samples, points |-> a.points, count |-> N]
  BY <1>1 DEF Accumulator
<1>6. m \in Accumulator
  BY <1>4, <1>5, FieldTypes DEF Accumulator
<1>7. /\ m.grids = a.grids /\ m.weighted = a.weighted /\ m.impactWeight = a.impactWeight
      /\ m.peak = a.peak /\ m.samples = a.samples /\ m.points = a.points /\ m.count = N
  BY <1>5
<1>8. TallyIn(m, a, f)
  BY <1>3, <1>6, <1>7 DEF TallyIn
<1>9. QED
  BY <1>8 DEF m

LEMMA MergeTally ==
  ASSUME BuildOK, NEW x \in Accumulator, NEW y \in Accumulator, NEW f \in ImpactFiles
  PROVE  Merge(x, Tally(y, f)) = Tally(Merge(x, y), f)
<1>1. PICK u : u = Tally(y, f)
  OBVIOUS
<1>2. PICK m : m = Merge(x, y)
  OBVIOUS
<1>3. PICK a : a = Merge(x, u)
  OBVIOUS
<1>4. PICK b : b = Tally(m, f)
  OBVIOUS
<1>5. weighted \in BOOLEAN /\ f.events \in Nat /\ f.significant \in Nat
  BY Files DEF BuildOK
<1>6. TallyIn(u, y, f) /\ MergeOf(m, x, y)
  BY <1>1, <1>2, <1>5, TallyView, MergeView
<1>7. u \in Accumulator /\ m \in Accumulator
  BY <1>6 DEF TallyIn, MergeOf
<1>8. TallyIn(b, m, f) /\ MergeOf(a, x, u)
  BY <1>3, <1>4, <1>5, <1>7, TallyView, MergeView
<1>9. a \in Accumulator /\ b \in Accumulator
  BY <1>8 DEF TallyIn, MergeOf
<1>10. /\ u.grids = y.grids /\ u.weighted = y.weighted /\ u.impactWeight = y.impactWeight
       /\ u.peak = y.peak /\ u.samples = y.samples /\ u.points = y.points
       /\ b.grids = m.grids /\ b.weighted = m.weighted /\ b.impactWeight = m.impactWeight
       /\ b.peak = m.peak /\ b.samples = m.samples /\ b.points = m.points
  BY <1>6, <1>8 DEF TallyIn
<1>11. ASSUME NEW l \in Layer, NEW c \in Cell PROVE a.grids[l][c] = b.grids[l][c]
  <2>1. /\ m.grids[l][c] = x.grids[l][c] + y.grids[l][c]
        /\ a.grids[l][c] = x.grids[l][c] + u.grids[l][c]
    BY <1>6, <1>8 DEF MergeOf
  <2>2. QED
    BY <1>10, <2>1
<1>12. ASSUME weighted, NEW l \in Weighable, NEW c \in Cell
       PROVE  a.weighted[l][c] = b.weighted[l][c]
  <2>1. /\ m.weighted[l][c] = x.weighted[l][c] + y.weighted[l][c]
        /\ a.weighted[l][c] = x.weighted[l][c] + u.weighted[l][c]
    BY <1>6, <1>8, <1>12 DEF MergeOf
  <2>2. QED
    BY <1>10, <2>1
<1>13. a.impactWeight = b.impactWeight /\ a.points = b.points
  BY <1>6, <1>8, <1>10 DEF MergeOf
<1>14. ASSUME NEW q \in Peaked, NEW c \in Cell PROVE a.peak[q][c] = b.peak[q][c]
  <2>1. /\ m.peak[q][c] = Greater(x.peak[q][c], y.peak[q][c])
        /\ a.peak[q][c] = Greater(x.peak[q][c], u.peak[q][c])
    BY <1>6, <1>8 DEF MergeOf
  <2>2. QED
    BY <1>10, <2>1
<1>15. ASSUME NEW q \in Quantity, NEW c \in Cell PROVE a.samples[q][c] = b.samples[q][c]
  <2>1. /\ m.samples[q][c] = x.samples[q][c] \o y.samples[q][c]
        /\ a.samples[q][c] = x.samples[q][c] \o u.samples[q][c]
    BY <1>6, <1>8 DEF MergeOf
  <2>2. QED
    BY <1>10, <2>1
<1>16. ASSUME NEW k \in Counter PROVE a.count[k] = b.count[k]
  <2>1. m.count[k] = x.count[k] + y.count[k] /\ a.count[k] = x.count[k] + u.count[k]
    BY <1>6, <1>8 DEF MergeOf
  <2>2. x.count[k] \in Nat /\ y.count[k] \in Nat
    BY FieldTypes
  <2>3. \E n \in Nat : u.count[k] = y.count[k] + n /\ b.count[k] = m.count[k] + n
    <3>1. CASE k = "events"
      BY <1>5, <1>6, <1>8, <3>1 DEF TallyIn
    <3>2. CASE k = "significant"
      BY <1>5, <1>6, <1>8, <3>2 DEF TallyIn
    <3>3. CASE k \in Counter \ {"events", "significant"}
      <4>1. u.count[k] = y.count[k] /\ b.count[k] = m.count[k]
        BY <1>6, <1>8, <3>3 DEF TallyIn
      <4>2. QED
        BY <2>1, <2>2, <4>1
    <3>4. QED
      BY <3>1, <3>2, <3>3
  <2>4. QED
    BY <2>1, <2>2, <2>3
<1>17. a = b
  BY <1>9, <1>11, <1>12, <1>13, <1>14, <1>15, <1>16, Extensional
<1>18. QED
  BY <1>1, <1>2, <1>3, <1>4, <1>17

LEMMA TallyTrajectory ==
  ASSUME BuildOK, NEW x \in Accumulator, NEW t \in Tracks, NEW f \in ImpactFiles
  PROVE  Tally(AddTrajectory(x, t), f) = AddTrajectory(Tally(x, f), t)
<1> DEFINE V(q, c) == ValuesIn(t.samples, q, c)
           H(l, c) == Hits(t.samples, l, c)
<1>1. PICK u : u = AddTrajectory(x, t)
  OBVIOUS
<1>2. PICK m : m = Tally(x, f)
  OBVIOUS
<1>3. PICK a : a = Tally(u, f)
  OBVIOUS
<1>4. PICK b : b = AddTrajectory(m, t)
  OBVIOUS
<1>5. TrajectoryIn(u, x, t) /\ TallyIn(m, x, f)
  BY <1>1, <1>2, TrajectoryView, TallyView
<1>6. u \in Accumulator /\ m \in Accumulator
  BY <1>5 DEF TrajectoryIn, TallyIn
<1>7. TallyIn(a, u, f) /\ TrajectoryIn(b, m, t)
  BY <1>3, <1>4, <1>6, TrajectoryView, TallyView
<1>8. a \in Accumulator /\ b \in Accumulator
  BY <1>7 DEF TrajectoryIn, TallyIn
<1>9. /\ m.grids = x.grids /\ m.weighted = x.weighted /\ m.impactWeight = x.impactWeight
      /\ m.peak = x.peak /\ m.samples = x.samples /\ m.points = x.points
      /\ a.grids = u.grids /\ a.weighted = u.weighted /\ a.impactWeight = u.impactWeight
      /\ a.peak = u.peak /\ a.samples = u.samples /\ a.points = u.points
  BY <1>5, <1>7 DEF TallyIn
<1>10. ASSUME NEW l \in Layer, NEW c \in Cell PROVE a.grids[l][c] = b.grids[l][c]
  <2>1. /\ u.grids[l][c] = x.grids[l][c] + H(l, c)
        /\ b.grids[l][c] = m.grids[l][c] + H(l, c)
    BY <1>5, <1>7 DEF TrajectoryIn
  <2>2. QED
    BY <1>9, <2>1
<1>11. ASSUME weighted, NEW l \in Weighable, NEW c \in Cell
       PROVE  a.weighted[l][c] = b.weighted[l][c]
  <2>1. /\ u.weighted[l][c] = x.weighted[l][c] + Weight[t.id] * H(l, c)
        /\ b.weighted[l][c] = m.weighted[l][c] + Weight[t.id] * H(l, c)
    BY <1>5, <1>7, <1>11 DEF TrajectoryIn
  <2>2. QED
    BY <1>9, <2>1
<1>12. a.impactWeight = b.impactWeight /\ a.points = b.points
  BY <1>5, <1>7, <1>9 DEF TrajectoryIn
<1>13. ASSUME NEW q \in Peaked, NEW c \in Cell PROVE a.peak[q][c] = b.peak[q][c]
  <2>1. /\ u.peak[q][c] = FoldLeft(Greater, x.peak[q][c], V(q, c))
        /\ b.peak[q][c] = FoldLeft(Greater, m.peak[q][c], V(q, c))
    BY <1>5, <1>7 DEF TrajectoryIn
  <2>2. QED
    BY <1>9, <2>1
<1>14. ASSUME NEW q \in Quantity, NEW c \in Cell PROVE a.samples[q][c] = b.samples[q][c]
  <2>1. /\ u.samples[q][c] = x.samples[q][c] \o V(q, c)
        /\ b.samples[q][c] = m.samples[q][c] \o V(q, c)
    BY <1>5, <1>7 DEF TrajectoryIn
  <2>2. QED
    BY <1>9, <2>1
<1>15. ASSUME NEW k \in Counter PROVE a.count[k] = b.count[k]
  <2>1. CASE k \in {"trajectories", "samples"}
    <3>1. a.count[k] = u.count[k] /\ m.count[k] = x.count[k]
      BY <1>5, <1>7, <2>1 DEF TallyIn, Counter
    <3>2. QED
      BY <1>5, <1>7, <2>1, <3>1 DEF TrajectoryIn
  <2>2. CASE k \in Counter \ {"trajectories", "samples"}
    <3>1. u.count[k] = x.count[k] /\ b.count[k] = m.count[k]
      BY <1>5, <1>7, <2>2 DEF TrajectoryIn
    <3>2. CASE k \in {"events", "significant"}
      BY <1>5, <1>7, <3>1, <3>2 DEF TallyIn
    <3>3. CASE k \in Counter \ {"events", "significant"}
      BY <1>5, <1>7, <3>1, <3>3 DEF TallyIn
    <3>4. QED
      BY <3>2, <3>3
  <2>3. QED
    BY <2>1, <2>2
<1>16. a = b
  BY <1>8, <1>10, <1>11, <1>12, <1>13, <1>14, <1>15, Extensional
<1>17. QED
  BY <1>1, <1>2, <1>3, <1>4, <1>16
-------------------------------------------------------------------------------
(* The same of whole files and shares *)

Depositing == INSTANCE FoldLaws WITH op <- AddDeposition
Moving == INSTANCE FoldLaws WITH op <- AddTrajectory
Hitting == INSTANCE FoldLaws WITH op <- AddImpact
Impacting == INSTANCE FoldLaws WITH op <- AddImpactFile

LEMMA Folds ==
  ASSUME NEW a, NEW s
  PROVE  /\ FoldLeft(AddDeposition, a, s) = Depositing!Folded(a, s)
         /\ FoldLeft(AddTrajectory, a, s) = Moving!Folded(a, s)
         /\ FoldLeft(AddImpact, a, s) = Hitting!Folded(a, s)
         /\ FoldLeft(AddImpactFile, a, s) = Impacting!Folded(a, s)
<1>1. FoldLeft(AddDeposition, a, s) = Depositing!Folded(a, s)
  BY DEF FoldLeft, MapThenFoldSet, Max, Depositing!Folded, Depositing!MapThenFoldSet,
         Depositing!Greatest
<1>2. FoldLeft(AddTrajectory, a, s) = Moving!Folded(a, s)
  BY DEF FoldLeft, MapThenFoldSet, Max, Moving!Folded, Moving!MapThenFoldSet,
         Moving!Greatest
<1>3. FoldLeft(AddImpact, a, s) = Hitting!Folded(a, s)
  BY DEF FoldLeft, MapThenFoldSet, Max, Hitting!Folded, Hitting!MapThenFoldSet,
         Hitting!Greatest
<1>4. FoldLeft(AddImpactFile, a, s) = Impacting!Folded(a, s)
  BY DEF FoldLeft, MapThenFoldSet, Max, Impacting!Folded, Impacting!MapThenFoldSet,
         Impacting!Greatest
<1>5. QED
  BY <1>1, <1>2, <1>3, <1>4

LEMMA PointsType ==
  ASSUME NEW a \in Accumulator, NEW S
  PROVE  \A s \in Seq(S) : FoldLeft(AddImpact, a, s) \in Accumulator
<1>1. \A x \in Accumulator, e \in S : AddImpact(x, e) \in Accumulator
  BY ImpactType
<1>2. \A s \in Seq(S) : Hitting!Folded(a, s) \in Accumulator
  BY <1>1, Hitting!FoldType
<1>3. QED
  BY <1>2, Folds

LEMMA ImpactFileTallies ==
  ASSUME NEW a, NEW f
  PROVE  AddImpactFile(a, f) = Tally(FoldLeft(AddImpact, a, f.points), f)
BY DEF AddImpactFile, Tally

LEMMA ImpactFileType ==
  ASSUME BuildOK, NEW a \in Accumulator, NEW f \in ImpactFiles
  PROVE  /\ FoldLeft(AddImpact, a, f.points) \in Accumulator
         /\ AddImpactFile(a, f) \in Accumulator
<1>1. PICK b : b = FoldLeft(AddImpact, a, f.points)
  OBVIOUS
<1>2. b \in Accumulator
  <2>1. f.points \in Seq(ToSet(f.points))
    BY Files
  <2>2. QED
    BY <1>1, <2>1, PointsType
<1>3. Tally(b, f) \in Accumulator
  BY <1>2, TallyView DEF TallyIn
<1>4. QED
  BY <1>1, <1>2, <1>3, ImpactFileTallies

LEMMA MergePoints ==
  ASSUME BuildOK, NEW x \in Accumulator, NEW y \in Accumulator, NEW S
  PROVE  \A s \in Seq(S) :
           Merge(x, FoldLeft(AddImpact, y, s)) = FoldLeft(AddImpact, Merge(x, y), s)
<1> DEFINE R == {<<v, Merge(x, v)>> : v \in Accumulator}
<1>1. <<y, Merge(x, y)>> \in R
  OBVIOUS
<1>2. ASSUME NEW v, NEW w, <<v, w>> \in R, NEW e \in S
      PROVE  <<AddImpact(v, e), AddImpact(w, e)>> \in R
  <2>1. v \in Accumulator /\ w = Merge(x, v)
    BY <1>2
  <2>2. AddImpact(v, e) \in Accumulator /\ AddImpact(w, e) = Merge(x, AddImpact(v, e))
    BY <2>1, ImpactType, MergeImpact DEF BuildOK
  <2>3. QED
    BY <2>2
<1>3. \A s \in Seq(S) : <<Hitting!Folded(y, s), Hitting!Folded(Merge(x, y), s)>> \in R
  <2> HIDE DEF R
  <2>1. QED
    BY <1>1, <1>2, Hitting!FoldRelates
<1>4. QED
  BY <1>3, Folds

LEMMA MergeImpactFile ==
  ASSUME BuildOK, NEW x \in Accumulator, NEW y \in Accumulator, NEW f \in ImpactFiles
  PROVE  Merge(x, AddImpactFile(y, f)) = AddImpactFile(Merge(x, y), f)
<1>1. PICK u : u = FoldLeft(AddImpact, y, f.points)
  OBVIOUS
<1>2. u \in Accumulator
  BY <1>1, ImpactFileType
<1>3. f.points \in Seq(ToSet(f.points))
  BY Files
<1>4. Merge(x, u) = FoldLeft(AddImpact, Merge(x, y), f.points)
  BY <1>1, <1>3, MergePoints
<1>5. Merge(x, Tally(u, f)) = Tally(Merge(x, u), f)
  BY <1>2, MergeTally
<1>6. QED
  BY <1>1, <1>4, <1>5, ImpactFileTallies

LEMMA PointsTrajectory ==
  ASSUME BuildOK, NEW x \in Accumulator, NEW t \in Tracks, NEW S
  PROVE  \A s \in Seq(S) :
           AddTrajectory(FoldLeft(AddImpact, x, s), t)
             = FoldLeft(AddImpact, AddTrajectory(x, t), s)
<1> DEFINE R == {<<v, AddTrajectory(v, t)>> : v \in Accumulator}
<1>1. <<x, AddTrajectory(x, t)>> \in R
  OBVIOUS
<1>2. ASSUME NEW v, NEW w, <<v, w>> \in R, NEW e \in S
      PROVE  <<AddImpact(v, e), AddImpact(w, e)>> \in R
  <2>1. v \in Accumulator /\ w = AddTrajectory(v, t)
    BY <1>2
  <2>2. AddImpact(v, e) \in Accumulator /\ AddImpact(w, e) = AddTrajectory(AddImpact(v, e), t)
    BY <2>1, ImpactType, ImpactTrajectory
  <2>3. QED
    BY <2>2
<1>3. \A s \in Seq(S) : <<Hitting!Folded(x, s), Hitting!Folded(AddTrajectory(x, t), s)>> \in R
  <2> HIDE DEF R
  <2>1. QED
    BY <1>1, <1>2, Hitting!FoldRelates
<1>4. QED
  BY <1>3, Folds

LEMMA ImpactFileTrajectory ==
  ASSUME BuildOK, NEW x \in Accumulator, NEW f \in ImpactFiles, NEW t \in Tracks
  PROVE  AddTrajectory(AddImpactFile(x, f), t) = AddImpactFile(AddTrajectory(x, t), f)
<1>1. PICK u : u = FoldLeft(AddImpact, x, f.points)
  OBVIOUS
<1>2. u \in Accumulator
  BY <1>1, ImpactFileType
<1>3. f.points \in Seq(ToSet(f.points))
  BY Files
<1>4. AddTrajectory(u, t) = FoldLeft(AddImpact, AddTrajectory(x, t), f.points)
  BY <1>1, <1>3, PointsTrajectory
<1>5. AddTrajectory(Tally(u, f), t) = Tally(AddTrajectory(u, t), f)
  BY <1>2, TallyTrajectory
<1>6. QED
  BY <1>1, <1>4, <1>5, ImpactFileTallies

\* What a chunk or the serial build accumulates from its files.
LEMMA ShareTypes ==
  ASSUME BuildOK, NEW a \in Accumulator
  PROVE  /\ \A s \in Seq(Points) : FoldLeft(AddDeposition, a, s) \in Accumulator
         /\ \A s \in Seq(Tracks) : FoldLeft(AddTrajectory, a, s) \in Accumulator
         /\ \A s \in Seq(ImpactFiles) : FoldLeft(AddImpactFile, a, s) \in Accumulator
<1>1. \A s \in Seq(Points) : Depositing!Folded(a, s) \in Accumulator
  <2>1. \A x \in Accumulator, e \in Points : AddDeposition(x, e) \in Accumulator
    BY DepositionType
  <2>2. QED
    BY <2>1, Depositing!FoldType
<1>2. \A s \in Seq(Tracks) : Moving!Folded(a, s) \in Accumulator
  <2>1. \A x \in Accumulator, e \in Tracks : AddTrajectory(x, e) \in Accumulator
    BY TrajectoryType
  <2>2. QED
    BY <2>1, Moving!FoldType
<1>3. \A s \in Seq(ImpactFiles) : Impacting!Folded(a, s) \in Accumulator
  <2>1. \A x \in Accumulator, e \in ImpactFiles : AddImpactFile(x, e) \in Accumulator
    BY ImpactFileType
  <2>2. QED
    BY <2>1, Impacting!FoldType
<1>4. QED
  BY <1>1, <1>2, <1>3, Folds

LEMMA MergeTrajectories ==
  ASSUME BuildOK, NEW x \in Accumulator, NEW y \in Accumulator
  PROVE  \A s \in Seq(Tracks) :
           Merge(x, FoldLeft(AddTrajectory, y, s)) = FoldLeft(AddTrajectory, Merge(x, y), s)
<1> DEFINE R == {<<v, Merge(x, v)>> : v \in Accumulator}
<1>1. <<y, Merge(x, y)>> \in R
  OBVIOUS
<1>2. ASSUME NEW v, NEW w, <<v, w>> \in R, NEW e \in Tracks
      PROVE  <<AddTrajectory(v, e), AddTrajectory(w, e)>> \in R
  <2>1. v \in Accumulator /\ w = Merge(x, v)
    BY <1>2
  <2>2. AddTrajectory(v, e) \in Accumulator /\ AddTrajectory(w, e) = Merge(x, AddTrajectory(v, e))
    BY <2>1, TrajectoryType, MergeTrajectory
  <2>3. QED
    BY <2>2
<1>3. \A s \in Seq(Tracks) : <<Moving!Folded(y, s), Moving!Folded(Merge(x, y), s)>> \in R
  <2> HIDE DEF R
  <2>1. QED
    BY <1>1, <1>2, Moving!FoldRelates
<1>4. QED
  BY <1>3, Folds

LEMMA MergeImpactFiles ==
  ASSUME BuildOK, NEW x \in Accumulator, NEW y \in Accumulator
  PROVE  \A s \in Seq(ImpactFiles) :
           Merge(x, FoldLeft(AddImpactFile, y, s)) = FoldLeft(AddImpactFile, Merge(x, y), s)
<1> DEFINE R == {<<v, Merge(x, v)>> : v \in Accumulator}
<1>1. <<y, Merge(x, y)>> \in R
  OBVIOUS
<1>2. ASSUME NEW v, NEW w, <<v, w>> \in R, NEW e \in ImpactFiles
      PROVE  <<AddImpactFile(v, e), AddImpactFile(w, e)>> \in R
  <2>1. v \in Accumulator /\ w = Merge(x, v)
    BY <1>2
  <2>2. AddImpactFile(v, e) \in Accumulator /\ AddImpactFile(w, e) = Merge(x, AddImpactFile(v, e))
    BY <2>1, ImpactFileType, MergeImpactFile
  <2>3. QED
    BY <2>2
<1>3. \A s \in Seq(ImpactFiles) :
        <<Impacting!Folded(y, s), Impacting!Folded(Merge(x, y), s)>> \in R
  <2> HIDE DEF R
  <2>1. QED
    BY <1>1, <1>2, Impacting!FoldRelates
<1>4. QED
  BY <1>3, Folds

\* The order in which an accumulator meets trajectories and impact files is the same.
LEMMA ImpactFilesTrajectory ==
  ASSUME BuildOK, NEW x \in Accumulator, NEW t \in Tracks
  PROVE  \A s \in Seq(ImpactFiles) :
           AddTrajectory(FoldLeft(AddImpactFile, x, s), t)
             = FoldLeft(AddImpactFile, AddTrajectory(x, t), s)
<1> DEFINE R == {<<v, AddTrajectory(v, t)>> : v \in Accumulator}
<1>1. <<x, AddTrajectory(x, t)>> \in R
  OBVIOUS
<1>2. ASSUME NEW v, NEW w, <<v, w>> \in R, NEW e \in ImpactFiles
      PROVE  <<AddImpactFile(v, e), AddImpactFile(w, e)>> \in R
  <2>1. v \in Accumulator /\ w = AddTrajectory(v, t)
    BY <1>2
  <2>2. /\ AddImpactFile(v, e) \in Accumulator
        /\ AddImpactFile(w, e) = AddTrajectory(AddImpactFile(v, e), t)
    BY <2>1, ImpactFileType, ImpactFileTrajectory
  <2>3. QED
    BY <2>2
<1>3. \A s \in Seq(ImpactFiles) :
        <<Impacting!Folded(x, s), Impacting!Folded(AddTrajectory(x, t), s)>> \in R
  <2> HIDE DEF R
  <2>1. QED
    BY <1>1, <1>2, Impacting!FoldRelates
<1>4. QED
  BY <1>3, Folds

LEMMA ImpactFilesTrajectories ==
  ASSUME BuildOK, NEW x \in Accumulator, NEW s \in Seq(ImpactFiles)
  PROVE  \A r \in Seq(Tracks) :
           FoldLeft(AddImpactFile, FoldLeft(AddTrajectory, x, r), s)
             = FoldLeft(AddTrajectory, FoldLeft(AddImpactFile, x, s), r)
<1> DEFINE F(v) == FoldLeft(AddImpactFile, v, s)
           R == {<<v, F(v)>> : v \in Accumulator}
<1>1. <<x, F(x)>> \in R
  OBVIOUS
<1>2. ASSUME NEW v, NEW w, <<v, w>> \in R, NEW e \in Tracks
      PROVE  <<AddTrajectory(v, e), AddTrajectory(w, e)>> \in R
  <2> HIDE DEF F
  <2>1. v \in Accumulator /\ w = F(v)
    BY <1>2
  <2>2. AddTrajectory(v, e) \in Accumulator /\ AddTrajectory(F(v), e) = F(AddTrajectory(v, e))
    BY <2>1, TrajectoryType, ImpactFilesTrajectory DEF F
  <2>3. QED
    BY <2>1, <2>2
<1>3. \A r \in Seq(Tracks) : <<Moving!Folded(x, r), Moving!Folded(F(x), r)>> \in R
  <2> HIDE DEF R, F
  <2>1. QED
    BY <1>1, <1>2, Moving!FoldRelates
<1>4. \A r \in Seq(Tracks) : Moving!Folded(F(x), r) = F(Moving!Folded(x, r))
  <2> HIDE DEF F
  <2>1. QED
    BY <1>3
<1>5. QED
  BY <1>4, Folds
-------------------------------------------------------------------------------
(* Accumulators that differ in the weighted reach of a reused chunk at most *)

Alike(a, b) ==
  /\ a \in Accumulator /\ b \in Accumulator
  /\ a.grids = b.grids /\ a.impactWeight = b.impactWeight /\ a.peak = b.peak
  /\ a.samples = b.samples /\ a.points = b.points /\ a.count = b.count
  /\ weighted =>
       \A l \in Weighable : l # <<"reach">> \/ reused = {} => a.weighted[l] = b.weighted[l]

LEMMA AlikeItself ==
  ASSUME NEW a \in Accumulator
  PROVE  Alike(a, a)
BY DEF Alike

LEMMA AlikeJoins ==
  ASSUME NEW a, NEW b, NEW c, Alike(a, b), Alike(b, c)
  PROVE  Alike(a, c)
BY DEF Alike

LEMMA AlikeMerge ==
  ASSUME weighted \in BOOLEAN, NEW a, NEW b, NEW x, NEW y, Alike(a, x), Alike(b, y)
  PROVE  Alike(Merge(a, b), Merge(x, y))
<1>1. PICK m : m = Merge(a, b)
  OBVIOUS
<1>2. PICK n : n = Merge(x, y)
  OBVIOUS
<1>3. /\ a \in Accumulator /\ b \in Accumulator /\ x \in Accumulator /\ y \in Accumulator
      /\ a.grids = x.grids /\ b.grids = y.grids /\ a.impactWeight = x.impactWeight
      /\ b.impactWeight = y.impactWeight /\ a.peak = x.peak /\ b.peak = y.peak
      /\ a.samples = x.samples /\ b.samples = y.samples /\ a.points = x.points
      /\ b.points = y.points /\ a.count = x.count /\ b.count = y.count
  BY DEF Alike
<1>4. MergeOf(m, a, b) /\ MergeOf(n, x, y)
  BY <1>1, <1>2, <1>3, MergeView
<1>5. m \in Accumulator /\ n \in Accumulator
  BY <1>4 DEF MergeOf
<1>6. ASSUME NEW l \in Layer, NEW c \in Cell PROVE m.grids[l][c] = n.grids[l][c]
  <2>1. /\ m.grids[l][c] = a.grids[l][c] + b.grids[l][c]
        /\ n.grids[l][c] = x.grids[l][c] + y.grids[l][c]
    BY <1>4 DEF MergeOf
  <2>2. QED
    BY <1>3, <2>1
<1>7. ASSUME NEW q \in Peaked, NEW c \in Cell PROVE m.peak[q][c] = n.peak[q][c]
  <2>1. /\ m.peak[q][c] = Greater(a.peak[q][c], b.peak[q][c])
        /\ n.peak[q][c] = Greater(x.peak[q][c], y.peak[q][c])
    BY <1>4 DEF MergeOf
  <2>2. QED
    BY <1>3, <2>1
<1>8. ASSUME NEW q \in Quantity, NEW c \in Cell PROVE m.samples[q][c] = n.samples[q][c]
  <2>1. /\ m.samples[q][c] = a.samples[q][c] \o b.samples[q][c]
        /\ n.samples[q][c] = x.samples[q][c] \o y.samples[q][c]
    BY <1>4 DEF MergeOf
  <2>2. QED
    BY <1>3, <2>1
<1>9. ASSUME NEW k \in Counter PROVE m.count[k] = n.count[k]
  <2>1. m.count[k] = a.count[k] + b.count[k] /\ n.count[k] = x.count[k] + y.count[k]
    BY <1>4 DEF MergeOf
  <2>2. QED
    BY <1>3, <2>1
<1>10. m.impactWeight = n.impactWeight /\ m.points = n.points
  BY <1>3, <1>4 DEF MergeOf
<1>11. /\ m.grids = n.grids /\ m.peak = n.peak
       /\ m.samples = n.samples /\ m.count = n.count
  BY <1>5, <1>6, <1>7, <1>8, <1>9, SameEntries
<1>12. ASSUME weighted, NEW l \in Weighable, l # <<"reach">> \/ reused = {}
      PROVE  m.weighted[l] = n.weighted[l]
  <2>1. a.weighted[l] = x.weighted[l] /\ b.weighted[l] = y.weighted[l]
    BY <1>12 DEF Alike
  <2>2. \A c \in Cell : /\ m.weighted[l][c] = a.weighted[l][c] + b.weighted[l][c]
                        /\ n.weighted[l][c] = x.weighted[l][c] + y.weighted[l][c]
    BY <1>4, <1>12 DEF MergeOf
  <2>3. m.weighted[l] \in [Cell -> Nat] /\ n.weighted[l] \in [Cell -> Nat]
    BY <1>5, <1>12, FieldTypes
  <2>4. \A c \in Cell : m.weighted[l][c] = n.weighted[l][c]
    BY <2>1, <2>2
  <2>5. QED
    BY <2>3, <2>4
<1>13. Alike(m, n)
  BY <1>5, <1>10, <1>11, <1>12 DEF Alike
<1>14. QED
  BY <1>1, <1>2, <1>13

\* Loading a chunk's state restores all of it but the weighted reach.
LEMMA LoadedView ==
  ASSUME weighted \in BOOLEAN, NEW a \in Accumulator
  PROVE  LET m == Loaded(Serialized(a))
         IN  /\ m \in Accumulator
             /\ m.grids = a.grids /\ m.impactWeight = a.impactWeight /\ m.peak = a.peak
             /\ m.samples = a.samples /\ m.points = a.points /\ m.count = a.count
             /\ weighted =>
                  \A l \in Weighable \ {<<"reach">>} : m.weighted[l] = a.weighted[l]
<1> DEFINE T == IF a.weighted = NoGrids THEN a.weighted
                ELSE [l \in Weighable \ {<<"reach">>} |-> a.weighted[l]]
           s == Serialized(a)
           W == IF s.weighted = NoGrids THEN s.weighted
                ELSE [l \in Weighable |->
                        IF l \in DOMAIN s.weighted THEN s.weighted[l]
                        ELSE EmptyAccumulator.weighted[l]]
           m == Loaded(s)
<1>1. s = [a EXCEPT !.weighted = T]
  BY DEF Serialized
<1>2. m = [s EXCEPT !.weighted = W]
  BY DEF Loaded
<1> HIDE DEF s, m
<1>3. s = [grids |-> a.grids, weighted |-> T, impactWeight |-> a.impactWeight,
           peak |-> a.peak, samples |-> a.samples, points |-> a.points, count |-> a.count]
  <2> HIDE DEF T
  <2>1. QED
    BY <1>1 DEF Accumulator
<1>4. s.weighted = T
  <2> HIDE DEF T
  <2>1. QED
    BY <1>3
<1>5. m = [grids |-> a.grids, weighted |-> W, impactWeight |-> a.impactWeight,
           peak |-> a.peak, samples |-> a.samples, points |-> a.points, count |-> a.count]
  <2> HIDE DEF T, W
  <2>1. QED
    BY <1>2, <1>3
<1>6. CASE ~ weighted
  <2>1. T = NoGrids
    BY <1>6, FieldTypes
  <2>2. W = NoGrids
    BY <1>4, <2>1
  <2> HIDE DEF T, W
  <2>3. m \in Accumulator
    BY <1>5, <1>6, <2>2, FieldTypes DEF Accumulator
  <2>4. /\ m.grids = a.grids /\ m.impactWeight = a.impactWeight /\ m.peak = a.peak
        /\ m.samples = a.samples /\ m.points = a.points /\ m.count = a.count
    BY <1>5
  <2>5. QED
    BY <1>6, <2>3, <2>4 DEF m, s
<1>7. CASE weighted
  <2>1. a.weighted \in [Weighable -> [Cell -> Nat]]
    BY <1>7, FieldTypes
  <2>2. a.weighted # NoGrids
    BY <2>1, NoGridsAssumption
  <2>3. T = [l \in Weighable \ {<<"reach">>} |-> a.weighted[l]]
    BY <2>2
  <2>4. T \in [Weighable \ {<<"reach">>} -> [Cell -> Nat]]
    BY <2>1, <2>3
  <2>5. T # NoGrids /\ DOMAIN T = Weighable \ {<<"reach">>}
    <3>1. Weighable \ {<<"reach">>} \in SUBSET Weighable
      OBVIOUS
    <3> HIDE DEF T
    <3>2. QED
      BY <2>4, <3>1, NoGridsAssumption
  <2>6. \A l \in Weighable : EmptyAccumulator.weighted[l] \in [Cell -> Nat]
    <3>1. EmptyAccumulator \in Accumulator
      BY EmptyType
    <3>2. QED
      BY <1>7, <3>1, FieldTypes
  <2>7. W = [l \in Weighable |-> IF l \in DOMAIN T THEN T[l] ELSE EmptyAccumulator.weighted[l]]
    <3> HIDE DEF T
    <3>1. QED
      BY <1>4, <2>5
  <2>8. \A l \in DOMAIN T : T[l] = a.weighted[l] /\ T[l] \in [Cell -> Nat]
    BY <2>1, <2>3
  <2> HIDE DEF T
  <2>9. /\ W \in [Weighable -> [Cell -> Nat]]
        /\ \A l \in Weighable \ {<<"reach">>} : W[l] = a.weighted[l]
    BY <2>5, <2>6, <2>7, <2>8
  <2> HIDE DEF W
  <2>10. m \in Accumulator
    BY <1>5, <1>7, <2>9, FieldTypes DEF Accumulator
  <2>11. /\ m.grids = a.grids /\ m.impactWeight = a.impactWeight /\ m.peak = a.peak
         /\ m.samples = a.samples /\ m.points = a.points /\ m.count = a.count
         /\ m.weighted = W
    BY <1>5
  <2>12. QED
    BY <2>9, <2>10, <2>11 DEF m, s
<1>8. QED
  BY <1>6, <1>7

LEMMA LoadedAlike ==
  ASSUME weighted \in BOOLEAN, reused # {}, NEW a \in Accumulator
  PROVE  Alike(Loaded(Serialized(a)), a)
BY LoadedView DEF Alike

LEMMA MergeEmpty ==
  ASSUME weighted \in BOOLEAN, NEW x \in Accumulator
  PROVE  Merge(x, EmptyAccumulator) = x /\ Merge(EmptyAccumulator, x) = x
<1>1. PICK e : e = EmptyAccumulator
  OBVIOUS
<1>2. /\ e \in Accumulator
      /\ \A l \in Layer, c \in Cell : e.grids[l][c] = 0
      /\ weighted => \A l \in Weighable, c \in Cell : e.weighted[l][c] = 0
      /\ e.impactWeight = 0
      /\ \A q \in Peaked, c \in Cell : e.peak[q][c] = NoData
      /\ \A q \in Quantity, c \in Cell : e.samples[q][c] = <<>>
      /\ e.points = <<>>
      /\ \A k \in Counter : e.count[k] = 0
  BY <1>1, EmptyView
<1>3. PICK m : m = Merge(x, e)
  OBVIOUS
<1>4. PICK n : n = Merge(e, x)
  OBVIOUS
<1>5. MergeOf(m, x, e) /\ MergeOf(n, e, x)
  BY <1>2, <1>3, <1>4, MergeView
<1>6. m \in Accumulator /\ n \in Accumulator
  BY <1>5 DEF MergeOf
<1>7. ASSUME NEW l \in Layer, NEW c \in Cell
      PROVE  m.grids[l][c] = x.grids[l][c] /\ n.grids[l][c] = x.grids[l][c]
  <2>1. m.grids[l][c] = x.grids[l][c] + e.grids[l][c] /\ n.grids[l][c] = e.grids[l][c] + x.grids[l][c]
    BY <1>5 DEF MergeOf
  <2>2. x.grids[l][c] \in Nat
    BY FieldTypes
  <2>3. QED
    BY <1>2, <2>1, <2>2
<1>8. ASSUME weighted, NEW l \in Weighable, NEW c \in Cell
      PROVE  m.weighted[l][c] = x.weighted[l][c] /\ n.weighted[l][c] = x.weighted[l][c]
  <2>1. /\ m.weighted[l][c] = x.weighted[l][c] + e.weighted[l][c]
        /\ n.weighted[l][c] = e.weighted[l][c] + x.weighted[l][c]
    BY <1>5, <1>8 DEF MergeOf
  <2>2. x.weighted[l][c] \in Nat
    BY <1>8, FieldTypes
  <2>3. QED
    BY <1>2, <1>8, <2>1, <2>2
<1>9. m.impactWeight = x.impactWeight /\ n.impactWeight = x.impactWeight
  <2>1. x.impactWeight \in Nat
    BY FieldTypes
  <2>2. QED
    BY <1>2, <1>5, <2>1 DEF MergeOf
<1>10. ASSUME NEW q \in Peaked, NEW c \in Cell
       PROVE  m.peak[q][c] = x.peak[q][c] /\ n.peak[q][c] = x.peak[q][c]
  <2>1. /\ m.peak[q][c] = Greater(x.peak[q][c], e.peak[q][c])
        /\ n.peak[q][c] = Greater(e.peak[q][c], x.peak[q][c])
    BY <1>5 DEF MergeOf
  <2>2. QED
    BY <1>2, <2>1 DEF Greater
<1>11. ASSUME NEW q \in Quantity, NEW c \in Cell
       PROVE  m.samples[q][c] = x.samples[q][c] /\ n.samples[q][c] = x.samples[q][c]
  <2>1. /\ m.samples[q][c] = x.samples[q][c] \o e.samples[q][c]
        /\ n.samples[q][c] = e.samples[q][c] \o x.samples[q][c]
    BY <1>5 DEF MergeOf
  <2>2. x.samples[q][c] \in Seq(Nat)
    BY FieldTypes
  <2>3. QED
    BY <1>2, <2>1, <2>2, ConcatEmptySeq
<1>12. m.points = x.points /\ n.points = x.points
  <2>1. m.points = x.points \o e.points /\ n.points = e.points \o x.points
    BY <1>5 DEF MergeOf
  <2>2. x.points \in Seq(Points)
    BY FieldTypes
  <2>3. QED
    BY <1>2, <2>1, <2>2, ConcatEmptySeq
<1>13. ASSUME NEW k \in Counter
       PROVE  m.count[k] = x.count[k] /\ n.count[k] = x.count[k]
  <2>1. m.count[k] = x.count[k] + e.count[k] /\ n.count[k] = e.count[k] + x.count[k]
    BY <1>5 DEF MergeOf
  <2>2. x.count[k] \in Nat
    BY FieldTypes
  <2>3. QED
    BY <1>2, <2>1, <2>2
<1>14. m = x
  BY <1>6, <1>7, <1>8, <1>9, <1>10, <1>11, <1>12, <1>13, Extensional
<1>15. n = x
  BY <1>6, <1>7, <1>8, <1>9, <1>10, <1>11, <1>12, <1>13, Extensional
<1>16. QED
  BY <1>1, <1>3, <1>4, <1>14, <1>15
-------------------------------------------------------------------------------
(* Shares *)

LEMMA Quotient ==
  ASSUME NEW x \in Nat, NEW w \in Nat \ {0}
  PROVE  /\ x \div w \in Nat
         /\ w * (x \div w) <= x /\ x < w * (x \div w) + w
OBVIOUS

LEMMA QuotientAscends ==
  ASSUME NEW x \in Nat, NEW y \in Nat, NEW w \in Nat \ {0}, x <= y
  PROVE  x \div w <= y \div w
<1> DEFINE p == x \div w
           q == y \div w
<1>1. p \in Nat /\ q \in Nat /\ w * p <= x /\ y < w * q + w
  BY Quotient
<1>2. \A i, j \in Nat : i > j => w * i >= w * j + w
  <2>1. SUFFICES ASSUME NEW i \in Nat, NEW j \in Nat, i > j PROVE w * i >= w * j + w
    OBVIOUS
  <2>2. PICK d \in Nat : i = j + 1 + d
    <3>1. i - j - 1 \in Nat /\ i = j + 1 + (i - j - 1)
      BY <2>1
    <3>2. QED
      BY <3>1
  <2>3. w * i = w * j + w + w * d /\ w * d \in Nat /\ w * j \in Nat
    BY <2>2
  <2>4. QED
    BY <2>3
<1>3. w * p \in Nat /\ w * q \in Nat
  BY <1>1
<1> HIDE DEF p, q
<1>4. p > q => w * p >= w * q + w
  BY <1>1, <1>2
<1>5. p <= q
  BY <1>1, <1>3, <1>4
<1>6. QED
  BY <1>5 DEF p, q

\* The cuts ascend from 0 to the number of files.
LEMMA CutFacts ==
  ASSUME BuildOK, NEW n \in Nat
  PROVE  /\ Cut(0, n) = 0 /\ Cut(workers, n) = n
         /\ \A k \in Chunks : /\ Cut(k, n) \in Nat /\ Cut(k + 1, n) \in Nat
                              /\ Cut(k, n) <= Cut(k + 1, n) /\ Cut(k + 1, n) <= n
<1>1. workers \in Nat \ {0}
  BY ValueAssumption DEF BuildOK
<1>2. Cut(0, n) = 0
  <2>1. 0 * n = 0
    OBVIOUS
  <2>2. 0 \div workers = 0
    BY <1>1
  <2>3. QED
    BY <2>1, <2>2 DEF Cut
<1>3. Cut(workers, n) = n
  <2> DEFINE q == (workers * n) \div workers
  <2>1. workers * n \in Nat
    BY <1>1
  <2>2. q \in Nat /\ workers * q <= workers * n /\ workers * n < workers * q + workers
    BY <1>1, <2>1, Quotient
  <2>3. \A w, i, j \in Nat : i >= j + 1 => w * i >= w * j + w
    <3>1. SUFFICES ASSUME NEW w \in Nat, NEW i \in Nat, NEW j \in Nat, i >= j + 1
                   PROVE  w * i >= w * j + w
      OBVIOUS
    <3>2. PICK d \in Nat : i = j + 1 + d
      <4>1. i - j - 1 \in Nat /\ i = j + 1 + (i - j - 1)
        BY <3>1
      <4>2. QED
        BY <4>1
    <3>3. w * i = w * j + w + w * d /\ w * d \in Nat /\ w * j \in Nat
      BY <3>2
    <3>4. QED
      BY <3>3
  <2>4. workers * q \in Nat
    BY <1>1, <2>2
  <2> HIDE DEF q
  <2>5. n >= q + 1 => workers * n >= workers * q + workers
    BY <1>1, <2>2, <2>3
  <2>6. q >= n + 1 => workers * q >= workers * n + workers
    BY <1>1, <2>2, <2>3
  <2>7. q = n
    BY <1>1, <2>1, <2>2, <2>4, <2>5, <2>6
  <2>8. QED
    BY <2>7 DEF q, Cut
<1>4. ASSUME NEW k \in Chunks
      PROVE  /\ Cut(k, n) \in Nat /\ Cut(k + 1, n) \in Nat
             /\ Cut(k, n) <= Cut(k + 1, n) /\ Cut(k + 1, n) <= n
  <2>1. k \in Nat /\ k + 1 \in Nat /\ k + 1 <= workers
    BY <1>1 DEF Chunks
  <2>2. k * n \in Nat /\ (k + 1) * n \in Nat /\ workers * n \in Nat
    BY <1>1, <2>1
  <2>3. k * n <= (k + 1) * n
    <3>1. (k + 1) * n = k * n + n
      BY <2>1
    <3>2. QED
      BY <2>2, <3>1
  <2>4. (k + 1) * n <= workers * n
    <3>1. PICK d \in Nat : workers = k + 1 + d
      <4>1. workers - (k + 1) \in Nat /\ workers = k + 1 + (workers - (k + 1))
        BY <1>1, <2>1
      <4>2. QED
        BY <4>1
    <3>2. workers * n = (k + 1) * n + d * n /\ d * n \in Nat
      BY <2>1, <3>1
    <3>3. QED
      BY <2>2, <3>2
  <2>5. (k * n) \div workers <= ((k + 1) * n) \div workers
    BY <1>1, <2>2, <2>3, QuotientAscends
  <2>6. ((k + 1) * n) \div workers <= (workers * n) \div workers
    BY <1>1, <2>2, <2>4, QuotientAscends
  <2>7. (k * n) \div workers \in Nat /\ ((k + 1) * n) \div workers \in Nat
    BY <1>1, <2>2, Quotient
  <2>8. QED
    BY <1>3, <2>5, <2>6, <2>7 DEF Cut
<1>5. QED
  BY <1>2, <1>3, <1>4

\* The shares of the chunks, one after the other, are the files.
LEMMA ShareFacts ==
  ASSUME BuildOK, NEW S, NEW files \in Seq(S), NEW k \in Chunks
  PROVE  LET n == Len(files)
         IN  /\ Share(files, k) \in Seq(S)
             /\ Len(Share(files, k)) <= n
             /\ SubSeq(files, 1, Cut(k, n)) \in Seq(S)
             /\ SubSeq(files, 1, Cut(k, n)) \o Share(files, k)
                  = SubSeq(files, 1, Cut(k + 1, n))
<1> DEFINE n == Len(files)
           i == Cut(k, n)
           j == Cut(k + 1, n)
<1>1. n \in Nat
  BY LenProperties
<1>2. i \in Nat /\ j \in Nat /\ i <= j /\ j <= n
  BY <1>1, CutFacts
<1>3. Share(files, k) = SubSeq(files, i + 1, j)
  BY DEF Share
<1> HIDE DEF i, j
<1>4. SubSeq(files, i + 1, j) \in Seq(S) /\ Len(SubSeq(files, i + 1, j)) <= n
  <2>1. \A m \in i + 1 .. j : files[m] \in S
    BY <1>1, <1>2, ElementOfSeq
  <2>2. i + 1 \in Int /\ j \in Int
    BY <1>2
  <2>3. SubSeq(files, i + 1, j) \in Seq(S)
    BY <2>1, <2>2, SubSeqProperties
  <2>4. Len(SubSeq(files, i + 1, j)) = IF i + 1 <= j THEN j - (i + 1) + 1 ELSE 0
    BY <2>1, <2>2, SubSeqProperties
  <2>5. QED
    BY <1>1, <1>2, <2>3, <2>4
<1>5. SubSeq(files, 1, i) \in Seq(S)
  <2>1. \A m \in 1 .. i : files[m] \in S
    BY <1>1, <1>2, ElementOfSeq
  <2>2. QED
    BY <1>2, <2>1, SubSeqProperties
<1>6. SubSeq(files, 1, i) \o SubSeq(files, i + 1, j) = SubSeq(files, 1, j)
  <2>1. 1 \in 1 .. n + 1 /\ i \in 1 - 1 .. n /\ j \in i .. n
    BY <1>1, <1>2
  <2>2. QED
    BY <2>1, ConcatAdjacentSubSeq
<1>7. QED
  BY <1>3, <1>4, <1>5, <1>6 DEF i, j
-------------------------------------------------------------------------------
(* What the chunks and the merge have accumulated *)

\* Chunk k after its deposition file and the first n of its trajectories.
Gathered(k, n) ==
  FoldLeft(AddTrajectory, FoldLeft(AddDeposition, EmptyAccumulator, DepositionOf(k)),
           SubSeq(Share(input.trajectories, k), 1, n))

ChunkResult(k) ==
  FoldLeft(AddImpactFile, Gathered(k, Len(Share(input.trajectories, k))),
           Share(input.impacts, k))

\* The serial build after the files of the first k chunks.
SerialUpTo(k) ==
  FoldLeft(AddImpactFile,
    FoldLeft(AddTrajectory,
      FoldLeft(AddDeposition, EmptyAccumulator, input.depositions),
      SubSeq(input.trajectories, 1, Cut(k, Len(input.trajectories)))),
    SubSeq(input.impacts, 1, Cut(k, Len(input.impacts))))

LEMMA DepositionOfType ==
  ASSUME BuildOK, NEW k \in Chunks
  PROVE  DepositionOf(k) \in Seq(Points)
BY Files, EmptySeq DEF DepositionOf

LEMMA GatheredStart ==
  ASSUME BuildOK, NEW k \in Chunks
  PROVE  /\ Gathered(k, 0) = FoldLeft(AddDeposition, EmptyAccumulator, DepositionOf(k))
         /\ Gathered(k, 0) \in Accumulator
<1> DEFINE d == FoldLeft(AddDeposition, EmptyAccumulator, DepositionOf(k))
           s == Share(input.trajectories, k)
<1>1. d \in Accumulator
  <2>1. EmptyAccumulator \in Accumulator
    BY EmptyType DEF BuildOK
  <2>2. QED
    BY <2>1, DepositionOfType, ShareTypes
<1>2. SubSeq(s, 1, 0) = <<>>
  BY SubSeqEmpty
<1>3. Gathered(k, 0) = FoldLeft(AddTrajectory, d, SubSeq(s, 1, 0))
  BY DEF Gathered
<1> HIDE DEF d, s
<1>4. FoldLeft(AddTrajectory, d, <<>>) = d
  BY Folds, Moving!FoldEmpty
<1>5. Gathered(k, 0) = d
  BY <1>2, <1>3, <1>4
<1>6. QED
  BY <1>1, <1>5 DEF d

LEMMA GatheredStep ==
  ASSUME BuildOK, NEW k \in Chunks, NEW n \in Nat,
         n < Len(Share(input.trajectories, k)), Gathered(k, n) \in Accumulator
  PROVE  /\ Gathered(k, n + 1) = AddTrajectory(Gathered(k, n), Share(input.trajectories, k)[n + 1])
         /\ Gathered(k, n + 1) \in Accumulator
<1> DEFINE d == FoldLeft(AddDeposition, EmptyAccumulator, DepositionOf(k))
           s == Share(input.trajectories, k)
           t == s[n + 1]
<1>1. s \in Seq(Tracks)
  BY Files, ShareFacts
<1>2. /\ Gathered(k, n) = FoldLeft(AddTrajectory, d, SubSeq(s, 1, n))
      /\ Gathered(k, n + 1) = FoldLeft(AddTrajectory, d, SubSeq(s, 1, n + 1))
  BY DEF Gathered
<1>3. n < Len(s)
  OBVIOUS
<1> HIDE DEF d, s
<1>4. t \in Tracks
  BY <1>1, <1>3, ElementOfSeq, LenProperties
<1>5. SubSeq(s, 1, n) \in Seq(Tracks)
  <2>1. \A m \in 1 .. n : s[m] \in Tracks
    BY <1>1, <1>3, ElementOfSeq, LenProperties
  <2>2. QED
    BY <2>1, SubSeqProperties
<1>6. SubSeq(s, 1, n + 1) = Append(SubSeq(s, 1, n), t)
  <2>1. 1 \in 1 .. Len(s) /\ n + 1 \in 1 .. Len(s)
    BY <1>1, <1>3, LenProperties
  <2>2. SubSeq(s, 1, n + 1) = SubSeq(s, 1, n + 1 - 1) \o <<t>>
    BY <1>1, <2>1, SubSeqRecursiveSecond
  <2>3. n + 1 - 1 = n
    OBVIOUS
  <2>4. Append(SubSeq(s, 1, n), t) = SubSeq(s, 1, n) \o <<t>>
    BY <1>4, <1>5, AppendIsConcat
  <2>5. QED
    BY <2>2, <2>3, <2>4
<1>7. Gathered(k, n + 1) = AddTrajectory(Gathered(k, n), t)
  <2>1. Moving!Folded(d, Append(SubSeq(s, 1, n), t))
          = AddTrajectory(Moving!Folded(d, SubSeq(s, 1, n)), t)
    BY <1>4, <1>5, Moving!FoldAppend
  <2>2. /\ FoldLeft(AddTrajectory, d, SubSeq(s, 1, n)) = Moving!Folded(d, SubSeq(s, 1, n))
        /\ FoldLeft(AddTrajectory, d, SubSeq(s, 1, n + 1))
             = Moving!Folded(d, SubSeq(s, 1, n + 1))
    BY Folds
  <2>3. QED
    BY <1>2, <1>6, <2>1, <2>2
<1>8. AddTrajectory(Gathered(k, n), t) \in Accumulator
  BY <1>4, TrajectoryType
<1>9. QED
  BY <1>7, <1>8 DEF s

LEMMA SerialStart ==
  ASSUME BuildOK
  PROVE  SerialUpTo(0) = FoldLeft(AddDeposition, EmptyAccumulator, input.depositions)
<1> DEFINE d == FoldLeft(AddDeposition, EmptyAccumulator, input.depositions)
<1>1. /\ Cut(0, Len(input.trajectories)) = 0 /\ Cut(0, Len(input.impacts)) = 0
  BY Files, LenProperties, CutFacts
<1>2. /\ SubSeq(input.trajectories, 1, 0) = <<>> /\ SubSeq(input.impacts, 1, 0) = <<>>
  BY SubSeqEmpty
<1>3. SerialUpTo(0) = FoldLeft(AddImpactFile, FoldLeft(AddTrajectory, d, <<>>), <<>>)
  BY <1>1, <1>2 DEF SerialUpTo
<1> HIDE DEF d
<1>4. FoldLeft(AddTrajectory, d, <<>>) = d /\ FoldLeft(AddImpactFile, d, <<>>) = d
  BY Folds, Moving!FoldEmpty, Impacting!FoldEmpty
<1>5. QED
  BY <1>3, <1>4 DEF d

LEMMA SerialEnd ==
  ASSUME BuildOK
  PROVE  SerialUpTo(workers) = SerialAccumulator
<1>1. /\ Cut(workers, Len(input.trajectories)) = Len(input.trajectories)
      /\ Cut(workers, Len(input.impacts)) = Len(input.impacts)
  BY Files, LenProperties, CutFacts
<1>2. /\ SubSeq(input.trajectories, 1, Len(input.trajectories)) = input.trajectories
      /\ SubSeq(input.impacts, 1, Len(input.impacts)) = input.impacts
  BY Files, SubSeqFull
<1>3. QED
  BY <1>1, <1>2 DEF SerialUpTo, SerialAccumulator

\* Accumulating the files of one more share in one go.
LEMMA SerialGoesOn ==
  ASSUME BuildOK, NEW k \in Chunks
  PROVE  /\ SerialUpTo(k) \in Accumulator
         /\ FoldLeft(AddImpactFile,
              FoldLeft(AddTrajectory, SerialUpTo(k), Share(input.trajectories, k)),
              Share(input.impacts, k)) = SerialUpTo(k + 1)
<1>1. PICK d : d = FoldLeft(AddDeposition, EmptyAccumulator, input.depositions)
  OBVIOUS
<1>2. PICK r : r = SubSeq(input.trajectories, 1, Cut(k, Len(input.trajectories)))
  OBVIOUS
<1>3. PICK s : s = SubSeq(input.impacts, 1, Cut(k, Len(input.impacts)))
  OBVIOUS
<1>4. PICK t : t = Share(input.trajectories, k)
  OBVIOUS
<1>5. PICK u : u = Share(input.impacts, k)
  OBVIOUS
<1>6. d \in Accumulator
  <2>1. EmptyAccumulator \in Accumulator
    BY EmptyType DEF BuildOK
  <2>2. QED
    BY <1>1, <2>1, Files, ShareTypes
<1>7. /\ r \in Seq(Tracks) /\ t \in Seq(Tracks)
      /\ r \o t = SubSeq(input.trajectories, 1, Cut(k + 1, Len(input.trajectories)))
  BY <1>2, <1>4, Files, ShareFacts
<1>8. /\ s \in Seq(ImpactFiles) /\ u \in Seq(ImpactFiles)
      /\ s \o u = SubSeq(input.impacts, 1, Cut(k + 1, Len(input.impacts)))
  BY <1>3, <1>5, Files, ShareFacts
<1>9. PICK x : x = FoldLeft(AddTrajectory, d, r)
  OBVIOUS
<1>10. x \in Accumulator
  BY <1>6, <1>7, <1>9, ShareTypes
<1>11. SerialUpTo(k) = FoldLeft(AddImpactFile, x, s)
  BY <1>1, <1>2, <1>3, <1>9 DEF SerialUpTo
<1>12. FoldLeft(AddImpactFile, x, s) \in Accumulator
  BY <1>8, <1>10, ShareTypes
<1>13. FoldLeft(AddTrajectory, FoldLeft(AddImpactFile, x, s), t)
         = FoldLeft(AddImpactFile, FoldLeft(AddTrajectory, x, t), s)
  BY <1>7, <1>8, <1>10, ImpactFilesTrajectories
<1>14. FoldLeft(AddTrajectory, x, t) = FoldLeft(AddTrajectory, d, r \o t)
  <2>1. Moving!Folded(d, r \o t) = Moving!Folded(Moving!Folded(d, r), t)
    <3>1. PICK S : r \in Seq(S) /\ t \in Seq(S)
      BY <1>7
    <3>2. QED
      BY <3>1, Moving!FoldConcat
  <2>2. /\ FoldLeft(AddTrajectory, d, r \o t) = Moving!Folded(d, r \o t)
        /\ FoldLeft(AddTrajectory, x, t) = Moving!Folded(x, t)
        /\ x = Moving!Folded(d, r)
    BY <1>9, Folds
  <2>3. QED
    BY <2>1, <2>2
<1>15. PICK y : y = FoldLeft(AddTrajectory, d, r \o t)
  OBVIOUS
<1>16. FoldLeft(AddImpactFile, FoldLeft(AddImpactFile, y, s), u)
         = FoldLeft(AddImpactFile, y, s \o u)
  <2>1. Impacting!Folded(y, s \o u) = Impacting!Folded(Impacting!Folded(y, s), u)
    <3>1. PICK S : s \in Seq(S) /\ u \in Seq(S)
      BY <1>8
    <3>2. QED
      BY <3>1, Impacting!FoldConcat
  <2>2. /\ FoldLeft(AddImpactFile, y, s \o u) = Impacting!Folded(y, s \o u)
        /\ FoldLeft(AddImpactFile, y, s) = Impacting!Folded(y, s)
        /\ FoldLeft(AddImpactFile, Impacting!Folded(y, s), u)
             = Impacting!Folded(Impacting!Folded(y, s), u)
    BY Folds
  <2>3. QED
    BY <2>1, <2>2
<1>17. SerialUpTo(k + 1) = FoldLeft(AddImpactFile, y, s \o u)
  BY <1>1, <1>7, <1>8, <1>15 DEF SerialUpTo
<1>18. FoldLeft(AddTrajectory, SerialUpTo(k), t) = FoldLeft(AddImpactFile, y, s)
  BY <1>11, <1>13, <1>14, <1>15
<1>19. QED
  BY <1>4, <1>5, <1>11, <1>12, <1>16, <1>17, <1>18

\* Merging the result of a chunk is the same.
LEMMA MergeChunk ==
  ASSUME BuildOK, NEW k \in Chunks
  PROVE  /\ ChunkResult(k) \in Accumulator
         /\ Merge(IF k = 0 THEN EmptyAccumulator ELSE SerialUpTo(k), ChunkResult(k))
              = SerialUpTo(k + 1)
<1>1. PICK b : b = IF k = 0 THEN EmptyAccumulator ELSE SerialUpTo(k)
  OBVIOUS
<1>2. PICK d : d = FoldLeft(AddDeposition, EmptyAccumulator, DepositionOf(k))
  OBVIOUS
<1>3. PICK t : t = Share(input.trajectories, k)
  OBVIOUS
<1>4. PICK u : u = Share(input.impacts, k)
  OBVIOUS
<1>5. weighted \in BOOLEAN /\ EmptyAccumulator \in Accumulator
  BY EmptyType DEF BuildOK
<1>6. b \in Accumulator /\ d \in Accumulator
  <2>1. b \in Accumulator
    BY <1>1, <1>5, SerialGoesOn
  <2>2. d \in Accumulator
    BY <1>2, GatheredStart
  <2>3. QED
    BY <2>1, <2>2
<1>7. t \in Seq(Tracks) /\ u \in Seq(ImpactFiles)
  BY <1>3, <1>4, Files, ShareFacts
<1>8. PICK g : g = FoldLeft(AddTrajectory, d, t)
  OBVIOUS
<1>9. g \in Accumulator
  BY <1>6, <1>7, <1>8, ShareTypes
<1>10. ChunkResult(k) = FoldLeft(AddImpactFile, g, u)
  <2>1. SubSeq(t, 1, Len(t)) = t
    BY <1>7, SubSeqFull
  <2>2. Gathered(k, Len(t)) = g
    BY <1>2, <1>3, <1>8, <2>1 DEF Gathered
  <2>3. QED
    BY <1>3, <1>4, <2>2 DEF ChunkResult
<1>11. Merge(b, d) = SerialUpTo(k)
  <2>1. CASE k = 0
    <3>1. d = SerialUpTo(k)
      BY <1>2, <2>1, SerialStart DEF DepositionOf
    <3>2. QED
      BY <1>1, <1>5, <1>6, <2>1, <3>1, MergeEmpty
  <2>2. CASE k # 0
    <3>1. FoldLeft(AddDeposition, EmptyAccumulator, <<>>) = EmptyAccumulator
      BY Folds, Depositing!FoldEmpty
    <3>2. d = EmptyAccumulator
      BY <1>2, <2>2, <3>1 DEF DepositionOf
    <3>3. QED
      BY <1>1, <1>5, <1>6, <2>2, <3>2, MergeEmpty
  <2>3. QED
    BY <2>1, <2>2
<1>12. Merge(b, FoldLeft(AddImpactFile, g, u)) = FoldLeft(AddImpactFile, Merge(b, g), u)
  BY <1>6, <1>7, <1>9, MergeImpactFiles
<1>13. Merge(b, g) = FoldLeft(AddTrajectory, Merge(b, d), t)
  BY <1>6, <1>7, <1>8, MergeTrajectories
<1>14. FoldLeft(AddImpactFile, g, u) \in Accumulator
  BY <1>7, <1>9, ShareTypes
<1>15. QED
  BY <1>1, <1>3, <1>4, <1>10, <1>11, <1>12, <1>13, <1>14, SerialGoesOn
-------------------------------------------------------------------------------
(* The inductive invariant *)

\* Where chunk k's thread is decides what its accumulator holds.
Accumulated(k) ==
  /\ stage[k] = "deposition" => read[k] = 0 /\ acc[k] = EmptyAccumulator
  /\ stage[k] = "trajectories" =>
       /\ read[k] <= Len(Share(input.trajectories, k))
       /\ acc[k] = Gathered(k, read[k])
  /\ stage[k] = "completed" => Alike(acc[k], ChunkResult(k))

IInv ==
  /\ BuildOK
  /\ stage \in [Chunks -> {"deposition", "trajectories", "completed"}]
  /\ read \in [Chunks -> 0 .. Len(input.trajectories)]
  /\ acc \in [Chunks -> Accumulator] /\ merged \in Accumulator
  /\ \A k \in Chunks : Accumulated(k)
  /\ nextMerge \in 0 .. workers
  /\ IF nextMerge = 0 THEN merged = EmptyAccumulator ELSE Alike(merged, SerialUpTo(nextMerge))

\* Nothing that a build fixes changes in a step.
LEMMA ResultsKept ==
  ASSUME build' = build
  PROVE  /\ \A files, k : Share(files, k)' = Share(files, k)
         /\ \A k, n : Gathered(k, n)' = Gathered(k, n)
         /\ \A k : ChunkResult(k)' = ChunkResult(k)
         /\ \A k : SerialUpTo(k)' = SerialUpTo(k)
         /\ \A a, b : Alike(a, b)' <=> Alike(a, b)
<1>1. input' = input /\ workers' = workers /\ weighted' = weighted /\ reused' = reused
  BY DEF build
<1>2. EmptyAccumulator' = EmptyAccumulator /\ Accumulator' = Accumulator
  BY <1>1 DEF EmptyAccumulator, Accumulator, Points
<1>3. \A k, n : Cut(k, n)' = Cut(k, n)
  BY <1>1 DEF Cut
<1>4. \A files, k : Share(files, k)' = Share(files, k)
  BY <1>3 DEF Share
<1>5. \A k : DepositionOf(k)' = DepositionOf(k)
  BY <1>1 DEF DepositionOf
<1>6. \A k, n : Gathered(k, n)' = Gathered(k, n)
  BY <1>1, <1>2, <1>4, <1>5 DEF Gathered
<1>7. \A k : ChunkResult(k)' = ChunkResult(k)
  BY <1>1, <1>4, <1>6 DEF ChunkResult
<1>8. \A k : SerialUpTo(k)' = SerialUpTo(k)
  BY <1>1, <1>2, <1>3 DEF SerialUpTo
<1>9. \A a, b : Alike(a, b)' <=> Alike(a, b)
  BY <1>1, <1>2 DEF Alike
<1>10. QED
  BY <1>4, <1>6, <1>7, <1>8, <1>9

LEMMA StartInvariant ==
  ASSUME Init
  PROVE  IInv
<1>1. BuildOK
  BY DEF Init, BuildOK
<1>2. workers \in Nat /\ weighted \in BOOLEAN
  BY <1>1, ValueAssumption DEF BuildOK
<1>3. EmptyAccumulator \in Accumulator
  BY <1>2, EmptyType
<1>4. /\ stage = [k \in Chunks |-> "deposition"] /\ read = [k \in Chunks |-> 0]
      /\ acc = [k \in Chunks |-> EmptyAccumulator] /\ merged = EmptyAccumulator
      /\ nextMerge = 0
  BY DEF Init
<1>5. /\ stage \in [Chunks -> {"deposition", "trajectories", "completed"}]
      /\ \A k \in Chunks : stage[k] = "deposition"
  BY <1>4
<1>6. read \in [Chunks -> 0 .. Len(input.trajectories)]
  <2>1. Len(input.trajectories) \in Nat
    BY <1>1, Files, LenProperties
  <2>2. QED
    BY <1>4, <2>1
<1>7. acc \in [Chunks -> Accumulator] /\ merged \in Accumulator
  BY <1>3, <1>4
<1>8. \A k \in Chunks : Accumulated(k)
  BY <1>4, <1>5 DEF Accumulated
<1>9. nextMerge \in 0 .. workers
  BY <1>2, <1>4
<1>10. QED
  BY <1>1, <1>4, <1>5, <1>6, <1>7, <1>8, <1>9 DEF IInv

\* What a step keeps if it leaves the build and the merge alone.
LEMMA StepKeeps ==
  ASSUME IInv, build' = build
  PROVE  /\ input' = input /\ workers' = workers /\ BuildOK' /\ Chunks' = Chunks
         /\ Accumulator' = Accumulator /\ EmptyAccumulator' = EmptyAccumulator
         /\ merged' = merged /\ nextMerge' = nextMerge =>
              IF nextMerge' = 0 THEN merged' = EmptyAccumulator'
              ELSE Alike(merged, SerialUpTo(nextMerge))'
         /\ \A j \in Chunks :
              stage'[j] = stage[j] /\ read'[j] = read[j] /\ acc'[j] = acc[j] => Accumulated(j)'
<1>1. input' = input /\ workers' = workers /\ weighted' = weighted /\ reused' = reused
  BY DEF build
<1>2. Chunks' = Chunks /\ Accumulator' = Accumulator /\ EmptyAccumulator' = EmptyAccumulator
  BY <1>1 DEF Chunks, Accumulator, Points, EmptyAccumulator
<1>3. BuildOK'
  BY <1>1 DEF IInv, BuildOK, Chunks
<1>4. merged' = merged /\ nextMerge' = nextMerge =>
        IF nextMerge' = 0 THEN merged' = EmptyAccumulator'
        ELSE Alike(merged, SerialUpTo(nextMerge))'
  <2>1. IF nextMerge = 0 THEN merged = EmptyAccumulator ELSE Alike(merged, SerialUpTo(nextMerge))
    BY DEF IInv
  <2>2. QED
    BY <1>2, <2>1, ResultsKept
<1>5. ASSUME NEW j \in Chunks, stage'[j] = stage[j], read'[j] = read[j], acc'[j] = acc[j]
      PROVE  Accumulated(j)'
  <2>1. /\ \A files : Share(files, j)' = Share(files, j)
        /\ \A n : Gathered(j, n)' = Gathered(j, n)
        /\ ChunkResult(j)' = ChunkResult(j)
        /\ \A a, b : Alike(a, b)' <=> Alike(a, b)
    BY ResultsKept
  <2>2. Accumulated(j)
    BY DEF IInv
  <2>3. QED
    BY <1>1, <1>2, <1>5, <2>1, <2>2 DEF Accumulated
<1>6. QED
  BY <1>1, <1>2, <1>3, <1>4, <1>5

LEMMA IInvParts ==
  ASSUME IInv
  PROVE  /\ BuildOK /\ weighted \in BOOLEAN
         /\ stage \in [Chunks -> {"deposition", "trajectories", "completed"}]
         /\ read \in [Chunks -> 0 .. Len(input.trajectories)]
         /\ acc \in [Chunks -> Accumulator] /\ merged \in Accumulator
         /\ \A k \in Chunks : Accumulated(k)
         /\ nextMerge \in 0 .. workers /\ workers \in Nat
BY ValueAssumption DEF IInv, BuildOK

LEMMA DepositionStep ==
  ASSUME IInv, NEW k \in Chunks, AccumulateDeposition(k)
  PROVE  IInv'
<1>1. build' = build /\ read' = read /\ nextMerge' = nextMerge /\ merged' = merged
  BY DEF AccumulateDeposition
<1>2. /\ stage[k] = "deposition"
      /\ stage' = [stage EXCEPT ![k] = "trajectories"]
      /\ acc' = [acc EXCEPT ![k] = FoldLeft(AddDeposition, @, DepositionOf(k))]
  BY DEF AccumulateDeposition
<1>3. /\ BuildOK /\ Accumulated(k)
      /\ stage \in [Chunks -> {"deposition", "trajectories", "completed"}]
      /\ read \in [Chunks -> 0 .. Len(input.trajectories)]
      /\ acc \in [Chunks -> Accumulator] /\ merged \in Accumulator
      /\ nextMerge \in 0 .. workers
  BY IInvParts
<1>4. read[k] = 0 /\ acc[k] = EmptyAccumulator
  BY <1>2, <1>3 DEF Accumulated
<1>5. acc' = [acc EXCEPT ![k] = Gathered(k, 0)] /\ Gathered(k, 0) \in Accumulator
  BY <1>2, <1>3, <1>4, GatheredStart
<1>6. /\ stage' \in [Chunks -> {"deposition", "trajectories", "completed"}]
      /\ acc' \in [Chunks -> Accumulator]
  BY <1>2, <1>3, <1>5
<1>7. ASSUME NEW j \in Chunks PROVE Accumulated(j)'
  <2>1. CASE j = k
    <3>1. stage'[j] = "trajectories" /\ read'[j] = 0 /\ acc'[j] = Gathered(j, 0)
      BY <1>1, <1>2, <1>3, <1>4, <1>5, <2>1
    <3>2. Len(Share(input.trajectories, j)) \in Nat
      BY <1>3, Files, ShareFacts, LenProperties
    <3>3. \A n : Gathered(j, n)' = Gathered(j, n)
      BY <1>1, ResultsKept
    <3>4. \A files : Share(files, j)' = Share(files, j)
      BY <1>1, ResultsKept
    <3>5. QED
      BY <1>1, <3>1, <3>2, <3>3, <3>4 DEF Accumulated, build
  <2>2. CASE j # k
    <3>1. stage'[j] = stage[j] /\ read'[j] = read[j] /\ acc'[j] = acc[j]
      BY <1>1, <1>2, <1>3, <2>2
    <3>2. QED
      BY <1>1, <3>1, StepKeeps
  <2>3. QED
    BY <2>1, <2>2
<1>8. QED
  BY <1>1, <1>3, <1>6, <1>7, StepKeeps DEF IInv

LEMMA TrajectoryStep ==
  ASSUME IInv, NEW k \in Chunks, AccumulateTrajectory(k)
  PROVE  IInv'
<1>1. build' = build /\ stage' = stage /\ nextMerge' = nextMerge /\ merged' = merged
  BY DEF AccumulateTrajectory
<1>2. /\ stage[k] = "trajectories"
      /\ read[k] < Len(Share(input.trajectories, k))
      /\ acc' = [acc EXCEPT ![k] =
                   AddTrajectory(@, Share(input.trajectories, k)[read[k] + 1])]
      /\ read' = [read EXCEPT ![k] = @ + 1]
  BY DEF AccumulateTrajectory
<1>3. /\ BuildOK /\ Accumulated(k)
      /\ stage \in [Chunks -> {"deposition", "trajectories", "completed"}]
      /\ read \in [Chunks -> 0 .. Len(input.trajectories)]
      /\ acc \in [Chunks -> Accumulator] /\ merged \in Accumulator
      /\ nextMerge \in 0 .. workers
  BY IInvParts
<1>4. PICK n \in Nat : n = read[k]
  BY <1>3
<1>5. /\ Share(input.trajectories, k) \in Seq(Tracks)
      /\ Len(Share(input.trajectories, k)) \in Nat
      /\ Len(Share(input.trajectories, k)) <= Len(input.trajectories)
      /\ Len(input.trajectories) \in Nat
  BY <1>3, Files, ShareFacts, LenProperties
<1>6. acc[k] = Gathered(k, n) /\ acc[k] \in Accumulator
  BY <1>2, <1>3, <1>4 DEF Accumulated
<1>7. /\ acc' = [acc EXCEPT ![k] = Gathered(k, n + 1)]
      /\ Gathered(k, n + 1) \in Accumulator
  BY <1>2, <1>3, <1>4, <1>6, GatheredStep
<1>8. n + 1 \in 0 .. Len(input.trajectories) /\ n + 1 <= Len(Share(input.trajectories, k))
  BY <1>2, <1>4, <1>5
<1>9. read' \in [Chunks -> 0 .. Len(input.trajectories)] /\ acc' \in [Chunks -> Accumulator]
  BY <1>2, <1>3, <1>4, <1>7, <1>8
<1>10. ASSUME NEW j \in Chunks PROVE Accumulated(j)'
  <2>1. CASE j = k
    <3>1. stage'[j] = "trajectories" /\ read'[j] = n + 1 /\ acc'[j] = Gathered(j, n + 1)
      BY <1>1, <1>2, <1>3, <1>4, <1>7, <2>1
    <3>2. \A m : Gathered(j, m)' = Gathered(j, m)
      BY <1>1, ResultsKept
    <3>3. \A files : Share(files, j)' = Share(files, j)
      BY <1>1, ResultsKept
    <3>4. QED
      BY <1>1, <1>8, <2>1, <3>1, <3>2, <3>3 DEF Accumulated, build
  <2>2. CASE j # k
    <3>1. stage'[j] = stage[j] /\ read'[j] = read[j] /\ acc'[j] = acc[j]
      BY <1>1, <1>2, <1>3, <2>2
    <3>2. QED
      BY <1>1, <3>1, StepKeeps
  <2>3. QED
    BY <2>1, <2>2
<1>11. QED
  BY <1>1, <1>3, <1>9, <1>10, StepKeeps DEF IInv

LEMMA ImpactStep ==
  ASSUME IInv, NEW k \in Chunks, AccumulateImpacts(k)
  PROVE  IInv'
<1>1. build' = build /\ read' = read /\ nextMerge' = nextMerge /\ merged' = merged
  BY DEF AccumulateImpacts
<1>2. PICK a : a = FoldLeft(AddImpactFile, acc[k], Share(input.impacts, k))
  OBVIOUS
<1>3. /\ stage[k] = "trajectories"
      /\ read[k] = Len(Share(input.trajectories, k))
      /\ stage' = [stage EXCEPT ![k] = "completed"]
      /\ acc' = [acc EXCEPT ![k] = IF k \in reused THEN Loaded(Serialized(a)) ELSE a]
  BY <1>2 DEF AccumulateImpacts
<1>4. /\ BuildOK /\ weighted \in BOOLEAN /\ Accumulated(k)
      /\ stage \in [Chunks -> {"deposition", "trajectories", "completed"}]
      /\ read \in [Chunks -> 0 .. Len(input.trajectories)]
      /\ acc \in [Chunks -> Accumulator] /\ merged \in Accumulator
      /\ nextMerge \in 0 .. workers
  BY IInvParts
<1>5. a = ChunkResult(k) /\ a \in Accumulator
  <2>1. acc[k] = Gathered(k, Len(Share(input.trajectories, k)))
    BY <1>3, <1>4 DEF Accumulated
  <2>2. a = ChunkResult(k)
    BY <1>2, <2>1 DEF ChunkResult
  <2>3. QED
    BY <1>4, <2>2, MergeChunk
<1>6. PICK b : b = IF k \in reused THEN Loaded(Serialized(a)) ELSE a
  OBVIOUS
<1>7. Alike(b, a) /\ b \in Accumulator
  <2>1. CASE k \in reused
    <3>1. Alike(b, a)
      BY <1>4, <1>5, <1>6, <2>1, LoadedAlike
    <3>2. QED
      BY <3>1 DEF Alike
  <2>2. CASE k \notin reused
    BY <1>5, <1>6, <2>2, AlikeItself
  <2>3. QED
    BY <2>1, <2>2
<1>8. acc' = [acc EXCEPT ![k] = b]
  BY <1>3, <1>6
<1>9. /\ stage' \in [Chunks -> {"deposition", "trajectories", "completed"}]
      /\ acc' \in [Chunks -> Accumulator]
  BY <1>3, <1>4, <1>7, <1>8
<1>10. ASSUME NEW j \in Chunks PROVE Accumulated(j)'
  <2>1. CASE j = k
    <3>1. stage'[j] = "completed" /\ acc'[j] = b
      BY <1>3, <1>4, <1>8, <2>1
    <3>2. Alike(b, ChunkResult(j))
      BY <1>5, <1>7, <2>1
    <3>3. \A x, y : Alike(x, y)' <=> Alike(x, y)
      BY <1>1, ResultsKept
    <3>4. ChunkResult(j)' = ChunkResult(j)
      BY <1>1, ResultsKept
    <3>5. QED
      BY <3>1, <3>2, <3>3, <3>4 DEF Accumulated
  <2>2. CASE j # k
    <3>1. stage'[j] = stage[j] /\ read'[j] = read[j] /\ acc'[j] = acc[j]
      BY <1>1, <1>3, <1>4, <1>8, <2>2
    <3>2. QED
      BY <1>1, <3>1, StepKeeps
  <2>3. QED
    BY <2>1, <2>2
<1>11. QED
  BY <1>1, <1>4, <1>9, <1>10, StepKeeps DEF IInv

LEMMA MergeStep ==
  ASSUME IInv, MergeNext
  PROVE  IInv'
<1>1. build' = build /\ stage' = stage /\ read' = read /\ acc' = acc
  BY DEF MergeNext
<1>2. PICK k : k = nextMerge
  OBVIOUS
<1>3. /\ \A j \in Chunks : stage[j] = "completed"
      /\ k < workers /\ merged' = Merge(merged, acc[k]) /\ nextMerge' = k + 1
  BY <1>2 DEF MergeNext
<1>4. /\ BuildOK /\ weighted \in BOOLEAN
      /\ stage \in [Chunks -> {"deposition", "trajectories", "completed"}]
      /\ read \in [Chunks -> 0 .. Len(input.trajectories)]
      /\ acc \in [Chunks -> Accumulator] /\ merged \in Accumulator
      /\ \A j \in Chunks : Accumulated(j)
      /\ k \in 0 .. workers /\ workers \in Nat
  BY <1>2, IInvParts
<1>5. k \in Chunks /\ k + 1 \in 0 .. workers /\ k + 1 # 0
  BY <1>3, <1>4 DEF Chunks
<1>6. PICK b : b = IF k = 0 THEN EmptyAccumulator ELSE SerialUpTo(k)
  OBVIOUS
<1>7. Alike(merged, b)
  BY <1>2, <1>4, <1>6, AlikeItself DEF IInv
<1>8. Alike(acc[k], ChunkResult(k))
  BY <1>3, <1>4, <1>5 DEF Accumulated
<1>9. Alike(Merge(merged, acc[k]), Merge(b, ChunkResult(k)))
  BY <1>4, <1>7, <1>8, AlikeMerge
<1>10. Alike(merged', SerialUpTo(k + 1))
  BY <1>3, <1>4, <1>5, <1>6, <1>9, MergeChunk
<1>11. merged' \in Accumulator
  BY <1>10 DEF Alike
<1>12. Alike(merged, SerialUpTo(nextMerge))'
  <2>1. \A x, y : Alike(x, y)' <=> Alike(x, y)
    BY <1>1, ResultsKept
  <2>2. \A n : SerialUpTo(n)' = SerialUpTo(n)
    BY <1>1, ResultsKept
  <2>3. QED
    BY <1>3, <1>10, <2>1, <2>2
<1>13. \A j \in Chunks : Accumulated(j)'
  BY <1>1, StepKeeps
<1>14. QED
  BY <1>1, <1>3, <1>4, <1>5, <1>11, <1>12, <1>13, StepKeeps DEF IInv

LEMMA Stutter ==
  ASSUME IInv, UNCHANGED vars
  PROVE  IInv'
<1>1. /\ build' = build /\ stage' = stage /\ read' = read /\ acc' = acc
      /\ nextMerge' = nextMerge /\ merged' = merged
  BY DEF vars
<1>2. \A j \in Chunks : Accumulated(j)'
  BY <1>1, StepKeeps
<1>3. QED
  BY <1>1, <1>2, IInvParts, StepKeeps DEF IInv

LEMMA Inductive == Spec => []IInv
<1>1. Init => IInv
  BY StartInvariant
<1>2. IInv /\ [Next]_vars => IInv'
  BY DepositionStep, TrajectoryStep, ImpactStep, MergeStep, Stutter DEF Next, Done
<1>3. QED
  BY <1>1, <1>2, PTL DEF Spec

LEMMA TypesFollow ==
  ASSUME IInv
  PROVE  TypeOK
<1>2. ASSUME NEW a \in Accumulator PROVE AccumulatorOK(a)
  <2>1. /\ a.grids \in [Layer -> [Cell -> Nat]]
        /\ IF weighted THEN a.weighted \in [Weighable -> [Cell -> Nat]]
           ELSE a.weighted = NoGrids
        /\ a.impactWeight \in Nat
        /\ a.peak \in [Peaked -> [Cell -> Nat \cup {NoData}]]
        /\ a.samples \in [Quantity -> [Cell -> Seq(Nat)]]
        /\ a.count \in [Counter -> Nat]
    BY FieldTypes
  <2>2. \A s \in Seq(Nat) : ToSet(s) \subseteq Nat
    BY DEF ToSet
  <2>3. QED
    BY <2>1, <2>2 DEF AccumulatorOK
<1>3. /\ stage \in [Chunks -> {"deposition", "trajectories", "completed"}]
      /\ read \in [Chunks -> 0 .. Len(input.trajectories)]
      /\ acc \in [Chunks -> Accumulator] /\ merged \in Accumulator
      /\ nextMerge \in 0 .. workers
  BY IInvParts
<1>4. \A k \in Chunks : read[k] \in 0 .. Len(input.trajectories) /\ AccumulatorOK(acc[k])
  BY <1>2, <1>3
<1>5. AccumulatorOK(merged)
  BY <1>2, <1>3
<1>6. QED
  BY <1>3, <1>4, <1>5 DEF TypeOK

\* Every accumulator and the loops keep their shape, for any files, any grid and
\* any number of chunks.
THEOREM TypeCorrect == Spec => []TypeOK
<1>1. IInv => TypeOK
  BY TypesFollow
<1>2. QED
  BY <1>1, Inductive, PTL

LEMMA SerialFollows ==
  ASSUME IInv
  PROVE  MergedIsSerial
<1>1. SUFFICES ASSUME nextMerge = workers
               PROVE  /\ Unweighted(merged) = Unweighted(SerialAccumulator)
                      /\ weighted =>
                           \A l \in Weighable :
                             l # <<"reach">> \/ reused = {} =>
                               merged.weighted[l] = SerialAccumulator.weighted[l]
  BY DEF MergedIsSerial
<1>2. BuildOK /\ workers # 0
  BY <1>1, IInvParts, ValueAssumption DEF BuildOK
<1>3. Alike(merged, SerialAccumulator)
  BY <1>1, <1>2, SerialEnd DEF IInv
<1>4. PICK s : s = SerialAccumulator
  OBVIOUS
<1>5. /\ merged \in Accumulator /\ s \in Accumulator
      /\ merged.grids = s.grids /\ merged.impactWeight = s.impactWeight
      /\ merged.peak = s.peak /\ merged.samples = s.samples
      /\ merged.points = s.points /\ merged.count = s.count
      /\ weighted => \A l \in Weighable :
           l # <<"reach">> \/ reused = {} => merged.weighted[l] = s.weighted[l]
  BY <1>3, <1>4 DEF Alike
<1>6. ASSUME NEW a \in Accumulator
      PROVE  Unweighted(a) =
               [grids |-> a.grids, weighted |-> NoGrids, impactWeight |-> a.impactWeight,
                peak |-> a.peak, samples |-> a.samples, points |-> a.points,
                count |-> a.count]
  <2>1. Unweighted(a) = [a EXCEPT !.weighted = NoGrids]
    BY DEF Unweighted
  <2>2. QED
    BY <2>1 DEF Accumulator
<1>7. Unweighted(merged) = Unweighted(s)
  BY <1>5, <1>6
<1>8. QED
  BY <1>4, <1>5, <1>7

\* Merging the chunks yields what one pass over all files yields, whatever the
\* files, the number of chunks, the chunks that are reused and the interleaving.
THEOREM MergedIsSerialHolds == Spec => []MergedIsSerial
<1>1. IInv => MergedIsSerial
  BY SerialFollows
<1>2. QED
  BY <1>1, Inductive, PTL

LEMMA SerialExactly ==
  ASSUME IInv, reused = {} \/ ~ weighted
  PROVE  PreservesSerialOutput
<1>1. SUFFICES ASSUME nextMerge = workers PROVE merged = SerialAccumulator
  BY DEF PreservesSerialOutput
<1>2. BuildOK /\ workers # 0
  BY <1>1, IInvParts, ValueAssumption DEF BuildOK
<1>3. PICK s : s = SerialAccumulator
  OBVIOUS
<1>4. Alike(merged, s)
  BY <1>1, <1>2, <1>3, SerialEnd DEF IInv
<1>5. /\ merged \in Accumulator /\ s \in Accumulator
      /\ merged.grids = s.grids /\ merged.impactWeight = s.impactWeight
      /\ merged.peak = s.peak /\ merged.samples = s.samples
      /\ merged.points = s.points /\ merged.count = s.count
      /\ weighted => \A l \in Weighable : merged.weighted[l] = s.weighted[l]
  BY <1>4 DEF Alike
<1>6. merged = s
  BY <1>5, Extensional
<1>7. QED
  BY <1>3, <1>6

\* Where the run that refutes PreservesSerialOutput cannot happen: a build that
\* reuses no chunk, or has no weights, keeps every serial output value.
THEOREM FreshBuildsPreserveSerialOutput ==
  Spec => [](reused = {} \/ ~ weighted => PreservesSerialOutput)
<1>1. IInv => (reused = {} \/ ~ weighted => PreservesSerialOutput)
  BY SerialExactly
<1>2. QED
  BY <1>1, Inductive, PTL
-------------------------------------------------------------------------------
(* Layers that agree with each other *)

LEMMA ToSetAppend ==
  ASSUME NEW S, NEW s \in Seq(S), NEW e \in S
  PROVE  ToSet(Append(s, e)) = ToSet(s) \cup {e}
<1>1. /\ Append(s, e) \in Seq(S) /\ Len(Append(s, e)) = Len(s) + 1
      /\ \A i \in 1 .. Len(s) : Append(s, e)[i] = s[i]
      /\ Append(s, e)[Len(s) + 1] = e
  BY AppendProperties
<1>2. Len(s) \in Nat /\ DOMAIN s = 1 .. Len(s) /\ DOMAIN Append(s, e) = 1 .. Len(s) + 1
  BY <1>1, LenProperties
<1>3. QED
  BY <1>1, <1>2 DEF ToSet

LEMMA ToSetConcat ==
  ASSUME NEW S, NEW s \in Seq(S), NEW t \in Seq(S)
  PROVE  /\ ToSet(s \o t) = ToSet(s) \cup ToSet(t)
         /\ Len(s \o t) = Len(s) + Len(t)
         /\ s \o t = <<>> <=> s = <<>> /\ t = <<>>
<1> DEFINE r == s \o t
<1>1. /\ r \in Seq(S) /\ Len(r) = Len(s) + Len(t)
      /\ \A i \in 1 .. Len(r) : r[i] = IF i <= Len(s) THEN s[i] ELSE t[i - Len(s)]
  BY ConcatProperties
<1>2. /\ Len(s) \in Nat /\ Len(t) \in Nat /\ DOMAIN s = 1 .. Len(s) /\ DOMAIN t = 1 .. Len(t)
      /\ DOMAIN r = 1 .. Len(s) + Len(t)
  BY <1>1, LenProperties
<1> HIDE DEF r
<1>3. ASSUME NEW i \in 1 .. Len(s) PROVE r[i] = s[i] /\ i \in DOMAIN r
  BY <1>1, <1>2
<1>4. ASSUME NEW i \in 1 .. Len(t) PROVE r[Len(s) + i] = t[i] /\ Len(s) + i \in DOMAIN r
  BY <1>1, <1>2
<1>5. ASSUME NEW i \in DOMAIN r
      PROVE  (\E j \in 1 .. Len(s) : r[i] = s[j]) \/ (\E j \in 1 .. Len(t) : r[i] = t[j])
  <2>1. CASE i <= Len(s)
    BY <1>1, <1>2, <2>1
  <2>2. CASE ~ (i <= Len(s))
    <3>1. i - Len(s) \in 1 .. Len(t) /\ r[i] = t[i - Len(s)]
      BY <1>1, <1>2, <2>2
    <3>2. QED
      BY <3>1
  <2>3. QED
    BY <2>1, <2>2
<1>6. ToSet(r) = ToSet(s) \cup ToSet(t)
  <2>1. /\ ToSet(s) = {s[i] : i \in 1 .. Len(s)} /\ ToSet(t) = {t[i] : i \in 1 .. Len(t)}
        /\ ToSet(r) = {r[i] : i \in DOMAIN r}
    BY <1>2 DEF ToSet
  <2>2. ASSUME NEW x \in ToSet(r) PROVE x \in ToSet(s) \cup ToSet(t)
    BY <1>5, <2>1
  <2>3. ASSUME NEW x \in ToSet(s) PROVE x \in ToSet(r)
    BY <1>3, <2>1
  <2>4. ASSUME NEW x \in ToSet(t) PROVE x \in ToSet(r)
    BY <1>4, <2>1
  <2>5. QED
    BY <2>2, <2>3, <2>4
<1>7. r = <<>> <=> s = <<>> /\ t = <<>>
  BY <1>1, <1>2, EmptySeq
<1>8. QED
  BY <1>1, <1>6, <1>7 DEF r

LEMMA ValuesAppend ==
  ASSUME NEW s \in Seq(Sample), NEW e \in Sample, NEW q \in Quantity, NEW c \in Cell
  PROVE  ValuesIn(Append(s, e), q, c) =
           IF e.cell = c /\ e.value[q] # Missing
           THEN Append(ValuesIn(s, q, c), e.value[q])
           ELSE ValuesIn(s, q, c)
<1>1. Gathering!Folded(NoValues, Append(s, e)) = AddValues(Gathering!Folded(NoValues, s), e)
  BY Gathering!FoldAppend
<1>2. /\ ValuesIn(Append(s, e), q, c) = Gathering!Folded(NoValues, Append(s, e))[q][c]
      /\ ValuesIn(s, q, c) = Gathering!Folded(NoValues, s)[q][c]
  BY SampleFolds DEF ValuesIn
<1>3. PICK v : v = Gathering!Folded(NoValues, s)
  OBVIOUS
<1>4. AddValues(v, e)[q][c] =
        IF e.cell = c /\ e.value[q] # Missing THEN Append(v[q][c], e.value[q]) ELSE v[q][c]
  BY Zenon DEF AddValues
<1>5. QED
  BY <1>1, <1>2, <1>3, <1>4

\* A cell has values of a trajectory only if the trajectory visits it.
LEMMA ValuesVisit ==
  ASSUME NEW c \in Cell, NEW q \in Quantity
  PROVE  \A s \in Seq(Sample) : ValuesIn(s, q, c) # <<>> => \E e \in ToSet(s) : e.cell = c
<1> DEFINE Visits(s) == ValuesIn(s, q, c) # <<>> => \E e \in ToSet(s) : e.cell = c
           Q == {s \in Seq(Sample) : Visits(s)}
<1>1. <<>> \in Q
  <2>1. Gathering!Folded(NoValues, <<>>) = NoValues
    BY Gathering!FoldEmpty
  <2>2. ValuesIn(<<>>, q, c) = <<>>
    BY <2>1, SampleFolds DEF ValuesIn, NoValues
  <2>3. QED
    BY <2>2, EmptySeq
<1>2. ASSUME NEW s \in Seq(Sample), NEW e \in Sample, s \in Q PROVE Append(s, e) \in Q
  <2>1. Append(s, e) \in Seq(Sample)
    BY AppendProperties
  <2>2. ToSet(Append(s, e)) = ToSet(s) \cup {e}
    BY ToSetAppend
  <2>3. Visits(s)
    BY <1>2
  <2>4. Visits(Append(s, e))
    BY <2>2, <2>3, ValuesAppend
  <2>5. QED
    BY <2>1, <2>4
<1>3. Seq(Sample) \subseteq Q
  <2> HIDE DEF Q
  <2>1. QED
    BY <1>1, <1>2, Gathering!SequenceInduction
<1>4. QED
  BY <1>3

\* The maximum that values leave is the greatest of them and of the maximum before.
PeakAfter(r, v, s) ==
  /\ r \in Nat \cup {NoData}
  /\ r = NoData <=> v = NoData /\ s = <<>>
  /\ r = v \/ r \in ToSet(s)
  /\ v # NoData => v <= r
  /\ \A w \in ToSet(s) : w <= r

LEMMA PeakGrows ==
  ASSUME NEW v \in Nat \cup {NoData}
  PROVE  \A s \in Seq(Nat) : PeakAfter(FoldLeft(Greater, v, s), v, s)
<1>1. PICK S : S = Nat
  OBVIOUS
<1> DEFINE Q == {s \in Seq(S) : PeakAfter(Peaking!Folded(v, s), v, s)}
<1>2. <<>> \in Q
  <2>1. Peaking!Folded(v, <<>>) = v
    BY Peaking!FoldEmpty
  <2>2. ToSet(<<>>) = {}
    BY DEF ToSet
  <2>3. PeakAfter(v, v, <<>>)
    BY <2>2 DEF PeakAfter
  <2>4. QED
    BY <2>1, <2>3, EmptySeq
<1>3. ASSUME NEW s \in Seq(S), NEW w \in S, s \in Q PROVE Append(s, w) \in Q
  <2>1. PICK r : r = Peaking!Folded(v, s)
    OBVIOUS
  <2>2. PeakAfter(r, v, s)
    BY <1>3, <2>1
  <2>3. Peaking!Folded(v, Append(s, w)) = Greater(r, w)
    BY <2>1, Peaking!FoldAppend
  <2>4. /\ Append(s, w) \in Seq(S) /\ Append(s, w) # <<>>
        /\ ToSet(Append(s, w)) = ToSet(s) \cup {w}
    <3>1. /\ Append(s, w) \in Seq(S) /\ Len(Append(s, w)) = Len(s) + 1 /\ Len(s) \in Nat
      BY AppendProperties, LenProperties
    <3>2. ToSet(Append(s, w)) = ToSet(s) \cup {w}
      BY ToSetAppend
    <3>3. QED
      BY <3>1, <3>2, EmptySeq
  <2>5. ToSet(s) \subseteq Nat
    BY <1>1 DEF ToSet
  <2>6. PICK u : u = Append(s, w)
    OBVIOUS
  <2>7. PeakAfter(Greater(r, w), v, u)
    <3>1. w \in Nat /\ NoData \notin Nat
      BY <1>1, ValueAssumption
    <3>2. u # <<>> /\ ToSet(u) = ToSet(s) \cup {w}
      BY <2>4, <2>6
    <3>3. QED
      BY <2>2, <2>5, <3>1, <3>2 DEF PeakAfter, Greater
  <2>8. QED
    BY <2>3, <2>4, <2>6, <2>7
<1>4. Seq(S) \subseteq Q
  <2> HIDE DEF Q
  <2>1. QED
    BY <1>2, <1>3, Peaking!SequenceInduction
<1>5. QED
  BY <1>1, <1>4, SampleFolds

\* What Coherent says of one accumulator and one cell.
CoherentIn(a, c) ==
  /\ a.grids[<<"reach">>][c] <= a.count["trajectories"]
  /\ \A q \in Peaked :
       /\ a.grids[<<"support", q>>][c] = Len(a.samples[q][c])
       /\ IF a.samples[q][c] = <<>> THEN a.peak[q][c] = NoData
          ELSE a.peak[q][c] \in ToSet(a.samples[q][c])
       /\ \A t \in Threshold :
            a.grids[<<"exceed", q, t>>][c] > 0
              <=> a.peak[q][c] # NoData /\ a.peak[q][c] >= t
  /\ \A q \in Quantity, t \in Threshold :
       /\ a.grids[<<"exceed", q, t>>][c] <= a.grids[<<"reach">>][c]
       /\ \A u \in Threshold :
            t <= u => a.grids[<<"exceed", q, u>>][c] <= a.grids[<<"exceed", q, t>>][c]

CoherentAccumulator == {a \in Accumulator : \A c \in Cell : CoherentIn(a, c)}

LEMMA LayerNames ==
  /\ <<"reach">> \in Layer /\ Peaked \subseteq Quantity
  /\ \A q \in Peaked : <<"support", q>> \in Layer
  /\ \A q \in Quantity, t \in Threshold : <<"exceed", q, t>> \in Layer
  /\ \A q, t : /\ <<"exceed", q, t>> # <<"deposition">> /\ <<"exceed", q, t>> # <<"impact">>
               /\ <<"support", q>> # <<"deposition">> /\ <<"support", q>> # <<"impact">>
               /\ <<"reach">> # <<"deposition">> /\ <<"reach">> # <<"impact">>
BY DEF Layer, Weighable, Peaked, Quantity

\* Accumulators that agree in what Coherent is about are coherent together.
LEMMA CoherentTransfers ==
  ASSUME NEW a \in CoherentAccumulator, NEW b \in Accumulator,
         \A l \in Layer \ {<<"deposition">>, <<"impact">>} :
           \A c \in Cell : b.grids[l][c] = a.grids[l][c],
         b.peak = a.peak, b.samples = a.samples,
         b.count["trajectories"] = a.count["trajectories"]
  PROVE  b \in CoherentAccumulator
<1>1. SUFFICES ASSUME NEW c \in Cell PROVE CoherentIn(b, c)
  BY DEF CoherentAccumulator
<1>2. CoherentIn(a, c)
  BY DEF CoherentAccumulator
<1>3. /\ b.grids[<<"reach">>][c] = a.grids[<<"reach">>][c]
      /\ \A q \in Peaked : b.grids[<<"support", q>>][c] = a.grids[<<"support", q>>][c]
      /\ \A q \in Quantity, t \in Threshold :
           b.grids[<<"exceed", q, t>>][c] = a.grids[<<"exceed", q, t>>][c]
  BY LayerNames
<1>4. QED
  BY <1>2, <1>3, LayerNames DEF CoherentIn

LEMMA EmptyCoherent ==
  ASSUME weighted \in BOOLEAN
  PROVE  EmptyAccumulator \in CoherentAccumulator
<1>1. PICK e : e = EmptyAccumulator
  OBVIOUS
<1>2. /\ e \in Accumulator
      /\ \A l \in Layer, c \in Cell : e.grids[l][c] = 0
      /\ \A q \in Peaked, c \in Cell : e.peak[q][c] = NoData
      /\ \A q \in Quantity, c \in Cell : e.samples[q][c] = <<>>
      /\ e.count["trajectories"] = 0
  BY <1>1, EmptyView DEF Counter
<1>3. ASSUME NEW c \in Cell PROVE CoherentIn(e, c)
  <2>1. /\ e.grids[<<"reach">>][c] = 0
        /\ \A q \in Peaked : e.grids[<<"support", q>>][c] = 0
        /\ \A q \in Quantity, t \in Threshold : e.grids[<<"exceed", q, t>>][c] = 0
    BY <1>2, LayerNames
  <2>2. Len(<<>>) = 0
    BY EmptySeq
  <2>3. QED
    BY <1>2, <2>1, <2>2, LayerNames DEF CoherentIn
<1>4. QED
  BY <1>1, <1>2, <1>3 DEF CoherentAccumulator

LEMMA DepositionCoherent ==
  ASSUME NEW a \in CoherentAccumulator, NEW p \in Points
  PROVE  AddDeposition(a, p) \in CoherentAccumulator
<1>1. PICK m : m = AddDeposition(a, p)
  OBVIOUS
<1>2. a \in Accumulator
  BY DEF CoherentAccumulator
<1>3. DepositionIn(m, a)
  BY <1>1, <1>2, DepositionView
<1>4. QED
  BY <1>1, <1>3, CoherentTransfers DEF DepositionIn

LEMMA ImpactCoherent ==
  ASSUME NEW a \in CoherentAccumulator, NEW p
  PROVE  AddImpact(a, p) \in CoherentAccumulator
<1>1. PICK m : m = AddImpact(a, p)
  OBVIOUS
<1>2. a \in Accumulator
  BY DEF CoherentAccumulator
<1>3. ImpactIn(m, a, p)
  BY <1>1, <1>2, ImpactView
<1>4. \A l \in Layer \ {<<"deposition">>, <<"impact">>} :
        \A c \in Cell : m.grids[l][c] = a.grids[l][c]
  <2>1. \A l \in Layer, c \in Cell : a.grids[l][c] \in Nat
    BY <1>2, FieldTypes
  <2>2. \A l \in Layer, c \in Cell :
          m.grids[l][c] = a.grids[l][c] + (IF l = <<"impact">> /\ c = p.cell THEN 1 ELSE 0)
    BY <1>3 DEF ImpactIn
  <2>3. QED
    BY <2>1, <2>2
<1>5. /\ m \in Accumulator /\ m.peak = a.peak /\ m.samples = a.samples /\ m.count = a.count
  BY <1>3 DEF ImpactIn
<1>6. QED
  BY <1>1, <1>4, <1>5, CoherentTransfers

LEMMA ImpactFileCoherent ==
  ASSUME BuildOK, NEW a \in CoherentAccumulator, NEW f \in ImpactFiles
  PROVE  AddImpactFile(a, f) \in CoherentAccumulator
<1>1. PICK b : b = FoldLeft(AddImpact, a, f.points)
  OBVIOUS
<1>2. b \in CoherentAccumulator
  <2>1. PICK S : f.points \in Seq(S)
    BY Files
  <2>2. \A x \in CoherentAccumulator, e \in S : AddImpact(x, e) \in CoherentAccumulator
    BY ImpactCoherent
  <2>3. Hitting!Folded(a, f.points) \in CoherentAccumulator
    BY <2>1, <2>2, Hitting!FoldType
  <2>4. QED
    BY <1>1, <2>3, Folds
<1>3. PICK m : m = Tally(b, f)
  OBVIOUS
<1>4. TallyIn(m, b, f)
  BY <1>2, <1>3, TallyView DEF CoherentAccumulator
<1>5. m \in CoherentAccumulator
  <2>1. m.count["trajectories"] = b.count["trajectories"]
    BY <1>4 DEF TallyIn, Counter
  <2>2. m \in Accumulator /\ m.grids = b.grids /\ m.peak = b.peak /\ m.samples = b.samples
    BY <1>4 DEF TallyIn
  <2>3. QED
    BY <1>2, <2>1, <2>2, CoherentTransfers
<1>6. QED
  BY <1>1, <1>3, <1>5, ImpactFileTallies

\* What one trajectory adds: it is counted once where it was, its values make the
\* maximum, and the thresholds it exceeds are those its values reach.
LEMMA TrajectoryCoherent ==
  ASSUME BuildOK, NEW a \in CoherentAccumulator, NEW t \in Tracks
  PROVE  AddTrajectory(a, t) \in CoherentAccumulator
<1>1. PICK m : m = AddTrajectory(a, t)
  OBVIOUS
<1>2. a \in Accumulator
  BY DEF CoherentAccumulator
<1>3. TrajectoryIn(m, a, t)
  BY <1>1, <1>2, TrajectoryView
<1>4. t.samples \in Seq(Sample)
  BY Files
<1>5. m \in Accumulator
  BY <1>3 DEF TrajectoryIn
<1>6. ASSUME NEW c \in Cell PROVE CoherentIn(m, c)
  <2>1. CoherentIn(a, c)
    BY DEF CoherentAccumulator
  <2>2. /\ \A l \in Layer : m.grids[l][c] = a.grids[l][c] + Hits(t.samples, l, c)
        /\ m.count["trajectories"] = a.count["trajectories"] + 1
    BY <1>3 DEF TrajectoryIn
  <2>3. /\ \A l \in Layer : a.grids[l][c] \in Nat
        /\ a.count["trajectories"] \in Nat
    BY <1>2, FieldTypes DEF Counter
  <2>4. PICK V : \A q \in Quantity : V[q] = ValuesIn(t.samples, q, c)
    <3>1. \A q \in Quantity :
            [p \in Quantity |-> ValuesIn(t.samples, p, c)][q] = ValuesIn(t.samples, q, c)
      OBVIOUS
    <3>2. QED
      BY <3>1
  <2>5. \A q \in Quantity : V[q] \in Seq(Nat) /\ ToSet(V[q]) \subseteq Nat
    <3>1. \A q \in Quantity : V[q] \in Seq(Nat)
      BY <1>4, <2>4, ValuesType
    <3>2. \A s \in Seq(Nat) : ToSet(s) \subseteq Nat
      BY DEF ToSet
    <3>3. QED
      BY <3>1, <3>2
  <2>6. PICK reach : reach = Hits(t.samples, <<"reach">>, c)
    OBVIOUS
  <2>7. /\ reach \in {0, 1}
        /\ \A q \in Quantity : V[q] # <<>> => reach = 1
    <3>1. reach = IF \E e \in ToSet(t.samples) : e.cell = c THEN 1 ELSE 0
      BY <2>6 DEF Hits
    <3>2. \A q \in Quantity : V[q] # <<>> => \E e \in ToSet(t.samples) : e.cell = c
      BY <1>4, <2>4, ValuesVisit
    <3>3. QED
      BY <3>1, <3>2
  <2>8. /\ m.grids[<<"reach">>][c] = a.grids[<<"reach">>][c] + reach
        /\ a.grids[<<"reach">>][c] \in Nat
    BY <2>2, <2>3, <2>6, LayerNames
  <2>9. PICK over : \A q \in Quantity, u \in Threshold :
          over[q][u] = IF \E v \in ToSet(V[q]) : v >= u THEN 1 ELSE 0
    <3> DEFINE f == [q \in Quantity |-> [u \in Threshold |->
                       IF \E v \in ToSet(V[q]) : v >= u THEN 1 ELSE 0]]
    <3>1. \A q \in Quantity, u \in Threshold :
            f[q][u] = IF \E v \in ToSet(V[q]) : v >= u THEN 1 ELSE 0
      OBVIOUS
    <3> HIDE DEF f
    <3>2. QED
      BY <3>1
  <2>10. ASSUME NEW q \in Quantity, NEW u \in Threshold
         PROVE  /\ m.grids[<<"exceed", q, u>>][c] = a.grids[<<"exceed", q, u>>][c] + over[q][u]
                /\ a.grids[<<"exceed", q, u>>][c] \in Nat
                /\ over[q][u] \in {0, 1}
                /\ over[q][u] = 1 <=> \E v \in ToSet(V[q]) : v >= u
                /\ over[q][u] <= reach
    <3>1. Hits(t.samples, <<"exceed", q, u>>, c)
            = IF \E v \in ToSet(ValuesIn(t.samples, q, c)) : v >= u THEN 1 ELSE 0
      BY DEF Hits
    <3>2. Hits(t.samples, <<"exceed", q, u>>, c) = over[q][u]
      BY <2>4, <2>9, <3>1
    <3>3. m.grids[<<"exceed", q, u>>][c] = a.grids[<<"exceed", q, u>>][c] + over[q][u]
      BY <2>2, <3>2, LayerNames
    <3>4. (\E v \in ToSet(V[q]) : v >= u) => V[q] # <<>>
      <4>1. ToSet(<<>>) = {}
        BY DEF ToSet
      <4>2. QED
        BY <4>1
    <3>5. QED
      BY <2>3, <2>7, <2>9, <3>3, <3>4, LayerNames
  <2>11. m.grids[<<"reach">>][c] <= m.count["trajectories"]
    <3>1. a.grids[<<"reach">>][c] <= a.count["trajectories"]
      BY <2>1 DEF CoherentIn
    <3>2. QED
      BY <2>2, <2>3, <2>7, <2>8, <3>1
  <2>12. ASSUME NEW q \in Quantity, NEW u \in Threshold
         PROVE  /\ m.grids[<<"exceed", q, u>>][c] <= m.grids[<<"reach">>][c]
                /\ \A w \in Threshold :
                     u <= w => m.grids[<<"exceed", q, w>>][c] <= m.grids[<<"exceed", q, u>>][c]
    <3>1. /\ a.grids[<<"exceed", q, u>>][c] <= a.grids[<<"reach">>][c]
          /\ \A w \in Threshold :
               u <= w => a.grids[<<"exceed", q, w>>][c] <= a.grids[<<"exceed", q, u>>][c]
      BY <2>1 DEF CoherentIn
    <3>2. m.grids[<<"exceed", q, u>>][c] <= m.grids[<<"reach">>][c]
      <4>1. /\ m.grids[<<"exceed", q, u>>][c] = a.grids[<<"exceed", q, u>>][c] + over[q][u]
            /\ a.grids[<<"exceed", q, u>>][c] \in Nat
            /\ over[q][u] \in {0, 1} /\ over[q][u] <= reach
        BY <2>10
      <4>2. QED
        BY <2>7, <2>8, <3>1, <4>1
    <3>3. ASSUME NEW w \in Threshold, u <= w
          PROVE  m.grids[<<"exceed", q, w>>][c] <= m.grids[<<"exceed", q, u>>][c]
      <4>1. over[q][w] <= over[q][u]
        <5>1. u \in Nat /\ w \in Nat /\ ToSet(V[q]) \subseteq Nat
          BY <2>5, ValueAssumption
        <5>2. (\E v \in ToSet(V[q]) : v >= w) => \E v \in ToSet(V[q]) : v >= u
          BY <3>3, <5>1
        <5>3. QED
          BY <2>9, <5>2
      <4>2. /\ m.grids[<<"exceed", q, u>>][c] = a.grids[<<"exceed", q, u>>][c] + over[q][u]
            /\ m.grids[<<"exceed", q, w>>][c] = a.grids[<<"exceed", q, w>>][c] + over[q][w]
            /\ a.grids[<<"exceed", q, u>>][c] \in Nat /\ a.grids[<<"exceed", q, w>>][c] \in Nat
            /\ over[q][u] \in {0, 1} /\ over[q][w] \in {0, 1}
        BY <2>10
      <4>3. QED
        BY <3>1, <3>3, <4>1, <4>2
    <3>4. QED
      BY <3>2, <3>3
  <2>13. ASSUME NEW q \in Peaked
         PROVE  /\ m.grids[<<"support", q>>][c] = Len(m.samples[q][c])
                /\ IF m.samples[q][c] = <<>> THEN m.peak[q][c] = NoData
                   ELSE m.peak[q][c] \in ToSet(m.samples[q][c])
                /\ \A u \in Threshold :
                     m.grids[<<"exceed", q, u>>][c] > 0
                       <=> m.peak[q][c] # NoData /\ m.peak[q][c] >= u
    <3>1. q \in Quantity /\ V[q] \in Seq(Nat) /\ ToSet(V[q]) \subseteq Nat
      BY <2>5, LayerNames
    <3>2. PICK s : s = a.samples[q][c]
      OBVIOUS
    <3>3. PICK v : v = a.peak[q][c]
      OBVIOUS
    <3>4. PICK r : r = m.peak[q][c]
      OBVIOUS
    <3>5. s \in Seq(Nat) /\ v \in Nat \cup {NoData}
      BY <1>2, <3>1, <3>2, <3>3, FieldTypes
    <3>6. /\ m.samples[q][c] = s \o V[q]
          /\ r = FoldLeft(Greater, v, V[q])
      BY <1>3, <2>4, <3>1, <3>2, <3>3, <3>4 DEF TrajectoryIn
    <3>7. PeakAfter(r, v, V[q])
      BY <3>1, <3>5, <3>6, PeakGrows
    <3>8. /\ a.grids[<<"support", q>>][c] = Len(s)
          /\ IF s = <<>> THEN v = NoData ELSE v \in ToSet(s)
          /\ \A u \in Threshold :
               a.grids[<<"exceed", q, u>>][c] > 0 <=> v # NoData /\ v >= u
      BY <2>1, <3>2, <3>3 DEF CoherentIn
    <3>9. PICK z : z = s \o V[q]
      OBVIOUS
    <3>10. /\ ToSet(z) = ToSet(s) \cup ToSet(V[q])
           /\ Len(z) = Len(s) + Len(V[q])
           /\ z = <<>> <=> s = <<>> /\ V[q] = <<>>
      <4>1. PICK S : s \in Seq(S) /\ V[q] \in Seq(S)
        BY <3>1, <3>5
      <4>2. QED
        BY <3>9, <4>1, ToSetConcat
    <3>11. m.grids[<<"support", q>>][c] = Len(z)
      <4>1. Hits(t.samples, <<"support", q>>, c) = Len(V[q])
        BY <2>4, <3>1 DEF Hits
      <4>2. QED
        BY <2>2, <3>8, <3>10, <4>1, LayerNames
    <3>12. NoData \notin ToSet(s) /\ NoData \notin ToSet(V[q]) /\ NoData \notin Nat
      <4>1. ToSet(s) \subseteq Nat
        BY <3>5 DEF ToSet
      <4>2. QED
        BY <3>1, <4>1, ValueAssumption
    <3>13. IF z = <<>> THEN r = NoData ELSE r \in ToSet(z)
      BY <3>7, <3>8, <3>10, <3>12 DEF PeakAfter
    <3>14. ASSUME NEW u \in Threshold
           PROVE  m.grids[<<"exceed", q, u>>][c] > 0 <=> r # NoData /\ r >= u
      <4>1. /\ m.grids[<<"exceed", q, u>>][c] = a.grids[<<"exceed", q, u>>][c] + over[q][u]
            /\ a.grids[<<"exceed", q, u>>][c] \in Nat
            /\ over[q][u] \in {0, 1}
            /\ over[q][u] = 1 <=> \E w \in ToSet(V[q]) : w >= u
        BY <2>10, <3>1
      <4>2. u \in Nat
        BY ValueAssumption
      <4>3. m.grids[<<"exceed", q, u>>][c] > 0
              <=> (v # NoData /\ v >= u) \/ \E w \in ToSet(V[q]) : w >= u
        BY <3>8, <4>1
      <4>4. (v # NoData /\ v >= u) \/ (\E w \in ToSet(V[q]) : w >= u)
              => r # NoData /\ r >= u
        <5>1. CASE v # NoData /\ v >= u
          BY <3>5, <3>7, <3>12, <4>2, <5>1 DEF PeakAfter
        <5>2. CASE \E w \in ToSet(V[q]) : w >= u
          <6>1. PICK w \in ToSet(V[q]) : w >= u
            BY <5>2
          <6>2. V[q] # <<>>
            BY <6>1 DEF ToSet
          <6>3. r \in Nat /\ r # NoData /\ w \in Nat /\ w <= r
            BY <3>1, <3>7, <3>12, <6>1, <6>2 DEF PeakAfter
          <6>4. QED
            BY <4>2, <6>1, <6>3
        <5>3. QED
          BY <5>1, <5>2
      <4>5. r # NoData /\ r >= u
              => (v # NoData /\ v >= u) \/ (\E w \in ToSet(V[q]) : w >= u)
        <5>1. r = v \/ r \in ToSet(V[q])
          BY <3>7 DEF PeakAfter
        <5>2. QED
          BY <5>1
      <4>6. QED
        BY <4>3, <4>4, <4>5
    <3>15. QED
      BY <3>4, <3>6, <3>9, <3>11, <3>13, <3>14
  <2>14. QED
    BY <2>11, <2>12, <2>13 DEF CoherentIn
<1>7. QED
  BY <1>1, <1>5, <1>6 DEF CoherentAccumulator

LEMMA SharesCoherent ==
  ASSUME BuildOK, NEW a \in CoherentAccumulator
  PROVE  /\ \A s \in Seq(Points) : FoldLeft(AddDeposition, a, s) \in CoherentAccumulator
         /\ \A s \in Seq(Tracks) : FoldLeft(AddTrajectory, a, s) \in CoherentAccumulator
         /\ \A s \in Seq(ImpactFiles) : FoldLeft(AddImpactFile, a, s) \in CoherentAccumulator
<1>1. \A s \in Seq(Points) : Depositing!Folded(a, s) \in CoherentAccumulator
  <2>1. \A x \in CoherentAccumulator, e \in Points : AddDeposition(x, e) \in CoherentAccumulator
    BY DepositionCoherent
  <2>2. QED
    BY <2>1, Depositing!FoldType
<1>2. \A s \in Seq(Tracks) : Moving!Folded(a, s) \in CoherentAccumulator
  <2>1. \A x \in CoherentAccumulator, e \in Tracks : AddTrajectory(x, e) \in CoherentAccumulator
    BY TrajectoryCoherent
  <2>2. QED
    BY <2>1, Moving!FoldType
<1>3. \A s \in Seq(ImpactFiles) : Impacting!Folded(a, s) \in CoherentAccumulator
  <2>1. \A x \in CoherentAccumulator, e \in ImpactFiles :
          AddImpactFile(x, e) \in CoherentAccumulator
    BY ImpactFileCoherent
  <2>2. QED
    BY <2>1, Impacting!FoldType
<1>4. QED
  BY <1>1, <1>2, <1>3, Folds

LEMMA AlikeCoherent ==
  ASSUME NEW a, NEW b \in CoherentAccumulator, Alike(a, b)
  PROVE  a \in CoherentAccumulator
<1>1. /\ a \in Accumulator /\ a.grids = b.grids /\ a.peak = b.peak
      /\ a.samples = b.samples /\ a.count = b.count
  BY DEF Alike
<1>2. QED
  BY <1>1, CoherentTransfers

\* What the threads and the merge hold is coherent, by what the invariant says
\* it is.
LEMMA ResultsCoherent ==
  ASSUME BuildOK, NEW k \in Chunks
  PROVE  /\ \A n \in 0 .. Len(Share(input.trajectories, k)) :
              Gathered(k, n) \in CoherentAccumulator
         /\ ChunkResult(k) \in CoherentAccumulator
<1>1. PICK d : d = FoldLeft(AddDeposition, EmptyAccumulator, DepositionOf(k))
  OBVIOUS
<1>2. d \in CoherentAccumulator
  <2>1. EmptyAccumulator \in CoherentAccumulator
    BY EmptyCoherent DEF BuildOK
  <2>2. QED
    BY <1>1, <2>1, DepositionOfType, SharesCoherent
<1>3. PICK t : t = Share(input.trajectories, k)
  OBVIOUS
<1>4. t \in Seq(Tracks) /\ Share(input.impacts, k) \in Seq(ImpactFiles)
  BY <1>3, Files, ShareFacts
<1>5. ASSUME NEW n \in 0 .. Len(t) PROVE Gathered(k, n) \in CoherentAccumulator
  <2>1. SubSeq(t, 1, n) \in Seq(Tracks)
    <3>1. \A i \in 1 .. n : t[i] \in Tracks
      BY <1>4, ElementOfSeq, LenProperties
    <3>2. QED
      BY <3>1, SubSeqProperties
  <2>2. Gathered(k, n) = FoldLeft(AddTrajectory, d, SubSeq(t, 1, n))
    BY <1>1, <1>3 DEF Gathered
  <2>3. QED
    BY <1>2, <2>1, <2>2, SharesCoherent
<1>6. ChunkResult(k) \in CoherentAccumulator
  <2>1. Gathered(k, Len(t)) \in CoherentAccumulator
    BY <1>4, <1>5, LenProperties
  <2>2. QED
    BY <1>3, <1>4, <2>1, SharesCoherent DEF ChunkResult
<1>7. QED
  BY <1>3, <1>5, <1>6

LEMMA SerialCoherent ==
  ASSUME BuildOK, NEW k \in 1 .. workers
  PROVE  SerialUpTo(k) \in CoherentAccumulator
<1>1. PICK d : d = FoldLeft(AddDeposition, EmptyAccumulator, input.depositions)
  OBVIOUS
<1>2. d \in CoherentAccumulator
  <2>1. EmptyAccumulator \in CoherentAccumulator
    BY EmptyCoherent DEF BuildOK
  <2>2. QED
    BY <1>1, <2>1, Files, SharesCoherent
<1>3. PICK r : r = SubSeq(input.trajectories, 1, Cut(k, Len(input.trajectories)))
  OBVIOUS
<1>4. PICK s : s = SubSeq(input.impacts, 1, Cut(k, Len(input.impacts)))
  OBVIOUS
<1>5. PICK j \in Chunks : k = j + 1
  <2>1. workers \in Nat
    BY ValueAssumption DEF BuildOK
  <2>2. k - 1 \in Chunks /\ k = (k - 1) + 1
    BY <2>1 DEF Chunks
  <2>3. QED
    BY <2>2
<1>6. r \in Seq(Tracks) /\ s \in Seq(ImpactFiles)
  <2>1. /\ SubSeq(input.trajectories, 1, Cut(j, Len(input.trajectories))) \in Seq(Tracks)
        /\ Share(input.trajectories, j) \in Seq(Tracks)
        /\ SubSeq(input.trajectories, 1, Cut(j, Len(input.trajectories)))
             \o Share(input.trajectories, j) = r
    BY <1>3, <1>5, Files, ShareFacts
  <2>2. /\ SubSeq(input.impacts, 1, Cut(j, Len(input.impacts))) \in Seq(ImpactFiles)
        /\ Share(input.impacts, j) \in Seq(ImpactFiles)
        /\ SubSeq(input.impacts, 1, Cut(j, Len(input.impacts)))
             \o Share(input.impacts, j) = s
    BY <1>4, <1>5, Files, ShareFacts
  <2>3. r \in Seq(Tracks)
    BY <2>1, ConcatProperties
  <2>4. s \in Seq(ImpactFiles)
    BY <2>2, ConcatProperties
  <2>5. QED
    BY <2>3, <2>4
<1>7. PICK x : x = FoldLeft(AddTrajectory, d, r)
  OBVIOUS
<1>8. x \in CoherentAccumulator
  BY <1>2, <1>6, <1>7, SharesCoherent
<1>9. SerialUpTo(k) = FoldLeft(AddImpactFile, x, s)
  BY <1>1, <1>3, <1>4, <1>7 DEF SerialUpTo
<1>10. QED
  BY <1>6, <1>8, <1>9, SharesCoherent

LEMMA CoherentFollows ==
  ASSUME IInv
  PROVE  Coherent
<1>1. BuildOK
  BY IInvParts
<1>2. ASSUME NEW k \in Chunks PROVE acc[k] \in CoherentAccumulator
  <2>1. /\ stage[k] \in {"deposition", "trajectories", "completed"}
        /\ read[k] \in Nat /\ Accumulated(k)
    BY IInvParts DEF IInv
  <2>2. CASE stage[k] = "deposition"
    <3>1. acc[k] = EmptyAccumulator
      BY <2>1, <2>2 DEF Accumulated
    <3>2. QED
      BY <1>1, <3>1, EmptyCoherent DEF BuildOK
  <2>3. CASE stage[k] = "trajectories"
    <3>1. /\ read[k] <= Len(Share(input.trajectories, k))
          /\ acc[k] = Gathered(k, read[k])
      BY <2>1, <2>3 DEF Accumulated
    <3>2. Len(Share(input.trajectories, k)) \in Nat
      BY <1>1, Files, ShareFacts, LenProperties
    <3>3. read[k] \in 0 .. Len(Share(input.trajectories, k))
      BY <2>1, <3>1, <3>2
    <3>4. QED
      BY <1>1, <3>1, <3>3, ResultsCoherent
  <2>4. CASE stage[k] = "completed"
    <3>1. Alike(acc[k], ChunkResult(k))
      BY <2>1, <2>4 DEF Accumulated
    <3>2. QED
      BY <1>1, <3>1, ResultsCoherent, AlikeCoherent
  <2>5. QED
    BY <2>1, <2>2, <2>3, <2>4
<1>3. merged \in CoherentAccumulator
  <2>1. CASE nextMerge = 0
    <3>1. merged = EmptyAccumulator
      BY <2>1 DEF IInv
    <3>2. QED
      BY <1>1, <3>1, EmptyCoherent DEF BuildOK
  <2>2. CASE nextMerge # 0
    <3>1. Alike(merged, SerialUpTo(nextMerge))
      BY <2>2 DEF IInv
    <3>2. nextMerge \in 1 .. workers
      <4>1. nextMerge \in 0 .. workers /\ workers \in Nat
        BY <1>1, IInvParts, ValueAssumption DEF BuildOK
      <4>2. QED
        BY <2>2, <4>1
    <3>3. QED
      BY <1>1, <3>1, <3>2, SerialCoherent, AlikeCoherent
  <2>3. QED
    BY <2>1, <2>2
<1>4. SUFFICES ASSUME NEW a \in {acc[k] : k \in Chunks} \cup {merged}, NEW c \in Cell
               PROVE  CoherentIn(a, c)
  BY Zenon DEF Coherent, CoherentIn
<1>5. a \in CoherentAccumulator
  BY <1>2, <1>3
<1>6. QED
  BY <1>5 DEF CoherentAccumulator

\* Whatever is accumulated, loaded or merged, each maximum stays one of the samples
\* behind it and in step with the thresholds, and no cell is reached more often
\* than trajectories were read.
THEOREM CoherentHolds == Spec => []Coherent
<1>1. IInv => Coherent
  BY CoherentFollows
<1>2. QED
  BY <1>1, Inductive, PTL
===============================================================================
