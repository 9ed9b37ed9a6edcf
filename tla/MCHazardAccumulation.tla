------------------------- MODULE MCHazardAccumulation -------------------------
(* A grid of two cells and files that tell the layers apart: repeated visits, *)
(* samples off the grid, values that are missing or straddle a threshold.    *)
EXTENDS HazardAccumulation

At(cell, kinetic, jump, speed) ==
  [cell |-> cell, value |-> [q \in {"kinetic", "jump", "speed"} |->
     CASE q = "kinetic" -> kinetic [] q = "jump" -> jump [] q = "speed" -> speed]]

File ==
  {[id |-> "heavy", samples |-> <<At("a", 1, 3, 2), At("a", 3, 1, 1), At("b", 2, Missing, 3)>>],
   [id |-> "light", samples |-> <<At("b", 1, 2, 2), At(Outside, 3, 3, 3)>>],
   [id |-> "light", samples |-> <<>>]}

TwoCells == {"a", "b"}
TwoThresholds == {2, 3}
TwoWeights == [id \in {"heavy", "light"} |-> IF id = "heavy" THEN 3 ELSE 1]
UpToThreeTrajectories == UNION {[1 .. n -> File] : n \in {0, 1, 2, 3}}
SomeDepositions == {<<>>, <<[cell |-> "a", id |-> "heavy"], [cell |-> "b", id |-> "filtered"]>>}
SomeImpacts ==
  LET one == [events |-> 2, significant |-> 1, points |-> <<[cell |-> "b", id |-> "light"]>>]
      two == [events |-> 3, significant |-> 2, points |-> <<[cell |-> "a", id |-> "heavy"],
                                                            [cell |-> Outside, id |-> "light"]>>]
  IN {<<>>, <<two, one>>}
===============================================================================
