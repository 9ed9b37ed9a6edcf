----------------------------- MODULE MCHazardBuild -----------------------------
(* A small instance of HazardBuild for TLC: one build, started again and again. *)
EXTENDS HazardBuild

CONSTANTS p0, ownerA, outsider

OneProcess == {p0}
OneIndex == [p \in OneProcess |-> 0]
OneOwner == [p \in OneProcess |-> ownerA]
===============================================================================
