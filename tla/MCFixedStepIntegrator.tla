------------------------- MODULE MCFixedStepIntegrator -------------------------
(* A small instance of FixedStepIntegrator for TLC. *)
EXTENDS FixedStepIntegrator

\* Soft to hard ground, slippery to sticky, and a perfect mirror.
SomeGround ==
  [normal : {0, 1, 2}, tangent : {1}, friction : {0, 1, 3}]
    \cup [normal : {2}, tangent : {2}, friction : {0}]

\* Released above, on and below the ground, falling, thrown up, uphill and downhill.
SomeRelease == [gap : {-5, 0, 1, 4}, vn : -1 .. 2, vt : {-3, 0, 2}]
===============================================================================
