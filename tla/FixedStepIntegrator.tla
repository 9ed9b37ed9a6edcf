-------------------------- MODULE FixedStepIntegrator --------------------------
(***************************************************************************)
(* The fixed-step integrator of src/integrator.rs with the contact model   *)
(* translational_v0, and the stop state simulation.rs derives from it.     *)
(*                                                                         *)
(* The terrain is an inclined plane and the block moves in the plane of    *)
(* steepest descent, so that its state is the gap to the ground and the    *)
(* velocities normal to the ground (vn) and along it (vt).  One step is    *)
(* the unit of time of the motion, and gap counts half units of length,    *)
(* which makes the ballistic step exact in whole numbers.  Restitution is  *)
(* in parts of Unit, and what it leaves of a speed is rounded down.        *)
(***************************************************************************)
EXTENDS Integers, FiniteSetsExt

CONSTANTS
  StepTime,     \* dt_s
  Horizons,     \* the values of max_time_s
  Gravities,    \* gravity normal to the ground, per step
  Slopes,       \* gravity along the ground, per step
  Unit,         \* parts of a restitution
  Ground,       \* contact parameters found on the terrain
  Rough,        \* roughness is active
  Scarring,     \* scarring_contact_v1 is configured
  StopSpeed,    \* stop_speed_mps
  NearGap,      \* CONTACT_DISTANCE_TOLERANCE_M; speeds have no tolerance
  Release       \* initial motions [gap, vn, vt]

ASSUME StepAssumption ==
  /\ StepTime \in Nat \ {0}
  /\ Horizons \subseteq Nat \ {0}
  /\ Gravities \subseteq Nat \ {0}
  /\ Slopes \subseteq Nat

ASSUME ContactAssumption ==
  /\ Unit \in Nat \ {0}
  /\ Ground \subseteq [normal : 0 .. Unit, tangent : 0 .. Unit, friction : Nat]
  /\ {Rough, Scarring} \subseteq BOOLEAN
  /\ StopSpeed \in Nat
  /\ NearGap \in Nat
  /\ Release \subseteq [gap : Int, vn : Int, vt : Int]

VARIABLES
  settings,   \* what is fixed for this run
  step,       \* steps taken, and samples but one
  motion,     \* [gap, vn, vt] of the last sample
  label,      \* its contact state
  ground,     \* contact parameters under it
  impacts,    \* number of impact events
  status,     \* "running", "returned" or "failed"
  reason      \* stop reason of a run that returned

vars == <<settings, step, motion, label, ground, impacts, status, reason>>
-------------------------------------------------------------------------------
\* "short" stands for rounding: the sum of the steps, which is the time of the last
\* sample, can stay short of a horizon of a whole number of steps by more than the
\* tolerance (it does for 15000 steps of 2 ms).
Settings == [horizon : Horizons, gravity : Gravities, slope : Slopes, short : BOOLEAN]
Motion == [gap : Int, vn : Int, vt : Int]
Label == {"airborne", "impact", "sliding", "stopped"}
Reason ==
  {"none", "explicit_stopped_state", "t_max_reached_airborne",
   "final_speed_below_stop_threshold", "t_max_reached_in_contact_state",
   "t_max_reached_other", "unknown"}

Magnitude(v) == IF v < 0 THEN 0 - v ELSE v

\* Mutant: a speed below the loss is turned round.
SlowedPastZero(v, loss) == IF v > 0 THEN v - loss ELSE IF v < 0 THEN v + loss ELSE 0
\* A velocity that loses so much speed, at most all of it.
Slowed(v, loss) == IF v > loss THEN v - loss ELSE IF v + loss < 0 THEN v + loss ELSE 0

\* What part/Unit leaves of a velocity.
Retained(v, part) == IF v < 0 THEN 0 - (Magnitude(v) * part) \div Unit ELSE (v * part) \div Unit

\* speed_mps <= stop_speed_mps.
IsSlow(m) == m.vn * m.vn + m.vt * m.vt <= StopSpeed * StopSpeed

MaxSteps == settings.horizon \div StepTime

Init ==
  /\ settings \in Settings
  /\ step = 0
  /\ motion \in Release
  /\ label = "airborne"  \* whatever the release is
  /\ ground \in Ground
  /\ impacts = 0
  /\ status = "running"
  /\ reason = "none"
-------------------------------------------------------------------------------
(* One step *)

\* ballistic_step.
Ballistic ==
  [gap |-> motion.gap + 2 * motion.vn - settings.gravity,
   vn |-> motion.vn - settings.gravity,
   vt |-> motion.vt + settings.slope]

\* sample_contact_roughness: noise takes from restitution and adds to friction; the
\* noise of the normal is left out.
Effective(g) ==
  IF Rough
  THEN {e \in Ground : e.normal <= g.normal /\ e.tangent <= g.tangent /\ e.friction >= g.friction}
  ELSE {g}

\* try_resolve_sphere_contact_with_normal, of a block that has come to the ground.
Impacted(m) == m.gap <= 0 /\ m.vn < 0
Response(m, e) ==
  IF m.gap > 0 THEN m
  ELSE IF ~Impacted(m) THEN [gap |-> 0, vn |-> 0, vt |-> m.vt]
  ELSE LET requested == Retained(Magnitude(m.vt), Unit - e.tangent)
           cap == (e.friction * (Unit + e.normal) * Magnitude(m.vn)) \div Unit
       IN [gap |-> 0, vn |-> Retained(Magnitude(m.vn), e.normal),
           vt |-> Slowed(m.vt, Min({requested, cap}))]

\* apply_scarring_energy_loss: what is left of the velocity.
Scarred(m, part) ==
  [gap |-> m.gap, vn |-> Retained(m.vn, part), vt |-> Retained(m.vt, part)]

\* Mutants: a block that has lost its normal speed does not count as in contact; a
\* slow block stops on any slope.
InContactStrict(m) == m.gap <= NearGap /\ m.vn < 0
HoldsAlways(m, g) == Magnitude(m.vt) <= StopSpeed

\* The block touches the ground and does not leave it.
InContact(m) == m.gap <= NearGap /\ m.vn <= 0

\* It is slow along the ground and friction holds it there.
Holds(m, g) ==
  Magnitude(m.vt) <= StopSpeed /\ settings.slope <= g.friction * settings.gravity

\* try_apply_contact_friction_after_ballistic_step_with_normal: the slope's pull,
\* which the ballistic step has added, is taken back before the test for rest.
Rubbed(m, g) ==
  LET before == [m EXCEPT !.vt = @ - settings.slope]
      after == [gap |-> m.gap, vn |-> 0, vt |-> Slowed(m.vt, g.friction * settings.gravity)]
  IN IF Holds(before, g) \/ Holds(after, g) THEN [gap |-> m.gap, vn |-> 0, vt |-> 0] ELSE after
Stops(m, g) ==
  LET before == [m EXCEPT !.vt = @ - settings.slope]
  IN Holds(before, g) \/ Holds(Rubbed(m, g), g)

\* One turn of the loop: fall, meet the ground g with the sampled parameters e, lose
\* what the scar takes, slide or stop, and record the sample.
StepOn(g, e, part) ==
  LET fallen == Ballistic
      met == Response(fallen, e)
      left == IF Impacted(fallen) THEN Scarred(met, part) ELSE met
  IN /\ step' = step + 1
     /\ ground' = g
     /\ impacts' = IF Impacted(fallen) THEN impacts + 1 ELSE impacts
     /\ IF InContact(left)
        THEN /\ motion' = Rubbed(left, g)
             /\ label' = IF Stops(left, g) THEN "stopped" ELSE "sliding"
        ELSE /\ motion' = left
             /\ label' = IF Impacted(fallen) THEN "impact" ELSE "airborne"

\* Mutant: one step too many.
LoopEndsLate == label = "stopped" \/ step > MaxSteps

\* The loop is left after a stop or when every step of the horizon was taken.
LoopEnds == label = "stopped" \/ step = MaxSteps

Advance ==
  /\ status = "running"
  /\ ~LoopEnds
  /\ \E g \in Ground : \E e \in Effective(g) :
       \E part \in IF Scarring THEN 0 .. Unit ELSE {Unit} : StepOn(g, e, part)
  /\ UNCHANGED <<settings, status, reason>>

\* A terrain query of the step fails: the run ends with an error and no samples.
TerrainFails ==
  /\ status = "running"
  /\ ~LoopEnds
  /\ status' = "failed"
  /\ UNCHANGED <<settings, step, motion, label, ground, impacts, reason>>

\* t_max_reached.
TimeIsUp == step * StepTime >= settings.horizon /\ ~settings.short

\* Mutant: a slow block is reported before the clock is asked.
StopReasonSlowFirst ==
  IF label = "stopped" THEN "explicit_stopped_state"
  ELSE IF IsSlow(motion) THEN "final_speed_below_stop_threshold"
  ELSE IF ~TimeIsUp THEN "unknown"
  ELSE IF label = "airborne" THEN "t_max_reached_airborne" ELSE "t_max_reached_in_contact_state"

\* build_stop_state_provenance: stop_reason.
StopReason ==
  IF label = "stopped" THEN "explicit_stopped_state"
  ELSE IF TimeIsUp /\ label = "airborne" THEN "t_max_reached_airborne"
  ELSE IF IsSlow(motion) THEN "final_speed_below_stop_threshold"
  ELSE IF TimeIsUp /\ label \in {"impact", "sliding"} THEN "t_max_reached_in_contact_state"
  ELSE IF TimeIsUp THEN "t_max_reached_other"
  ELSE "unknown"

\* The loop is left and the stop state is derived from the last sample.
Return ==
  /\ status = "running"
  /\ LoopEnds
  /\ status' = "returned"
  /\ reason' = StopReason
  /\ UNCHANGED <<settings, step, motion, label, ground, impacts>>

Done == status # "running" /\ UNCHANGED vars
Next == Advance \/ TerrainFails \/ Return \/ Done
Spec == Init /\ [][Next]_vars
-------------------------------------------------------------------------------
(* Properties *)

\* Type invariant; the samples never outnumber the steps of the horizon.
TypeOK ==
  /\ settings \in Settings
  /\ step \in 0 .. MaxSteps
  /\ motion \in Motion
  /\ label \in Label
  /\ ground \in Ground
  /\ impacts \in 0 .. step
  /\ status \in {"running", "returned", "failed"}
  /\ reason \in Reason /\ (status = "returned" <=> reason # "none")

\* The contact state recorded with a sample is that of the motion recorded with it,
\* although it is chosen in three places of the step: no sample is below ground or
\* on its way into it, an impact leaves the ground, and a sliding or stopped block
\* stays on it.
LabelTruthful ==
  step > 0 =>
    /\ motion.gap >= 0
    /\ motion.gap <= NearGap => motion.vn >= 0
    /\ label = "airborne" => motion.gap > 0 /\ (motion.gap <= NearGap => motion.vn > 0)
    /\ label = "impact" => motion.gap = 0 /\ motion.vn > 0 /\ impacts > 0
    /\ label \in {"sliding", "stopped"} => motion.gap <= NearGap /\ motion.vn = 0

\* A block reported as stopped is at rest on ground whose friction holds it against
\* the slope; a block never rests by the stop speed alone.
StoppedIsHeld ==
  label = "stopped" =>
    /\ motion.vn = 0 /\ motion.vt = 0
    /\ settings.slope <= ground.friction * settings.gravity

KineticEnergy(m) == m.vn * m.vn + m.vt * m.vt

\* Whatever a step does to the block at the ground, it adds no kinetic energy to
\* what the fall has given it.
ContactDissipates == [][step' # step => KineticEnergy(motion') <= KineticEnergy(Ballistic)]_vars

\* The stop reason fits the last sample: a run is unknown only if it moved on through
\* every step and the clock did not reach t_max, an ending in contact was in contact
\* and one in the air in the air, no other ending exists, and a low final speed is told
\* of a block in the air only if the clock did not reach t_max.
ReasonFitsMotion ==
  status = "returned" =>
    /\ reason # "t_max_reached_other"
    /\ reason = "explicit_stopped_state" <=> label = "stopped"
    /\ reason = "unknown" => step = MaxSteps /\ ~TimeIsUp /\ ~IsSlow(motion)
    /\ reason = "t_max_reached_airborne" =>
         step * StepTime = settings.horizon /\ (step > 0 => motion.gap > 0)
    /\ reason = "t_max_reached_in_contact_state" =>
         step * StepTime = settings.horizon /\ motion.gap <= NearGap /\ ~IsSlow(motion)
    /\ reason = "final_speed_below_stop_threshold" /\ TimeIsUp =>
         motion.gap <= NearGap /\ IsSlow(motion)
===============================================================================
