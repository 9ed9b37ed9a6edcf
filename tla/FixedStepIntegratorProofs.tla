----------------------- MODULE FixedStepIntegratorProofs -----------------------
(***************************************************************************)
(* FixedStepIntegrator on any inclined plane, with any ground, roughness,  *)
(* scar, step, horizon and release.                                        *)
(***************************************************************************)
EXTENDS FixedStepIntegrator, TLAPS

(* Arithmetic of a contact *)

LEMMA Division ==
  ASSUME NEW a \in Nat, NEW d \in Nat \ {0}
  PROVE  /\ a \div d \in Nat
         /\ d * (a \div d) <= a
OBVIOUS

\* A product with a larger factor is not smaller.
LEMMA Monotone ==
  ASSUME NEW a \in Nat, NEW b \in Nat, a <= b, NEW k \in Nat
  PROVE  a * k <= b * k /\ a * k \in Nat
<1>1. PICK d \in Nat : b = a + d
  <2>1. b - a \in Nat /\ b = a + (b - a)
    OBVIOUS
  <2>2. QED
    BY <2>1
<1>2. b * k = a * k + d * k /\ d * k \in Nat /\ a * k \in Nat
  BY <1>1
<1>3. QED
  BY <1>2

\* What a part of a speed leaves is not more than the speed.
LEMMA PartOfSpeed ==
  ASSUME NEW v \in Nat, NEW part \in 0 .. Unit
  PROVE  (v * part) \div Unit \in Nat /\ (v * part) \div Unit <= v
<1>1. Unit \in Nat \ {0}
  BY ContactAssumption
<1>2. part * v <= Unit * v /\ part * v \in Nat /\ v * part = part * v
  BY <1>1, Monotone
<1>3. (v * part) \div Unit \in Nat /\ Unit * ((v * part) \div Unit) <= v * part
  BY <1>1, <1>2, Division
<1>4. Unit * ((v * part) \div Unit) <= Unit * v
  BY <1>1, <1>2, <1>3
<1>5. ASSUME NEW q \in Nat, Unit * q <= Unit * v PROVE q <= v
  <2>1. CASE q > v
    <3>1. (v + 1) * Unit <= q * Unit
      BY <1>1, <2>1, Monotone
    <3>2. Unit * q = q * Unit /\ (v + 1) * Unit = v * Unit + Unit /\ Unit * v = v * Unit
      BY <1>1
    <3>3. v * Unit \in Nat /\ q * Unit \in Nat /\ Unit > 0
      BY <1>1
    <3>4. q * Unit <= v * Unit
      BY <1>5, <3>2
    <3>5. v * Unit + Unit <= q * Unit
      BY <3>1, <3>2
    <3>6. QED
      BY <1>1, <3>3, <3>4, <3>5
  <2>2. QED
    BY <2>1
<1>6. QED
  BY <1>3, <1>4, <1>5

LEMMA RetainedFacts ==
  ASSUME NEW v \in Int, NEW part \in 0 .. Unit
  PROVE  /\ Retained(v, part) \in Int
         /\ Magnitude(Retained(v, part)) <= Magnitude(v)
         /\ v >= 0 => Retained(v, part) >= 0
         /\ v = 0 => Retained(v, part) = 0
<1>1. Magnitude(v) \in Nat
  BY DEF Magnitude
<1>2. (Magnitude(v) * part) \div Unit \in Nat /\ (Magnitude(v) * part) \div Unit <= Magnitude(v)
  BY <1>1, PartOfSpeed
<1>3. CASE v < 0
  BY <1>2, <1>3 DEF Retained, Magnitude
<1>4. CASE v >= 0
  BY <1>2, <1>4 DEF Retained, Magnitude
<1>5. QED
  BY <1>3, <1>4

LEMMA SlowedFacts ==
  ASSUME NEW v \in Int, NEW loss \in Nat
  PROVE  /\ Slowed(v, loss) \in Int
         /\ Magnitude(Slowed(v, loss)) <= Magnitude(v)
BY DEF Slowed, Magnitude

LEMMA Squares ==
  ASSUME NEW a \in Int, NEW b \in Int, Magnitude(a) <= Magnitude(b)
  PROVE  a * a <= b * b /\ a * a \in Nat
<1>1. Magnitude(a) \in Nat /\ Magnitude(b) \in Nat
  BY DEF Magnitude
<1>2. a * a = Magnitude(a) * Magnitude(a) /\ b * b = Magnitude(b) * Magnitude(b)
  BY DEF Magnitude
<1>3. Magnitude(a) * Magnitude(a) <= Magnitude(b) * Magnitude(a)
  BY <1>1, Monotone
<1>4. Magnitude(a) * Magnitude(b) <= Magnitude(b) * Magnitude(b)
  BY <1>1, Monotone
<1>5. Magnitude(b) * Magnitude(a) = Magnitude(a) * Magnitude(b)
  BY <1>1
<1>6. QED
  BY <1>1, <1>2, <1>3, <1>4, <1>5

\* Two velocities no faster than two others have no more kinetic energy.
LEMMA SlowerHasLessEnergy ==
  ASSUME NEW m \in Motion, NEW f \in Motion,
         Magnitude(m.vn) <= Magnitude(f.vn), Magnitude(m.vt) <= Magnitude(f.vt)
  PROVE  KineticEnergy(m) <= KineticEnergy(f)
<1>1. m.vn * m.vn <= f.vn * f.vn /\ m.vn * m.vn \in Nat
  BY Squares DEF Motion
<1>2. m.vt * m.vt <= f.vt * f.vt /\ m.vt * m.vt \in Nat
  BY Squares DEF Motion
<1>3. f.vn * f.vn \in Int /\ f.vt * f.vt \in Int
  BY DEF Motion
<1>4. QED
  BY <1>1, <1>2, <1>3 DEF KineticEnergy

\* The smaller of two numbers.
LEMMA Smaller ==
  ASSUME NEW a \in Nat, NEW b \in Nat
  PROVE  Min({a, b}) \in Nat
<1>1. CASE a <= b
  <2>1. \A y \in {a, b} : a <= y
    BY <1>1
  <2>2. QED
    BY <2>1 DEF Min
<1>2. CASE b <= a
  <2>1. \A y \in {a, b} : b <= y
    BY <1>2
  <2>2. QED
    BY <2>1 DEF Min
<1>3. QED
  BY <1>1, <1>2
-------------------------------------------------------------------------------
(* What each part of a step makes of the motion *)

\* m is no faster than f in either direction.
NoFaster(m, f) == Magnitude(m.vn) <= Magnitude(f.vn) /\ Magnitude(m.vt) <= Magnitude(f.vt)

\* Meeting the ground: the block ends on it or above it and does not enter it.
LEMMA ResponseFacts ==
  ASSUME NEW f \in Motion, NEW e \in Ground
  PROVE  /\ Response(f, e) \in Motion
         /\ NoFaster(Response(f, e), f)
         /\ f.gap <= 0 => Response(f, e).gap = 0 /\ Response(f, e).vn >= 0
         /\ f.gap > 0 => Response(f, e) = f
<1>1. e.normal \in 0 .. Unit /\ e.tangent \in 0 .. Unit /\ e.friction \in Nat /\ Unit \in Nat \ {0}
  BY ContactAssumption
<1>2. f.gap \in Int /\ f.vn \in Int /\ f.vt \in Int
  BY DEF Motion
<1>3. Magnitude(f.vn) \in Nat /\ Magnitude(f.vt) \in Nat
  BY <1>2 DEF Magnitude
<1>4. CASE f.gap > 0
  BY <1>2, <1>3, <1>4 DEF Response, NoFaster
<1>5. CASE f.gap <= 0 /\ ~Impacted(f)
  <2>1. Response(f, e) = [gap |-> 0, vn |-> 0, vt |-> f.vt]
    BY <1>2, <1>5 DEF Response
  <2>2. Magnitude(0) = 0
    BY DEF Magnitude
  <2>3. QED
    BY <1>2, <1>3, <1>5, <2>1, <2>2 DEF NoFaster, Motion
<1>6. CASE f.gap <= 0 /\ Impacted(f)
  <2> DEFINE requested == Retained(Magnitude(f.vt), Unit - e.tangent)
             cap == (e.friction * (Unit + e.normal) * Magnitude(f.vn)) \div Unit
             back == Retained(Magnitude(f.vn), e.normal)
             along == Slowed(f.vt, Min({requested, cap}))
  <2>1. requested \in Nat
    <3>1. Unit - e.tangent \in 0 .. Unit
      BY <1>1
    <3>2. QED
      BY <1>3, <3>1, RetainedFacts
  <2>2. cap \in Nat
    <3>1. Unit + e.normal \in Nat
      BY <1>1
    <3>2. e.friction * (Unit + e.normal) \in Nat
      BY <1>1, <3>1
    <3>3. e.friction * (Unit + e.normal) * Magnitude(f.vn) \in Nat
      BY <1>3, <3>2
    <3>4. QED
      BY <1>1, <3>3, Division
  <2>3. back \in Nat /\ Magnitude(back) <= Magnitude(f.vn)
    <3>1. Magnitude(f.vn) \in Int /\ Magnitude(f.vn) >= 0
      BY <1>3
    <3>2. back \in Int /\ Magnitude(back) <= Magnitude(Magnitude(f.vn)) /\ back >= 0
      BY <1>1, <3>1, RetainedFacts
    <3>3. Magnitude(Magnitude(f.vn)) = Magnitude(f.vn)
      BY <1>3 DEF Magnitude
    <3>4. QED
      BY <3>2, <3>3
  <2>4. along \in Int /\ Magnitude(along) <= Magnitude(f.vt)
    BY <1>2, <2>1, <2>2, Smaller, SlowedFacts
  <2>5. Response(f, e) = [gap |-> 0, vn |-> back, vt |-> along]
    BY <1>2, <1>6 DEF Response
  <2>6. QED
    BY <1>2, <1>6, <2>3, <2>4, <2>5 DEF NoFaster, Motion
<1>7. QED
  BY <1>2, <1>4, <1>5, <1>6

\* A scar leaves the block where it is, no faster, and turns no velocity round.
LEMMA ScarredFacts ==
  ASSUME NEW m \in Motion, NEW part \in 0 .. Unit
  PROVE  /\ Scarred(m, part) \in Motion
         /\ NoFaster(Scarred(m, part), m)
         /\ Scarred(m, part).gap = m.gap
         /\ m.vn >= 0 => Scarred(m, part).vn >= 0
<1>1. m.gap \in Int /\ m.vn \in Int /\ m.vt \in Int
  BY DEF Motion
<1>2. QED
  BY <1>1, RetainedFacts DEF Scarred, NoFaster, Motion

\* Rubbing on the ground: the block stays on it, no faster than it came, and where
\* the step is a stop it rests and the friction holds the slope.
LEMMA RubbedFacts ==
  ASSUME NEW m \in Motion, NEW g \in Ground,
         settings.gravity \in Nat, settings.slope \in Nat
  PROVE  /\ Rubbed(m, g) \in Motion
         /\ NoFaster(Rubbed(m, g), m)
         /\ Rubbed(m, g).gap = m.gap /\ Rubbed(m, g).vn = 0
         /\ Stops(m, g) =>
              Rubbed(m, g).vt = 0 /\ settings.slope <= g.friction * settings.gravity
<1>1. m.gap \in Int /\ m.vn \in Int /\ m.vt \in Int
  BY DEF Motion
<1>2. Magnitude(m.vn) \in Nat /\ Magnitude(m.vt) \in Nat /\ Magnitude(0) = 0
  BY <1>1 DEF Magnitude
<1>3. g.friction * settings.gravity \in Nat
  BY ContactAssumption
<1> DEFINE along == Slowed(m.vt, g.friction * settings.gravity)
           after == [gap |-> m.gap, vn |-> 0, vt |-> along]
           before == [m EXCEPT !.vt = @ - settings.slope]
<1>4. along \in Int /\ Magnitude(along) <= Magnitude(m.vt)
  BY <1>1, <1>3, SlowedFacts
<1>5. \/ Rubbed(m, g) = [gap |-> m.gap, vn |-> 0, vt |-> 0]
      \/ ~Holds(before, g) /\ ~Holds(after, g) /\ Rubbed(m, g) = after
  BY DEF Rubbed
<1>6. Stops(m, g) => Rubbed(m, g).vt = 0
  BY <1>5 DEF Stops
<1>7. Stops(m, g) => settings.slope <= g.friction * settings.gravity
  BY DEF Stops, Holds
<1>8. Rubbed(m, g) \in Motion /\ NoFaster(Rubbed(m, g), m)
      /\ Rubbed(m, g).gap = m.gap /\ Rubbed(m, g).vn = 0
  BY <1>1, <1>2, <1>4, <1>5 DEF NoFaster, Motion
<1>9. QED
  BY <1>6, <1>7, <1>8

\* A whole step, from any motion.
LEMMA StepFacts ==
  ASSUME settings \in Settings,
         motion \in Motion, impacts \in Nat,
         NEW g \in Ground, NEW e \in Ground, NEW part \in 0 .. Unit, StepOn(g, e, part)
  PROVE  /\ motion' \in Motion /\ label' \in Label
         /\ NoFaster(motion', Ballistic)
         /\ motion'.gap >= 0
         /\ motion'.gap <= NearGap => motion'.vn >= 0
         /\ label' = "airborne" => motion'.gap > 0 /\ (motion'.gap <= NearGap => motion'.vn > 0)
         /\ label' = "impact" => motion'.gap = 0 /\ motion'.vn > 0 /\ impacts' > 0
         /\ label' \in {"sliding", "stopped"} => motion'.gap <= NearGap /\ motion'.vn = 0
         /\ label' = "stopped" => motion'.vt = 0 /\ settings.slope <= g.friction * settings.gravity
<1> DEFINE fallen == Ballistic
           met == Response(fallen, e)
           left == IF Impacted(fallen) THEN Scarred(met, part) ELSE met
<1>1. settings.gravity \in Nat /\ settings.slope \in Nat /\ NearGap \in Nat
  BY StepAssumption, ContactAssumption DEF Settings
<1>2. fallen \in Motion
  BY <1>1 DEF Ballistic, Motion
<1>3. /\ met \in Motion /\ NoFaster(met, fallen)
      /\ fallen.gap <= 0 => met.gap = 0 /\ met.vn >= 0
      /\ fallen.gap > 0 => met = fallen
  BY <1>2, ResponseFacts
<1>4. /\ Scarred(met, part) \in Motion /\ NoFaster(Scarred(met, part), met)
      /\ Scarred(met, part).gap = met.gap
      /\ met.vn >= 0 => Scarred(met, part).vn >= 0
  BY <1>3, ScarredFacts
<1>5. \A a, b, c \in Motion : NoFaster(a, b) /\ NoFaster(b, c) => NoFaster(a, c)
  BY DEF NoFaster, Motion, Magnitude
<1>6. \A a \in Motion : NoFaster(a, a)
  BY DEF NoFaster, Motion, Magnitude
<1> HIDE DEF met, fallen
<1>7. /\ left \in Motion /\ NoFaster(left, fallen)
      /\ left.gap >= 0
      /\ left.gap = 0 => left.vn >= 0
      /\ ~Impacted(fallen) /\ ~InContact(left) => left.gap > 0
      /\ Impacted(fallen) => left.gap = 0
  <2>1. CASE Impacted(fallen)
    <3>1. fallen.gap <= 0 /\ left = Scarred(met, part)
      BY <2>1 DEF Impacted
    <3>2. QED
      BY <1>2, <1>3, <1>4, <1>5, <2>1, <3>1
  <2>2. CASE ~Impacted(fallen) /\ fallen.gap > 0
    BY <1>2, <1>3, <2>2 DEF Motion
  <2>3. CASE ~Impacted(fallen) /\ fallen.gap <= 0
    <3>1. left = met /\ met.gap = 0 /\ met.vn >= 0 /\ fallen.vn >= 0
      BY <1>2, <1>3, <2>3 DEF Impacted, Motion
    <3>2. met.vn = 0
      <4>1. fallen.gap \in Int /\ ~(fallen.gap > 0)
        BY <1>2, <2>3 DEF Motion
      <4>2. met = [gap |-> 0, vn |-> 0, vt |-> fallen.vt]
        BY <2>3, <4>1 DEF Response, met
      <4>3. QED
        BY <4>2
    <3>3. InContact(left)
      BY <1>1, <3>1, <3>2 DEF InContact
    <3>4. QED
      BY <1>3, <2>3, <3>1, <3>3
  <2>4. QED
    BY <1>2, <2>1, <2>2, <2>3 DEF Motion
<1>8. /\ impacts' = IF Impacted(fallen) THEN impacts + 1 ELSE impacts
      /\ IF InContact(left)
         THEN /\ motion' = Rubbed(left, g)
              /\ label' = IF Stops(left, g) THEN "stopped" ELSE "sliding"
         ELSE /\ motion' = left
              /\ label' = IF Impacted(fallen) THEN "impact" ELSE "airborne"
  BY DEF StepOn, met, fallen
<1>9. left.gap \in Int /\ left.vn \in Int
  BY <1>7 DEF Motion
<1> HIDE DEF left
<1>10. CASE InContact(left)
  <2>1. /\ Rubbed(left, g) \in Motion /\ NoFaster(Rubbed(left, g), left)
        /\ Rubbed(left, g).gap = left.gap /\ Rubbed(left, g).vn = 0
        /\ Stops(left, g) =>
             Rubbed(left, g).vt = 0 /\ settings.slope <= g.friction * settings.gravity
    BY <1>1, <1>7, RubbedFacts
  <2>2. NoFaster(Rubbed(left, g), fallen)
    BY <1>2, <1>5, <1>7, <2>1
  <2>3. left.gap <= NearGap
    BY <1>10 DEF InContact
  <2>4. QED
    BY <1>7, <1>8, <1>9, <1>10, <2>1, <2>2, <2>3 DEF Label, fallen
<1>11. CASE ~InContact(left)
  <2>1. left.gap <= NearGap => left.vn > 0
    BY <1>9, <1>11 DEF InContact
  <2>2. Impacted(fallen) => left.vn > 0
    BY <1>1, <1>7, <2>1
  <2>3. QED
    BY <1>1, <1>7, <1>8, <1>9, <1>11, <2>1, <2>2 DEF Label, fallen
<1>12. QED
  BY <1>10, <1>11
-------------------------------------------------------------------------------
(* The invariant *)

\* Beside the types: before the first step nothing but the release is known.
IntegratorInv ==
  /\ TypeOK
  /\ LabelTruthful
  /\ StoppedIsHeld
  /\ step = 0 => label = "airborne"

LEMMA Bounds ==
  ASSUME settings \in Settings
  PROVE  /\ MaxSteps \in Nat
         /\ \A n \in 0 .. MaxSteps : n * StepTime \in Nat /\ n * StepTime <= settings.horizon
<1>1. settings.horizon \in Nat /\ StepTime \in Nat \ {0}
  BY StepAssumption DEF Settings
<1>2. MaxSteps \in Nat /\ StepTime * MaxSteps <= settings.horizon
  BY <1>1, Division DEF MaxSteps
<1>3. StepTime * MaxSteps = MaxSteps * StepTime
  BY <1>1, <1>2
<1>4. ASSUME NEW n \in 0 .. MaxSteps
      PROVE  n * StepTime \in Nat /\ n * StepTime <= settings.horizon
  <2>1. n * StepTime <= MaxSteps * StepTime /\ n * StepTime \in Nat
    BY <1>1, <1>2, Monotone
  <2>2. MaxSteps * StepTime \in Nat
    BY <1>1, <1>2, Monotone
  <2>3. QED
    BY <1>1, <1>2, <1>3, <2>1, <2>2
<1>5. QED
  BY <1>2, <1>4

LEMMA InvInit == ASSUME Init PROVE IntegratorInv
<1>1. settings \in Settings
  BY DEF Init
<1>2. MaxSteps \in Nat
  BY <1>1, Bounds
<1>3. motion \in Motion
  BY ContactAssumption DEF Init, Motion
<1>4. TypeOK
  BY <1>1, <1>2, <1>3 DEF Init, TypeOK, Label, Reason
<1>5. LabelTruthful /\ StoppedIsHeld /\ (step = 0 => label = "airborne")
  BY DEF Init, LabelTruthful, StoppedIsHeld
<1>6. QED
  BY <1>4, <1>5 DEF IntegratorInv

LEMMA InvStep == ASSUME IntegratorInv, [Next]_vars PROVE IntegratorInv'
<1>1. TypeOK /\ LabelTruthful /\ StoppedIsHeld /\ (step = 0 => label = "airborne")
  BY DEF IntegratorInv
<1>2. settings \in Settings
      /\ step \in 0 .. MaxSteps /\ motion \in Motion /\ label \in Label
      /\ impacts \in 0 .. step /\ MaxSteps \in Nat
  BY <1>1, Bounds DEF TypeOK
<1>3. CASE Advance
  <2>1. PICK g \in Ground, e \in Ground, part \in 0 .. Unit : StepOn(g, e, part)
    <3>1. \A g \in Ground : Effective(g) \subseteq Ground
      BY DEF Effective
    <3>2. Unit \in 0 .. Unit
      BY ContactAssumption
    <3>3. QED
      BY <1>3, <3>1, <3>2 DEF Advance
  <2>2. /\ step' = step + 1 /\ ground' = g
        /\ impacts' = IF Impacted(Ballistic) THEN impacts + 1 ELSE impacts
    BY <2>1 DEF StepOn
  <2>3. /\ motion' \in Motion /\ label' \in Label
        /\ motion'.gap >= 0
        /\ motion'.gap <= NearGap => motion'.vn >= 0
        /\ label' = "airborne" => motion'.gap > 0 /\ (motion'.gap <= NearGap => motion'.vn > 0)
        /\ label' = "impact" => motion'.gap = 0 /\ motion'.vn > 0 /\ impacts' > 0
        /\ label' \in {"sliding", "stopped"} => motion'.gap <= NearGap /\ motion'.vn = 0
        /\ label' = "stopped" => motion'.vt = 0 /\ settings.slope <= g.friction * settings.gravity
    BY <1>2, <2>1, StepFacts
  <2>4. settings' = settings /\ status' = status /\ reason' = reason /\ status = "running"
        /\ step # MaxSteps
    BY <1>3 DEF Advance, LoopEnds
  <2>5. MaxSteps' = MaxSteps
    BY <2>4 DEF MaxSteps
  <2>6. step' \in 0 .. MaxSteps /\ impacts' \in 0 .. step' /\ step' # 0
    BY <1>2, <2>2, <2>4
  <2>7. TypeOK'
    BY <1>1, <1>2, <2>2, <2>3, <2>4, <2>5, <2>6 DEF TypeOK
  <2>8. LabelTruthful'
    BY <2>3 DEF LabelTruthful
  <2>9. StoppedIsHeld'
    BY <2>2, <2>3, <2>4 DEF StoppedIsHeld
  <2>10. QED
    BY <2>6, <2>7, <2>8, <2>9 DEF IntegratorInv
<1>4. CASE TerrainFails
  <2>1. UNCHANGED <<settings, step, motion, label, ground, impacts, reason>>
        /\ status = "running" /\ status' = "failed"
    BY <1>4 DEF TerrainFails
  <2>2. MaxSteps' = MaxSteps
    BY <2>1 DEF MaxSteps
  <2>3. TypeOK'
    BY <1>1, <2>1, <2>2 DEF TypeOK
  <2>4. QED
    BY <1>1, <2>1, <2>3 DEF IntegratorInv, LabelTruthful, StoppedIsHeld
<1>5. CASE Return
  <2>1. UNCHANGED <<settings, step, motion, label, ground, impacts>>
        /\ status = "running" /\ status' = "returned" /\ reason' = StopReason
    BY <1>5 DEF Return
  <2>2. MaxSteps' = MaxSteps
    BY <2>1 DEF MaxSteps
  <2>3. StopReason \in Reason /\ StopReason # "none"
    BY DEF StopReason, Reason
  <2>4. TypeOK'
    BY <1>1, <2>1, <2>2, <2>3 DEF TypeOK
  <2>5. QED
    BY <1>1, <2>1, <2>4 DEF IntegratorInv, LabelTruthful, StoppedIsHeld
<1>6. CASE UNCHANGED vars
  <2>1. MaxSteps' = MaxSteps
    BY <1>6 DEF MaxSteps, vars
  <2>2. QED
    BY <1>1, <1>6, <2>1 DEF vars, IntegratorInv, TypeOK, LabelTruthful, StoppedIsHeld
<1>7. QED
  BY <1>3, <1>4, <1>5, <1>6 DEF Next, Done

LEMMA InvHolds == Spec => []IntegratorInv
<1>1. Init => IntegratorInv
  BY InvInit
<1>2. IntegratorInv /\ [Next]_vars => IntegratorInv'
  BY InvStep
<1>3. QED
  BY <1>1, <1>2, PTL DEF Spec
-------------------------------------------------------------------------------
(* The theorems *)

\* Every run has its types, and never more samples than its horizon has steps.
THEOREM TypeCorrect == Spec => []TypeOK
<1>1. IntegratorInv => TypeOK
  BY DEF IntegratorInv
<1>2. QED
  BY <1>1, InvHolds, PTL

\* A sample's contact state is that of its motion, on any ground and slope.
THEOREM LabelTruthfulHolds == Spec => []LabelTruthful
<1>1. IntegratorInv => LabelTruthful
  BY DEF IntegratorInv
<1>2. QED
  BY <1>1, InvHolds, PTL

\* A block reported as stopped rests where friction holds it.
THEOREM StoppedIsHeldHolds == Spec => []StoppedIsHeld
<1>1. IntegratorInv => StoppedIsHeld
  BY DEF IntegratorInv
<1>2. QED
  BY <1>1, InvHolds, PTL

\* No step's contact adds kinetic energy, whatever restitution, friction, roughness
\* and scar it meets.
THEOREM ContactDissipatesHolds == Spec => ContactDissipates
<1>1. ASSUME IntegratorInv, [Next]_vars
      PROVE  [step' # step => KineticEnergy(motion') <= KineticEnergy(Ballistic)]_vars
  <2>1. CASE Advance
    <3>1. PICK g \in Ground, e \in Ground, part \in 0 .. Unit : StepOn(g, e, part)
      <4>1. \A g \in Ground : Effective(g) \subseteq Ground
        BY DEF Effective
      <4>2. Unit \in 0 .. Unit
        BY ContactAssumption
      <4>3. QED
        BY <2>1, <4>1, <4>2 DEF Advance
    <3>2. settings \in Settings
          /\ motion \in Motion /\ impacts \in Nat
      BY <1>1, Bounds DEF IntegratorInv, TypeOK
    <3>3. motion' \in Motion /\ NoFaster(motion', Ballistic)
      BY <3>1, <3>2, StepFacts
    <3>4. Ballistic \in Motion
      <4>1. settings.gravity \in Nat /\ settings.slope \in Nat
        BY <3>2, StepAssumption DEF Settings
      <4>2. QED
        BY <3>2, <4>1 DEF Ballistic, Motion
    <3>5. QED
      BY <3>3, <3>4, SlowerHasLessEnergy DEF NoFaster
  <2>2. CASE step' = step
    BY <2>2
  <2>3. QED
    BY <1>1, <2>1, <2>2 DEF Next, TerrainFails, Return, Done, vars
<1>2. QED
  BY <1>1, InvHolds, PTL DEF Spec, ContactDissipates

\* The reason of a run that returned fits its last sample, at any step and horizon.
THEOREM ReasonFitsMotionHolds == Spec => []ReasonFitsMotion
<1>1. Init => ReasonFitsMotion
  BY DEF Init, ReasonFitsMotion
<1>2. ASSUME IntegratorInv, ReasonFitsMotion, [Next]_vars PROVE ReasonFitsMotion'
  <2>1. CASE Return
    <3>1. UNCHANGED <<settings, step, motion, label>> /\ reason' = StopReason /\ LoopEnds
      BY <2>1 DEF Return
    <3>2. /\ settings \in Settings
          /\ step \in 0 .. MaxSteps /\ label \in Label /\ motion \in Motion
      BY <1>2 DEF IntegratorInv, TypeOK
    <3>3. /\ MaxSteps \in Nat /\ step * StepTime \in Nat
          /\ step * StepTime <= settings.horizon /\ settings.horizon \in Nat
      BY <3>2, Bounds, StepAssumption DEF Settings
    <3>4. TimeIsUp => step * StepTime = settings.horizon
      BY <3>3 DEF TimeIsUp
    <3>5. TimeIsUp' = TimeIsUp /\ IsSlow(motion)' = IsSlow(motion)
      BY <3>1 DEF TimeIsUp, IsSlow
    <3>6. MaxSteps' = MaxSteps
      BY <3>1 DEF MaxSteps
    <3>7. label # "stopped" => step = MaxSteps
      BY <3>1 DEF LoopEnds
    <3>8. label # "airborne" => motion.gap <= NearGap
      BY <1>2, <3>2, ContactAssumption DEF IntegratorInv, LabelTruthful, Label
    <3>9. label = "airborne" /\ step > 0 => motion.gap > 0
      BY <1>2 DEF IntegratorInv, LabelTruthful
    <3> DEFINE told == StopReason
    <3>10. /\ told # "t_max_reached_other"
           /\ told = "explicit_stopped_state" <=> label = "stopped"
           /\ told = "unknown" => label # "stopped" /\ ~TimeIsUp /\ ~IsSlow(motion)
           /\ told = "t_max_reached_airborne" => TimeIsUp /\ label = "airborne"
           /\ told = "t_max_reached_in_contact_state" =>
                TimeIsUp /\ label # "airborne" /\ ~IsSlow(motion)
           /\ told = "final_speed_below_stop_threshold" /\ TimeIsUp =>
                label # "airborne" /\ IsSlow(motion)
      BY <3>2 DEF StopReason, Label
    <3> HIDE DEF told
    <3>11. reason' = told
      BY <3>1 DEF told
    <3>12. QED
      BY <3>1, <3>4, <3>5, <3>6, <3>7, <3>8, <3>9, <3>10, <3>11 DEF ReasonFitsMotion
  <2>2. CASE Advance \/ TerrainFails
    BY <2>2 DEF Advance, TerrainFails, ReasonFitsMotion
  <2>3. CASE UNCHANGED vars
    <3>1. MaxSteps' = MaxSteps /\ TimeIsUp' = TimeIsUp /\ IsSlow(motion)' = IsSlow(motion)
      BY <2>3 DEF MaxSteps, TimeIsUp, IsSlow, vars
    <3>2. QED
      BY <1>2, <2>3, <3>1 DEF vars, ReasonFitsMotion
  <2>4. QED
    BY <1>2, <2>1, <2>2, <2>3 DEF Next, Done
<1>3. QED
  BY <1>1, <1>2, InvHolds, PTL DEF Spec
===============================================================================
