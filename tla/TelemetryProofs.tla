-------------------------- MODULE TelemetryProofs --------------------------
(***************************************************************************)
(* What the clamp and the score do to every claim, at any length of the    *)
(* ceremony.                                                               *)
(***************************************************************************)
EXTENDS Telemetry, TLAPS

(***************************************************************************)
(* Permille is a share of a thousand, and cannot tell a claim from what    *)
(* the clamp leaves of it.                                                 *)
(***************************************************************************)
LEMMA PermilleRange ==
  ASSUME NEW v \in Int, NEW m \in Int
  PROVE  Permille(v, m) \in Int /\ 0 <= Permille(v, m) /\ Permille(v, m) <= 1000
<1>1. CASE m <= 0 \/ v < 0 \/ v >= m
  BY SMT, <1>1 DEF Permille
<1>2. CASE m > 0 /\ v >= 0 /\ v < m
  <2> DEFINE q == (v * 1000) \div m
  <2>1. q \in Int /\ v * 1000 = (m * q) + ((v * 1000) % m) /\ (v * 1000) % m \in 0..(m - 1)
    BY SMT, <1>2
  <2>2. Permille(v, m) = q
    BY SMT, <1>2 DEF Permille
  <2> HIDE DEF q
  <2>3. q <= 1000
    <3> SUFFICES ASSUME q >= 1001 PROVE FALSE
      BY <2>1
    <3>1. m * q >= m * 1001
      BY <1>2, <2>1
    <3> QED BY <1>2, <2>1, <3>1
  <2>4. q >= 0
    <3> SUFFICES ASSUME q <= -1 PROVE FALSE
      BY <2>1
    <3>1. m * q <= m * (-1)
      BY <1>2, <2>1
    <3> QED BY <1>2, <2>1, <3>1
  <2> QED BY <2>1, <2>2, <2>3, <2>4
<1>3. (m <= 0 \/ v < 0 \/ v >= m) \/ (m > 0 /\ v >= 0 /\ v < m)
  BY SMT
<1> QED BY <1>1, <1>2, <1>3

LEMMA Squares == \A x, y \in Nat : 1 <= x /\ x <= y => 225 * (x * x - x) + 57 <= 225 * (y * y - y) + 57
<1> SUFFICES ASSUME NEW x \in Nat, NEW y \in Nat, 1 <= x, x <= y
             PROVE  x * x - x <= y * y - y
  OBVIOUS
<1> DEFINE d == y - x
<1>1. d \in Nat /\ y = x + d
  OBVIOUS
<1> HIDE DEF d
<1>2. y * y = x * x + 2 * (x * d) + d * d
  BY <1>1
<1>3. x * d >= d /\ d * d >= 0
  <2>1. (x - 1) * d \in Nat /\ d * d \in Nat /\ x * d = (x - 1) * d + d
    BY <1>1
  <2> QED BY <2>1, <1>1
<1>4. x * d \in Int /\ d * d \in Int /\ x * x \in Int
  BY <1>1
<1> QED BY <1>1, <1>2, <1>3, <1>4

LEMMA PermilleOfNone ==
  ASSUME NEW v, NEW m, m <= 0 PROVE Permille(v, m) = 0
BY DEF Permille

LEMMA PermilleOfAll ==
  ASSUME NEW v, NEW m, ~(m <= 0 \/ m < 0), m >= m, ~(m <= 0 \/ v < 0), v >= m
  PROVE  Permille(m, m) = Permille(v, m)
BY DEF Permille

LEMMA Signs ==
  /\ \A m \in Int : ~(m <= 0) => ~(m < 0) /\ m >= m
  /\ \A v \in Int : v >= 0 => ~(v < 0)
BY SMT

LEMMA PermilleClamped ==
  ASSUME NEW v \in Int, NEW m \in Int, v >= 0
  PROVE  Permille(Least(v, m), m) = Permille(v, m)
<1>1. CASE v < m
  BY SMT, <1>1 DEF Least
<1>2. CASE v >= m
  <2>1. Least(v, m) = m
    BY SMT, <1>2 DEF Least
  <2>2. Permille(m, m) = Permille(v, m)
    <3>1. CASE m <= 0
      BY <3>1, PermilleOfNone
    <3>2. CASE ~(m <= 0)
      <4>1. ~(m <= 0 \/ m < 0) /\ m >= m /\ ~(m <= 0 \/ v < 0) /\ v >= m
        <5>1. ~(m < 0) /\ ~(v < 0) /\ m >= m
          BY Zenon, <3>2, Signs
        <5> QED BY Zenon, <1>2, <3>2, <5>1
      <4> QED BY Zenon, <4>1, PermilleOfAll
    <3> QED BY Zenon, <3>1, <3>2
  <2> QED BY <2>1, <2>2
<1> QED BY <1>1, <1>2

(***************************************************************************)
(* Rounded, bit by bit: after the bit b the root is right but for what is  *)
(* smaller than b.                                                         *)
(***************************************************************************)
Found(q, root, b) ==
  /\ root \in Nat /\ root + b <= 2048
  /\ root = 0 \/ Reaches(q, root)
  /\ root + b = 2048 \/ ~Reaches(q, root + b)

LEMMA BitUnfolds ==
  \A q, root, b : Bit(q, root, b) = IF Reaches(q, root + b) THEN root + b ELSE root
BY DEF Bit

LEMMA BitStep ==
  ASSUME NEW q \in Int, NEW b \in Nat \ {0}, NEW root \in Nat, Found(q, root, 2 * b)
  PROVE  Found(q, Bit(q, root, b), b)
<1>1. Bit(q, root, b) = IF Reaches(q, root + b) THEN root + b ELSE root
  BY BitUnfolds
<1>2. root + 2 * b = (root + b) + b /\ root + b \in Nat
  BY SMT
<1>3. CASE Reaches(q, root + b)
  BY SMT, <1>1, <1>2, <1>3 DEF Found
<1>4. CASE ~Reaches(q, root + b)
  BY SMT, <1>1, <1>2, <1>4 DEF Found
<1> QED BY SMT, <1>3, <1>4

LEMMA Root == ASSUME NEW q \in Int PROVE Found(q, Rounded(q), 1)
<1> DEFINE r1 == Bit(q, 0, 1024)
           r2 == Bit(q, r1, 512)
           r3 == Bit(q, r2, 256)
           r4 == Bit(q, r3, 128)
           r5 == Bit(q, r4, 64)
           r6 == Bit(q, r5, 32)
           r7 == Bit(q, r6, 16)
           r8 == Bit(q, r7, 8)
           r9 == Bit(q, r8, 4)
           r10 == Bit(q, r9, 2)
           r11 == Bit(q, r10, 1)
<1>0. Found(q, 0, 2048)
  BY SMT DEF Found
<1>r. Rounded(q) = r11
  BY SMT DEF Rounded
<1>n. \A root, b : Found(q, root, b) => root \in Nat
  BY SMT DEF Found
<1> HIDE DEF r1, r2, r3, r4, r5, r6, r7, r8, r9, r10, r11
<1>1. Found(q, r1, 1024)
  BY SMT, <1>0, BitStep DEF r1
<1>2. Found(q, r2, 512)
  BY SMT, <1>1, <1>n, BitStep DEF r2
<1>3. Found(q, r3, 256)
  BY SMT, <1>2, <1>n, BitStep DEF r3
<1>4. Found(q, r4, 128)
  BY SMT, <1>3, <1>n, BitStep DEF r4
<1>5. Found(q, r5, 64)
  BY SMT, <1>4, <1>n, BitStep DEF r5
<1>6. Found(q, r6, 32)
  BY SMT, <1>5, <1>n, BitStep DEF r6
<1>7. Found(q, r7, 16)
  BY SMT, <1>6, <1>n, BitStep DEF r7
<1>8. Found(q, r8, 8)
  BY SMT, <1>7, <1>n, BitStep DEF r8
<1>9. Found(q, r9, 4)
  BY SMT, <1>8, <1>n, BitStep DEF r9
<1>10. Found(q, r10, 2)
  BY SMT, <1>9, <1>n, BitStep DEF r10
<1>11. Found(q, r11, 1)
  BY SMT, <1>10, <1>n, BitStep DEF r11
<1> QED BY SMT, <1>r, <1>11

LEMMA RoundedGrows ==
  \A p, q \in Int : /\ Rounded(p) \in Nat
                    /\ p <= q => Rounded(p) <= Rounded(q)
                    /\ p >= 57 => Rounded(p) >= 1
<1> SUFFICES ASSUME NEW p \in Int, NEW q \in Int
             PROVE  /\ Rounded(p) \in Nat
                    /\ p <= q => Rounded(p) <= Rounded(q)
                    /\ p >= 57 => Rounded(p) >= 1
  BY SMT
<1>1. Found(p, Rounded(p), 1) /\ Found(q, Rounded(q), 1)
  BY SMT, Root
<1>2. ASSUME p <= q, Rounded(q) + 1 <= Rounded(p) PROVE FALSE
  <2> DEFINE x == Rounded(q) + 1
             y == Rounded(p)
  <2>1. x \in Nat /\ y \in Nat /\ 1 <= x /\ x <= y /\ y # 0 /\ x # 2048
    BY SMT, <1>1, <1>2 DEF Found
  <2>2. Reaches(p, y) /\ ~Reaches(q, x)
    BY SMT, <1>1, <2>1 DEF Found
  <2> HIDE DEF x, y
  <2>3. 225 * (x * x - x) + 57 <= 225 * (y * y - y) + 57
    BY SMT, <2>1, Squares
  <2>4. x * x \in Int /\ y * y \in Int
    BY SMT, <2>1
  <2> QED BY SMT, <1>2, <2>1, <2>2, <2>3, <2>4 DEF Reaches
<1>3. ASSUME p >= 57, Rounded(p) = 0 PROVE FALSE
  BY SMT, <1>1, <1>3 DEF Found, Reaches
<1> QED BY SMT, <1>1, <1>2, <1>3 DEF Found

(***************************************************************************)
(* The ceilings are numbers, and a pour of some length may always have     *)
(* done something.                                                         *)
(***************************************************************************)
LEMMA Products == \A a, b \in Nat : a * b \in Nat
BY SMT

LEMMA FlowType == \A tier \in Int : Flow(tier) \in 10..34 /\ ClampTierIndex(tier) \in 0..5
BY SMT DEF Flow, ClampTierIndex, TierBounds, TopTier

LEMMA SquareRange ==
  ASSUME NEW f \in Int, NEW low \in Nat, NEW high \in Nat, low <= f, f <= high
  PROVE  f * f \in Int /\ low * low <= f * f /\ f * f <= high * high
<1> DEFINE a == f - low
           b == high - f
<1>1. f = low + a /\ high = f + b
  BY SMT
<1>2. a \in Nat /\ b \in Nat /\ f \in Nat
  BY SMT
<1> HIDE DEF a, b
<1>3. a * a \in Nat /\ low * a \in Nat /\ f * b \in Nat /\ b * b \in Nat /\ low * low \in Nat
  BY <1>2, Products
<1>4. f * f = low * low + 2 * (low * a) + a * a
  BY SMT, <1>1, <1>2
<1>5. high * high = f * f + 2 * (f * b) + b * b
  BY SMT, <1>1, <1>2
<1>6. f * f \in Int
  BY SMT
<1> QED BY SMT, <1>3, <1>4, <1>5, <1>6

LEMMA FallSpeedRange ==
  ASSUME NEW ms \in Nat
  PROVE  /\ FallSpeed(ms) * FallSpeed(ms) \in Int
         /\ FallSpeed(ms) * FallSpeed(ms) >= 3240000
         /\ FallSpeed(ms) * FallSpeed(ms) <= 729000000
<1> DEFINE f == FallSpeed(ms)
           l == Least(ms, 1200)
           low == 1800
           high == 27000
<1>1. SpawnVy = 1800
  BY SMT DEF SpawnVy
<1>2. l \in Int /\ 0 <= l /\ l <= 1200
  BY SMT DEF Least
<1>3. f = SpawnVy + 21 * l
  BY DEF FallSpeed
<1> HIDE DEF f, l
<1>4. f \in Int /\ low <= f /\ f <= high
  BY SMT, <1>1, <1>2, <1>3
<1>5. low \in Nat /\ high \in Nat /\ low * low = 3240000 /\ high * high = 729000000
  BY SMT
<1> HIDE DEF low, high
<1>6. f * f \in Int /\ low * low <= f * f /\ f * f <= high * high
  BY <1>4, <1>5, SquareRange
<1>7. f * f \in Int /\ f * f >= 3240000 /\ f * f <= 729000000
  BY SMT, <1>5, <1>6
<1> QED BY SMT, <1>7 DEF f

LEMMA CeilingsBounds ==
  ASSUME NEW tier \in Int, NEW ms \in Nat
  PROVE  LET max == TelemetryCeilings(tier, ms)
         IN /\ max \in [dropletsLanded : Nat, peak2 : Nat, tilt : Nat, holdMs : Nat]
            /\ max.peak2 >= 57 /\ max.peak2 <= 2000000000
            /\ max.tilt = 6 * ms /\ max.holdMs = ms
            /\ ms >= 1 => max.dropletsLanded >= 1
            /\ ms <= 1000000 => max.dropletsLanded <= 2000000000
<1> DEFINE max == TelemetryCeilings(tier, ms)
           fall == FallSpeed(ms) * FallSpeed(ms) + SpawnVx * SpawnVx
           most == Flow(tier) * ms * 115
<1>2. fall \in Int /\ fall >= 3240000 /\ fall <= 729455625
  <2>1. FallSpeed(ms) * FallSpeed(ms) \in Int
        /\ FallSpeed(ms) * FallSpeed(ms) >= 3240000 /\ FallSpeed(ms) * FallSpeed(ms) <= 729000000
    BY SMT, FallSpeedRange
  <2>2. SpawnVx * SpawnVx = 455625
    BY SMT DEF SpawnVx
  <2>3. fall = FallSpeed(ms) * FallSpeed(ms) + 455625
    BY SMT, <2>2
  <2> HIDE DEF fall
  <2> QED BY SMT, <2>1, <2>3
<1>3. max = [dropletsLanded |-> CeilDiv(most, 100000),
             peak2 |-> fall + fall \div 5 + fall \div 100, tilt |-> 6 * ms, holdMs |-> ms]
  BY SMT DEF TelemetryCeilings
<1>4. most \in Nat /\ (ms >= 1 => most >= 1) /\ (ms <= 1000000 => most <= 3910000000)
  <2>1. \A f \in 10..34 : /\ f * ms \in Nat /\ (ms >= 1 => f * ms >= 1)
                          /\ f * ms <= 34 * ms
    BY SMT
  <2> QED BY SMT, <2>1, FlowType
<1> HIDE DEF most, fall, max
<1>5. /\ CeilDiv(most, 100000) \in Nat
      /\ most >= 1 => CeilDiv(most, 100000) >= 1
      /\ most <= 3910000000 => CeilDiv(most, 100000) <= 2000000000
  BY SMT, <1>4 DEF CeilDiv
<1>6. /\ fall + fall \div 5 + fall \div 100 \in Nat
      /\ fall + fall \div 5 + fall \div 100 >= 57
      /\ fall + fall \div 5 + fall \div 100 <= 2000000000
  BY SMT, <1>2
<1>7. 6 * ms \in Nat
  BY SMT
<1>8. /\ max \in [dropletsLanded : Nat, peak2 : Nat, tilt : Nat, holdMs : Nat]
      /\ max.peak2 >= 57 /\ max.peak2 <= 2000000000
      /\ max.tilt = 6 * ms /\ max.holdMs = ms
      /\ ms >= 1 => max.dropletsLanded >= 1
      /\ ms <= 1000000 => max.dropletsLanded <= 2000000000
  BY SMT, <1>3, <1>4, <1>5, <1>6, <1>7
<1> QED BY SMT, <1>8 DEF max

LEMMA CeilingsType ==
  ASSUME NEW tier \in Int, NEW ms \in Nat
  PROVE  TelemetryCeilings(tier, ms)
         \in [dropletsLanded : Nat, peak2 : Nat, tilt : Nat, holdMs : Nat]
BY SMT, CeilingsBounds

-----------------------------------------------------------------------------
(***************************************************************************)
(* The clamp, field by field: its limits depend on the claimed length and  *)
(* on nothing else of the claim.                                           *)
(***************************************************************************)
Length(raw, wall) == Least(Safe(raw.holdMs), Least(wall, MaxPourMs))

Max(raw, tier, wall) == TelemetryCeilings(tier, Length(raw, wall))

LEMMA ClampStep ==
  ASSUME NEW raw \in [Fields -> Int], NEW tier \in Int, NEW wall \in Nat
  PROVE  LET max == Max(raw, tier, wall)
             most == Least(wall, MaxPourMs)
             out == ClampTelemetry(raw, tier, wall)
         IN /\ Length(raw, wall) \in Nat /\ most \in Nat /\ Length(raw, wall) <= most
            /\ max \in [dropletsLanded : Nat, peak2 : Nat, tilt : Nat, holdMs : Nat]
            /\ out.telemetry \in [Fields -> Nat]
            /\ out.telemetry.dropletsLanded = Least(Safe(raw.dropletsLanded), max.dropletsLanded)
            /\ out.telemetry.peak2 = Least(Safe(raw.peak2), max.peak2)
            /\ out.telemetry.tilt = Least(Safe(raw.tilt), max.tilt)
            /\ out.telemetry.holdMs = Length(raw, wall)
            /\ "dropletsLanded" \in out.violations <=> Safe(raw.dropletsLanded) > max.dropletsLanded
            /\ "peak2" \in out.violations <=> Safe(raw.peak2) > max.peak2
            /\ "tilt" \in out.violations <=> Safe(raw.tilt) > max.tilt
            /\ "holdMs" \in out.violations <=> Safe(raw.holdMs) > most
            /\ out.violations \subseteq Fields
<1> DEFINE max == Max(raw, tier, wall)
           most == Least(wall, MaxPourMs)
           out == ClampTelemetry(raw, tier, wall)
           limits == Limits(raw, tier, wall)
<1>1. most \in Nat /\ raw.holdMs \in Int
  BY TelemetryAssumption DEF Least, Fields
<1>2. Length(raw, wall) \in Nat /\ Length(raw, wall) <= most
  BY <1>1 DEF Length, Least, Safe
<1>3. max \in [dropletsLanded : Nat, peak2 : Nat, tilt : Nat, holdMs : Nat]
  <2>1. TelemetryCeilings(tier, Length(raw, wall))
        \in [dropletsLanded : Nat, peak2 : Nat, tilt : Nat, holdMs : Nat]
    BY <1>2, CeilingsType
  <2> QED BY <2>1 DEF Max
<1>4. limits = [max EXCEPT !.holdMs = most]
  BY DEF Limits, Max, Length
<1> HIDE DEF max, most, limits
<1>5. /\ limits["dropletsLanded"] = max.dropletsLanded /\ limits["peak2"] = max.peak2
      /\ limits["tilt"] = max.tilt /\ limits["holdMs"] = most
  BY <1>3, <1>4
<1>6. \A f \in Fields : Safe(raw[f]) \in Nat /\ limits[f] \in Nat
  BY <1>1, <1>3, <1>5 DEF Fields, Safe
<1>7. /\ out.telemetry = [f \in Fields |-> Least(Safe(raw[f]), limits[f])]
      /\ out.violations = {f \in Fields : Safe(raw[f]) > limits[f]}
  BY DEF ClampTelemetry, limits
<1> HIDE DEF out
<1>8. out.telemetry \in [Fields -> Nat]
  BY <1>6, <1>7 DEF Least
<1>9. /\ out.telemetry.dropletsLanded = Least(Safe(raw.dropletsLanded), max.dropletsLanded)
      /\ out.telemetry.peak2 = Least(Safe(raw.peak2), max.peak2)
      /\ out.telemetry.tilt = Least(Safe(raw.tilt), max.tilt)
      /\ out.telemetry.holdMs = Least(Safe(raw.holdMs), most)
  BY <1>5, <1>7 DEF Fields
<1>10. /\ "dropletsLanded" \in out.violations <=> Safe(raw.dropletsLanded) > max.dropletsLanded
       /\ "peak2" \in out.violations <=> Safe(raw.peak2) > max.peak2
       /\ "tilt" \in out.violations <=> Safe(raw.tilt) > max.tilt
       /\ "holdMs" \in out.violations <=> Safe(raw.holdMs) > most
       /\ out.violations \subseteq Fields
  BY <1>5, <1>7 DEF Fields
<1> QED BY <1>1, <1>2, <1>3, <1>8, <1>9, <1>10 DEF max, most, out, Length

(***************************************************************************)
(* Clamping what has been clamped changes nothing and flags nothing: a     *)
(* record that is read back and clamped again is the record.               *)
(***************************************************************************)
THEOREM ClampedOnceIsClamped ==
  ASSUME NEW raw \in [Fields -> Int], NEW tier \in Int, NEW wall \in Nat
  PROVE  LET once == ClampTelemetry(raw, tier, wall).telemetry
             twice == ClampTelemetry(once, tier, wall)
         IN once \in [Fields -> Nat] /\ twice.telemetry = once /\ twice.violations = {}
<1> DEFINE once == ClampTelemetry(raw, tier, wall).telemetry
           twice == ClampTelemetry(once, tier, wall)
           max == Max(raw, tier, wall)
           most == Least(wall, MaxPourMs)
<1>1. /\ Length(raw, wall) \in Nat /\ most \in Nat /\ Length(raw, wall) <= most
      /\ max \in [dropletsLanded : Nat, peak2 : Nat, tilt : Nat, holdMs : Nat]
      /\ once \in [Fields -> Nat]
      /\ once.dropletsLanded = Least(Safe(raw.dropletsLanded), max.dropletsLanded)
      /\ once.peak2 = Least(Safe(raw.peak2), max.peak2)
      /\ once.tilt = Least(Safe(raw.tilt), max.tilt)
      /\ once.holdMs = Length(raw, wall)
  BY ClampStep
<1>2. once \in [Fields -> Int]
  BY <1>1
<1> HIDE DEF once
<1>3. Length(once, wall) = Length(raw, wall)
  BY <1>1 DEF Length, Least, Safe, most
<1>4. Max(once, tier, wall) = max
  BY <1>3 DEF Max
<1>5. /\ twice.telemetry \in [Fields -> Nat]
      /\ twice.telemetry.dropletsLanded = Least(Safe(once.dropletsLanded), max.dropletsLanded)
      /\ twice.telemetry.peak2 = Least(Safe(once.peak2), max.peak2)
      /\ twice.telemetry.tilt = Least(Safe(once.tilt), max.tilt)
      /\ twice.telemetry.holdMs = Length(raw, wall)
      /\ "dropletsLanded" \in twice.violations <=> Safe(once.dropletsLanded) > max.dropletsLanded
      /\ "peak2" \in twice.violations <=> Safe(once.peak2) > max.peak2
      /\ "tilt" \in twice.violations <=> Safe(once.tilt) > max.tilt
      /\ "holdMs" \in twice.violations <=> Safe(once.holdMs) > most
      /\ twice.violations \subseteq Fields
  BY <1>2, <1>3, <1>4, ClampStep
<1> HIDE DEF twice, max, most
<1>6. \A v, m \in Int : m >= 0 => /\ Least(Safe(Least(Safe(v), m)), m) = Least(Safe(v), m)
                                 /\ ~(Safe(Least(Safe(v), m)) > m)
  BY DEF Least, Safe
<1>7. /\ raw.dropletsLanded \in Int /\ raw.peak2 \in Int /\ raw.tilt \in Int
      /\ max.dropletsLanded \in Nat /\ max.peak2 \in Nat /\ max.tilt \in Nat
  BY <1>1 DEF Fields
<1>8. /\ twice.telemetry.dropletsLanded = once.dropletsLanded
      /\ twice.telemetry.peak2 = once.peak2 /\ twice.telemetry.tilt = once.tilt
      /\ twice.telemetry.holdMs = once.holdMs
  BY <1>1, <1>5, <1>6, <1>7
<1>9. \A f \in Fields : twice.telemetry[f] = once[f]
  BY <1>8 DEF Fields
<1>10. twice.telemetry = once
  BY <1>1, <1>5, <1>9
<1>11. \A f \in Fields : f \notin twice.violations
  <2>1. ~(Safe(once.holdMs) > most)
    BY <1>1 DEF Safe
  <2> QED BY <2>1, <1>1, <1>5, <1>6, <1>7 DEF Fields
<1>12. twice.violations = {}
  BY <1>5, <1>11
<1> QED BY <1>1, <1>10, <1>12 DEF once, twice

(***************************************************************************)
(* The band cannot tell a claim from what the clamp leaves of it, as long  *)
(* as the hold is left: what the screen showed before the seal is what the *)
(* server mints, flagged or not.                                           *)
(***************************************************************************)
THEOREM ClampKeepsTheBand ==
  ASSUME NEW raw \in [Fields -> Nat], NEW tier \in Int, NEW wall \in Nat,
         raw.holdMs <= wall, raw.holdMs <= MaxPourMs
  PROVE  Classify(ClampTelemetry(raw, tier, wall).telemetry, tier) = Classify(raw, tier)
<1> DEFINE out == ClampTelemetry(raw, tier, wall).telemetry
           max == TelemetryCeilings(tier, raw.holdMs)
<1>1. raw \in [Fields -> Int] /\ raw.holdMs \in Nat /\ raw.dropletsLanded \in Nat
      /\ raw.peak2 \in Nat /\ raw.tilt \in Nat
  BY DEF Fields
<1>2. Length(raw, wall) = raw.holdMs
  BY <1>1, TelemetryAssumption DEF Length, Least, Safe
<1>3. /\ max \in [dropletsLanded : Nat, peak2 : Nat, tilt : Nat, holdMs : Nat]
      /\ out.dropletsLanded = Least(Safe(raw.dropletsLanded), max.dropletsLanded)
      /\ out.peak2 = Least(Safe(raw.peak2), max.peak2)
      /\ out.tilt = Least(Safe(raw.tilt), max.tilt)
      /\ out.holdMs = raw.holdMs
  BY <1>1, <1>2, ClampStep DEF Max
<1> HIDE DEF out, max
<1>4. /\ out.dropletsLanded = Least(raw.dropletsLanded, max.dropletsLanded)
      /\ out.peak2 = Least(raw.peak2, max.peak2)
      /\ out.tilt = Least(raw.tilt, max.tilt)
  BY <1>1, <1>3 DEF Safe
<1>5. /\ Permille(out.dropletsLanded, max.dropletsLanded) = Permille(raw.dropletsLanded, max.dropletsLanded)
      /\ Permille(out.tilt, max.tilt) = Permille(raw.tilt, max.tilt)
  BY <1>1, <1>3, <1>4, PermilleClamped
<1>6. Permille(Rounded(out.peak2), Rounded(max.peak2)) = Permille(Rounded(raw.peak2), Rounded(max.peak2))
  <2>1. CASE raw.peak2 <= max.peak2
    <3>1. out.peak2 = raw.peak2
      BY <1>1, <1>3, <1>4, <2>1 DEF Least
    <3> QED BY <3>1
  <2>2. CASE ~(raw.peak2 <= max.peak2)
    <3>1. out.peak2 = max.peak2 /\ max.peak2 \in Int /\ raw.peak2 \in Int
      BY <1>1, <1>3, <1>4, <2>2 DEF Least
    <3>2. max.peak2 <= raw.peak2
      BY <2>2, <3>1
    <3>3. /\ Rounded(max.peak2) \in Nat /\ Rounded(raw.peak2) \in Nat
          /\ Rounded(max.peak2) <= Rounded(raw.peak2)
      BY <3>1, <3>2, RoundedGrows
    <3> QED BY <3>1, <3>3 DEF Permille
  <2> QED BY <2>1, <2>2
<1>7. ScoreParts(out, tier) = ScoreParts(raw, tier)
  BY <1>3, <1>5, <1>6 DEF ScoreParts, max
<1> QED BY <1>7 DEF Classify, RarityScore, out

-----------------------------------------------------------------------------
(***************************************************************************)
(* No score is above the whole of a tier's reach, and the flawless pour    *)
(* has the whole of it.                                                    *)
(***************************************************************************)
Reach(tier) == 50 + 10 * ClampTierIndex(tier)

LEMMA ReachType == \A tier \in Int : Reach(tier) \in {50, 60, 70, 80, 90, 100}
BY SMT, FlowType DEF Reach

LEMMA ScoreBound ==
  ASSUME NEW telemetry \in [Fields -> Nat], NEW tier \in Int
  PROVE  RarityScore(telemetry, tier) \in 0..(10 * Reach(tier))
<1> DEFINE max == TelemetryCeilings(tier, telemetry.holdMs)
           a == Permille(telemetry.dropletsLanded, max.dropletsLanded)
           b == Permille(Rounded(telemetry.peak2), Rounded(max.peak2))
           c == Permille(telemetry.holdMs, MaxPourMs)
           d == Permille(telemetry.tilt, max.tilt)
           n == a * 40 + b * 25 + c * 20 + (1000 - d) * 15
           base == n \div 100
<1>1. /\ telemetry.dropletsLanded \in Int /\ telemetry.peak2 \in Int
      /\ telemetry.tilt \in Int /\ telemetry.holdMs \in Nat /\ MaxPourMs \in Int
  BY TelemetryAssumption DEF Fields
<1>2. max \in [dropletsLanded : Nat, peak2 : Nat, tilt : Nat, holdMs : Nat]
  BY <1>1, CeilingsType
<1>3. RarityScore(telemetry, tier) = (base * Reach(tier)) \div 100
  BY DEF RarityScore, ScoreParts, Reach
<1> HIDE DEF max
<1>4. /\ telemetry.holdMs \in Int /\ max.dropletsLanded \in Int /\ max.tilt \in Int
      /\ Rounded(telemetry.peak2) \in Int /\ Rounded(max.peak2) \in Int
  <2>1. telemetry.holdMs \in Int /\ max.dropletsLanded \in Int /\ max.tilt \in Int
        /\ max.peak2 \in Int
    BY <1>1, <1>2
  <2> QED BY <1>1, <2>1, RoundedGrows
<1>5. a \in Int /\ 0 <= a /\ a <= 1000
  <2> DEFINE v == telemetry.dropletsLanded
             m == max.dropletsLanded
  <2>1. v \in Int /\ m \in Int
    BY <1>1, <1>4
  <2>2. a = Permille(v, m)
    OBVIOUS
  <2> HIDE DEF v, m, a
  <2>3. Permille(v, m) \in Int /\ 0 <= Permille(v, m) /\ Permille(v, m) <= 1000
    BY <2>1, PermilleRange
  <2> QED BY <2>2, <2>3
<1>6. b \in Int /\ 0 <= b /\ b <= 1000
  <2> DEFINE v == Rounded(telemetry.peak2)
             m == Rounded(max.peak2)
  <2>1. v \in Int /\ m \in Int
    BY <1>1, <1>4
  <2>2. b = Permille(v, m)
    OBVIOUS
  <2> HIDE DEF v, m, b
  <2>3. Permille(v, m) \in Int /\ 0 <= Permille(v, m) /\ Permille(v, m) <= 1000
    BY <2>1, PermilleRange
  <2> QED BY <2>2, <2>3
<1>7. c \in Int /\ 0 <= c /\ c <= 1000
  <2> DEFINE v == telemetry.holdMs
             m == MaxPourMs
  <2>1. v \in Int /\ m \in Int
    BY <1>1, <1>4
  <2>2. c = Permille(v, m)
    OBVIOUS
  <2> HIDE DEF v, m, c
  <2>3. Permille(v, m) \in Int /\ 0 <= Permille(v, m) /\ Permille(v, m) <= 1000
    BY <2>1, PermilleRange
  <2> QED BY <2>2, <2>3
<1>8. d \in Int /\ 0 <= d /\ d <= 1000
  <2> DEFINE v == telemetry.tilt
             m == max.tilt
  <2>1. v \in Int /\ m \in Int
    BY <1>1, <1>4
  <2>2. d = Permille(v, m)
    OBVIOUS
  <2> HIDE DEF v, m, d
  <2>3. Permille(v, m) \in Int /\ 0 <= Permille(v, m) /\ Permille(v, m) <= 1000
    BY <2>1, PermilleRange
  <2> QED BY <2>2, <2>3
<1> HIDE DEF a, b, c, d
<1>9. n \in Int /\ 0 <= n /\ n <= 100000
  BY SMT, <1>5, <1>6, <1>7, <1>8
<1> HIDE DEF n
<1>10. base \in Int /\ 0 <= base /\ base <= 1000
  BY SMT, <1>9
<1> HIDE DEF base
<1> DEFINE r == Reach(tier)
           s == RarityScore(telemetry, tier)
<1>11. r \in {50, 60, 70, 80, 90, 100}
  BY ReachType
<1>12. s = (base * r) \div 100
  BY <1>3
<1> HIDE DEF r, s
<1>13. r = 50 \/ r = 60 \/ r = 70 \/ r = 80 \/ r = 90 \/ r = 100
  BY <1>11
<1>14. s \in 0..(10 * r)
  BY SMT, <1>10, <1>12, <1>13
<1> QED BY <1>14 DEF r, s

LEMMA FlawlessScore ==
  ASSUME NEW tier \in Int, MaxPourMs <= 1000000
  PROVE  RarityScore(ClampTelemetry(Flawless, tier, MaxPourMs).telemetry, tier) = 10 * Reach(tier)
<1> DEFINE out == ClampTelemetry(Flawless, tier, MaxPourMs).telemetry
           max == TelemetryCeilings(tier, MaxPourMs)
           parts == ScoreParts(out, tier)
<1>1. MaxPourMs \in Nat /\ MaxPourMs >= 1
  BY TelemetryAssumption
<1>2. /\ max \in [dropletsLanded : Nat, peak2 : Nat, tilt : Nat, holdMs : Nat]
      /\ max.peak2 >= 57 /\ max.peak2 <= 2000000000
      /\ max.tilt = 6 * MaxPourMs
      /\ max.dropletsLanded >= 1 /\ max.dropletsLanded <= 2000000000
  BY SMT, <1>1, CeilingsBounds
<1> HIDE DEF max
<1>3. /\ out.dropletsLanded = max.dropletsLanded /\ out.peak2 = max.peak2
      /\ out.tilt = 0 /\ out.holdMs = MaxPourMs
  <2> DEFINE limits == Limits(Flawless, tier, MaxPourMs)
  <2>1. Least(Safe(Flawless.holdMs), Least(MaxPourMs, MaxPourMs)) = MaxPourMs
    BY SMT, <1>1 DEF Flawless, Least, Safe
  <2>2. limits = [max EXCEPT !.holdMs = MaxPourMs]
    BY SMT, <1>1, <2>1 DEF Limits, Least, max
  <2> HIDE DEF limits
  <2>3. /\ limits["dropletsLanded"] = max.dropletsLanded /\ limits["peak2"] = max.peak2
        /\ limits["tilt"] = max.tilt /\ limits["holdMs"] = MaxPourMs
    BY SMT, <1>2, <2>2
  <2>4. out = [f \in Fields |-> Least(Safe(Flawless[f]), limits[f])]
    BY DEF ClampTelemetry, limits
  <2> HIDE DEF out
  <2>5. /\ out.dropletsLanded = Least(Safe(Flawless.dropletsLanded), max.dropletsLanded)
        /\ out.peak2 = Least(Safe(Flawless.peak2), max.peak2)
        /\ out.tilt = Least(Safe(Flawless.tilt), max.tilt)
        /\ out.holdMs = Least(Safe(Flawless.holdMs), MaxPourMs)
    BY <2>3, <2>4 DEF Fields
  <2> QED BY SMT, <1>1, <1>2, <2>5 DEF Flawless, Least, Safe
<1> HIDE DEF out
<1>4. Rounded(max.peak2) \in Nat /\ Rounded(max.peak2) >= 1
  BY SMT, <1>2, RoundedGrows
<1>5. \A m \in Nat : m >= 1 => Permille(m, m) = 1000 /\ Permille(0, m) = 0
  BY SMT DEF Permille
<1>6. /\ parts.fill = Permille(max.dropletsLanded, max.dropletsLanded)
      /\ parts.force = Permille(Rounded(max.peak2), Rounded(max.peak2))
      /\ parts.commitment = Permille(MaxPourMs, MaxPourMs)
      /\ parts.steadiness = 1000 - Permille(0, max.tilt)
      /\ parts.score = (((parts.fill * 40 + parts.force * 25 + parts.commitment * 20
                          + parts.steadiness * 15) \div 100) * Reach(tier)) \div 100
  BY <1>3 DEF ScoreParts, Reach, max
<1> HIDE DEF parts
<1>7. parts.fill = 1000 /\ parts.force = 1000 /\ parts.commitment = 1000 /\ parts.steadiness = 1000
  BY SMT, <1>1, <1>2, <1>4, <1>5, <1>6
<1>8. parts.score = (1000 * Reach(tier)) \div 100
  BY SMT, <1>6, <1>7, ReachType
<1> QED BY SMT, <1>8, ReachType DEF RarityScore, out, parts

(***************************************************************************)
(* No claim is of a band above the one its tier's row names, and every     *)
(* band is a band: whatever the clamp lets through, the row is right.      *)
(***************************************************************************)
THEOREM NoneAboveReachable ==
  ASSUME NEW telemetry \in [Fields -> Nat], NEW tier \in Int, MaxPourMs <= 1000000
  PROVE  Classify(telemetry, tier) <= ReachableRarity(tier) /\ Classify(telemetry, tier) \in Rarities
<1> DEFINE flawless == ClampTelemetry(Flawless, tier, MaxPourMs).telemetry
           s == RarityScore(telemetry, tier)
           t == RarityScore(flawless, tier)
<1>1. s \in Int /\ t \in Int /\ s <= t
  BY SMT, ScoreBound, FlawlessScore, ReachType
<1> HIDE DEF s, t
<1>2. /\ Classify(telemetry, tier) = CASE s >= 771 -> 3 [] s >= 665 /\ s < 771 -> 2
                                     [] s >= 533 /\ s < 665 -> 1 [] OTHER -> 0
      /\ ReachableRarity(tier) = CASE t >= 771 -> 3 [] t >= 665 /\ t < 771 -> 2
                                 [] t >= 533 /\ t < 665 -> 1 [] OTHER -> 0
  BY SMT DEF Classify, ReachableRarity, Thresholds, Common, Uncommon, Rare, Singular, s, t
<1> QED BY SMT, <1>1, <1>2 DEF Rarities, Common, Singular
=============================================================================
