------------------------------ MODULE Telemetry ------------------------------
(***************************************************************************)
(* What a pour may claim and what it earns: the clamp (sigil/telemetry.ts  *)
(* and its Go twin), the score and its bands (sigil/rarity.ts), and the    *)
(* best band a tier can reach (ceremony/tiers.ts).                         *)
(*                                                                         *)
(* A float is an integer in a unit fine enough to be exact: the hold in    *)
(* milliseconds, the tilt in thousandths, and the peak velocity as its     *)
(* square, in (units per second)^2 / 225, which spares the square root.    *)
(* A negative number stands for a negative claim.                          *)
(***************************************************************************)
EXTENDS Integers

CONSTANT MaxPourMs    \* SIM.maxPourMs

ASSUME TelemetryAssumption == MaxPourMs \in Nat \ {0}

Fields == {"dropletsLanded", "peak2", "tilt", "holdMs"}

TierBounds == <<10, 16, 20, 24, 28, 34>>    \* flow, in droplets per second
TopTier == 5

ClampTierIndex(tierIndex) ==
  IF tierIndex < 0 THEN 0 ELSE IF tierIndex > TopTier THEN TopTier ELSE tierIndex

Flow(tierIndex) == TierBounds[ClampTierIndex(tierIndex) + 1]

-----------------------------------------------------------------------------
Least(a, b) == IF a < b THEN a ELSE b
Safe(value) == IF value < 0 THEN 0 ELSE value
CeilDiv(a, b) == (a + b - 1) \div b

\* SIM.gravity and SIM.spawnVyMax in fifteenths of a unit, over milliseconds.
SpawnVy == 15 * 120
SpawnVx == 15 * 45
FallSpeed(ms) == SpawnVy + 21 * Least(ms, 1200)

(***************************************************************************)
(* The most that a pour of this tier and this length can have done.        *)
(* 1.1 squared is 1 + 1/5 + 1/100.                                         *)
(***************************************************************************)
TelemetryCeilings(tierIndex, ms) ==
  LET fall == FallSpeed(ms) * FallSpeed(ms) + SpawnVx * SpawnVx
  IN [dropletsLanded |-> CeilDiv(Flow(tierIndex) * ms * 115, 100000),
      peak2 |-> fall + fall \div 5 + fall \div 100,
      tilt |-> 6 * ms,
      holdMs |-> ms]

Limits(raw, tierIndex, wallClockMs) ==
  LET most == Least(wallClockMs, MaxPourMs)
  IN [TelemetryCeilings(tierIndex, Least(Safe(raw.holdMs), most)) EXCEPT !.holdMs = most]

ClampTelemetry(raw, tierIndex, wallClockMs) ==
  LET limits == Limits(raw, tierIndex, wallClockMs)
  IN [telemetry |-> [f \in Fields |-> Least(Safe(raw[f]), limits[f])],
      violations |-> {f \in Fields : Safe(raw[f]) > limits[f]}]

-----------------------------------------------------------------------------
(***************************************************************************)
(* Math.round(sqrt(square) / 15), for results below 2048, bit by bit:      *)
(* r - 1/2 <= sqrt(q / 225)  <=>  225 (r^2 - r) + 57 <= q.                 *)
(***************************************************************************)
Reaches(square, r) == 225 * (r * r - r) + 57 <= square

Bit(square, root, bit) == IF Reaches(square, root + bit) THEN root + bit ELSE root

Rounded(square) ==
  LET high == Bit(square, Bit(square, Bit(square, Bit(square, 0, 1024), 512), 256), 128)
      mid == Bit(square, Bit(square, Bit(square, Bit(square, high, 64), 32), 16), 8)
  IN Bit(square, Bit(square, Bit(square, mid, 4), 2), 1)

Permille(value, max) ==
  IF max <= 0 \/ value < 0 THEN 0 ELSE IF value >= max THEN 1000 ELSE (value * 1000) \div max

ScoreParts(telemetry, tierIndex) ==
  LET max == TelemetryCeilings(tierIndex, telemetry.holdMs)
      fill == Permille(telemetry.dropletsLanded, max.dropletsLanded)
      force == Permille(Rounded(telemetry.peak2), Rounded(max.peak2))
      commitment == Permille(telemetry.holdMs, MaxPourMs)
      steadiness == 1000 - Permille(telemetry.tilt, max.tilt)
      base == (fill * 40 + force * 25 + commitment * 20 + steadiness * 15) \div 100
      reach == 50 + 10 * ClampTierIndex(tierIndex)
  IN [fill |-> fill, force |-> force, commitment |-> commitment, steadiness |-> steadiness,
      score |-> (base * reach) \div 100]

RarityScore(telemetry, tierIndex) == ScoreParts(telemetry, tierIndex).score

Thresholds == [uncommon |-> 533, rare |-> 665, singular |-> 771]

\* RARITIES, by rank.
Common == 0
Uncommon == 1
Rare == 2
Singular == 3
Rarities == Common..Singular

Classify(telemetry, tierIndex) ==
  LET score == RarityScore(telemetry, tierIndex)
  IN CASE score >= Thresholds.singular -> Singular
       [] score >= Thresholds.rare /\ score < Thresholds.singular -> Rare
       [] score >= Thresholds.uncommon /\ score < Thresholds.rare -> Uncommon
       [] OTHER -> Common

(***************************************************************************)
(* The best a tier can reach: more of everything than the clamp allows,    *)
(* with a perfectly steady hand.                                           *)
(***************************************************************************)
\* Mutant: Infinity for "more than allowed", which the clamp takes for no claim at all.
FlawlessInfinite == [dropletsLanded |-> 0, peak2 |-> 0, tilt |-> 0, holdMs |-> MaxPourMs]
Flawless == [dropletsLanded |-> 2000000000, peak2 |-> 2000000000, tilt |-> 0, holdMs |-> MaxPourMs]

ReachableRarity(tierIndex) ==
  Classify(ClampTelemetry(Flawless, tierIndex, MaxPourMs).telemetry, tierIndex)
=============================================================================
