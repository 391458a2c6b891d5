--------------------------------- MODULE Rig ---------------------------------
(***************************************************************************)
(* The rig of one pour (app/ceremony/rig.ts) under the screen's frame loop *)
(* (app/ceremony/PourScreen.tsx), down to the ring of blobs, and the       *)
(* telemetry it reports against the clamp the server applies.              *)
(*                                                                         *)
(* Time is counted in ticks of a third of a millisecond, so that a frame   *)
(* at sixty hertz is 50 of them.  The fall is modelled by how long it has  *)
(* lasted: the speed is a function of it, and the floor is reached between *)
(* FallMin and FallMax.  The spawn's jitter is taken at its largest and    *)
(* the drag at the thinnest tier's, so a speed here is the most it can be. *)
(*                                                                         *)
(* The tier is the shell's (app/App.tsx): every frame, every readout and   *)
(* the seal read it live, and the deployment's configuration may lower it  *)
(* while the stream is open.                                               *)
(***************************************************************************)
EXTENDS Telemetry, FiniteSets

CONSTANTS
  MAX_BLOBS,         \* slots in the ring
  FallMin, FallMax,  \* ticks from the spout to the floor
  Frames,            \* lengths of a frame, in ticks, capped by the screen at 100 ms
  Tiers,             \* the tiers poured at
  Ceiling,           \* the highest tier this deployment mints (GET /api/config)
  Skews,             \* how far the client's clock may run ahead of the server's, in ms
  MaxAge             \* bound: ticks a pour is followed for

TicksPerMs == 3
MaxFrame == 50 * TicksPerMs      \* MAX_FRAME_MS
Readout == 100 * TicksPerMs      \* READOUT_MS
OneDroplet == 1000 * TicksPerMs  \* spawnAcc's one, in a droplet per second times ticks

ASSUME RigAssumption ==
  /\ MAX_BLOBS \in Nat \ {0} /\ MaxAge \in Nat
  /\ FallMin \in Nat \ {0} /\ FallMax \in Nat /\ FallMin <= FallMax
  /\ Frames \subseteq 1..(100 * TicksPerMs)
  /\ Tiers \subseteq 0..TopTier /\ Ceiling \in Tiers /\ Skews \subseteq Nat

VARIABLES
  rig,
  tier,         \* tierIndex
  config,       \* the configuration: pending, known
  pouring,      \* pouringRef
  phase,
  rarity,       \* the band last painted
  readoutAcc,
  opened,       \* history: the tier the pour's stream was first opened at
  age,          \* history: ticks from the first opening of the stream until the pour settled
  spawned,      \* history: droplets that left the spout
  quiet         \* history: ticks since the pour settled and its tier was last lowered,
                \* up to one readout

vars == <<rig, tier, config, pouring, phase, rarity, readoutAcc, opened, age, spawned, quiet>>

Slots == 0..(MAX_BLOBS - 1)
FreeSlot == [at |-> "free", fallen |-> 0, vx |-> 0]
LandedSlot == [FreeSlot EXCEPT !.at = "landed"]

EmptyRig == [blobs |-> [i \in Slots |-> FreeSlot], cursor |-> 0, spawnAcc |-> 0,
             hold |-> 0, dropletsLanded |-> 0, peak2 |-> 0, tilt |-> 0,
             airborne |-> 0, finished |-> FALSE]

Init ==
  /\ rig = EmptyRig /\ tier \in Tiers /\ config = "pending"
  /\ pouring = FALSE /\ phase = "idle" /\ rarity = Common /\ readoutAcc = 0
  /\ opened = tier /\ age = 0 /\ spawned = 0 /\ quiet = 0

-----------------------------------------------------------------------------
Aloft(blobs) == {i \in Slots : blobs[i].at = "aloft"}

\* The square of a falling blob's speed, in the unit of peak2.
Speed2(blob) ==
  LET vy == SpawnVy + 7 * blob.fallen IN vy * vy + blob.vx * blob.vx

\* One frame's drag at viscosity 0.15 and no more: (1 - 0.0825)^(8 dt) <= 1 - dt / 1.5 s.
Dragged(vx, dt) == vx - (vx * dt) \div 4500

\* Mutant: the design prototype's flow.
SpawnRateGenerous(flow) == flow + flow \div 2
SpawnRate(flow) == flow

Moved(blob, dt) ==
  IF blob.at = "aloft" THEN [blob EXCEPT !.fallen = @ + dt, !.vx = Dragged(@, dt)] ELSE blob

\* Mutant: velocity recorded in the pixels of a retina display.
SampleUnscaled(blobs) == {4 * Speed2(blobs[i]) : i \in Aloft(blobs)}
Sample(blobs) == {Speed2(blobs[i]) : i \in Aloft(blobs)}

Airborne(blobs, lands) == Cardinality(Aloft(blobs))

\* Mutant: a slot is reused with the landed flag of the blob before it.
SpawnedUncleared(blobs, filled, lean) ==
  [i \in Slots |-> IF i \in filled /\ blobs[i].at # "landed"
                   THEN [at |-> "aloft", fallen |-> 0, vx |-> SpawnVx * (1 + lean)]
                   ELSE blobs[i]]
Spawned(blobs, filled, lean) ==
  [i \in Slots |-> IF i \in filled
                   THEN [at |-> "aloft", fallen |-> 0, vx |-> SpawnVx * (1 + lean)]
                   ELSE blobs[i]]

\* Mutant: the tilt of the frame as the clock measured it, not as it was integrated.
TiltOfClock(lean, dtTicks) == 2 * lean * dtTicks
TiltOf(lean, dtTicks) == 2 * lean * Least(dtTicks, MaxFrame)

(***************************************************************************)
(* stepRig.  The hold follows the clock and everything else the capped     *)
(* frame.  Some of the blobs that have fallen far enough land.  A blob     *)
(* that has landed and then leaves the stage or dissolves frees its slot,  *)
(* which nothing but the readout of the slots in use can see: it is left   *)
(* where it landed until the cursor comes round.                           *)
(***************************************************************************)
StepRig(open, lean, dtTicks) ==
  LET dt == Least(dtTicks, MaxFrame)
      acc == IF open THEN rig.spawnAcc + SpawnRate(Flow(tier)) * dt ELSE 0
      filled == {(rig.cursor + k) % MAX_BLOBS : k \in 0..(acc \div OneDroplet - 1)}
      full == Spawned(rig.blobs, filled, lean)
      moved == [i \in Slots |-> Moved(full[i], dt)]
      hold == IF open THEN Least(rig.hold + dtTicks, MaxPourMs * TicksPerMs) ELSE rig.hold
      speeds == {rig.peak2} \cup (IF open THEN Sample(moved) ELSE {})
      low(fallen) == {i \in Aloft(moved) : moved[i].fallen >= fallen}
  IN \E lands \in SUBSET low(FallMin), peak \in speeds :
     /\ low(FallMax) \subseteq lands
     /\ \A speed \in speeds : speed <= peak
     /\ rig' = [blobs |-> [i \in Slots |-> IF i \in lands THEN LandedSlot ELSE moved[i]],
                cursor |-> (rig.cursor + acc \div OneDroplet) % MAX_BLOBS,
                spawnAcc |-> acc % OneDroplet,
                hold |-> hold,
                dropletsLanded |-> rig.dropletsLanded + Cardinality(lands),
                peak2 |-> peak,
                tilt |-> rig.tilt + IF open THEN TiltOf(lean, dtTicks) ELSE 0,
                airborne |-> Airborne(moved, lands),
                finished |-> hold >= MaxPourMs * TicksPerMs]
     /\ spawned' = spawned + acc \div OneDroplet

IsSettled(r, open) == ~open /\ r.hold > 0 /\ r.airborne = 0

TelemetryOf(r) == [dropletsLanded |-> r.dropletsLanded, peak2 |-> r.peak2, tilt |-> r.tilt,
                   holdMs |-> r.hold \div TicksPerMs]

-----------------------------------------------------------------------------
OpenStream ==
  /\ phase # "settled" /\ ~rig.finished /\ ~pouring
  /\ pouring' = TRUE /\ phase' = "pouring"
  /\ opened' = IF phase = "idle" THEN tier ELSE opened
  /\ UNCHANGED <<rig, tier, config, rarity, readoutAcc, age, spawned, quiet>>

CloseStream ==
  /\ pouring
  /\ pouring' = FALSE /\ phase' = "settling"
  /\ UNCHANGED <<rig, tier, config, rarity, readoutAcc, opened, age, spawned, quiet>>

Discard ==
  /\ phase # "idle"
  /\ pouring' = FALSE /\ phase' = "idle" /\ rarity' = Common
  /\ rig' = EmptyRig
  /\ age' = 0 /\ spawned' = 0 /\ quiet' = 0
  /\ UNCHANGED <<tier, config, readoutAcc, opened>>

(***************************************************************************)
(* The deployment's configuration arrives, whatever the stream is doing,   *)
(* and the selection is brought under its ceiling.                         *)
(***************************************************************************)
Lowered(t) == Least(t, Ceiling)

ConfigArrives ==
  /\ config = "pending"
  /\ config' = "known" /\ tier' = Lowered(tier) /\ quiet' = 0
  /\ UNCHANGED <<rig, pouring, phase, rarity, readoutAcc, opened, age, spawned>>

(***************************************************************************)
(* paintReadout, ten times a second: the one thing in it that is state is  *)
(* the band.                                                               *)
(***************************************************************************)
\* Mutant: nothing is painted once the stream has closed.
PaintReadoutOpen(dt) ==
  LET due == readoutAcc + dt >= Readout
  IN /\ readoutAcc' = IF due THEN 0 ELSE readoutAcc + dt
     /\ rarity' = IF due /\ pouring THEN Classify(TelemetryOf(rig'), tier) ELSE rarity
\* Mutant: the readout's clock is never set back.
PaintReadoutUnreset(dt) ==
  /\ readoutAcc' = readoutAcc + dt
  /\ rarity' = IF readoutAcc + dt >= Readout THEN Classify(TelemetryOf(rig'), tier) ELSE rarity
PaintReadout(dt) ==
  LET due == readoutAcc + dt >= Readout
  IN /\ readoutAcc' = IF due THEN 0 ELSE readoutAcc + dt
     /\ rarity' = IF due THEN Classify(TelemetryOf(rig'), tier) ELSE rarity

Counting == phase # "settled" /\ (age > 0 \/ pouring)

(***************************************************************************)
(* One frame: the rig is stepped at the tier as it now is, the hard stop   *)
(* closes the stream, a settling pour that has settled is settled, and the *)
(* readout is painted.                                                     *)
(***************************************************************************)
Frame(dt, lean) ==
  /\ Counting => age + dt <= MaxAge
  /\ StepRig(pouring /\ ~rig.finished, lean, dt)
  /\ LET stops == rig'.finished /\ ~rig.finished
         open == pouring /\ ~stops
     IN /\ pouring' = open
        /\ phase' = IF phase = "settling" /\ IsSettled(rig', open) THEN "settled"
                    ELSE IF pouring /\ stops THEN "settling" ELSE phase
  /\ PaintReadout(dt)
  /\ age' = IF Counting THEN age + dt ELSE age
  /\ quiet' = IF phase = "settled" THEN Least(quiet + dt, Readout) ELSE 0
  /\ UNCHANGED <<tier, config, opened>>

(***************************************************************************)
(* How far the stream leans, to either side.  The pointer's handler knows  *)
(* how many half widths it is from the vessel's middle, the device's how   *)
(* many 45 degrees it is turned, and both clamp it to one: its ends are    *)
(* the extremes of every ceiling.                                          *)
(***************************************************************************)
Pointed == {Least(halves, 1) : halves \in 0..2}
Oriented == {Least(turns, 1) : turns \in 0..4}
Leans == Pointed \cup Oriented

Next ==
  \/ OpenStream \/ CloseStream \/ Discard \/ ConfigArrives
  \/ \E dt \in Frames, lean \in Leans : Frame(dt, lean)

Spec == Init /\ [][Next]_vars

(***************************************************************************)
(* The wall clock of the mint (pour.go): the server's time minus the start *)
(* the client read, never below zero.  A seal pressed as soon as the pour  *)
(* settles leaves it the least.                                            *)
(***************************************************************************)
WallClock(skew) == Safe(age \div TicksPerMs - skew)

Minted(skew) == ClampTelemetry(TelemetryOf(rig), tier, WallClock(skew))

(***************************************************************************)
(* Whether a ring of this many slots outlasts a fall of this many ticks:   *)
(* at no tier are there more droplets than slots in the time of one fall   *)
(* and the longest frame integrated after it (MAX_BLOBS, rig.ts:50).       *)
(***************************************************************************)
RingHolds(slots, fall) == \A t \in 0..TopTier : Flow(t) * (fall - 1 + MaxFrame) <= OneDroplet * slots

(***************************************************************************)
(* Whether the ceiling of the speed is above these falls at these frames:  *)
(* no fall outlasts the 1200 ms the ceiling counts, and no frame is of the *)
(* 27 to 33 ms that let the pour's first droplet fall in its first frame.  *)
(***************************************************************************)
SpeedHolds(fall, frames) ==
  /\ fall + MaxFrame <= 1200 * TicksPerMs
  /\ \A dt \in frames : dt <= 80 \/ dt >= 100

-----------------------------------------------------------------------------
(***************************************************************************)
(* Type correctness.                                                       *)
(***************************************************************************)
Blobs == [at : {"free", "aloft", "landed"}, fallen : 0..(FallMax + MaxFrame), vx : 0..(2 * SpawnVx)]

TypeOK ==
  /\ rig.blobs \in [Slots -> Blobs] /\ rig.cursor \in Slots /\ rig.spawnAcc \in 0..(OneDroplet - 1)
  /\ rig.hold \in 0..(MaxPourMs * TicksPerMs) /\ rig.dropletsLanded \in Nat
  /\ rig.peak2 \in Nat /\ rig.tilt \in Nat /\ rig.airborne \in 0..MAX_BLOBS
  /\ rig.finished \in BOOLEAN
  /\ tier \in Tiers /\ opened \in Tiers /\ config \in {"pending", "known"} /\ pouring \in BOOLEAN
  /\ phase \in {"idle", "pouring", "settling", "settled"} /\ rarity \in Rarities
  /\ readoutAcc \in 0..(Readout - 1) /\ age \in 0..MaxAge /\ spawned \in Nat
  /\ quiet \in 0..Readout

(***************************************************************************)
(* Every droplet that left the spout has landed exactly once or is still   *)
(* falling (rig.ts, invariant 4): the ring never takes back the slot of a  *)
(* droplet in the air, and a slot taken back forgets its landing.          *)
(***************************************************************************)
EveryDropletLands == spawned = rig.dropletsLanded + Cardinality(Aloft(rig.blobs))

(***************************************************************************)
(* "Spawning at exactly flow guarantees landings can never exceed it"      *)
(* (rig.ts, invariant 1) is so of the tier the stream was opened at: the   *)
(* hard stop's last frame, the floored hold and a tier lowered on the way  *)
(* included, the landings are never over what that tier's flow permits.    *)
(* The clamp reads the tier at the seal.  Only of a pour whose tier the    *)
(* configuration lowered after the opening can it take droplets, and of    *)
(* such a pour it does: those that fell at the higher flow.                *)
(***************************************************************************)
DropletsWithin ==
  rig.dropletsLanded <= TelemetryCeilings(opened, rig.hold \div TicksPerMs).dropletsLanded

(***************************************************************************)
(* The fastest droplet fell no longer than the pour has lasted, closings   *)
(* included: the speed is within the ceiling of the time since the stream  *)
(* was first opened.  (Of the hold it is not: see HonestNeverFlagged.)     *)
(***************************************************************************)
SpeedWithinAge ==
  rig.peak2 <= TelemetryCeilings(tier, age \div TicksPerMs).peak2

(***************************************************************************)
(* The tilt an honest pour may be flagged for is at most one integrated    *)
(* frame's and the millisecond lost to rounding.                           *)
(***************************************************************************)
TiltWithinAFrame == rig.tilt <= 2 * (rig.hold + MaxFrame)

(***************************************************************************)
(* From one readout after the pour settled, and after the configuration    *)
(* last lowered its tier, the band on the seal is the band the server      *)
(* mints, flagged or not, as long as the client's clock does not run so    *)
(* far ahead that the server thinks the hold impossible.                   *)
(***************************************************************************)
PreviewIsMinted ==
  \A skew \in Skews :
    phase = "settled" /\ quiet >= Readout /\ WallClock(skew) >= TelemetryOf(rig).holdMs
      => rarity = Classify(Minted(skew).telemetry, tier)

(***************************************************************************)
(* The row of a tier names "the best classification a tier can reach"      *)
(* (tiers.ts): no pour is minted above it.                                 *)
(***************************************************************************)
NoneBeatsReachable ==
  phase = "settled" => \A skew \in Skews : Classify(Minted(skew).telemetry, tier) <= ReachableRarity(tier)

(***************************************************************************)
(* "A number re-typed here would let the rig produce telemetry its own     *)
(* clamp rejects -- the user would watch a legitimate pour come back       *)
(* flagged as an overclaim" (rig.ts): a settled pour by an honest client   *)
(* with a true clock is never flagged.                                     *)
(***************************************************************************)
HonestNeverFlagged == phase = "settled" => Minted(0).violations = {}
=============================================================================
