------------------------------ MODULE RigProofs ------------------------------
(***************************************************************************)
(* What the rig keeps for any ring, any lengths of fall and of frame, any  *)
(* hard stop and any skew of the clocks.                                   *)
(*                                                                         *)
(* The meter of the spout is what bounds the landings: what has left it    *)
(* and what is owed to the next droplet are at most the flow times the     *)
(* hold, but for the frame the hard stop cut short.  The flow is that of   *)
(* the tier the stream was opened at: a tier lowered on the way only makes *)
(* the meter slower.                                                       *)
(*                                                                         *)
(* The same meter, at the fullest flow and since a droplet left, bounds    *)
(* those that left after it: that is why the ring does not come round to   *)
(* it while it falls.  And a droplet is younger than its pour by the time  *)
(* the meter took to fill, which is why its speed is within the ceiling of *)
(* the pour's age.                                                         *)
(***************************************************************************)
EXTENDS Rig, TelemetryProofs, FiniteSetTheorems

Stop == MaxPourMs * TicksPerMs

\* A blob that would have reached the floor is on it.
Falling == \A i \in Slots : rig.blobs[i].at = "aloft" => rig.blobs[i].fallen < FallMax

Stopped == rig.finished <=> rig.hold >= Stop

\* Every landing is of a droplet that left the spout.
Landed == rig.dropletsLanded + Cardinality(Aloft(rig.blobs)) <= spawned

Metered == OneDroplet * spawned + rig.spawnAcc
             <= Flow(opened) * (rig.hold + IF rig.finished THEN MaxFrame ELSE 0)

Tilted == rig.tilt <= 2 * (rig.hold + IF rig.finished THEN MaxFrame ELSE 0)

\* Once settled nothing of the telemetry moves, and the readout is overtaking it.
Rested ==
  phase = "settled" =>
    /\ ~pouring /\ Aloft(rig.blobs) = {}
    /\ \/ rarity = Classify(TelemetryOf(rig), tier)
       \/ quiet <= readoutAcc /\ quiet < Readout

\* Before the stream is opened nothing has left the spout.
Idle ==
  phase = "idle" => ~pouring /\ spawned = 0 /\ rig.spawnAcc = 0 /\ Aloft(rig.blobs) = {}

\* Nothing raises the tier of a pour.
Above == phase # "idle" => tier <= opened

IInv == TypeOK /\ Idle /\ Above /\ Falling /\ Stopped /\ Landed /\ Metered /\ Tilted /\ Rested

-----------------------------------------------------------------------------
(***************************************************************************)
(* Counting blobs.                                                         *)
(***************************************************************************)
LEMMA SlotsFinite == IsFiniteSet(Slots) /\ Cardinality(Slots) = MAX_BLOBS
<1>1. MAX_BLOBS \in Nat /\ MAX_BLOBS > 0
  BY RigAssumption
<1>2. 0 \in Int /\ MAX_BLOBS - 1 \in Int
  BY <1>1
<1>3. IsFiniteSet(0..(MAX_BLOBS - 1))
      /\ Cardinality(0..(MAX_BLOBS - 1)) = IF 0 > MAX_BLOBS - 1 THEN 0 ELSE (MAX_BLOBS - 1) - 0 + 1
  BY <1>2, FS_Interval
<1> QED BY <1>1, <1>3 DEF Slots

LEMMA AloftFinite ==
  \A blobs : /\ Aloft(blobs) \subseteq Slots /\ IsFiniteSet(Aloft(blobs))
             /\ Cardinality(Aloft(blobs)) \in Nat /\ Cardinality(Aloft(blobs)) <= MAX_BLOBS
<1> SUFFICES ASSUME NEW blobs
             PROVE  /\ Aloft(blobs) \subseteq Slots /\ IsFiniteSet(Aloft(blobs))
                    /\ Cardinality(Aloft(blobs)) \in Nat /\ Cardinality(Aloft(blobs)) <= MAX_BLOBS
  OBVIOUS
<1>1. Aloft(blobs) \subseteq Slots
  BY DEF Aloft
<1>2. IsFiniteSet(Aloft(blobs)) /\ Cardinality(Aloft(blobs)) <= Cardinality(Slots)
  BY <1>1, SlotsFinite, FS_Subset
<1> QED BY <1>1, <1>2, SlotsFinite, FS_CardinalityType

\* The slots that n droplets take, from the cursor on, are at most n.
Filled(cursor, n) == {(cursor + k) % MAX_BLOBS : k \in 0..(n - 1)}

LEMMA FilledFew ==
  ASSUME NEW cursor \in Nat, NEW n \in Nat
  PROVE  IsFiniteSet(Filled(cursor, n)) /\ Cardinality(Filled(cursor, n)) \in Nat
         /\ Cardinality(Filled(cursor, n)) <= n
<1> DEFINE S == 0..(n - 1)
           T == Filled(cursor, n)
           f == [k \in S |-> (cursor + k) % MAX_BLOBS]
<1>1. f \in Surjection(S, T)
  BY DEF Surjection, Filled
<1>2. n - 1 \in Int /\ 0 \in Int
  OBVIOUS
<1>3. IsFiniteSet(S) /\ Cardinality(S) = IF 0 > n - 1 THEN 0 ELSE (n - 1) - 0 + 1
  BY <1>2, FS_Interval
<1>4. Cardinality(S) = n
  BY <1>3
<1> HIDE DEF S, T, f
<1>5. IsFiniteSet(T) /\ Cardinality(T) <= Cardinality(S)
  BY <1>1, <1>3, FS_Surjection
<1>6. Cardinality(T) \in Nat
  BY <1>5, FS_CardinalityType
<1> QED BY <1>4, <1>5, <1>6 DEF T

LEMMA UnionFew ==
  ASSUME NEW S, IsFiniteSet(S), NEW T, IsFiniteSet(T), NEW U, U \subseteq S \cup T
  PROVE  /\ Cardinality(S) \in Nat /\ Cardinality(T) \in Nat /\ Cardinality(U) \in Nat
         /\ Cardinality(U) <= Cardinality(S) + Cardinality(T)
<1>1. IsFiniteSet(S \cup T)
      /\ Cardinality(S \cup T) = Cardinality(S) + Cardinality(T) - Cardinality(S \cap T)
  BY FS_Union
<1>2. IsFiniteSet(S \cap T) /\ IsFiniteSet(U) /\ Cardinality(U) <= Cardinality(S \cup T)
  BY <1>1, FS_Intersection, FS_Subset
<1>3. /\ Cardinality(S) \in Nat /\ Cardinality(T) \in Nat /\ Cardinality(U) \in Nat
      /\ Cardinality(S \cap T) \in Nat /\ Cardinality(S \cup T) \in Nat
  BY <1>1, <1>2, FS_CardinalityType
<1> QED BY <1>1, <1>2, <1>3

LEMMA SplitCount ==
  ASSUME NEW S, IsFiniteSet(S), NEW T, T \subseteq S
  PROVE  /\ Cardinality(T) \in Nat /\ Cardinality(S \ T) \in Nat
         /\ Cardinality(S) = Cardinality(T) + Cardinality(S \ T)
<1>1. IsFiniteSet(T) /\ IsFiniteSet(S \ T)
  BY FS_Subset
<1>2. T \cup (S \ T) = S /\ T \cap (S \ T) = {}
  OBVIOUS
<1>3. Cardinality(S) = Cardinality(T) + Cardinality(S \ T) - Cardinality({})
  BY <1>1, <1>2, FS_Union
<1>4. Cardinality(T) \in Nat /\ Cardinality(S \ T) \in Nat
  BY <1>1, FS_CardinalityType
<1> QED BY <1>3, <1>4, FS_EmptySet

-----------------------------------------------------------------------------
(***************************************************************************)
(* One blob in one frame.                                                  *)
(***************************************************************************)
LEMMA DragType ==
  ASSUME NEW vx \in 0..(2 * SpawnVx), NEW dt \in 0..MaxFrame
  PROVE  Dragged(vx, dt) \in 0..(2 * SpawnVx)
<1> DEFINE p == vx * dt
           rest == vx * (150 - dt)
<1>1. vx \in Nat /\ vx <= 1350 /\ dt \in Nat /\ 150 - dt \in Nat
  BY SMT DEF SpawnVx, MaxFrame, TicksPerMs
<1>2. p \in Nat /\ rest \in Nat
  BY <1>1, Products
<1>3. rest = 150 * vx - p
  BY SMT, <1>1
<1>4. Dragged(vx, dt) = vx - p \div 4500
  BY DEF Dragged
<1> HIDE DEF p, rest
<1>5. p \div 4500 \in Int /\ 0 <= p \div 4500 /\ p \div 4500 <= vx
  BY SMT, <1>1, <1>2, <1>3
<1>6. vx - p \div 4500 \in Int /\ 0 <= vx - p \div 4500 /\ vx - p \div 4500 <= 1350
  BY SMT, <1>1, <1>5
<1>7. 2 * SpawnVx = 1350
  BY SMT DEF SpawnVx
<1> QED BY SMT, <1>4, <1>6, <1>7

LEMMA FrameType ==
  \A dtTicks \in Frames : /\ dtTicks \in Nat /\ dtTicks >= 1 /\ dtTicks <= 300
                          /\ Least(dtTicks, MaxFrame) \in Nat /\ Least(dtTicks, MaxFrame) \in 0..MaxFrame
                          /\ Least(dtTicks, MaxFrame) <= dtTicks /\ MaxFrame = 150 /\ Readout = 300
BY SMT, RigAssumption DEF Least, MaxFrame, TicksPerMs, Readout

\* Whichever handler wrote it last, the lean is clamped.
LEMMA LeanIsClamped == \A lean \in Leans : lean \in 0..1
BY SMT DEF Leans, Pointed, Oriented, Least

LEMMA SpawnedBlob ==
  ASSUME NEW lean \in Leans
  PROVE  [at |-> "aloft", fallen |-> 0, vx |-> SpawnVx * (1 + lean)] \in Blobs
<1>1. SpawnVx * (1 + lean) \in 0..(2 * SpawnVx)
  BY SMT, LeanIsClamped DEF SpawnVx
<1>2. 0 \in 0..(FallMax + MaxFrame)
  BY SMT, RigAssumption DEF MaxFrame, TicksPerMs
<1> QED BY <1>1, <1>2 DEF Blobs

LEMMA LandedBlob == LandedSlot \in Blobs /\ FreeSlot \in Blobs
                    /\ LandedSlot.at = "landed" /\ FreeSlot.at = "free"
<1>1. 0 \in 0..(FallMax + MaxFrame) /\ 0 \in 0..(2 * SpawnVx)
  BY SMT, RigAssumption DEF MaxFrame, TicksPerMs, SpawnVx
<1> QED BY <1>1 DEF Blobs, LandedSlot, FreeSlot

LEMMA MovedBlob ==
  ASSUME NEW blob \in Blobs, NEW dt \in 0..MaxFrame, blob.at = "aloft" => blob.fallen < FallMax
  PROVE  Moved(blob, dt) \in Blobs /\ Moved(blob, dt).at = blob.at
<1>1. /\ blob.at \in {"free", "aloft", "landed"} /\ blob.fallen \in 0..(FallMax + MaxFrame)
      /\ blob.vx \in 0..(2 * SpawnVx)
  BY DEF Blobs
<1>2. CASE blob.at = "aloft"
  <2>1. blob.fallen + dt \in 0..(FallMax + MaxFrame)
    BY SMT, <1>1, <1>2, RigAssumption DEF MaxFrame, TicksPerMs
  <2>2. Dragged(blob.vx, dt) \in 0..(2 * SpawnVx)
    BY <1>1, DragType
  <2>3. Moved(blob, dt) = [blob EXCEPT !.fallen = blob.fallen + dt, !.vx = Dragged(blob.vx, dt)]
    BY <1>2 DEF Moved
  <2> QED BY <2>1, <2>2, <2>3 DEF Blobs
<1>3. CASE blob.at # "aloft"
  BY <1>3 DEF Moved
<1> QED BY <1>2, <1>3

LEMMA DropletDivision ==
  ASSUME NEW acc \in Nat
  PROVE  /\ acc \div OneDroplet \in Nat /\ acc % OneDroplet \in 0..(OneDroplet - 1)
         /\ acc = OneDroplet * (acc \div OneDroplet) + (acc % OneDroplet)
BY SMT DEF OneDroplet, TicksPerMs

LEMMA SpawnRange == 0..(2 * SpawnVx) \subseteq Nat
BY SMT DEF SpawnVx

LEMMA SpeedType == \A blob \in Blobs : Speed2(blob) \in Nat
<1> SUFFICES ASSUME NEW blob \in Blobs PROVE Speed2(blob) \in Nat
  OBVIOUS
<1> DEFINE vy == SpawnVy + 7 * blob.fallen
           vx == blob.vx
<1>1. vy \in Nat /\ vx \in Nat
  <2>1. blob.fallen \in 0..(FallMax + MaxFrame) /\ blob.vx \in 0..(2 * SpawnVx)
    BY DEF Blobs
  <2>2. blob.fallen \in Nat
    BY SMT, <2>1, RigAssumption DEF MaxFrame, TicksPerMs
  <2>3. blob.vx \in Nat
    BY Zenon, <2>1, SpawnRange
  <2> QED BY SMT, <2>2, <2>3 DEF SpawnVy
<1>2. Speed2(blob) = vy * vy + vx * vx
  BY DEF Speed2
<1> HIDE DEF vy, vx
<1>3. vy * vy \in Nat /\ vx * vx \in Nat
  BY <1>1, Products
<1> QED BY <1>2, <1>3

(***************************************************************************)
(* One step of the rig: what every frame does to the blobs, the meter and  *)
(* the telemetry.                                                          *)
(***************************************************************************)
Owed(open, dtTicks) ==
  IF open THEN rig.spawnAcc + SpawnRate(Flow(tier)) * Least(dtTicks, MaxFrame) ELSE 0

LEMMA RigTypes ==
  ASSUME TypeOK, NEW open \in BOOLEAN, NEW dtTicks \in Frames
  PROVE  /\ Owed(open, dtTicks) \in Nat /\ Flow(tier) \in Nat /\ tier \in Int
         /\ rig.blobs \in [Slots -> Blobs] /\ rig.cursor \in Nat /\ rig.peak2 \in Nat
         /\ rig.dropletsLanded \in Nat /\ spawned \in Nat /\ rig.spawnAcc \in Nat
         /\ rig.hold \in Nat /\ rig.tilt \in Nat
<1>1. rig.spawnAcc \in Nat /\ rig.hold \in Nat
  <2>1. rig.spawnAcc \in 0..(OneDroplet - 1) /\ rig.hold \in 0..(MaxPourMs * TicksPerMs)
    BY DEF TypeOK
  <2>2. \A n : \A x \in 0..n : x \in Nat
    OBVIOUS
  <2> QED BY <2>1, <2>2
<1>2. rig.cursor \in Nat
  <2>1. rig.cursor \in 0..(MAX_BLOBS - 1)
    BY DEF TypeOK, Slots
  <2> QED BY <2>1
<1>3. tier \in Int
  BY RigAssumption DEF TypeOK, TopTier
<1>4. Flow(tier) \in Nat
  BY <1>3, FlowType
<1>5. SpawnRate(Flow(tier)) * Least(dtTicks, MaxFrame) \in Nat
  BY <1>4, FrameType, Products DEF SpawnRate
<1>6. Owed(open, dtTicks) \in Nat
  BY <1>1, <1>5 DEF Owed
<1> QED BY <1>1, <1>2, <1>3, <1>4, <1>6 DEF TypeOK

\* The clock and the hand.
LEMMA ClockStep ==
  ASSUME NEW open, NEW lean, NEW dtTicks, StepRig(open, lean, dtTicks)
  PROVE  /\ rig'.hold = (IF open THEN Least(rig.hold + dtTicks, Stop) ELSE rig.hold)
         /\ rig'.tilt = rig.tilt + IF open THEN TiltOf(lean, dtTicks) ELSE 0
         /\ rig'.finished = (rig'.hold >= Stop)
BY DEF StepRig, Stop

\* The droplets that leave the spout, the slots they take, and the blobs once
\* they have moved.
Fresh(open, dtTicks) == Owed(open, dtTicks) \div OneDroplet
Filling(open, dtTicks) == Filled(rig.cursor, Fresh(open, dtTicks))
Advanced(open, lean, dtTicks) ==
  LET full == Spawned(rig.blobs, Filling(open, dtTicks), lean)
  IN [i \in Slots |-> Moved(full[i], Least(dtTicks, MaxFrame))]

LEMMA FillStep ==
  ASSUME TypeOK, NEW open \in BOOLEAN, NEW dtTicks \in Frames
  PROVE  LET acc == Owed(open, dtTicks)
             n == Fresh(open, dtTicks)
             filled == Filling(open, dtTicks)
         IN /\ acc \in Nat /\ n \in Nat /\ acc % OneDroplet \in 0..(OneDroplet - 1)
            /\ acc = OneDroplet * n + (acc % OneDroplet)
            /\ filled \subseteq Slots /\ IsFiniteSet(filled) /\ Cardinality(filled) \in Nat
            /\ Cardinality(filled) <= n /\ (n = 0 => filled = {})
            /\ (rig.cursor + n) % MAX_BLOBS \in Slots
<1> DEFINE acc == Owed(open, dtTicks)
           n == Fresh(open, dtTicks)
           filled == Filling(open, dtTicks)
<1>1. acc \in Nat /\ rig.cursor \in Nat
  BY RigTypes
<1>2. n \in Nat /\ acc % OneDroplet \in 0..(OneDroplet - 1) /\ acc = OneDroplet * n + (acc % OneDroplet)
  <2>1. n = acc \div OneDroplet
    BY DEF Fresh
  <2> HIDE DEF acc, n
  <2> QED BY Zenon, <1>1, <2>1, DropletDivision
<1>3. \A x \in Nat : x % MAX_BLOBS \in Slots
  BY RigAssumption DEF Slots
<1>4. filled = {(rig.cursor + k) % MAX_BLOBS : k \in 0..(n - 1)} /\ filled = Filled(rig.cursor, n)
  BY DEF Filled, Filling
<1> HIDE DEF acc, n, filled
<1>5. filled \subseteq Slots /\ (n = 0 => filled = {})
  BY <1>1, <1>2, <1>3, <1>4
<1>6. rig.cursor + n \in Nat
  BY <1>1, <1>2
<1>7. IsFiniteSet(filled) /\ Cardinality(filled) \in Nat /\ Cardinality(filled) <= n
  <2>1. rig.cursor \in Nat /\ n \in Nat
    BY <1>1, <1>2
  <2> QED BY <1>4, <2>1, FilledFew
<1>8. (rig.cursor + n) % MAX_BLOBS \in Slots
  BY <1>3, <1>6
<1> QED BY Zenon, <1>1, <1>2, <1>5, <1>7, <1>8 DEF acc, n, filled

LEMMA MoveStep ==
  ASSUME TypeOK, Falling, NEW open \in BOOLEAN, NEW lean \in Leans, NEW dtTicks \in Frames
  PROVE  LET dt == Least(dtTicks, MaxFrame)
             filled == Filling(open, dtTicks)
             moved == Advanced(open, lean, dtTicks)
         IN /\ moved \in [Slots -> Blobs]
            /\ Aloft(moved) = Aloft(rig.blobs) \cup filled
            /\ \A i \in filled :
                 moved[i].fallen = dt /\ moved[i].vx = Dragged(SpawnVx * (1 + lean), dt)
            /\ \A i \in Aloft(rig.blobs) \ filled :
                 moved[i].fallen = rig.blobs[i].fallen + dt /\ moved[i].vx = Dragged(rig.blobs[i].vx, dt)
<1> DEFINE dt == Least(dtTicks, MaxFrame)
           filled == Filling(open, dtTicks)
           full == Spawned(rig.blobs, filled, lean)
           moved == Advanced(open, lean, dtTicks)
           drop == [at |-> "aloft", fallen |-> 0, vx |-> SpawnVx * (1 + lean)]
<1>1. dt \in 0..MaxFrame /\ rig.blobs \in [Slots -> Blobs] /\ filled \subseteq Slots /\ dt \in Nat
  BY FrameType, RigTypes, FillStep
<1>2. drop \in Blobs /\ 0 < FallMax
  BY SpawnedBlob, RigAssumption
<1>3. full = [i \in Slots |-> IF i \in filled THEN drop ELSE rig.blobs[i]]
  BY DEF Spawned
<1>4. moved = [i \in Slots |-> Moved(full[i], dt)]
  BY DEF Advanced
<1> HIDE DEF dt, filled, full, moved
<1>5. \A i \in Slots : full[i] \in Blobs /\ (full[i].at = "aloft" => full[i].fallen < FallMax)
  BY <1>1, <1>2, <1>3 DEF Falling
<1>6. \A i \in Slots : moved[i] \in Blobs /\ moved[i].at = full[i].at
  <2>1. \A i \in Slots : moved[i] = Moved(full[i], dt)
    BY <1>4
  <2> QED BY <1>1, <1>5, <2>1, MovedBlob
<1>7. moved \in [Slots -> Blobs]
  BY <1>4, <1>6
<1>8. Aloft(moved) = Aloft(rig.blobs) \cup filled
  <2>1. Aloft(moved) = Aloft(full)
    BY <1>6 DEF Aloft
  <2> QED BY <1>1, <1>3, <2>1 DEF Aloft
<1>9. \A i \in Slots : full[i].at = "aloft" =>
        moved[i].fallen = full[i].fallen + dt /\ moved[i].vx = Dragged(full[i].vx, dt)
  <2> SUFFICES ASSUME NEW i \in Slots, full[i].at = "aloft"
               PROVE  moved[i].fallen = full[i].fallen + dt /\ moved[i].vx = Dragged(full[i].vx, dt)
    OBVIOUS
  <2>1. moved[i] = [full[i] EXCEPT !.fallen = full[i].fallen + dt, !.vx = Dragged(full[i].vx, dt)]
    BY <1>4 DEF Moved
  <2> QED BY <1>5, <2>1 DEF Blobs
<1>10. \A i \in filled : moved[i].fallen = dt /\ moved[i].vx = Dragged(SpawnVx * (1 + lean), dt)
  <2> SUFFICES ASSUME NEW i \in filled
               PROVE  moved[i].fallen = dt /\ moved[i].vx = Dragged(SpawnVx * (1 + lean), dt)
    OBVIOUS
  <2>1. i \in Slots /\ full[i] = drop
    BY <1>1, <1>3
  <2>2. full[i].at = "aloft" /\ full[i].fallen = 0 /\ full[i].vx = SpawnVx * (1 + lean)
    BY <2>1
  <2>3. moved[i].fallen = 0 + dt /\ moved[i].vx = Dragged(SpawnVx * (1 + lean), dt)
    BY <1>9, <2>1, <2>2
  <2> QED BY <1>1, <2>3
<1>11. \A i \in Aloft(rig.blobs) \ filled :
         moved[i].fallen = rig.blobs[i].fallen + dt /\ moved[i].vx = Dragged(rig.blobs[i].vx, dt)
  <2>1. \A i \in Aloft(rig.blobs) \ filled : i \in Slots /\ full[i] = rig.blobs[i] /\ rig.blobs[i].at = "aloft"
    BY <1>3 DEF Aloft
  <2> QED BY <1>9, <2>1
<1> QED BY Zenon, <1>7, <1>8, <1>10, <1>11 DEF dt, filled, moved

\* The blobs that are still aloft are the moved ones, short of the floor, and
\* the peak is one of their speeds or the peak before them.
LEMMA LandStep ==
  ASSUME TypeOK, Falling, NEW open \in BOOLEAN, NEW lean \in Leans, NEW dtTicks \in Frames,
         StepRig(open, lean, dtTicks)
  PROVE  LET acc == Owed(open, dtTicks)
             n == Fresh(open, dtTicks)
             moved == Advanced(open, lean, dtTicks)
             still == Aloft(rig'.blobs)
         IN /\ rig'.blobs \in [Slots -> Blobs]
            /\ still \subseteq Aloft(moved)
            /\ \A i \in still : rig'.blobs[i] = moved[i] /\ moved[i].fallen < FallMax
            /\ rig'.dropletsLanded \in Nat
            /\ rig'.dropletsLanded + Cardinality(still) = rig.dropletsLanded + Cardinality(Aloft(moved))
            /\ rig'.airborne = Cardinality(Aloft(moved))
            /\ rig'.cursor = (rig.cursor + n) % MAX_BLOBS
            /\ rig'.spawnAcc = acc % OneDroplet
            /\ spawned' = spawned + n
            /\ rig'.peak2 \in {rig.peak2} \cup (IF open THEN Sample(moved) ELSE {})
<1> DEFINE dt == Least(dtTicks, MaxFrame)
           acc == Owed(open, dtTicks)
           n == Fresh(open, dtTicks)
           filled == Filling(open, dtTicks)
           moved == Advanced(open, lean, dtTicks)
           low(fallen) == {i \in Aloft(moved) : moved[i].fallen >= fallen}
           speeds == {rig.peak2} \cup (IF open THEN Sample(moved) ELSE {})
<1>1. PICK lands \in SUBSET low(FallMin), peak \in speeds :
        /\ low(FallMax) \subseteq lands
        /\ rig' = [blobs |-> [i \in Slots |-> IF i \in lands THEN LandedSlot ELSE moved[i]],
                   cursor |-> (rig.cursor + n) % MAX_BLOBS,
                   spawnAcc |-> acc % OneDroplet,
                   hold |-> IF open THEN Least(rig.hold + dtTicks, MaxPourMs * TicksPerMs) ELSE rig.hold,
                   dropletsLanded |-> rig.dropletsLanded + Cardinality(lands),
                   peak2 |-> peak,
                   tilt |-> rig.tilt + IF open THEN TiltOf(lean, dtTicks) ELSE 0,
                   airborne |-> Airborne(moved, lands),
                   finished |-> (IF open THEN Least(rig.hold + dtTicks, MaxPourMs * TicksPerMs)
                                 ELSE rig.hold) >= MaxPourMs * TicksPerMs]
        /\ spawned' = spawned + n
  BY Zenon DEF StepRig, Owed, Fresh, Filling, Filled, Advanced
<1>2. moved \in [Slots -> Blobs] /\ rig.dropletsLanded \in Nat
  BY MoveStep, RigTypes
<1> HIDE DEF acc, n, moved
<1>3. lands \subseteq Aloft(moved) /\ \A i \in Aloft(moved) \ lands : moved[i].fallen < FallMax
  <2>1. lands \subseteq Aloft(moved)
    BY <1>1
  <2>2. \A i \in Aloft(moved) \ lands : ~(moved[i].fallen >= FallMax)
    BY <1>1
  <2>3. \A i \in Aloft(moved) : moved[i].fallen \in Int
    BY <1>2, RigAssumption DEF Aloft, Blobs, MaxFrame, TicksPerMs
  <2> QED BY <2>1, <2>2, <2>3, RigAssumption
<1>4. /\ rig'.blobs = [i \in Slots |-> IF i \in lands THEN LandedSlot ELSE moved[i]]
      /\ rig'.dropletsLanded = rig.dropletsLanded + Cardinality(lands)
      /\ rig'.airborne = Cardinality(Aloft(moved))
      /\ rig'.cursor = (rig.cursor + n) % MAX_BLOBS /\ rig'.spawnAcc = acc % OneDroplet
      /\ rig'.peak2 = peak
      /\ spawned' = spawned + n
  BY <1>1 DEF Airborne
<1>5. rig'.blobs \in [Slots -> Blobs]
  BY <1>2, <1>4, LandedBlob
<1>6. Aloft(rig'.blobs) = Aloft(moved) \ lands
  BY <1>4, LandedBlob DEF Aloft
<1>7. \A i \in Aloft(rig'.blobs) : rig'.blobs[i] = moved[i] /\ moved[i].fallen < FallMax
  BY <1>3, <1>4, <1>6 DEF Aloft
<1>8. IsFiniteSet(Aloft(moved))
  BY AloftFinite
<1>9. /\ Cardinality(lands) \in Nat /\ Cardinality(Aloft(rig'.blobs)) \in Nat
      /\ Cardinality(Aloft(moved)) = Cardinality(lands) + Cardinality(Aloft(rig'.blobs))
  BY <1>3, <1>6, <1>8, SplitCount
<1>10. /\ rig'.dropletsLanded \in Nat
       /\ rig'.dropletsLanded + Cardinality(Aloft(rig'.blobs)) = rig.dropletsLanded + Cardinality(Aloft(moved))
  BY <1>2, <1>4, <1>9
<1>11. rig'.peak2 \in {rig.peak2} \cup (IF open THEN Sample(moved) ELSE {})
  BY <1>1, <1>4
<1> QED BY Zenon, <1>4, <1>5, <1>6, <1>7, <1>10, <1>11 DEF acc, n, moved

\* The ring and its counts.
LEMMA RigStep ==
  ASSUME TypeOK, Falling, NEW open \in BOOLEAN, NEW lean \in Leans, NEW dtTicks \in Frames,
         StepRig(open, lean, dtTicks)
  PROVE  /\ rig'.blobs \in [Slots -> Blobs] /\ Falling'
         /\ rig'.cursor \in Slots /\ rig'.spawnAcc \in 0..(OneDroplet - 1)
         /\ rig'.airborne \in 0..MAX_BLOBS /\ rig'.peak2 \in Nat
         /\ rig'.dropletsLanded \in Nat /\ spawned' \in Nat
         /\ OneDroplet * spawned' + rig'.spawnAcc = OneDroplet * spawned + Owed(open, dtTicks)
         /\ Landed => Landed'
         /\ rig'.airborne = 0 => Aloft(rig'.blobs) = {}
         /\ ~open /\ Aloft(rig.blobs) = {} =>
              /\ Aloft(rig'.blobs) = {} /\ rig'.dropletsLanded = rig.dropletsLanded
              /\ rig'.peak2 = rig.peak2
<1> DEFINE acc == Owed(open, dtTicks)
           n == Fresh(open, dtTicks)
           filled == Filling(open, dtTicks)
           moved == Advanced(open, lean, dtTicks)
           still == Aloft(rig'.blobs)
<1>1. /\ acc \in Nat /\ n \in Nat /\ acc % OneDroplet \in 0..(OneDroplet - 1)
      /\ acc = OneDroplet * n + (acc % OneDroplet)
      /\ filled \subseteq Slots /\ IsFiniteSet(filled) /\ Cardinality(filled) \in Nat
      /\ Cardinality(filled) <= n /\ (n = 0 => filled = {})
      /\ (rig.cursor + n) % MAX_BLOBS \in Slots
  BY Zenon, FillStep
<1>2. moved \in [Slots -> Blobs] /\ Aloft(moved) = Aloft(rig.blobs) \cup filled
  BY Zenon, MoveStep
<1>3. /\ rig'.blobs \in [Slots -> Blobs]
      /\ still \subseteq Aloft(moved)
      /\ \A i \in still : rig'.blobs[i] = moved[i] /\ moved[i].fallen < FallMax
      /\ rig'.dropletsLanded \in Nat
      /\ rig'.dropletsLanded + Cardinality(still) = rig.dropletsLanded + Cardinality(Aloft(moved))
      /\ rig'.airborne = Cardinality(Aloft(moved))
      /\ rig'.cursor = (rig.cursor + n) % MAX_BLOBS
      /\ rig'.spawnAcc = acc % OneDroplet
      /\ spawned' = spawned + n
      /\ rig'.peak2 \in {rig.peak2} \cup (IF open THEN Sample(moved) ELSE {})
  BY Zenon, LandStep
<1>4. spawned \in Nat /\ rig.peak2 \in Nat /\ rig.dropletsLanded \in Nat
  BY RigTypes
<1> HIDE DEF acc, n, filled, moved
<1>5. /\ IsFiniteSet(Aloft(moved)) /\ Cardinality(Aloft(moved)) \in 0..MAX_BLOBS
      /\ IsFiniteSet(Aloft(rig.blobs)) /\ Cardinality(Aloft(rig.blobs)) \in Nat
      /\ IsFiniteSet(still) /\ Cardinality(still) \in Nat
  BY AloftFinite, RigAssumption
<1>6. rig'.peak2 \in Nat /\ (~open => rig'.peak2 = rig.peak2)
  <2>1. \A i \in Aloft(moved) : Speed2(moved[i]) \in Nat
    BY <1>2, SpeedType DEF Aloft
  <2>2. Sample(moved) \subseteq Nat
    BY <2>1 DEF Sample
  <2> QED BY <1>3, <1>4, <2>2
<1>7. Falling'
  BY <1>3 DEF Falling, Aloft
<1>8. /\ rig'.cursor \in Slots /\ rig'.spawnAcc \in 0..(OneDroplet - 1)
      /\ rig'.airborne \in 0..MAX_BLOBS /\ spawned' \in Nat
  BY <1>1, <1>3, <1>4, <1>5
<1>9. OneDroplet * spawned' + rig'.spawnAcc = OneDroplet * spawned + acc
  <2>1. OneDroplet = 3000
    BY SMT DEF OneDroplet, TicksPerMs
  <2>2. /\ spawned \in Nat /\ n \in Nat /\ acc = OneDroplet * n + (acc % OneDroplet)
        /\ acc % OneDroplet \in Int /\ spawned' = spawned + n /\ rig'.spawnAcc = acc % OneDroplet
    BY <1>1, <1>3, <1>4
  <2> QED BY SMT, <2>1, <2>2
<1>10. Cardinality(Aloft(moved)) <= Cardinality(Aloft(rig.blobs)) + Cardinality(filled)
  BY <1>1, <1>2, <1>5, UnionFew
<1>11. Landed => Landed'
  <2>1. /\ Cardinality(Aloft(moved)) \in Int /\ Cardinality(still) \in Int
        /\ Cardinality(Aloft(rig.blobs)) \in Int
    BY <1>5, RigAssumption
  <2> QED BY <1>1, <1>3, <1>4, <1>10, <2>1 DEF Landed
<1>12. rig'.airborne = 0 => still = {}
  <2>1. Cardinality(Aloft(moved)) = 0 => Aloft(moved) = {}
    BY <1>5, FS_EmptySet
  <2> QED BY <1>3, <2>1
<1>13. ASSUME ~open, Aloft(rig.blobs) = {}
       PROVE  still = {} /\ rig'.dropletsLanded = rig.dropletsLanded /\ rig'.peak2 = rig.peak2
  <2>1. acc = 0
    BY <1>13 DEF acc, Owed
  <2>2. n = 0
    BY SMT, <1>1, <2>1 DEF OneDroplet, TicksPerMs
  <2>3. Aloft(moved) = {} /\ still = {}
    BY <1>1, <1>2, <1>3, <1>13, <2>2
  <2>4. Cardinality(Aloft(moved)) = 0 /\ Cardinality(still) = 0
    BY <2>3, FS_EmptySet
  <2> QED BY <1>3, <1>4, <1>6, <1>13, <2>3, <2>4
<1> QED BY Zenon, <1>3, <1>6, <1>7, <1>8, <1>9, <1>11, <1>12, <1>13 DEF acc

-----------------------------------------------------------------------------
(***************************************************************************)
(* The meter: the frame an open stream integrates is at most the hold it   *)
(* adds, but for the one the hard stop cuts.                               *)
(***************************************************************************)
Over(finished) == IF finished THEN MaxFrame ELSE 0

LEMMA HoldStep ==
  ASSUME TypeOK, Stopped, NEW open \in BOOLEAN, open => ~rig.finished, NEW dtTicks \in Frames,
         rig'.hold = (IF open THEN Least(rig.hold + dtTicks, Stop) ELSE rig.hold),
         rig'.finished = (rig'.hold >= Stop)
  PROVE  /\ rig'.hold \in 0..Stop /\ Stopped' /\ rig'.finished \in BOOLEAN
         /\ ~open => rig'.hold = rig.hold /\ rig'.finished = rig.finished
         /\ open => rig.hold + Least(dtTicks, MaxFrame) <= rig'.hold + Over(rig'.finished)
         /\ open => Over(rig.finished) = 0
<1> DEFINE dt == Least(dtTicks, MaxFrame)
<1>1. dtTicks \in Nat /\ dt \in Nat /\ dt <= dtTicks /\ dt <= MaxFrame /\ MaxFrame = 150
  BY FrameType DEF Least
<1>2. Stop \in Nat /\ rig.hold \in 0..Stop /\ rig.finished \in BOOLEAN
  BY TelemetryAssumption, Products DEF TypeOK, Stop, TicksPerMs
<1>3. rig.hold \in Nat /\ rig.hold <= Stop
  BY <1>2
<1> HIDE DEF dt
<1>4. CASE ~open
  BY <1>2, <1>3, <1>4 DEF Stopped
<1>5. CASE open
  <2>1. rig'.hold = (IF rig.hold + dtTicks < Stop THEN rig.hold + dtTicks ELSE Stop)
    BY <1>5 DEF Least
  <2>2. rig'.hold \in Nat /\ rig'.hold <= Stop
    BY <1>1, <1>2, <1>3, <2>1
  <2>3. rig.hold + dt <= rig'.hold + Over(rig'.finished)
    <3>1. CASE rig.hold + dtTicks < Stop
      <4>1. rig'.hold = rig.hold + dtTicks /\ Over(rig'.finished) \in {0, 150}
        BY <1>1, <2>1, <3>1 DEF Over
      <4> QED BY <1>1, <1>3, <4>1
    <3>2. CASE ~(rig.hold + dtTicks < Stop)
      <4>1. rig'.hold = Stop /\ rig'.finished
        <5>1. rig'.hold = Stop
          BY <2>1, <3>2
        <5>2. Stop >= Stop
          BY <1>2
        <5> QED BY <5>1, <5>2
      <4>2. Over(rig'.finished) = 150
        BY <1>1, <4>1 DEF Over
      <4> QED BY <1>1, <1>2, <1>3, <4>1, <4>2
    <3> QED BY <3>1, <3>2
  <2>4. Over(rig.finished) = 0
    BY <1>5 DEF Over
  <2>5. rig'.hold \in 0..Stop /\ rig'.finished \in BOOLEAN
    BY <1>2, <2>2
  <2> QED BY <1>5, <2>3, <2>4, <2>5 DEF Stopped, dt
<1> QED BY <1>4, <1>5

LEMMA Scaled == \A f, a, b \in Nat : a <= b => f * a <= f * b
<1> SUFFICES ASSUME NEW f \in Nat, NEW a \in Nat, NEW b \in Nat, a <= b PROVE f * a <= f * b
  OBVIOUS
<1>1. b - a \in Nat
  OBVIOUS
<1>2. f * (b - a) \in Nat
  BY <1>1, Products
<1>3. f * (b - a) = f * b - f * a /\ f * b \in Int /\ f * a \in Int
  OBVIOUS
<1> QED BY <1>2, <1>3

\* The dearer the tier, the fuller its flow.
LEMMA FlowGrows ==
  \A low, high \in 0..TopTier : low <= high => /\ Flow(low) <= Flow(high) /\ Flow(high) <= Flow(TopTier)
                                               /\ Flow(TopTier) = 34
BY SMT DEF Flow, ClampTierIndex, TierBounds, TopTier

LEMMA OpenedType ==
  ASSUME TypeOK
  PROVE  /\ tier \in 0..TopTier /\ opened \in 0..TopTier /\ Flow(tier) \in Nat /\ Flow(opened) \in Nat
         /\ Flow(tier) <= 34 /\ Flow(TopTier) = 34
         /\ tier <= opened => Flow(tier) <= Flow(opened)
<1>1. tier \in 0..TopTier /\ opened \in 0..TopTier /\ tier \in Int /\ opened \in Int /\ tier <= tier
  BY RigAssumption DEF TypeOK, TopTier
<1>2. Flow(tier) \in Nat /\ Flow(opened) \in Nat
  BY <1>1, FlowType
<1> QED BY <1>1, <1>2, FlowGrows

LEMMA MeterStep ==
  ASSUME TypeOK, Stopped, Metered, Tilted, Idle, Above,
         NEW open \in BOOLEAN, open => pouring /\ ~rig.finished, NEW lean \in Leans, NEW dtTicks \in Frames,
         rig'.hold = (IF open THEN Least(rig.hold + dtTicks, Stop) ELSE rig.hold),
         rig'.finished = (rig'.hold >= Stop),
         rig'.tilt = rig.tilt + IF open THEN TiltOf(lean, dtTicks) ELSE 0,
         OneDroplet * spawned' + rig'.spawnAcc = OneDroplet * spawned + Owed(open, dtTicks),
         opened' = opened
  PROVE  Metered' /\ Tilted' /\ rig'.tilt \in Nat
<1> DEFINE dt == Least(dtTicks, MaxFrame)
           slow == Flow(tier)
           flow == Flow(opened)
           was == rig.hold + Over(rig.finished)
           is == rig'.hold + Over(rig'.finished)
<1>1. dt \in Nat /\ MaxFrame = 150
  BY FrameType
<1>2. /\ flow \in Nat /\ slow \in Nat /\ rig.hold \in Nat /\ rig.tilt \in Nat /\ spawned \in Nat /\ rig.spawnAcc \in Nat
  BY RigTypes, OpenedType
<1>3. /\ rig'.hold \in 0..Stop
      /\ ~open => is = was
      /\ open => rig.hold + dt <= is /\ was = rig.hold
  BY <1>1, <1>2, HoldStep
<1>4. is \in Nat /\ was \in Nat
  BY <1>1, <1>2, <1>3 DEF Over
<1>5. flow * dt \in Nat /\ flow * rig.hold \in Nat /\ flow * is \in Nat /\ flow * was \in Nat
  BY <1>1, <1>2, <1>4, Products
<1>6. OneDroplet * spawned + rig.spawnAcc <= flow * was
  BY DEF Metered, Over
<1>7. rig.tilt <= 2 * was
  BY DEF Tilted, Over
<1>8. OneDroplet * spawned \in Nat
  BY <1>2, Products DEF OneDroplet, TicksPerMs
<1>9. /\ Owed(open, dtTicks) = IF open THEN rig.spawnAcc + slow * dt ELSE 0
      /\ open => slow <= flow
  BY OpenedType DEF Owed, SpawnRate, Idle, Above
<1>15. slow * dt \in Nat /\ (open => slow * dt <= flow * dt)
  <2>1. open => dt * slow <= dt * flow
    BY <1>1, <1>2, <1>9, Scaled
  <2>2. dt * slow = slow * dt /\ dt * flow = flow * dt
    BY <1>1, <1>2
  <2> QED BY <1>1, <1>2, <2>1, <2>2, Products
<1>10. open => flow * (rig.hold + dt) = flow * rig.hold + flow * dt
  BY <1>1, <1>2
<1>11. open => flow * (rig.hold + dt) <= flow * is
  BY <1>1, <1>2, <1>3, <1>4, Scaled
<1>12. (IF open THEN TiltOf(lean, dtTicks) ELSE 0) \in Nat /\ (open => TiltOf(lean, dtTicks) <= 2 * dt)
  BY <1>1, LeanIsClamped DEF TiltOf
<1> HIDE DEF flow, slow, dt, was, is
<1>13. OneDroplet * spawned' + rig'.spawnAcc <= flow * is
  <2>1. CASE open
    <3>1. was = rig.hold
      BY <1>3, <2>1
    <3>2. OneDroplet * spawned + rig.spawnAcc <= flow * rig.hold
      BY <1>6, <3>1
    <3>3. OneDroplet * spawned' + rig'.spawnAcc = OneDroplet * spawned + rig.spawnAcc + slow * dt
      BY <1>2, <1>8, <1>9, <1>15, <2>1
    <3> QED BY <1>2, <1>5, <1>8, <1>10, <1>11, <1>15, <2>1, <3>2, <3>3
  <2>2. CASE ~open
    <3>1. OneDroplet * spawned' + rig'.spawnAcc = OneDroplet * spawned
      BY <1>8, <1>9, <2>2
    <3> QED BY <1>2, <1>3, <1>5, <1>6, <1>8, <2>2, <3>1
  <2> QED BY <2>1, <2>2
<1>14. rig'.tilt <= 2 * is /\ rig'.tilt \in Nat
  <2>1. CASE open
    BY <1>1, <1>2, <1>3, <1>4, <1>7, <1>12, <2>1
  <2>2. CASE ~open
    BY <1>2, <1>3, <1>7, <2>2
  <2> QED BY <2>1, <2>2
<1> QED BY <1>13, <1>14 DEF Metered, Tilted, Over, flow, is

-----------------------------------------------------------------------------
(***************************************************************************)
(* What is painted.                                                        *)
(***************************************************************************)
LEMMA ClassifyType ==
  ASSUME NEW telemetry \in [Fields -> Nat], NEW t \in Int
  PROVE  Classify(telemetry, t) \in Rarities
<1> DEFINE s == RarityScore(telemetry, t)
<1>1. Classify(telemetry, t) = CASE s >= 771 -> 3 [] s >= 665 /\ s < 771 -> 2
                               [] s >= 533 /\ s < 665 -> 1 [] OTHER -> 0
  BY SMT DEF Classify, Thresholds, Common, Uncommon, Rare, Singular
<1>2. s \in Int
  BY SMT, ScoreBound, ReachType
<1> HIDE DEF s
<1> QED BY SMT, <1>1, <1>2 DEF Rarities, Common, Singular

LEMMA TelemetryType ==
  ASSUME NEW r, r.dropletsLanded \in Nat, r.peak2 \in Nat, r.tilt \in Nat, r.hold \in Nat
  PROVE  TelemetryOf(r) \in [Fields -> Nat] /\ TelemetryOf(r).holdMs = r.hold \div TicksPerMs
<1>1. r.hold \div TicksPerMs \in Nat
  BY DEF TicksPerMs
<1>2. TelemetryOf(r) = [f \in Fields |-> IF f = "dropletsLanded" THEN r.dropletsLanded
                                         ELSE IF f = "peak2" THEN r.peak2
                                         ELSE IF f = "tilt" THEN r.tilt
                                         ELSE r.hold \div TicksPerMs]
  BY DEF TelemetryOf, Fields
<1>3. TelemetryOf(r).holdMs = r.hold \div TicksPerMs
  BY DEF TelemetryOf
<1> QED BY <1>1, <1>2, <1>3

LEMMA PaintType ==
  ASSUME TypeOK, NEW dtTicks \in Frames, PaintReadout(dtTicks), tier' = tier,
         rig'.dropletsLanded \in Nat, rig'.peak2 \in Nat, rig'.tilt \in Nat, rig'.hold \in Nat
  PROVE  rarity' \in Rarities /\ readoutAcc' \in 0..(Readout - 1)
<1>1. Classify(TelemetryOf(rig'), tier) \in Rarities
  BY TelemetryType, RigTypes, ClassifyType
<1>2. readoutAcc \in 0..299 /\ Readout = 300 /\ rarity \in Rarities /\ dtTicks \in Nat
  BY FrameType DEF TypeOK
<1> QED BY <1>1, <1>2 DEF PaintReadout

-----------------------------------------------------------------------------
(***************************************************************************)
(* The rig as it begins, and after a discard.                              *)
(***************************************************************************)
LEMMA EmptyInv ==
  /\ EmptyRig.blobs \in [Slots -> Blobs] /\ EmptyRig.cursor \in Slots
  /\ EmptyRig.spawnAcc \in 0..(OneDroplet - 1) /\ EmptyRig.spawnAcc = 0
  /\ EmptyRig.hold = 0 /\ EmptyRig.dropletsLanded = 0 /\ EmptyRig.peak2 = 0
  /\ EmptyRig.tilt = 0 /\ EmptyRig.airborne = 0 /\ EmptyRig.finished = FALSE
  /\ Aloft(EmptyRig.blobs) = {} /\ Cardinality(Aloft(EmptyRig.blobs)) = 0
  /\ \A i \in Slots : EmptyRig.blobs[i].at # "aloft"
  /\ 0 \in 0..MAX_BLOBS /\ 0 \in 0..Stop /\ ~(0 >= Stop)
<1>1. /\ EmptyRig.blobs = [i \in Slots |-> FreeSlot] /\ EmptyRig.cursor = 0
      /\ EmptyRig.spawnAcc = 0 /\ EmptyRig.hold = 0 /\ EmptyRig.dropletsLanded = 0
      /\ EmptyRig.peak2 = 0 /\ EmptyRig.tilt = 0 /\ EmptyRig.airborne = 0
      /\ EmptyRig.finished = FALSE
  BY DEF EmptyRig
<1>2. EmptyRig.blobs \in [Slots -> Blobs] /\ \A i \in Slots : EmptyRig.blobs[i].at # "aloft"
  BY <1>1, LandedBlob
<1>3. Aloft(EmptyRig.blobs) = {}
  BY <1>2 DEF Aloft
<1>4. 0 \in Slots /\ 0 \in 0..MAX_BLOBS
  BY RigAssumption DEF Slots
<1>5. 0 \in 0..(OneDroplet - 1)
  BY DEF OneDroplet, TicksPerMs
<1>6. Stop \in Nat /\ Stop > 0
  BY TelemetryAssumption DEF Stop, TicksPerMs
<1> QED BY <1>1, <1>2, <1>3, <1>4, <1>5, <1>6, FS_EmptySet

LEMMA FreshInv ==
  ASSUME rig' = EmptyRig, tier' \in Tiers, opened' \in Tiers, config' \in {"pending", "known"}, pouring' = FALSE, phase' = "idle", rarity' = Common,
         readoutAcc' \in 0..(Readout - 1), age' = 0, spawned' = 0, quiet' = 0
  PROVE  IInv'
<1>1. 0 \in 0..MaxAge /\ 0 \in 0..Readout /\ 0 \in Nat /\ Common \in Rarities
  BY RigAssumption DEF Readout, TicksPerMs, Common, Rarities, Singular
<1>2. TypeOK'
  BY <1>1, EmptyInv DEF TypeOK, Stop
<1>3. Falling' /\ Stopped' /\ Rested' /\ Idle' /\ Above'
  BY EmptyInv DEF Falling, Stopped, Rested, Idle, Above
<1>4. Landed'
  BY EmptyInv DEF Landed
<1>5. opened' \in Int
  BY RigAssumption DEF TopTier
<1>6. Flow(opened') \in Nat
  BY <1>5, FlowType
<1>7. Metered' /\ Tilted'
  BY <1>6, EmptyInv DEF Metered, Tilted, OneDroplet, TicksPerMs
<1> QED BY <1>2, <1>3, <1>4, <1>7 DEF IInv

LEMMA InitInv == Init => IInv
<1> SUFFICES ASSUME Init PROVE IInv
  OBVIOUS
<1>1. 0 \in 0..MaxAge /\ 0 \in 0..Readout /\ 0 \in 0..(Readout - 1) /\ 0 \in Nat /\ Common \in Rarities
  BY RigAssumption DEF Readout, TicksPerMs, Common, Rarities, Singular
<1>2. TypeOK
  BY <1>1, EmptyInv DEF Init, TypeOK, Stop
<1>3. Falling /\ Stopped /\ Rested /\ Idle /\ Above
  BY EmptyInv DEF Init, Falling, Stopped, Rested, Idle, Above
<1>4. Landed
  BY EmptyInv DEF Init, Landed
<1>5. opened \in Int
  BY RigAssumption DEF Init, TopTier
<1>6. Flow(opened) \in Nat
  BY <1>5, FlowType
<1>7. Metered /\ Tilted
  BY <1>6, EmptyInv DEF Init, Metered, Tilted, OneDroplet, TicksPerMs
<1> QED BY <1>2, <1>3, <1>4, <1>7 DEF IInv

-----------------------------------------------------------------------------
LEMMA OpenInv == IInv /\ OpenStream => IInv'
<1> SUFFICES ASSUME IInv, OpenStream PROVE IInv'
  OBVIOUS
<1> USE DEF OpenStream
<1>1. TypeOK'
  BY DEF IInv, TypeOK
<1>2. Falling' /\ Stopped' /\ Landed' /\ Tilted'
  BY DEF IInv, Falling, Stopped, Landed, Tilted
<1>3. Rested' /\ Idle'
  BY DEF Rested, Idle
<1>4. Above'
  <2>1. tier \in Int /\ opened \in Int
    BY OpenedType DEF IInv, TopTier
  <2> QED BY <2>1 DEF IInv, Above
<1>5. Metered'
  <2>1. CASE phase # "idle"
    BY <2>1 DEF IInv, Metered
  <2>2. CASE phase = "idle"
    <3>1. spawned = 0 /\ rig.spawnAcc = 0
      BY <2>2 DEF IInv, Idle
    <3> DEFINE held == rig.hold + Over(rig.finished)
    <3>2. held \in Nat /\ Flow(opened') \in Nat
      <4>1. rig.hold \in 0..Stop /\ TypeOK'
        BY <1>1 DEF IInv, TypeOK, Stop
      <4>2. opened' \in Int
        BY <2>2, OpenedType DEF IInv, TopTier
      <4> QED BY <4>1, <4>2, FlowType DEF Over, MaxFrame, TicksPerMs
    <3>3. Flow(opened') * held >= 0
      BY <3>2, Products
    <3>4. OneDroplet * spawned' + rig'.spawnAcc = 0
      BY <3>1 DEF OneDroplet, TicksPerMs
    <3> QED BY <3>3, <3>4 DEF Metered, Over
  <2> QED BY <2>1, <2>2
<1> QED BY <1>1, <1>2, <1>3, <1>4, <1>5 DEF IInv

LEMMA CloseInv == IInv /\ CloseStream => IInv'
<1> SUFFICES ASSUME IInv, CloseStream PROVE IInv'
  OBVIOUS
<1> USE DEF CloseStream
<1>1. TypeOK'
  BY DEF IInv, TypeOK
<1>2. Falling' /\ Stopped' /\ Landed' /\ Metered' /\ Tilted'
  BY DEF IInv, Falling, Stopped, Landed, Metered, Tilted
<1>3. Rested' /\ Idle' /\ Above'
  BY DEF IInv, Rested, Idle, Above
<1> QED BY <1>1, <1>2, <1>3 DEF IInv

\* A tier is only ever lowered, and what was painted is overtaken again.
LEMMA ConfigInv == IInv /\ ConfigArrives => IInv'
<1> SUFFICES ASSUME IInv, ConfigArrives PROVE IInv'
  OBVIOUS
<1> USE DEF ConfigArrives
<1>1. tier \in Int /\ opened \in Int /\ Ceiling \in Int /\ tier' \in Tiers /\ tier' \in Int
      /\ tier' <= tier
  <2>1. tier \in Int /\ opened \in Int /\ tier \in Tiers /\ Ceiling \in Tiers /\ Ceiling \in Int
    BY OpenedType, RigAssumption DEF IInv, TypeOK, TopTier
  <2> QED BY <2>1 DEF Lowered, Least
<1>2. TypeOK'
  <2>1. 0 \in 0..Readout
    BY DEF Readout, TicksPerMs
  <2> QED BY <1>1, <2>1 DEF IInv, TypeOK
<1>3. Falling' /\ Stopped' /\ Landed' /\ Metered' /\ Tilted' /\ Idle'
  BY DEF IInv, Falling, Stopped, Landed, Metered, Tilted, Idle
<1>4. Above'
  <2>1. phase' # "idle" => tier <= opened'
    BY DEF IInv, Above
  <2> QED BY <1>1, <2>1 DEF Above
<1>5. Rested'
  <2>1. 0 <= readoutAcc /\ 0 < Readout
    BY DEF IInv, TypeOK, Readout, TicksPerMs
  <2> QED BY <2>1 DEF IInv, Rested
<1> QED BY <1>2, <1>3, <1>4, <1>5 DEF IInv

LEMMA DiscardInv == IInv /\ Discard => IInv'
<1> SUFFICES ASSUME IInv, Discard PROVE IInv'
  OBVIOUS
<1>1. /\ tier' \in Tiers /\ opened' \in Tiers /\ config' \in {"pending", "known"}
      /\ readoutAcc' \in 0..(Readout - 1)
  BY DEF IInv, TypeOK, Discard
<1> QED BY <1>1, FreshInv DEF Discard

LEMMA StutterInv == IInv /\ UNCHANGED vars => IInv'
<1> SUFFICES ASSUME IInv, UNCHANGED vars PROVE IInv'
  OBVIOUS
<1> USE DEF vars
<1>1. TypeOK'
  BY DEF IInv, TypeOK
<1>2. Falling' /\ Stopped' /\ Landed' /\ Metered' /\ Tilted'
  BY DEF IInv, Falling, Stopped, Landed, Metered, Tilted
<1>3. Rested' /\ Idle' /\ Above'
  BY DEF IInv, Rested, Idle, Above
<1> QED BY <1>1, <1>2, <1>3 DEF IInv

LEMMA FrameInv ==
  ASSUME IInv, NEW dt \in Frames, NEW lean \in Leans, Frame(dt, lean)
  PROVE  IInv'
<1> DEFINE open == pouring /\ ~rig.finished
           stops == rig'.finished /\ ~rig.finished
<1>0. TypeOK /\ Idle /\ Above /\ Falling /\ Stopped /\ Landed /\ Metered /\ Tilted /\ Rested
  BY DEF IInv
<1>1. /\ StepRig(open, lean, dt) /\ PaintReadout(dt) /\ tier' = tier /\ opened' = opened
      /\ config' = config
      /\ pouring' = (pouring /\ ~stops)
      /\ phase' = IF phase = "settling" /\ IsSettled(rig', pouring /\ ~stops) THEN "settled"
                  ELSE IF pouring /\ stops THEN "settling" ELSE phase
      /\ (Counting => age + dt <= MaxAge) /\ age' = (IF Counting THEN age + dt ELSE age)
      /\ quiet' = IF phase = "settled" THEN Least(quiet + dt, Readout) ELSE 0
  BY DEF Frame
<1>2. open \in BOOLEAN /\ (open => pouring /\ ~rig.finished) /\ (~pouring => ~open)
  BY <1>0 DEF TypeOK
<1> HIDE DEF open
<1>3. /\ rig'.blobs \in [Slots -> Blobs] /\ Falling'
      /\ rig'.cursor \in Slots /\ rig'.spawnAcc \in 0..(OneDroplet - 1)
      /\ rig'.airborne \in 0..MAX_BLOBS /\ rig'.peak2 \in Nat
      /\ rig'.dropletsLanded \in Nat /\ spawned' \in Nat
      /\ rig'.hold = (IF open THEN Least(rig.hold + dt, Stop) ELSE rig.hold)
      /\ rig'.tilt = rig.tilt + IF open THEN TiltOf(lean, dt) ELSE 0
      /\ rig'.finished = (rig'.hold >= Stop)
      /\ OneDroplet * spawned' + rig'.spawnAcc = OneDroplet * spawned + Owed(open, dt)
      /\ Landed'
      /\ rig'.airborne = 0 => Aloft(rig'.blobs) = {}
      /\ ~open /\ Aloft(rig.blobs) = {} =>
           /\ Aloft(rig'.blobs) = {} /\ rig'.dropletsLanded = rig.dropletsLanded
           /\ rig'.peak2 = rig.peak2
  <2>1. /\ rig'.hold = (IF open THEN Least(rig.hold + dt, Stop) ELSE rig.hold)
        /\ rig'.tilt = rig.tilt + IF open THEN TiltOf(lean, dt) ELSE 0
        /\ rig'.finished = (rig'.hold >= Stop)
    BY <1>1, ClockStep DEF open
  <2> QED BY <1>0, <1>1, <1>2, <2>1, RigStep
<1>4. rig'.hold \in 0..Stop /\ Stopped' /\ rig'.finished \in BOOLEAN
  BY <1>0, <1>2, <1>3, HoldStep
<1>5. Metered' /\ Tilted' /\ rig'.tilt \in Nat
  BY <1>0, <1>1, <1>2, <1>3, MeterStep
<1>6. rig'.hold \in Nat
  BY <1>4
<1>7. rarity' \in Rarities /\ readoutAcc' \in 0..(Readout - 1)
  BY <1>0, <1>1, <1>3, <1>5, <1>6, PaintType
<1>8. age' \in 0..MaxAge
  <2>1. age \in 0..MaxAge /\ dt \in Nat /\ MaxAge \in Nat
    BY <1>0, FrameType, RigAssumption DEF TypeOK
  <2> QED BY <1>1, <2>1
<1>9. quiet' \in 0..Readout
  <2>1. quiet \in 0..300 /\ dt \in Nat /\ Readout = 300
    BY <1>0, FrameType DEF TypeOK
  <2> QED BY <1>1, <2>1 DEF Least
<1>10. /\ pouring' \in BOOLEAN /\ phase' \in {"idle", "pouring", "settling", "settled"}
       /\ tier' \in Tiers /\ opened' \in Tiers /\ config' \in {"pending", "known"}
  BY <1>0, <1>1 DEF TypeOK
<1>11. TypeOK'
  BY <1>3, <1>4, <1>5, <1>7, <1>8, <1>9, <1>10 DEF TypeOK, Stop
<1>12. Rested'
  <2>1. CASE phase = "settled"
    <3>1. ~pouring /\ Aloft(rig.blobs) = {} /\ ~pouring' /\ ~open
      BY <1>0, <1>1, <1>2, <2>1 DEF Rested
    <3>2. /\ Aloft(rig'.blobs) = {} /\ rig'.dropletsLanded = rig.dropletsLanded
          /\ rig'.peak2 = rig.peak2 /\ rig'.hold = rig.hold /\ rig'.tilt = rig.tilt
      <4>1. rig.tilt \in Nat
        BY <1>0 DEF TypeOK
      <4> QED BY <1>3, <3>1, <4>1
    <3>3. TelemetryOf(rig') = TelemetryOf(rig)
      BY <3>2 DEF TelemetryOf
    <3>4. readoutAcc \in Nat /\ quiet \in Nat /\ dt \in Nat /\ Readout = 300
      BY <1>0, FrameType DEF TypeOK
    <3>5. CASE readoutAcc + dt >= Readout
      <4>1. rarity' = Classify(TelemetryOf(rig'), tier')
        BY <1>1, <3>5 DEF PaintReadout
      <4> QED BY <3>1, <3>2, <4>1 DEF Rested
    <3>6. CASE ~(readoutAcc + dt >= Readout)
      <4>1. rarity' = rarity /\ readoutAcc' = readoutAcc + dt
        BY <1>1, <3>6 DEF PaintReadout
      <4>2. CASE rarity = Classify(TelemetryOf(rig), tier)
        <5>1. rarity' = Classify(TelemetryOf(rig'), tier')
          BY <1>1, <3>3, <4>1, <4>2
        <5> QED BY <3>1, <3>2, <5>1 DEF Rested
      <4>3. CASE quiet <= readoutAcc /\ quiet < Readout
        <5>1. quiet' = Least(quiet + dt, Readout)
          BY <1>1, <2>1
        <5>2. quiet' <= readoutAcc' /\ quiet' < Readout
          BY <3>4, <3>6, <4>1, <4>3, <5>1 DEF Least
        <5> QED BY <3>1, <3>2, <5>2 DEF Rested
      <4> QED BY <1>0, <2>1, <4>2, <4>3 DEF Rested
    <3> QED BY <3>5, <3>6
  <2>2. CASE phase # "settled"
    <3> SUFFICES ASSUME phase' = "settled"
                 PROVE  ~pouring' /\ Aloft(rig'.blobs) = {} /\ quiet' <= readoutAcc' /\ quiet' < Readout
      BY DEF Rested
    <3>1. IsSettled(rig', pouring /\ ~stops)
      BY <1>1, <2>2
    <3>2. ~pouring' /\ Aloft(rig'.blobs) = {}
      BY <1>1, <1>3, <3>1 DEF IsSettled
    <3>3. quiet' = 0 /\ readoutAcc' \in Nat /\ Readout = 300
      BY <1>1, <1>7, <2>2, FrameType
    <3> QED BY <3>2, <3>3
  <2> QED BY <2>1, <2>2
<1>13. Idle'
  <2> SUFFICES ASSUME phase' = "idle"
               PROVE  ~pouring' /\ spawned' = 0 /\ rig'.spawnAcc = 0 /\ Aloft(rig'.blobs) = {}
    BY DEF Idle
  <2>1. phase = "idle"
    BY <1>1
  <2>2. ~pouring /\ ~open /\ spawned = 0 /\ rig.spawnAcc = 0 /\ Aloft(rig.blobs) = {}
    BY <1>0, <1>2, <2>1 DEF Idle
  <2>3. OneDroplet * spawned' + rig'.spawnAcc = 0
    BY <1>3, <2>2 DEF Owed, OneDroplet, TicksPerMs
  <2>4. spawned' \in Nat /\ rig'.spawnAcc \in Nat /\ OneDroplet = 3000
    <3>1. OneDroplet = 3000
      BY SMT DEF OneDroplet, TicksPerMs
    <3>2. \A acc \in 0..(OneDroplet - 1) : acc \in Nat
      BY SMT, <3>1
    <3>3. rig'.spawnAcc \in 0..(OneDroplet - 1)
      BY <1>3
    <3>4. rig'.spawnAcc \in Nat
      BY Zenon, <3>2, <3>3
    <3> QED BY <1>3, <3>1, <3>4
  <2>5. spawned' = 0 /\ rig'.spawnAcc = 0
    BY <2>3, <2>4
  <2> QED BY <1>1, <1>3, <2>2, <2>5
<1>14. Above'
  <2>1. phase' # "idle" => phase # "idle"
    BY <1>0, <1>1 DEF Idle
  <2> QED BY <1>0, <1>1, <2>1 DEF Above
<1> QED BY <1>3, <1>4, <1>5, <1>11, <1>12, <1>13, <1>14 DEF IInv

(***************************************************************************)
(* The inductive invariant holds in every behaviour of the rig under its   *)
(* frame loop.                                                             *)
(***************************************************************************)
THEOREM Invariance == Spec => []IInv
<1>1. IInv /\ [Next]_vars => IInv'
  BY OpenInv, CloseInv, DiscardInv, ConfigInv, FrameInv, StutterInv DEF Next
<1> QED BY InitInv, <1>1, PTL DEF Spec

(***************************************************************************)
(* Type correctness: in particular the ring never counts more blobs in the *)
(* air than it has slots, and no blob falls through the floor (rig.ts).    *)
(***************************************************************************)
THEOREM TypeCorrect == Spec => []TypeOK
<1>1. IInv => TypeOK
  BY DEF IInv
<1> QED BY Invariance, <1>1, PTL

(***************************************************************************)
(* An honest pour's tilt is over its ceiling by one integrated frame at    *)
(* most, whatever the device's frames were (rig.ts).                       *)
(***************************************************************************)
THEOREM TiltIsBounded == Spec => []TiltWithinAFrame
<1>1. IInv => TiltWithinAFrame
  <2> SUFFICES ASSUME IInv PROVE TiltWithinAFrame
    OBVIOUS
  <2>1. rig.tilt \in Nat /\ rig.hold \in Nat /\ MaxFrame = 150
    <3>1. rig.hold \in 0..Stop
      BY DEF IInv, TypeOK, Stop
    <3> QED BY <3>1 DEF IInv, TypeOK, MaxFrame, TicksPerMs
  <2>2. rig.tilt <= 2 * (rig.hold + Over(rig.finished))
    BY DEF IInv, Tilted, Over
  <2>3. Over(rig.finished) \in {0, 150}
    BY <2>1 DEF Over
  <2> QED BY <2>1, <2>2, <2>3 DEF TiltWithinAFrame
<1> QED BY Invariance, <1>1, PTL

-----------------------------------------------------------------------------
(***************************************************************************)
(* The ring.  What could overwrite a droplet in the air is a cursor that   *)
(* comes round to it; how far it still has to come is the number of slots  *)
(* less the droplets that left the spout since, and these the meter bounds *)
(* by the time the droplet has fallen.                                     *)
(***************************************************************************)
BehindOf(cursor, i) == IF i < cursor THEN cursor - 1 - i ELSE cursor + MAX_BLOBS - 1 - i

\* Droplets that left the spout after the one in slot i.
Behind(i) == BehindOf(rig.cursor, i)

Ring ==
  \A i \in Aloft(rig.blobs) :
    OneDroplet * Behind(i) + rig.spawnAcc < Flow(TopTier) * rig.blobs[i].fallen

RingInv == Ring /\ EveryDropletLands

LEMMA Wrapped ==
  ASSUME NEW x \in Nat, x < 2 * MAX_BLOBS
  PROVE  x % MAX_BLOBS = IF x < MAX_BLOBS THEN x ELSE x - MAX_BLOBS
BY SMT, RigAssumption

LEMMA BehindType == \A cursor, i \in Slots : BehindOf(cursor, i) \in Slots
BY RigAssumption DEF BehindOf, Slots

\* After n more droplets each slot is n further behind, on the ring.
LEMMA Turned ==
  ASSUME NEW cursor \in Slots, NEW n \in 0..MAX_BLOBS, NEW i \in Slots
  PROVE  BehindOf((cursor + n) % MAX_BLOBS, i) =
           IF BehindOf(cursor, i) + n < MAX_BLOBS THEN BehindOf(cursor, i) + n
           ELSE BehindOf(cursor, i) + n - MAX_BLOBS
<1>1. MAX_BLOBS \in Nat /\ cursor \in Nat /\ cursor < MAX_BLOBS /\ n \in Nat /\ n <= MAX_BLOBS
      /\ i \in Nat /\ i < MAX_BLOBS
  BY RigAssumption DEF Slots
<1>2. (cursor + n) % MAX_BLOBS = IF cursor + n < MAX_BLOBS THEN cursor + n ELSE cursor + n - MAX_BLOBS
  BY <1>1, Wrapped
<1> QED BY <1>1, <1>2 DEF BehindOf

\* The slot of the droplet k places after the cursor.
LEMMA NextSlots ==
  ASSUME NEW cursor \in Slots, NEW k \in 0..(MAX_BLOBS - 1)
  PROVE  BehindOf(cursor, (cursor + k) % MAX_BLOBS) = MAX_BLOBS - 1 - k
<1>1. MAX_BLOBS \in Nat /\ cursor \in Nat /\ cursor < MAX_BLOBS /\ k \in Nat /\ k < MAX_BLOBS
  BY RigAssumption DEF Slots
<1>2. (cursor + k) % MAX_BLOBS = IF cursor + k < MAX_BLOBS THEN cursor + k ELSE cursor + k - MAX_BLOBS
  BY <1>1, Wrapped
<1> QED BY <1>1, <1>2 DEF BehindOf

LEMMA FilledAll ==
  ASSUME NEW cursor \in Slots, NEW n \in 0..MAX_BLOBS
  PROVE  Cardinality(Filled(cursor, n)) = n
<1> DEFINE S == 0..(n - 1)
           T == Filled(cursor, n)
           f == [k \in S |-> (cursor + k) % MAX_BLOBS]
<1>1. n \in Nat /\ 0 \in Int /\ n - 1 \in Int /\ S \subseteq 0..(MAX_BLOBS - 1)
      /\ \A k \in S : k \in Int
  BY RigAssumption
<1>2. f \in Surjection(S, T)
  BY DEF Surjection, Filled
<1>3. ASSUME NEW k \in S, NEW l \in S, (cursor + k) % MAX_BLOBS = (cursor + l) % MAX_BLOBS
      PROVE  k = l
  <2>1. MAX_BLOBS - 1 - k = MAX_BLOBS - 1 - l
    BY <1>1, <1>3, NextSlots
  <2> QED BY <1>1, <2>1, RigAssumption
<1>4. f \in Injection(S, T)
  <2>1. f \in [S -> T] /\ \A k \in S : f[k] = (cursor + k) % MAX_BLOBS
    BY DEF Filled
  <2> HIDE DEF f, S, T
  <2>2. \A k, l \in S : f[k] = f[l] => k = l
    BY <1>3, <2>1
  <2> QED BY <2>1, <2>2 DEF Injection, IsInjective
<1>5. IsFiniteSet(S) /\ Cardinality(S) = n
  <2>1. IsFiniteSet(S) /\ Cardinality(S) = IF 0 > n - 1 THEN 0 ELSE (n - 1) - 0 + 1
    BY <1>1, FS_Interval
  <2> QED BY <1>1, <2>1
<1> HIDE DEF S, T, f
<1>6. Cardinality(T) = Cardinality(S)
  BY <1>2, <1>4, <1>5, FS_Surjection
<1> QED BY <1>5, <1>6 DEF T

LEMMA DisjointCount ==
  ASSUME NEW S, IsFiniteSet(S), NEW T, IsFiniteSet(T), S \cap T = {}
  PROVE  Cardinality(S \cup T) = Cardinality(S) + Cardinality(T)
<1>1. Cardinality(S \cup T) = Cardinality(S) + Cardinality(T) - Cardinality({})
  BY FS_Union
<1>2. Cardinality(S) \in Nat /\ Cardinality(T) \in Nat
  BY FS_CardinalityType
<1> QED BY <1>1, <1>2, FS_EmptySet

LEMMA AccType == TypeOK => rig.spawnAcc \in Nat /\ rig.spawnAcc < OneDroplet
<1> SUFFICES ASSUME TypeOK PROVE rig.spawnAcc \in Nat /\ rig.spawnAcc < OneDroplet
  OBVIOUS
<1>1. rig.spawnAcc \in 0..(OneDroplet - 1)
  BY DEF TypeOK
<1>2. \A x \in 0..(OneDroplet - 1) : x \in Nat /\ x < OneDroplet
  BY SMT DEF OneDroplet, TicksPerMs
<1> QED BY Zenon, <1>1, <1>2

\* The meter grows by the flow over the frame, and a frame spawns two at most.
LEMMA OwedStep ==
  ASSUME TypeOK, NEW open \in BOOLEAN, NEW dtTicks \in Frames
  PROVE  LET growth == Flow(tier) * Least(dtTicks, MaxFrame)
             n == Fresh(open, dtTicks)
         IN /\ growth \in Nat /\ growth <= 34 * MaxFrame
            /\ Owed(open, dtTicks) = (IF open THEN rig.spawnAcc + growth ELSE 0)
            /\ n <= 2 /\ (~open => n = 0)
<1> DEFINE dt == Least(dtTicks, MaxFrame)
           flow == Flow(tier)
           growth == flow * dt
           acc == Owed(open, dtTicks)
           n == Fresh(open, dtTicks)
           rest == acc % OneDroplet
<1>1. dt \in Nat /\ dt <= MaxFrame /\ MaxFrame = 150
  BY FrameType
<1>2. flow \in Nat /\ flow <= 34
  <2>1. flow \in 10..34
    BY RigTypes, FlowType
  <2> QED BY <2>1
<1>3. acc = IF open THEN rig.spawnAcc + growth ELSE 0
  BY DEF Owed, SpawnRate
<1>4. /\ acc \in Nat /\ n \in Nat /\ acc = OneDroplet * n + rest
      /\ rest \in 0..(OneDroplet - 1)
  BY Zenon, FillStep
<1>5. OneDroplet = 3000
  BY SMT DEF OneDroplet, TicksPerMs
<1>6. rig.spawnAcc \in Nat /\ rig.spawnAcc < OneDroplet
  BY AccType
<1> HIDE DEF dt, flow, acc, n, rest
<1>7. growth \in Nat /\ growth <= 34 * 150
  <2>1. flow * dt \in Nat /\ flow * dt <= flow * 150
    BY <1>1, <1>2, Products, Scaled
  <2> QED BY <1>2, <2>1
<1> HIDE DEF growth
<1>8. rest \in Nat
  BY <1>4, <1>5
<1>9. n <= 2 /\ (~open => n = 0)
  BY SMT, <1>3, <1>4, <1>5, <1>6, <1>7, <1>8
<1> QED BY <1>1, <1>3, <1>7, <1>9 DEF growth, flow, dt, acc, n

LEMMA RingStep ==
  ASSUME RingHolds(MAX_BLOBS, FallMax), TypeOK, Falling, RingInv,
         NEW open \in BOOLEAN, NEW lean \in Leans, NEW dtTicks \in Frames,
         StepRig(open, lean, dtTicks)
  PROVE  RingInv'
<1> DEFINE dt == Least(dtTicks, MaxFrame)
           flow == Flow(TopTier)
           growth == Flow(tier) * dt
           most == flow * dt
           acc == Owed(open, dtTicks)
           n == Fresh(open, dtTicks)
           filled == Filling(open, dtTicks)
           moved == Advanced(open, lean, dtTicks)
           still == Aloft(rig'.blobs)
           rest == acc % OneDroplet
<1>1. /\ acc \in Nat /\ n \in Nat /\ rest \in 0..(OneDroplet - 1)
      /\ acc = OneDroplet * n + rest
      /\ filled \subseteq Slots /\ IsFiniteSet(filled) /\ (n = 0 => filled = {})
  BY Zenon, FillStep
<1>2. /\ moved \in [Slots -> Blobs]
      /\ Aloft(moved) = Aloft(rig.blobs) \cup filled
      /\ \A i \in filled :
           moved[i].fallen = dt /\ moved[i].vx = Dragged(SpawnVx * (1 + lean), dt)
      /\ \A i \in Aloft(rig.blobs) \ filled :
           moved[i].fallen = rig.blobs[i].fallen + dt /\ moved[i].vx = Dragged(rig.blobs[i].vx, dt)
  BY Zenon, MoveStep
<1>3. /\ still \subseteq Aloft(moved)
      /\ \A i \in still : rig'.blobs[i] = moved[i]
      /\ rig'.dropletsLanded + Cardinality(still) = rig.dropletsLanded + Cardinality(Aloft(moved))
      /\ rig'.cursor = (rig.cursor + n) % MAX_BLOBS
      /\ rig'.spawnAcc = rest
      /\ spawned' = spawned + n
  BY Zenon, LandStep
<1>4. growth \in Nat /\ growth <= 34 * MaxFrame /\ n <= 2 /\ (~open => n = 0)
      /\ acc = (IF open THEN rig.spawnAcc + growth ELSE 0)
  BY Zenon, OwedStep
<1>5. /\ rig.cursor \in Slots /\ rig.blobs \in [Slots -> Blobs] /\ rig.spawnAcc \in Nat
      /\ flow \in Nat /\ rig.dropletsLanded \in Nat /\ spawned \in Nat
      /\ dt \in Nat /\ dt <= MaxFrame /\ MaxFrame = 150 /\ FallMax \in Nat /\ FallMax > 0
      /\ MAX_BLOBS \in Nat /\ filled = Filled(rig.cursor, n)
  BY RigTypes, OpenedType, FrameType, RigAssumption DEF TypeOK, Filling
<1>14. most \in Nat /\ growth <= most
  <2>1. Flow(tier) \in Nat /\ Flow(tier) <= flow /\ flow \in Nat
    BY OpenedType
  <2>2. dt * Flow(tier) <= dt * flow
    BY <1>5, <2>1, Scaled
  <2>3. dt * Flow(tier) = growth /\ dt * flow = most
    BY <1>5, <2>1
  <2> QED BY <1>5, <2>1, <2>2, <2>3, Products
<1>6. flow * (FallMax - 1 + MaxFrame) <= OneDroplet * MAX_BLOBS /\ MAX_BLOBS >= 2
  <2>1. \A t \in 0..TopTier : Flow(t) * (FallMax - 1 + MaxFrame) <= OneDroplet * MAX_BLOBS
    BY DEF RingHolds
  <2>2. TopTier \in 0..TopTier /\ Flow(TopTier) = 34
    BY OpenedType DEF TopTier
  <2>3. 34 * (FallMax - 1 + MaxFrame) <= OneDroplet * MAX_BLOBS
    BY <2>1, <2>2
  <2>4. 34 * (FallMax - 1 + 150) <= 3000 * MAX_BLOBS
    BY SMT, <1>5, <2>3 DEF OneDroplet, TicksPerMs
  <2>5. MAX_BLOBS >= 2
    BY SMT, <1>5, <2>4
  <2> QED BY <2>1, <2>2, <2>5
<1>7. n \in 0..MAX_BLOBS
  BY <1>1, <1>4, <1>5, <1>6
<1>8. OneDroplet = 3000
  BY SMT DEF OneDroplet, TicksPerMs
<1> HIDE DEF dt, flow, growth, most, acc, n, filled, moved, rest
\* A droplet in the air is not yet at the cursor, nor will be after this frame.
<1>9. ASSUME NEW i \in Aloft(rig.blobs)
      PROVE  /\ i \in Slots /\ Behind(i) \in Nat /\ rig.blobs[i].fallen \in Nat
             /\ flow * rig.blobs[i].fallen \in Nat
             /\ flow * (rig.blobs[i].fallen + dt) = flow * rig.blobs[i].fallen + most
             /\ OneDroplet * Behind(i) + rig.spawnAcc < flow * rig.blobs[i].fallen
             /\ Behind(i) + n < MAX_BLOBS
  <2> DEFINE b == Behind(i)
             fallen == rig.blobs[i].fallen
             now == flow * fallen
             room == flow * (FallMax - 1 + MaxFrame)
  <2>1. i \in Slots /\ rig.blobs[i] \in Blobs /\ rig.blobs[i].at = "aloft"
    BY <1>5 DEF Aloft
  <2>2. fallen \in Nat /\ fallen < FallMax
    <3>1. fallen \in 0..(FallMax + MaxFrame) /\ fallen < FallMax
      BY <2>1 DEF Falling, Blobs
    <3> QED BY <1>5, <3>1
  <2>3. b \in Nat
    <3>1. b \in Slots
      BY <1>5, <2>1, BehindType DEF Behind
    <3> QED BY <3>1, RigAssumption DEF Slots
  <2>4. OneDroplet * b + rig.spawnAcc < now
    BY DEF RingInv, Ring, flow
  <2>5. now \in Nat /\ flow * (fallen + dt) = now + most
    BY <1>5, <2>2, Products DEF most
  <2>6. now + most <= room /\ room \in Nat
    <3>1. fallen + dt \in Nat /\ FallMax - 1 + MaxFrame \in Nat /\ fallen + dt <= FallMax - 1 + MaxFrame
      BY <1>5, <2>2
    <3>2. flow * (fallen + dt) <= room
      BY <1>5, <3>1, Scaled
    <3> QED BY <1>5, <2>5, <3>1, <3>2, Products
  <2>7. room <= 3000 * MAX_BLOBS
    BY <1>6, <1>8
  <2> HIDE DEF b, fallen, now, room
  <2>8. rest \in Nat
    BY <1>1, <1>8
  <2>9. b + n < MAX_BLOBS
    <3>1. CASE open
      BY SMT, <1>1, <1>4, <1>5, <1>8, <1>14, <2>3, <2>4, <2>5, <2>6, <2>7, <2>8, <3>1
    <3>2. CASE ~open
      BY SMT, <1>1, <1>4, <1>5, <1>8, <1>14, <2>3, <2>4, <2>5, <2>6, <2>7, <3>2
    <3> QED BY <3>1, <3>2
  <2> QED BY <2>1, <2>2, <2>3, <2>4, <2>5, <2>9 DEF b, fallen, now
<1>10. ASSUME NEW i \in filled
       PROVE  \E k \in 0..(n - 1) : BehindOf(rig.cursor, i) = MAX_BLOBS - 1 - k
  <2>1. PICK k \in 0..(n - 1) : i = (rig.cursor + k) % MAX_BLOBS
    BY <1>5 DEF Filled
  <2>2. k \in 0..(MAX_BLOBS - 1)
    BY <1>5, <1>7
  <2>3. BehindOf(rig.cursor, i) = MAX_BLOBS - 1 - k
    BY <1>5, <2>1, <2>2, NextSlots
  <2> QED BY <2>3
<1>11. Aloft(rig.blobs) \cap filled = {}
  <2> SUFFICES ASSUME NEW i \in Aloft(rig.blobs), i \in filled PROVE FALSE
    OBVIOUS
  <2>1. PICK k \in 0..(n - 1) : BehindOf(rig.cursor, i) = MAX_BLOBS - 1 - k
    BY <1>10
  <2>2. BehindOf(rig.cursor, i) + n < MAX_BLOBS
    BY <1>9 DEF Behind
  <2> QED BY <1>1, <1>5, <2>1, <2>2
<1>12. EveryDropletLands'
  <2>1. Cardinality(filled) = n
    BY <1>5, <1>7, FilledAll
  <2>2. IsFiniteSet(Aloft(rig.blobs)) /\ Cardinality(Aloft(rig.blobs)) \in Nat
    BY AloftFinite
  <2>3. Cardinality(Aloft(moved)) = Cardinality(Aloft(rig.blobs)) + n
    BY <1>1, <1>2, <1>11, <2>1, <2>2, DisjointCount
  <2>4. spawned = rig.dropletsLanded + Cardinality(Aloft(rig.blobs))
    BY DEF RingInv, EveryDropletLands
  <2>5. rig'.dropletsLanded + Cardinality(still) = rig.dropletsLanded + Cardinality(Aloft(rig.blobs)) + n
    BY <1>1, <1>3, <1>5, <2>2, <2>3
  <2> QED BY <1>1, <1>3, <1>5, <2>2, <2>4, <2>5 DEF EveryDropletLands
<1>13. Ring'
  <2> SUFFICES ASSUME NEW i \in still
               PROVE  OneDroplet * BehindOf(rig'.cursor, i) + rig'.spawnAcc < flow * moved[i].fallen
    BY <1>3 DEF Ring, Behind, flow
  <2>1. i \in Slots /\ i \in Aloft(rig.blobs) \cup filled
    BY <1>2, <1>3 DEF Aloft
  <2>2. BehindOf(rig'.cursor, i) =
          IF BehindOf(rig.cursor, i) + n < MAX_BLOBS THEN BehindOf(rig.cursor, i) + n
          ELSE BehindOf(rig.cursor, i) + n - MAX_BLOBS
    BY <1>3, <1>5, <1>7, <2>1, Turned
  <2>3. rest \in Nat
    BY <1>1, <1>8
  <2>4. CASE i \in filled
    <3>1. PICK k \in 0..(n - 1) : BehindOf(rig.cursor, i) = MAX_BLOBS - 1 - k
      BY <1>10, <2>4
    <3>2. BehindOf(rig'.cursor, i) = n - 1 - k
      BY <1>1, <1>5, <2>2, <3>1
    <3>3. flow * moved[i].fallen = most
      BY <1>2, <2>4 DEF most
    <3>4. open
      BY <1>1, <1>4, <2>4
    <3>5. rig.spawnAcc < OneDroplet /\ k \in Nat
      BY AccType
    <3>6. 3000 * (n - 1 - k) + rest < most
      BY SMT, <1>1, <1>4, <1>5, <1>8, <1>14, <2>3, <3>4, <3>5
    <3> QED BY <1>3, <1>8, <3>2, <3>3, <3>6
  <2>5. CASE i \notin filled
    <3>1. i \in Aloft(rig.blobs)
      BY <2>1, <2>5
    <3>2. BehindOf(rig'.cursor, i) = Behind(i) + n /\ Behind(i) \in Nat
      BY <1>9, <2>2, <3>1 DEF Behind
    <3>3. flow * moved[i].fallen = flow * rig.blobs[i].fallen + most
      BY <1>2, <1>9, <2>5, <3>1
    <3>4. OneDroplet * Behind(i) + rig.spawnAcc < flow * rig.blobs[i].fallen
          /\ flow * rig.blobs[i].fallen \in Nat
      BY <1>9, <3>1
    <3> DEFINE b == Behind(i)
               now == flow * rig.blobs[i].fallen
    <3> HIDE DEF b, now
    <3>5. 3000 * (b + n) + rest < now + most
      <4>1. b \in Nat /\ now \in Nat /\ 3000 * b + rig.spawnAcc < now
        BY <1>8, <3>2, <3>4 DEF b, now
      <4>2. CASE open
        BY SMT, <1>1, <1>4, <1>5, <1>8, <1>14, <2>3, <4>1, <4>2
      <4>3. CASE ~open
        BY SMT, <1>1, <1>4, <1>5, <1>8, <1>14, <2>3, <4>1, <4>3
      <4> QED BY <4>2, <4>3
    <3> QED BY <1>3, <1>8, <3>2, <3>3, <3>5 DEF b, now
  <2> QED BY <2>4, <2>5
<1> QED BY <1>12, <1>13 DEF RingInv

(***************************************************************************)
(* Every droplet that left the spout has landed exactly once or is still   *)
(* falling (rig.ts, invariant 4), for every ring that outlasts the fall:   *)
(* the 32 slots do at frames of 4 ms and more (MCRig, FallIsShortEnough).   *)
(***************************************************************************)
THEOREM NoDropletIsLost ==
  ASSUME RingHolds(MAX_BLOBS, FallMax) PROVE Spec => []EveryDropletLands
<1>1. Init => RingInv
  <2> SUFFICES ASSUME Init PROVE RingInv
    OBVIOUS
  <2>1. rig = EmptyRig /\ spawned = 0
    BY DEF Init
  <2>2. Aloft(rig.blobs) = {} /\ rig.dropletsLanded = 0 /\ Cardinality(Aloft(rig.blobs)) = 0
    BY <2>1, EmptyInv
  <2>3. Ring
    BY <2>2 DEF Ring
  <2> QED BY <2>1, <2>2, <2>3 DEF RingInv, EveryDropletLands
<1>2. IInv /\ RingInv /\ [Next]_vars => RingInv'
  <2> SUFFICES ASSUME IInv, RingInv, [Next]_vars PROVE RingInv'
    OBVIOUS
  <2>1. TypeOK /\ Falling
    BY DEF IInv
  <2>2. ASSUME rig' = rig, spawned' = spawned PROVE RingInv'
    BY <2>2 DEF RingInv, Ring, Behind, EveryDropletLands
  <2>3. CASE OpenStream
    BY <2>2, <2>3 DEF OpenStream
  <2>4. CASE CloseStream
    BY <2>2, <2>4 DEF CloseStream
  <2>8. CASE ConfigArrives
    BY <2>2, <2>8 DEF ConfigArrives
  <2>5. CASE Discard
    <3>1. rig' = EmptyRig /\ spawned' = 0
      BY <2>5 DEF Discard
    <3>2. Aloft(rig'.blobs) = {} /\ rig'.dropletsLanded = 0 /\ Cardinality(Aloft(rig'.blobs)) = 0
      BY <3>1, EmptyInv
    <3>3. Ring'
      BY <3>2 DEF Ring
    <3> QED BY <3>1, <3>2, <3>3 DEF RingInv, EveryDropletLands
  <2>6. CASE \E dt \in Frames, lean \in Leans : Frame(dt, lean)
    <3>1. PICK dt \in Frames, lean \in Leans : Frame(dt, lean)
      BY <2>6
    <3>2. /\ StepRig(pouring /\ ~rig.finished, lean, dt)
          /\ (pouring /\ ~rig.finished) \in BOOLEAN
      BY <3>1 DEF Frame
    <3> QED BY <2>1, <3>2, RingStep
  <2>7. CASE UNCHANGED vars
    BY <2>2, <2>7 DEF vars
  <2> QED BY <2>3, <2>4, <2>5, <2>6, <2>7, <2>8 DEF Next
<1>3. RingInv => EveryDropletLands
  BY DEF RingInv
<1> QED BY <1>1, <1>2, <1>3, Invariance, PTL DEF Spec

-----------------------------------------------------------------------------
(***************************************************************************)
(* The speed.  A droplet is older than its fall: the meter had to fill     *)
(* before the spout let the first one go, which is 89 ticks at the fullest *)
(* flow, and a frame too long to show it in has dragged on the droplet.    *)
(***************************************************************************)
OldEnough(blob, ticks) ==
  \/ blob.fallen + 9 <= ticks
  \/ blob.fallen <= ticks /\ blob.fallen >= 100 /\ blob.vx <= 1320

Older == \A i \in Aloft(rig.blobs) : OldEnough(rig.blobs[i], age)

Spent == OneDroplet * spawned + rig.spawnAcc <= Flow(TopTier) * age

SpeedInv == Older /\ Spent /\ SpeedWithinAge

\* The ceiling of the speed is a little under 1.21 times the square of the fall's.
LEMMA PeakCeiling ==
  ASSUME NEW t, NEW ms \in Nat
  PROVE  LET f == FallSpeed(ms)
             peak2 == TelemetryCeilings(t, ms).peak2
         IN peak2 \in Int /\ 100 * peak2 >= 121 * (f * f + 455625) - 179
<1> DEFINE f == FallSpeed(ms)
           fall == f * f + SpawnVx * SpawnVx
           peak2 == TelemetryCeilings(t, ms).peak2
<1>1. SpawnVx * SpawnVx = 455625 /\ f * f \in Int
  BY SMT, FallSpeedRange DEF SpawnVx
<1>2. peak2 = fall + fall \div 5 + fall \div 100
  BY DEF TelemetryCeilings
<1>3. fall = f * f + 455625 /\ fall \in Int
  BY SMT, <1>1
<1> HIDE DEF f, fall, peak2
<1>4. peak2 \in Int /\ 100 * peak2 >= 121 * fall - 179
  BY SMT, <1>2, <1>3
<1>5. 121 * fall - 179 = 121 * (f * f + 455625) - 179
  BY <1>3
<1> QED BY <1>4, <1>5 DEF f, peak2

LEMMA CeilingGrows ==
  ASSUME NEW t, NEW ms \in Nat, NEW later \in Nat, ms <= later
  PROVE  TelemetryCeilings(t, ms).peak2 <= TelemetryCeilings(t, later).peak2
<1> DEFINE f == FallSpeed(ms)
           g == FallSpeed(later)
           low == f * f + SpawnVx * SpawnVx
           high == g * g + SpawnVx * SpawnVx
<1>1. f \in Nat /\ g \in Nat /\ f <= g
  BY SMT DEF FallSpeed, Least, SpawnVy
<1>2. SpawnVx * SpawnVx = 455625
  BY SMT DEF SpawnVx
<1>3. /\ TelemetryCeilings(t, ms).peak2 = low + low \div 5 + low \div 100
      /\ TelemetryCeilings(t, later).peak2 = high + high \div 5 + high \div 100
  BY DEF TelemetryCeilings
<1> HIDE DEF f, g
<1>4. f * f \in Int /\ g * g \in Int /\ f * f <= g * g
  <2>1. g \in Int /\ f <= g /\ g <= g
    BY <1>1
  <2>2. f * f <= g * g
    BY <1>1, <2>1, SquareRange
  <2> QED BY <1>1, <2>2
<1>5. low \in Int /\ high \in Int /\ low <= high
  BY <1>2, <1>4
<1> HIDE DEF low, high
<1>6. low + low \div 5 + low \div 100 <= high + high \div 5 + high \div 100
  BY SMT, <1>5
<1> QED BY <1>3, <1>6

\* A fall of a ticks against a ceiling of b: b is a few milliseconds ahead, or
\* the drag has shown.
LEMMA AheadOfTheFall ==
  ASSUME NEW a \in Nat, NEW b \in Nat, a >= 1800, b >= 2409, b >= a + 49
  PROVE  121 * (b * b + 455625) - 179 >= 100 * (a * a + 1822500)
<1> DEFINE low == 2409
           gap == b - a
           over == b + a
<1>1. b * b >= 2409 * 2409
  <2>1. low \in Nat /\ low <= b
    BY SMT
  <2> HIDE DEF low
  <2>2. b \in Int /\ b <= b
    OBVIOUS
  <2>3. low * low <= b * b
    BY <2>1, <2>2, SquareRange
  <2> QED BY <2>3 DEF low
<1>2. over \in Nat /\ over >= 4209 /\ gap \in Nat /\ 49 <= gap
  BY SMT
<1>3. b * b = a * a + over * gap
  BY SMT
<1> HIDE DEF gap, over
<1>4. over * 49 <= over * gap /\ over * gap \in Nat
  BY <1>2, Scaled, Products
<1> DEFINE aa == a * a
           bb == b * b
           og == over * gap
<1>5. aa \in Nat /\ bb \in Nat
  BY Products
<1>6. og \in Nat /\ og >= 49 * over /\ bb = aa + og /\ bb >= 5803281
  BY SMT, <1>1, <1>2, <1>3, <1>4
<1> HIDE DEF aa, bb, og
<1>7. 121 * (bb + 455625) - 179 >= 100 * (aa + 1822500)
  BY SMT, <1>2, <1>5, <1>6
<1> QED BY <1>7 DEF aa, bb

LEMMA AfterTheDrag ==
  ASSUME NEW a \in Nat, NEW b \in Nat, b >= 2493, b >= a - 14
  PROVE  121 * (b * b + 455625) - 179 >= 100 * (a * a + 1742400)
<1> DEFINE low == 2493
           reach == b + 14
           k == b - 2493
           aa == a * a
           bb == b * b
           rr == reach * reach
           kk == k * k
<1>1. rr = bb + 28 * b + 196
  BY SMT
<1>2. reach \in Nat /\ a <= reach /\ a \in Int /\ 0 <= a
  BY SMT
<1>3. k \in Nat /\ b = k + 2493
  BY SMT
<1>4. bb = kk + 4986 * k + 6215049
  BY SMT
<1>5. kk \in Nat /\ aa \in Nat /\ bb \in Nat
  BY <1>3, Products
<1> HIDE DEF reach, k
<1>6. aa <= rr
  <2>1. 0 \in Nat
    OBVIOUS
  <2> QED BY <1>2, <2>1, SquareRange
<1>7. rr \in Int
  BY <1>2
<1> HIDE DEF aa, bb, rr, kk
<1>8. 121 * (bb + 455625) - 179 >= 100 * (aa + 1742400)
  BY SMT, <1>1, <1>3, <1>4, <1>5, <1>6, <1>7
<1> QED BY <1>8 DEF aa, bb

LEMMA AtTheTop ==
  ASSUME NEW a \in Nat, NEW b \in Nat, a <= 27000, b = 27000
  PROVE  121 * (b * b + 455625) - 179 >= 100 * (a * a + 1822500)
<1> DEFINE high == 27000
           aa == a * a
<1>1. high \in Nat /\ a \in Int /\ a <= high /\ 0 \in Nat /\ 0 <= a /\ high * high = 729000000
  BY SMT
<1> HIDE DEF high
<1>2. aa \in Int /\ aa <= high * high
  BY <1>1, SquareRange
<1> HIDE DEF aa
<1>3. b * b = 729000000
  BY SMT
<1>4. 121 * (729000000 + 455625) - 179 >= 100 * (aa + 1822500)
  BY SMT, <1>1, <1>2
<1> QED BY <1>3, <1>4 DEF aa

LEMMA BlobType ==
  ASSUME NEW blob \in Blobs
  PROVE  /\ blob.fallen \in Nat /\ blob.fallen <= FallMax + MaxFrame
         /\ blob.vx \in Nat /\ blob.vx <= 1350
<1>1. blob.fallen \in 0..(FallMax + MaxFrame) /\ blob.vx \in 0..(2 * SpawnVx)
  BY DEF Blobs
<1> DEFINE fallen == blob.fallen
           vx == blob.vx
<1>2. fallen \in 0..(FallMax + MaxFrame) /\ vx \in 0..(2 * SpawnVx)
  BY <1>1
<1> HIDE DEF fallen, vx
<1>3. fallen \in Nat /\ fallen <= FallMax + MaxFrame
  BY SMT, <1>2, RigAssumption DEF MaxFrame, TicksPerMs
<1>4. vx \in Nat /\ vx <= 1350
  BY SMT, <1>2 DEF SpawnVx
<1> QED BY <1>3, <1>4 DEF fallen, vx

LEMMA SpeedUnderCeiling ==
  ASSUME SpeedHolds(FallMax, Frames),
         NEW blob \in Blobs, NEW ticks \in Nat, ticks >= 89, OldEnough(blob, ticks)
  PROVE  Speed2(blob) <= TelemetryCeilings(tier, ticks \div TicksPerMs).peak2
<1> DEFINE ms == ticks \div TicksPerMs
           a == SpawnVy + 7 * blob.fallen
           b == FallSpeed(ms)
           vx == blob.vx
           fallen == blob.fallen
           peak2 == TelemetryCeilings(tier, ms).peak2
           aa == a * a
           vv == vx * vx
           bb == b * b
<1>1. fallen \in Nat /\ fallen <= 3600 /\ vx \in Nat /\ vx <= 1350
  <2>1. FallMax \in Nat /\ MaxFrame \in Nat /\ FallMax + MaxFrame <= 3600
    BY RigAssumption DEF SpeedHolds, MaxFrame, TicksPerMs
  <2> QED BY <2>1, BlobType
<1>2. ms \in Nat /\ 3 * ms <= ticks /\ ticks <= 3 * ms + 2
  BY SMT DEF TicksPerMs
<1>3. Speed2(blob) = aa + vv
  BY DEF Speed2
<1>4. peak2 \in Int /\ 100 * peak2 >= 121 * (bb + 455625) - 179
  BY <1>2, PeakCeiling
<1>5. a = 1800 + 7 * fallen /\ a \in Nat /\ a >= 1800 /\ a <= 27000
  BY SMT, <1>1 DEF SpawnVy
<1>6. b = (IF ms < 1200 THEN 1800 + 21 * ms ELSE 27000) /\ b \in Nat
  BY SMT, <1>2 DEF FallSpeed, Least, SpawnVy
<1>7. \/ fallen + 9 <= ticks
      \/ fallen <= ticks /\ fallen >= 100 /\ vx <= 1320
  BY DEF OldEnough
<1> HIDE DEF ms, a, b, vx, fallen, peak2
<1>8. vv \in Nat /\ vv <= 1822500 /\ (vx <= 1320 => vv <= 1742400)
  <2>1. ASSUME NEW top \in Nat, vx <= top PROVE vv \in Int /\ 0 * 0 <= vv /\ vv <= top * top
    <3>1. 0 \in Nat /\ vx \in Int /\ 0 <= vx
      BY <1>1
    <3> QED BY <2>1, <3>1, SquareRange
  <2>2. vv <= 1350 * 1350
    BY <1>1, <2>1
  <2>3. vx <= 1320 => vv <= 1320 * 1320
    BY <2>1
  <2>4. vv \in Nat
    BY <1>1, Products
  <2> QED BY SMT, <2>2, <2>3, <2>4
<1>9. aa \in Nat /\ bb \in Nat
  BY <1>5, <1>6, Products
<1>10. 100 * (aa + vv) <= 121 * (bb + 455625) - 179
  <2>1. CASE ms >= 1200
    <3>1. b = 27000
      BY <1>2, <1>6, <2>1
    <3>2. 121 * (bb + 455625) - 179 >= 100 * (aa + 1822500)
      BY <1>5, <1>6, <3>1, AtTheTop
    <3> HIDE DEF aa, bb, vv
    <3> QED BY SMT, <1>8, <1>9, <3>2
  <2>2. CASE ms < 1200 /\ fallen + 9 <= ticks
    <3>1. b >= 2409 /\ b >= a + 49
      BY SMT, <1>1, <1>2, <1>5, <1>6, <2>2
    <3>2. 121 * (bb + 455625) - 179 >= 100 * (aa + 1822500)
      BY <1>5, <1>6, <3>1, AheadOfTheFall
    <3> HIDE DEF aa, bb, vv
    <3> QED BY SMT, <1>8, <1>9, <3>2
  <2>3. CASE ms < 1200 /\ fallen <= ticks /\ fallen >= 100 /\ vx <= 1320
    <3>1. b >= 2493 /\ b >= a - 14
      BY SMT, <1>1, <1>2, <1>5, <1>6, <2>3
    <3>2. 121 * (bb + 455625) - 179 >= 100 * (aa + 1742400)
      BY <1>5, <1>6, <3>1, AfterTheDrag
    <3> HIDE DEF aa, bb, vv
    <3> QED BY SMT, <1>8, <1>9, <2>3, <3>2
  <2> QED BY <1>2, <1>7, <2>1, <2>2, <2>3
<1> HIDE DEF aa, bb, vv
<1>11. aa + vv <= peak2
  BY SMT, <1>4, <1>8, <1>9, <1>10
<1> QED BY <1>3, <1>11 DEF peak2, ms

\* The drag slows a blob down, by a forty-fifth in a frame of a hundred ticks.
LEMMA DragSlows ==
  ASSUME NEW vx \in 0..(2 * SpawnVx), NEW dt \in 0..MaxFrame
  PROVE  Dragged(vx, dt) <= vx /\ (dt >= 100 => Dragged(vx, dt) <= 1320)
<1> DEFINE p == vx * dt
           lost == p \div 4500
<1>1. vx \in Nat /\ vx <= 1350 /\ dt \in Nat
  BY SMT DEF SpawnVx, MaxFrame, TicksPerMs
<1>2. p \in Nat
  BY <1>1, Products
<1>3. dt >= 100 => p >= vx * 100
  BY <1>1, Scaled
<1>4. Dragged(vx, dt) = vx - lost
  BY DEF Dragged
<1> HIDE DEF p
<1>5. lost \in Int /\ 0 <= lost /\ 4500 * lost <= p /\ p <= 4500 * lost + 4499
  BY SMT, <1>2
<1> HIDE DEF lost
<1>6. vx - lost <= vx
  BY SMT, <1>1, <1>5
<1>7. dt >= 100 => vx - lost <= 1320
  BY SMT, <1>1, <1>2, <1>3, <1>5
<1> QED BY <1>4, <1>6, <1>7

\* No droplet leaves the spout before the 89th tick.
LEMMA FirstDroplet ==
  ASSUME NEW drops \in Nat, drops >= 1, NEW flow \in Nat, flow <= 34, NEW ticks \in Nat,
         NEW acc \in Nat, OneDroplet * drops + acc <= flow * ticks
  PROVE  ticks >= 89
<1>1. flow * ticks <= ticks * 34
  <2>1. ticks * flow <= ticks * 34
    BY Scaled
  <2> QED BY <2>1
<1> DEFINE p == flow * ticks
<1>2. p \in Nat /\ p <= ticks * 34 /\ OneDroplet * drops + acc <= p
  BY <1>1, Products
<1>3. OneDroplet = 3000
  BY SMT DEF OneDroplet, TicksPerMs
<1> HIDE DEF p
<1> QED BY SMT, <1>2, <1>3

LEMMA SpeedStep ==
  ASSUME SpeedHolds(FallMax, Frames), TypeOK, Falling, Landed, Rested, SpeedInv,
         NEW open \in BOOLEAN, open => pouring, NEW lean \in Leans, NEW dtTicks \in Frames,
         StepRig(open, lean, dtTicks), tier' = tier,
         age' = IF Counting THEN age + dtTicks ELSE age
  PROVE  SpeedInv'
<1> DEFINE dt == Least(dtTicks, MaxFrame)
           flow == Flow(TopTier)
           growth == Flow(tier) * dt
           most == flow * dt
           filled == Filling(open, dtTicks)
           moved == Advanced(open, lean, dtTicks)
           still == Aloft(rig'.blobs)
           ceiling(ticks) == TelemetryCeilings(tier, ticks \div TicksPerMs).peak2
<1>1. open => Counting
  BY DEF Rested, Counting
<1>3. /\ OneDroplet * spawned' + rig'.spawnAcc = OneDroplet * spawned + Owed(open, dtTicks)
      /\ spawned' \in Nat /\ rig'.spawnAcc \in 0..(OneDroplet - 1) /\ rig'.dropletsLanded \in Nat
      /\ Landed'
      /\ ~open /\ Aloft(rig.blobs) = {} => still = {} /\ rig'.peak2 = rig.peak2
  BY RigStep
<1>4. /\ flow \in Nat /\ flow <= 34 /\ dt \in Nat /\ dt <= dtTicks /\ dtTicks \in Nat
      /\ dt \in 0..MaxFrame /\ MaxFrame = 150 /\ dt = (IF dtTicks < 150 THEN dtTicks ELSE 150)
      /\ age \in Nat /\ spawned \in Nat /\ rig.spawnAcc \in Nat /\ rig'.spawnAcc \in Nat
      /\ rig.dropletsLanded \in Nat
  <2>1. age \in 0..MaxAge /\ flow = 34
    BY OpenedType DEF TypeOK
  <2>3. age \in Nat /\ flow \in Nat /\ flow <= 34
    BY <2>1
  <2>4. \A x \in 0..(OneDroplet - 1) : x \in Nat
    BY SMT DEF OneDroplet, TicksPerMs
  <2> QED BY <1>3, <2>1, <2>3, <2>4, RigTypes, FrameType DEF Least
<1>5. Owed(open, dtTicks) = (IF open THEN rig.spawnAcc + growth ELSE 0)
  BY DEF Owed, SpawnRate
<1>14. growth \in Nat /\ most \in Nat /\ growth <= most
  <2>1. Flow(tier) \in Nat /\ Flow(tier) <= flow /\ flow \in Nat
    BY OpenedType
  <2>2. dt * Flow(tier) <= dt * flow
    BY <1>4, <2>1, Scaled
  <2>3. dt * Flow(tier) = growth /\ dt * flow = most
    BY <1>4, <2>1
  <2> QED BY <1>4, <2>1, <2>2, <2>3, Products
<1>9. /\ moved \in [Slots -> Blobs]
      /\ Aloft(moved) = Aloft(rig.blobs) \cup filled
      /\ \A i \in filled :
           moved[i].fallen = dt /\ moved[i].vx = Dragged(SpawnVx * (1 + lean), dt)
      /\ \A i \in Aloft(rig.blobs) \ filled :
           moved[i].fallen = rig.blobs[i].fallen + dt /\ moved[i].vx = Dragged(rig.blobs[i].vx, dt)
  BY Zenon, MoveStep
<1>10. /\ still \subseteq Aloft(moved) /\ \A i \in still : rig'.blobs[i] = moved[i]
       /\ rig'.dropletsLanded + Cardinality(still) = rig.dropletsLanded + Cardinality(Aloft(moved))
       /\ rig'.peak2 \in {rig.peak2} \cup (IF open THEN Sample(moved) ELSE {})
  BY Zenon, LandStep
<1> HIDE DEF dt, flow, growth, filled, moved, ceiling
<1>6. age' \in Nat /\ age <= age' /\ (Counting => age' = age + dtTicks)
  BY <1>4
<1>7. OneDroplet * spawned + rig.spawnAcc <= flow * age
  BY DEF SpeedInv, Spent, flow
<1>8. Spent' /\ OneDroplet * spawned' + rig'.spawnAcc <= flow * age'
  <2> DEFINE now == age'
  <2>0. now \in Nat /\ age <= now
    BY <1>6
  <2> HIDE DEF now
  <2>1. /\ flow * age \in Nat /\ OneDroplet * spawned \in Nat
        /\ flow * now \in Nat
    <3>1. OneDroplet \in Nat
      BY SMT DEF OneDroplet, TicksPerMs
    <3> QED BY <1>4, <2>0, <3>1, Products
  <2>2. OneDroplet * spawned' + rig'.spawnAcc <= flow * now
    <3>1. CASE open
      <4>1. age + dt \in Nat /\ age + dt <= now
        BY <1>1, <1>4, <1>6, <3>1 DEF now
      <4>2. flow * (age + dt) <= flow * now
        BY <1>4, <2>0, <4>1, Scaled
      <4>3. flow * (age + dt) = flow * age + most
        BY <1>4
      <4> HIDE DEF most
      <4> QED BY <1>3, <1>4, <1>5, <1>7, <1>14, <2>1, <3>1, <4>2, <4>3
    <3>2. CASE ~open
      <4>1. flow * age <= flow * now
        BY <1>4, <2>0, Scaled
      <4> QED BY <1>3, <1>4, <1>5, <1>7, <2>1, <3>2, <4>1
    <3> QED BY <3>1, <3>2
  <2> QED BY <2>2 DEF Spent, flow, now
\* Whatever is in the air came out of a meter that had to fill first.
<1>11. Aloft(moved) # {} => age' >= 89
  <2> SUFFICES ASSUME Aloft(moved) # {} PROVE age' >= 89
    OBVIOUS
  <2>1. /\ Cardinality(Aloft(moved)) \in Nat /\ Cardinality(Aloft(moved)) # 0
        /\ Cardinality(still) \in Nat
    BY AloftFinite, FS_EmptySet
  <2>2. spawned' >= 1
    BY <1>3, <1>4, <1>10, <2>1 DEF Landed
  <2> QED BY Zenon, <1>3, <1>4, <1>6, <1>8, <2>2, FirstDroplet
<1>12. CASE ~Counting
  <2>1. ~open /\ Aloft(rig.blobs) = {} /\ age' = age
    <3>1. phase = "settled" \/ (age = 0 /\ ~pouring)
      BY <1>4, <1>12 DEF Counting
    <3>2. CASE phase = "settled"
      BY <1>1, <1>12, <3>2 DEF Rested
    <3>3. CASE age = 0 /\ ~pouring
      <4>1. ASSUME NEW i \in Aloft(rig.blobs) PROVE FALSE
        <5>1. rig.blobs[i] \in Blobs
          BY DEF TypeOK, Aloft
        <5>2. rig.blobs[i].fallen \in Nat
          BY <5>1, BlobType
        <5>3. OldEnough(rig.blobs[i], 0)
          BY <3>3 DEF SpeedInv, Older
        <5> QED BY <5>2, <5>3 DEF OldEnough
      <4> QED BY <1>1, <1>12, <4>1
    <3> QED BY <3>1, <3>2, <3>3
  <2>2. still = {} /\ rig'.peak2 = rig.peak2
    BY <1>3, <2>1
  <2> QED BY <1>8, <2>1, <2>2 DEF SpeedInv, Older, SpeedWithinAge
<1>13. CASE Counting
  <2>1. ASSUME NEW i \in Aloft(moved) PROVE OldEnough(moved[i], age')
    <3>1. age' = age + dtTicks /\ age' >= 89
      BY <1>6, <1>11, <1>13, <2>1
    <3>2. CASE i \in filled
      <4>1. SpawnVx * (1 + lean) \in 0..(2 * SpawnVx)
        BY SMT, LeanIsClamped DEF SpawnVx
      <4>2. moved[i].fallen = dt /\ (dt >= 100 => moved[i].vx <= 1320)
        BY <1>4, <1>9, <3>2, <4>1, DragSlows
      <4>3. dtTicks <= 80 \/ dtTicks >= 100
        BY DEF SpeedHolds
      <4> QED BY <1>4, <3>1, <4>2, <4>3 DEF OldEnough
    <3>3. CASE i \notin filled
      <4>1. i \in Aloft(rig.blobs) /\ i \in Slots
        BY <1>9, <2>1, <3>3 DEF Aloft
      <4>2. rig.blobs[i] \in Blobs /\ rig.blobs[i].vx \in 0..(2 * SpawnVx)
        BY <4>1 DEF TypeOK, Blobs
      <4>3. rig.blobs[i].fallen \in Nat /\ rig.blobs[i].vx \in Nat
        BY <4>2, BlobType
      <4>4. moved[i].fallen = rig.blobs[i].fallen + dt /\ moved[i].vx <= rig.blobs[i].vx
        BY <1>4, <1>9, <3>3, <4>1, <4>2, DragSlows
      <4>5. moved[i].vx \in Nat
        BY <1>9, <4>1, BlobType
      <4>6. OldEnough(rig.blobs[i], age)
        BY <4>1 DEF SpeedInv, Older
      <4> QED BY <1>4, <3>1, <4>3, <4>4, <4>5, <4>6 DEF OldEnough
    <3> QED BY <3>2, <3>3
  <2>2. Older'
    BY <1>10, <2>1 DEF Older
  <2>3. rig'.peak2 <= ceiling(age')
    <3>1. CASE rig'.peak2 = rig.peak2
      <4>1. rig.peak2 \in Nat /\ rig.peak2 <= ceiling(age)
        BY DEF SpeedInv, SpeedWithinAge, TypeOK, ceiling
      <4>2. /\ age \div TicksPerMs \in Nat /\ age' \div TicksPerMs \in Nat
            /\ age \div TicksPerMs <= age' \div TicksPerMs
        <5> DEFINE now == age'
        <5>1. now \in Nat /\ age <= now
          BY <1>6
        <5> HIDE DEF now
        <5>2. now \div 3 \in Nat /\ age \div 3 \in Nat /\ age \div 3 <= now \div 3
          BY SMT, <1>4, <5>1
        <5> QED BY <5>2 DEF TicksPerMs, now
      <4>3. ceiling(age) <= ceiling(age')
        BY <4>2, CeilingGrows DEF ceiling
      <4>4. ceiling(age) \in Int /\ ceiling(age') \in Int
        BY <4>2, PeakCeiling DEF ceiling
      <4> QED BY <3>1, <4>1, <4>3, <4>4
    <3>2. CASE rig'.peak2 # rig.peak2
      <4>1. PICK i \in Aloft(moved) : rig'.peak2 = Speed2(moved[i])
        BY <1>10, <3>2 DEF Sample
      <4>2. moved[i] \in Blobs
        BY <1>9, <4>1 DEF Aloft
      <4>3. OldEnough(moved[i], age') /\ age' >= 89
        BY <1>11, <2>1, <4>1
      <4> QED BY <1>6, <4>1, <4>2, <4>3, SpeedUnderCeiling DEF ceiling
    <3> QED BY <3>1, <3>2
  <2>4. SpeedWithinAge'
    BY <2>3 DEF SpeedWithinAge, ceiling
  <2> QED BY <1>8, <2>2, <2>4 DEF SpeedInv
<1> QED BY <1>12, <1>13

LEMMA FreshSpeed ==
  ASSUME rig'.peak2 = 0, age' = 0, spawned' = 0, rig'.spawnAcc = 0, Aloft(rig'.blobs) = {},
         tier' \in Int
  PROVE  SpeedInv'
<1>1. Older'
  BY DEF Older
<1>2. Flow(TopTier) * age' = 0 /\ OneDroplet * spawned' + rig'.spawnAcc = 0
  <2>1. Flow(TopTier) \in Nat /\ TopTier \in Int
    BY FlowType DEF TopTier
  <2> QED BY <2>1 DEF OneDroplet, TicksPerMs
<1>3. Spent'
  BY <1>2 DEF Spent
<1>4. SpeedWithinAge'
  <2>1. age' \div TicksPerMs = 0 /\ 0 \in Nat
    BY SMT DEF TicksPerMs
  <2>2. TelemetryCeilings(tier', 0).peak2 >= 57
    BY <2>1, CeilingsBounds
  <2>3. TelemetryCeilings(tier', 0).peak2 \in Int
    BY <2>1, PeakCeiling
  <2> QED BY <2>1, <2>2, <2>3 DEF SpeedWithinAge
<1> QED BY <1>1, <1>3, <1>4 DEF SpeedInv

(***************************************************************************)
(* The speed a pour reports is within the ceiling of the time since its    *)
(* stream was first opened (rig.ts, invariants 2 and 3), on any device of  *)
(* 37.5 frames a second and more or of 30 and fewer.  Between the two it   *)
(* is false of a droplet born in the pour's first frame at full lean: the  *)
(* clamp's whole milliseconds lack the fraction that the droplet fell.     *)
(***************************************************************************)
THEOREM SpeedNeverFlagged ==
  ASSUME SpeedHolds(FallMax, Frames) PROVE Spec => []SpeedWithinAge
<1>2. tier \in Tiers => tier \in Int
  BY RigAssumption DEF TopTier
<1>3. Init => SpeedInv
  <2> SUFFICES ASSUME Init PROVE SpeedInv
    OBVIOUS
  <2>1. /\ rig.peak2 = 0 /\ age = 0 /\ spawned = 0 /\ rig.spawnAcc = 0 /\ Aloft(rig.blobs) = {}
        /\ tier \in Int
    BY <1>2, EmptyInv DEF Init
  <2>2. Older
    BY <2>1 DEF Older
  <2>3. Spent
    <3>1. Flow(TopTier) \in Nat
      BY FlowType DEF TopTier
    <3> QED BY <2>1, <3>1 DEF Spent, OneDroplet, TicksPerMs
  <2>4. SpeedWithinAge
    <3>1. age \div TicksPerMs = 0 /\ 0 \in Nat
      BY SMT, <2>1 DEF TicksPerMs
    <3>2. TelemetryCeilings(tier, 0).peak2 >= 57
      BY <2>1, <3>1, CeilingsBounds
    <3>3. TelemetryCeilings(tier, 0).peak2 \in Int
      BY <3>1, PeakCeiling
    <3> QED BY <2>1, <3>1, <3>2, <3>3 DEF SpeedWithinAge
  <2> QED BY <2>2, <2>3, <2>4 DEF SpeedInv
<1>4. IInv /\ SpeedInv /\ [Next]_vars => SpeedInv'
  <2> SUFFICES ASSUME IInv, SpeedInv, [Next]_vars PROVE SpeedInv'
    OBVIOUS
\* The ceiling of the speed is every tier's.
  <2>1. ASSUME rig' = rig, spawned' = spawned, age' = age PROVE SpeedInv'
    <3>1. \A ms : TelemetryCeilings(tier', ms).peak2 = TelemetryCeilings(tier, ms).peak2
      BY DEF TelemetryCeilings
    <3> QED BY <2>1, <3>1 DEF SpeedInv, Older, Spent, SpeedWithinAge
  <2>2. CASE OpenStream
    BY <2>1, <2>2 DEF OpenStream
  <2>3. CASE CloseStream
    BY <2>1, <2>3 DEF CloseStream
  <2>7. CASE ConfigArrives
    BY <2>1, <2>7 DEF ConfigArrives
  <2>4. CASE Discard
    <3>1. tier' = tier /\ tier \in Int /\ rig' = EmptyRig /\ age' = 0 /\ spawned' = 0
      BY <1>2, <2>4 DEF Discard, IInv, TypeOK
    <3>2. /\ rig'.peak2 = 0 /\ rig'.spawnAcc = 0 /\ Aloft(rig'.blobs) = {} /\ tier' \in Int
      BY <3>1, EmptyInv
    <3> QED BY <3>1, <3>2, FreshSpeed
  <2>5. CASE \E dt \in Frames, lean \in Leans : Frame(dt, lean)
    <3>1. PICK dt \in Frames, lean \in Leans : Frame(dt, lean)
      BY <2>5
    <3> DEFINE open == pouring /\ ~rig.finished
    <3>2. /\ StepRig(open, lean, dt) /\ tier' = tier /\ open \in BOOLEAN /\ (open => pouring)
          /\ age' = IF Counting THEN age + dt ELSE age
      BY <3>1 DEF Frame
    <3>3. TypeOK /\ Falling /\ Landed /\ Rested
      BY DEF IInv
    <3> HIDE DEF open
    <3> QED BY <3>2, <3>3, SpeedStep
  <2>6. CASE UNCHANGED vars
    BY <2>1, <2>6 DEF vars
  <2> QED BY <2>2, <2>3, <2>4, <2>5, <2>6, <2>7 DEF Next
<1>5. SpeedInv => SpeedWithinAge
  BY DEF SpeedInv
<1> QED BY <1>3, <1>4, <1>5, Invariance, PTL DEF Spec
-----------------------------------------------------------------------------
LEMMA PourTypes ==
  ASSUME IInv
  PROVE  /\ TelemetryOf(rig) \in [Fields -> Nat] /\ tier \in Int
         /\ TelemetryOf(rig).holdMs <= MaxPourMs
         /\ \A skew \in Skews : WallClock(skew) \in Nat
<1>1. TypeOK
  BY DEF IInv
<1>2. /\ rig.dropletsLanded \in Nat /\ rig.peak2 \in Nat /\ rig.tilt \in Nat
      /\ rig.hold \in 0..(MaxPourMs * 3) /\ tier \in Int /\ age \in Nat
  BY <1>1, RigAssumption DEF TypeOK, TopTier, TicksPerMs
<1>3. rig.hold \in Nat /\ MaxPourMs \in Nat /\ rig.hold <= MaxPourMs * 3
  BY <1>2, TelemetryAssumption
<1>4. rig.hold \div 3 <= MaxPourMs
  BY SMT, <1>3
<1>5. \A skew \in Skews : WallClock(skew) \in Nat
  BY <1>2, RigAssumption DEF WallClock, Safe, TicksPerMs
<1> QED BY <1>2, <1>3, <1>4, <1>5, TelemetryType DEF TicksPerMs

(***************************************************************************)
(* What the seal shows is what is minted: once settled nothing moves the   *)
(* telemetry (rig.ts), the next readout paints it (PourScreen.tsx), and    *)
(* the clamp cannot change the band (telemetry.ts, rarity.ts).             *)
(***************************************************************************)
THEOREM PreviewHolds == Spec => []PreviewIsMinted
<1>1. IInv => PreviewIsMinted
  <2> SUFFICES ASSUME IInv, NEW skew \in Skews, phase = "settled", quiet >= Readout,
                      WallClock(skew) >= TelemetryOf(rig).holdMs
               PROVE  rarity = Classify(Minted(skew).telemetry, tier)
    BY DEF PreviewIsMinted
  <2>1. quiet \in Nat /\ Readout = 300
    BY FrameType DEF IInv, TypeOK, Readout, TicksPerMs
  <2>2. rarity = Classify(TelemetryOf(rig), tier)
    BY <2>1 DEF IInv, Rested
  <2>3. /\ TelemetryOf(rig) \in [Fields -> Nat] /\ tier \in Int /\ WallClock(skew) \in Nat
        /\ TelemetryOf(rig).holdMs <= WallClock(skew) /\ TelemetryOf(rig).holdMs <= MaxPourMs
    <3>1. /\ TelemetryOf(rig) \in [Fields -> Nat] /\ tier \in Int /\ WallClock(skew) \in Nat
          /\ TelemetryOf(rig).holdMs <= MaxPourMs
      BY PourTypes
    <3>2. TelemetryOf(rig).holdMs \in Nat
      BY <3>1 DEF Fields
    <3> QED BY <3>1, <3>2
  <2>4. Classify(Minted(skew).telemetry, tier) = Classify(TelemetryOf(rig), tier)
    BY <2>3, ClampKeepsTheBand DEF Minted
  <2> QED BY <2>2, <2>4
<1> QED BY Invariance, <1>1, PTL

(***************************************************************************)
(* No pour is minted above the band its tier's row names (tiers.ts), for   *)
(* any hard stop up to a thousand seconds.                                 *)
(***************************************************************************)
THEOREM RowIsRight == ASSUME MaxPourMs <= 1000000 PROVE Spec => []NoneBeatsReachable
<1>1. IInv => NoneBeatsReachable
  <2> SUFFICES ASSUME IInv, NEW skew \in Skews
               PROVE  Classify(Minted(skew).telemetry, tier) <= ReachableRarity(tier)
    BY DEF NoneBeatsReachable
  <2>1. TelemetryOf(rig) \in [Fields -> Nat] /\ tier \in Int /\ WallClock(skew) \in Nat
    BY PourTypes
  <2>2. TelemetryOf(rig) \in [Fields -> Int]
    BY <2>1
  <2>3. Minted(skew).telemetry \in [Fields -> Nat]
    BY <2>1, <2>2, ClampedOnceIsClamped DEF Minted
  <2> QED BY <2>1, <2>3, NoneAboveReachable
<1> QED BY Invariance, <1>1, PTL

(***************************************************************************)
(* "Spawning at exactly flow guarantees landings can never exceed it"      *)
(* (rig.ts, invariant 1): what the clamp permits at the tier the stream    *)
(* was opened at, whenever the configuration lowers the tier on the way,   *)
(* and for every hard stop of at least 143 ms: below that the frame the    *)
(* hard stop cuts short outweighs the tolerance.                           *)
(***************************************************************************)
THEOREM DropletsNeverFlagged == ASSUME MaxPourMs >= 143 PROVE Spec => []DropletsWithin
<1>1. IInv => DropletsWithin
  <2> DEFINE flow == Flow(opened)
             ms == rig.hold \div TicksPerMs
             over == Over(rig.finished)
             x == flow * ms * 115
             whole == flow * rig.hold
             part == flow * ms
  <2> SUFFICES ASSUME IInv PROVE rig.dropletsLanded <= CeilDiv(x, 100000)
    BY DEF DropletsWithin, TelemetryCeilings
  <2>1. /\ flow \in 10..34 /\ rig.hold \in Nat /\ rig.dropletsLanded \in Nat /\ spawned \in Nat
        /\ rig.spawnAcc \in Nat
    <3>1. opened \in Int /\ rig.hold \in 0..Stop /\ rig.spawnAcc \in 0..(OneDroplet - 1)
          /\ rig.dropletsLanded \in Nat /\ spawned \in Nat
      BY RigAssumption DEF IInv, TypeOK, TopTier, Stop
    <3> QED BY <3>1, FlowType
  <2>2. flow \in Nat /\ flow >= 10 /\ flow <= 34
    BY <2>1
  <2>3. ms \in Nat /\ 3 * ms <= rig.hold /\ rig.hold <= 3 * ms + 2
    BY SMT, <2>1 DEF TicksPerMs
  <2>4. over \in {0, 150} /\ (over = 150 => rig.hold >= 429)
    <3>1. over \in {0, 150} /\ (over = 150 => rig.finished)
      BY DEF Over, MaxFrame, TicksPerMs
    <3>2. Stop \in Nat /\ Stop >= 429
      BY TelemetryAssumption DEF Stop, TicksPerMs
    <3>3. rig.finished => rig.hold >= Stop
      BY DEF IInv, Stopped
    <3> QED BY <2>1, <3>1, <3>2, <3>3
  <2>5. rig.dropletsLanded <= spawned
    <3>1. Cardinality(Aloft(rig.blobs)) \in Nat
      BY AloftFinite
    <3> QED BY <2>1, <3>1 DEF IInv, Landed
  <2>6. 3000 * spawned + rig.spawnAcc <= flow * (rig.hold + over)
    BY SMT DEF IInv, Metered, Over, OneDroplet, TicksPerMs
  <2> HIDE DEF flow, ms, over
  <2>7. /\ whole \in Nat /\ part \in Nat /\ flow * over \in Nat
        /\ flow * (rig.hold + over) = whole + flow * over
        /\ whole <= 3 * part + 2 * flow
        /\ x = part * 115
    <3>1. whole \in Nat /\ part \in Nat
      BY <2>1, <2>2, <2>3, Products
    <3>2. flow * over \in Nat /\ over \in Nat
      BY <2>2, <2>4, Products
    <3>3. flow * (rig.hold + over) = flow * rig.hold + flow * over
      BY <2>1, <2>2, <3>2
    <3>4. flow * rig.hold <= flow * (3 * ms + 2)
      BY <2>1, <2>2, <2>3, Scaled
    <3>5. flow * (3 * ms + 2) = 3 * (flow * ms) + 2 * flow
      BY <2>2, <2>3
    <3>6. x = (flow * ms) * 115
      BY <2>2, <2>3
    <3> QED BY <3>1, <3>2, <3>3, <3>4, <3>5, <3>6
  <2>8. /\ over = 0 => flow * over = 0
        /\ over = 150 => flow * over = 150 * flow /\ whole >= 429 * flow
    <3>1. over = 0 => flow * over = 0
      BY <2>2
    <3>2. over = 150 => flow * over = 150 * flow
      BY <2>2
    <3>3. over = 150 => flow * 429 <= flow * rig.hold
      BY <2>1, <2>2, <2>4, Scaled
    <3> QED BY <2>2, <3>1, <3>2, <3>3
  <2> HIDE DEF whole, part, x
  <2>9. 3000 * rig.dropletsLanded <= whole + flow * over
    BY SMT, <2>1, <2>5, <2>6, <2>7
  <2>10. x \in Nat /\ CeilDiv(x, 100000) \in Int /\ 100000 * CeilDiv(x, 100000) >= x
    BY SMT, <2>7 DEF CeilDiv
  <2>11. CASE over = 0
    BY SMT, <2>1, <2>2, <2>7, <2>8, <2>9, <2>10, <2>11
  <2>12. CASE over = 150
    BY SMT, <2>1, <2>2, <2>7, <2>8, <2>9, <2>10, <2>12
  <2> QED BY <2>4, <2>11, <2>12
<1> QED BY Invariance, <1>1, PTL
=============================================================================
