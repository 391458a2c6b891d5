-------------------------------- MODULE MCRig --------------------------------
(***************************************************************************)
(* The rig on a short ceremony for TLC, and, at the real fifteen seconds,  *)
(* the sigil pipeline against the first rows of the repository's corpus.   *)
(***************************************************************************)
EXTENDS Rig, SequencesExt

Full == INSTANCE Sigil WITH MaxPourMs <- 15000

(***************************************************************************)
(* The ring of 32 against the longest fall: from SPOUT_Y to FLOOR_Y, 0.62  *)
(* of a stage SIM_HEIGHT 900 high, from rest under gravity 1400.  Speed is *)
(* integrated before position, so that in t ticks of frames no shorter     *)
(* than 4 ms a droplet falls at least 1400 t (t + 12) / 2 / 3000^2 units.  *)
(* The run's ring of 5 holds the run's shorter fall, and both falls end    *)
(* before the ceiling of the speed stops growing.                          *)
(***************************************************************************)
LongestFall == 2673

ASSUME FallIsShortEnough ==
  /\ 7 * LongestFall * (LongestFall + 12) > 558 * 90000
  /\ RingHolds(32, LongestFall)
  /\ RingHolds(MAX_BLOBS, FallMax)
  /\ SpeedHolds(LongestFall, {12, 25, 50, 100, 300}) /\ SpeedHolds(FallMax, Frames)

\* api/sigil/testdata/corpus.json: the two halves of the hash, the score, the
\* rarity and how many fields were flagged.
Corpus == <<
    <<44538, 47435, 372, Common, 4>>, <<43396, 13654, 375, Common, 2>>, <<55353, 48891, 331, Common, 0>>,
    <<56202, 13493, 343, Common, 0>>, <<53012, 9237, 333, Common, 0>>, <<52229, 61734, 586, Uncommon, 2>>,
    <<63465, 63157, 276, Common, 2>>, <<16468, 12576, 464, Common, 4>>, <<3101, 14405, 534, Uncommon, 1>>,
    <<33251, 45200, 419, Common, 0>>, <<38198, 3856, 622, Uncommon, 2>>, <<44932, 33790, 677, Rare, 2>>,
    <<33938, 32237, 320, Common, 0>>, <<55371, 34964, 393, Common, 3>>, <<62596, 63617, 564, Uncommon, 4>>,
    <<17029, 36549, 323, Common, 0>>, <<35831, 53362, 204, Common, 1>>, <<52980, 31730, 562, Uncommon, 1>>,
    <<44920, 50552, 153, Common, 0>>, <<53873, 11542, 262, Common, 1>>, <<61462, 26311, 326, Common, 1>>,
    <<41257, 63236, 588, Uncommon, 4>>, <<8539, 29814, 659, Uncommon, 2>>, <<7253, 32329, 709, Rare, 2>>,
    <<3171, 49189, 417, Common, 1>>, <<43084, 46896, 393, Common, 0>>, <<50889, 41705, 451, Common, 1>>,
    <<45137, 38508, 398, Common, 2>>, <<62690, 18066, 613, Uncommon, 4>>, <<24382, 34540, 334, Common, 0>>,
    <<38888, 26593, 175, Common, 0>>, <<25141, 36575, 372, Common, 0>>, <<28135, 49531, 401, Common, 0>>,
    <<27678, 31017, 486, Common, 0>>, <<42018, 55223, 586, Uncommon, 3>>, <<4594, 26469, 702, Rare, 4>>,
    <<65408, 47237, 409, Common, 2>>, <<38714, 64743, 368, Common, 2>>, <<28177, 16113, 419, Common, 1>>,
    <<21133, 10434, 342, Common, 0>>, <<7294, 57852, 732, Rare, 2>>, <<48478, 5016, 500, Common, 1>>,
    <<57628, 11874, 402, Common, 4>>, <<3287, 25268, 174, Common, 0>>, <<24978, 30026, 422, Common, 1>>,
    <<28515, 45410, 581, Uncommon, 1>>, <<17155, 47932, 468, Common, 1>>, <<55734, 8937, 422, Common, 0>>
  >>

(***************************************************************************)
(* The rows, drawn, clamped, hashed and classified by the definitions of   *)
(* Sigil and Telemetry, are those TypeScript wrote and Go is tested on.    *)
(***************************************************************************)
ASSUME CorpusAgrees ==
  \A n \in DOMAIN Corpus :
    LET row == Full!Row(n - 1)
    IN /\ row.hash = Full!Halves(Corpus[n][1], Corpus[n][2])
       /\ row.score = Corpus[n][3] /\ row.rarity = Corpus[n][4]
       /\ Cardinality(row.violations) = Corpus[n][5]

(***************************************************************************)
(* "Any endpoint past 200 units from center gets sliced flat" (sigil.ts):  *)
(* at the smallest and the largest draws, and on sigils of the corpus, no  *)
(* mark leaves the view box, a satellite lands clear of the pool, and each *)
(* draw of the stream is consumed by one mark, in the order of drawing.    *)
(***************************************************************************)
Drawable(g) ==
  /\ \A i \in 1..12 : g.pool[i].radius < g.tendrils[1].from + 32000
  /\ \A i \in 1..9 :
       LET mark == g.tendrils[i]
       IN mark.from < mark.to /\ mark.to + mark.width \div 2 <= Full!Centre
  /\ \A i \in 1..26 :
       LET mark == g.satellites[i]
       IN /\ mark.radius + mark.size <= Full!Centre
          /\ \A j \in 1..12 : g.pool[j].radius < mark.radius - mark.size

DrawnInOrder(g) ==
  LET uses(marks) == [i \in DOMAIN marks |-> marks[i].uses]
  IN FlattenSeq(uses(g.pool) \o uses(g.tendrils) \o uses(g.satellites)) = [k \in 1..143 |-> k]

ASSUME SigilsAreDrawable ==
  LET smallest == [k \in 1..143 |-> 0]
      largest == [k \in 1..143 |-> 999]
  IN /\ Drawable(Full!GenerateSigil(smallest)) /\ Drawable(Full!GenerateSigil(largest))
     /\ \A n \in 1..4 :
          LET hash == Full!Row(n).hash
              r == [k \in 1..143 |-> Full!Scaled(Full!Draw(hash, k), 1000)]
              g == Full!GenerateSigil(r)
          IN Drawable(g) /\ DrawnInOrder(g)
=============================================================================
