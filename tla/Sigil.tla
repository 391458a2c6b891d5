-------------------------------- MODULE Sigil --------------------------------
(***************************************************************************)
(* The seed hash, the generator it seeds and what that generator draws     *)
(* (sigil/sigil.ts), and the rows by which TypeScript and Go are compared  *)
(* (sigil/gencorpus.ts).                                                   *)
(*                                                                         *)
(* A 32-bit word is its four bytes, the lowest first: products and sums    *)
(* wrap because nothing is carried out of the fourth.                      *)
(***************************************************************************)
EXTENDS Telemetry, Bitwise, Sequences, SequencesExt

Word(n) == <<n % 256, (n \div 256) % 256, (n \div 65536) % 256, n \div 16777216>>
Halves(high, low) == <<low % 256, low \div 256, high % 256, high \div 256>>

Xor32(a, b) == [i \in 1..4 |-> a[i] ^^ b[i]]
Or32(a, b) == [i \in 1..4 |-> a[i] | b[i]]

Carried(sums) ==
  LET c1 == sums[1]
      c2 == sums[2] + c1 \div 256
      c3 == sums[3] + c2 \div 256
      c4 == sums[4] + c3 \div 256
  IN <<c1 % 256, c2 % 256, c3 % 256, c4 % 256>>

Add32(a, b) == Carried([i \in 1..4 |-> a[i] + b[i]])

Imul(a, b) ==
  Carried(<<a[1] * b[1],
            a[1] * b[2] + a[2] * b[1],
            a[1] * b[3] + a[2] * b[2] + a[3] * b[1],
            a[1] * b[4] + a[2] * b[3] + a[3] * b[2] + a[4] * b[1]>>)

Shift32(a, bits) ==    \* a >>> bits
  LET byte(i) == IF i <= 4 THEN a[i] ELSE 0
  IN [i \in 1..4 |->
        LET at == i + bits \div 8
            rest == 2^(bits % 8)
        IN byte(at) \div rest + (byte(at + 1) % rest) * (256 \div rest)]

-----------------------------------------------------------------------------
(***************************************************************************)
(* FNV-1a over the fields in a fixed order, each as four bytes.            *)
(***************************************************************************)
Fnv(h, byte) == Imul([h EXCEPT ![1] = @ ^^ byte], Halves(256, 403))

HashSeed(seed) ==
  LET t == seed.telemetry
      parts == <<Word(seed.tierIndex), Word(seed.amountCents), seed.timestamp,
                 Word(t.dropletsLanded), Word(Rounded(t.peak2)), Word(t.tilt), Word(t.holdMs)>>
  IN FoldLeft(Fnv, Halves(33052, 40389), FlattenSeq(parts))

(***************************************************************************)
(* mulberry32.  Its state is the seed plus a multiple of a constant, so    *)
(* the k-th draw is a function of k.                                       *)
(***************************************************************************)
Draw(seed, k) ==
  LET a == Add32(seed, Imul(Word(k), Halves(27947, 31221)))
      t == Imul(Xor32(a, Shift32(a, 15)), Or32(a, Word(1)))
      u == Xor32(Add32(t, Imul(Xor32(t, Shift32(t, 7)), Or32(t, Word(61)))), t)
  IN Xor32(u, Shift32(u, 14))

\* Math.floor(n * (word / 2^32))
Scaled(word, n) ==
  LET c1 == word[1] * n
      c2 == word[2] * n + c1 \div 256
      c3 == word[3] * n + c2 \div 256
      c4 == word[4] * n + c3 \div 256
  IN c4 \div 256

-----------------------------------------------------------------------------
(***************************************************************************)
(* generateSigil, lengths in thousandths of a unit of the view box and     *)
(* draws in thousandths: how far a mark reaches, and the draws it consumes *)
(* in order (uses).  Angles and opacities decide neither and are left out. *)
(***************************************************************************)
Base == 74000
Centre == 200000
ClipRadius == 194000

Pool(r) ==
  [i \in 1..12 |-> [uses |-> <<i>>, radius |-> (Base \div 1000) * (740 + (440 * r[i]) \div 1000)]]

Tendrils(r) ==
  [i \in 1..9 |->
     LET k == 12 + 3 * (i - 1)
         r0 == (Base * 94) \div 100
     IN [uses |-> <<k + 1, k + 2, k + 3>>,
         from |-> r0,
         to |-> Least(ClipRadius, r0 + 32000 + 100 * r[k + 1]),
         width |-> 700 + (2100 * r[k + 3]) \div 1000]]

Satellites(r) ==
  [i \in 1..26 |->
     LET k == 12 + 27 + 4 * (i - 1)
     IN [uses |-> <<k + 1, k + 2, k + 3, k + 4>>,
         radius |-> Base + 42000 + 74 * r[k + 2],
         size |-> 1900 + (4600 * r[k + 3]) \div 1000]]

GenerateSigil(r) == [pool |-> Pool(r), tendrils |-> Tendrils(r), satellites |-> Satellites(r)]

-----------------------------------------------------------------------------
(***************************************************************************)
(* The i-th row of the corpus, from the generator's own stream: one row in *)
(* seven claims more of everything than there is, and draws only its clock.*)
(***************************************************************************)
AmountCents == <<0, 299, 1299, 2999, 5999, 14900>>

Wild(i) == i % 7 = 0

\* The draws consumed by the rows before the i-th.
DrawnBefore(i) == 5 * i - 4 * CeilDiv(i, 7)

RawOf(i) ==
  LET next(k, n) == Scaled(Draw(Halves(24301, 4660), DrawnBefore(i) + k), n)
      thirtieths == next(2, 78000)
      peak == thirtieths \div 2
  IN IF Wild(i) THEN [f \in Fields |-> 2000000000]
     ELSE [dropletsLanded |-> next(1, 140),
           peak2 |-> peak * peak + (thirtieths % 2) * (peak + 1),
           tilt |-> (next(3, 10000) + 1) \div 2,
           holdMs |-> next(4, 16000)]

WallClockOf(i) ==
  500 + Scaled(Draw(Halves(24301, 4660), DrawnBefore(i) + IF Wild(i) THEN 1 ELSE 5), 16000)

\* 1 750 000 000 000 + 97 003 i, modulo 2^32
TimestampOf(i) == Add32(Halves(29728, 56320), Imul(Word(i), Word(97003)))

Row(i) ==
  LET tier == i % 6
      clamped == ClampTelemetry(RawOf(i), tier, WallClockOf(i))
      seed == [tierIndex |-> tier, amountCents |-> AmountCents[tier + 1],
               timestamp |-> TimestampOf(i), telemetry |-> clamped.telemetry]
  IN [hash |-> HashSeed(seed), score |-> RarityScore(clamped.telemetry, tier),
      rarity |-> Classify(clamped.telemetry, tier), violations |-> clamped.violations]
=============================================================================
