--------------------------- MODULE LimiterProofs ---------------------------
(***************************************************************************)
(* What the limiter of Limiter.tla keeps, for any burst, rate, sweep and   *)
(* number of addresses and handlers.                                       *)
(*                                                                         *)
(* The argument is a balance.  Level(k) is what address k could still be   *)
(* admitted now; what was spent in a window and the level left never       *)
(* exceed a burst, the time passed, and one Lag for each sweep.  A sweep   *)
(* raises the level of what it drops by no more than Lag, because what it  *)
(* drops was full at the sweeper's stamp; everything else only moves ticks *)
(* from the level to what was spent.                                       *)
(***************************************************************************)
EXTENDS Limiter, TLAPS

Level(k) ==
  IF k \in DOMAIN buckets
  THEN Least(Full + Lag, buckets[k].tokens + (now - buckets[k].at))
  ELSE Full + Lag

Slack == Lag * (1 + sweeps)

\* Nothing held is overdrawn by more than a clock that came late.
NotOverdrawn ==
  \A k \in DOMAIN buckets :
    /\ buckets[k].tokens + (now - buckets[k].at) >= 0
    /\ buckets[k].tokens >= 0 - Lag

Balance ==
  \A k \in Keys : spent[k] + Level(k) <= Full + (now - window) + Slack

\* At the promised time there is a token.
Promised ==
  \A k \in DOMAIN buckets :
    buckets[k].tokens + (until[k] - buckets[k].at) >= Every

Recent ==
  \A k \in DOMAIN buckets :
    /\ latest - swept <= SweepAfter
    /\ buckets[k].at > swept - Full - Lag

IInv == TypeOK /\ NotOverdrawn /\ Balance /\ Promised /\ Recent

(***************************************************************************)
(* Products, once and for all.                                             *)
(***************************************************************************)
LEMMA FullIsPositive == Full \in Nat /\ Full >= Every /\ Every >= 1 /\ Lag < Full
<1>1. Burst \in Nat /\ Every \in Nat /\ Burst >= 1 /\ Every >= 1
  BY LimiterAssumption
<1>2. \A b, e \in Nat : b >= 1 => b * e \in Nat /\ b * e >= e
  <2> SUFFICES ASSUME NEW b \in Nat, NEW e \in Nat, b >= 1
               PROVE  b * e \in Nat /\ b * e >= e
    OBVIOUS
  <2>1. b * e = (b - 1) * e + e
    OBVIOUS
  <2>2. (b - 1) * e \in Nat
    OBVIOUS
  <2> QED BY <2>1, <2>2
<1> QED BY <1>1, <1>2, LimiterAssumption DEF Full

LEMMA SlackGrows ==
  ASSUME NEW s \in Nat
  PROVE  /\ Lag * (1 + s) \in Nat
         /\ Lag * (1 + s) >= Lag
         /\ Lag * (1 + (s + 1)) = Lag * (1 + s) + Lag
<1>1. Lag \in Nat
  BY LimiterAssumption
<1>2. Lag * s \in Nat
  BY <1>1
<1>3. Lag * (1 + s) = Lag + Lag * s
  BY <1>1
<1>4. Lag * (1 + (s + 1)) = Lag + Lag + Lag * s
  BY <1>1
<1> QED BY <1>1, <1>2, <1>3, <1>4

LEMMA Constants ==
  /\ Full \in Nat /\ Full >= Every /\ Every \in Nat /\ Every >= 1
  /\ Lag \in Nat /\ Lag < Full /\ SweepAfter \in Nat /\ Horizon \in Nat
  /\ NoPromise = Horizon + Full + Every + Lag /\ NoPromise \in Nat
BY FullIsPositive, LimiterAssumption DEF NoPromise

(***************************************************************************)
(* Initially.                                                              *)
(***************************************************************************)
LEMMA InitInv == Init => IInv
<1> SUFFICES ASSUME Init PROVE IInv
  OBVIOUS
<1>1. TypeOK
  BY Constants DEF Init, TypeOK, Never, Bucket
<1>2. NotOverdrawn /\ Promised /\ Recent
  BY DEF Init, NotOverdrawn, Promised, Recent
<1>3. Balance
  <2>1. Slack >= Lag /\ Slack \in Nat
    BY SlackGrows DEF Init, Slack
  <2>2. SUFFICES ASSUME NEW k \in Keys
                 PROVE  spent[k] + Level(k) <= Full + (now - window) + Slack
    BY DEF Balance
  <2>3. spent[k] = 0 /\ now = 0 /\ window = 0 /\ Level(k) = Full + Lag
    BY DEF Init, Level
  <2> QED BY <2>1, <2>3, Constants
<1> QED BY <1>1, <1>2, <1>3 DEF IInv

(***************************************************************************)
(* What one call does to the map, in the form the invariants need.         *)
(***************************************************************************)
LEMMA AllowStep ==
  ASSUME IInv, NEW h \in Handlers, Allow(h)
  PROVE  LET k == stamp[h].key
             t == stamp[h].at
             left == Refilled(k, t)
         IN /\ k \in Keys /\ t \in Int /\ t <= now /\ now <= t + Lag
            /\ Kept(t) \subseteq DOMAIN buckets
            /\ ~ Sweeping(t) => Kept(t) = DOMAIN buckets
            /\ \A x \in DOMAIN buckets \ Kept(t) :
                 buckets[x].tokens + (t - buckets[x].at) >= Full
            /\ \A x \in Kept(t) : Sweeping(t) =>
                 buckets[x].tokens + (t - buckets[x].at) < Full
            /\ left \in Int /\ left <= Full /\ left >= 0 - Lag
            /\ left + (now - t) >= 0
            /\ k \in Kept(t) =>
                 left <= buckets[k].tokens + (t - buckets[k].at)
            /\ left < Every => /\ k \in Kept(t)
                               /\ left = buckets[k].tokens + (t - buckets[k].at)
            /\ DOMAIN buckets' = Kept(t) \cup {k}
            /\ \A x \in Kept(t) : x # k => buckets'[x] = buckets[x]
            /\ buckets'[k] = [tokens |-> Charge(left), at |-> t]
            /\ Charge(left) \in Int
            /\ now' = now
<1> DEFINE k == stamp[h].key
           t == stamp[h].at
           left == Refilled(k, t)
<1>1. stamp[h] \in Call /\ t <= now /\ now <= t + Lag
  BY DEF Allow, IInv, TypeOK
<1>2. k \in Keys /\ t \in Int /\ now \in Nat
  BY <1>1 DEF Call, IInv, TypeOK
<1>3. /\ Kept(t) \subseteq DOMAIN buckets
      /\ ~ Sweeping(t) => Kept(t) = DOMAIN buckets
  BY DEF Kept
<1>4. \A x \in DOMAIN buckets : buckets[x].tokens \in Int /\ buckets[x].at \in Int
  BY DEF IInv, TypeOK, Bucket
<1>5. \A x \in DOMAIN buckets \ Kept(t) :
        buckets[x].tokens + (t - buckets[x].at) >= Full
  BY DEF Kept, Idle
<1>6. \A x \in Kept(t) : Sweeping(t) =>
        buckets[x].tokens + (t - buckets[x].at) < Full
  BY <1>2, <1>3, <1>4, Constants DEF Kept, Idle
<1>7. k \in Kept(t) => left = Least(Full, buckets[k].tokens + (t - buckets[k].at))
  BY DEF Refilled
<1>8. k \notin Kept(t) => left = Full
  BY DEF Refilled
<1>9. k \in Kept(t) => /\ buckets[k].tokens + (now - buckets[k].at) >= 0
                       /\ buckets[k].tokens \in Int /\ buckets[k].at \in Int
  BY <1>3, <1>4 DEF IInv, NotOverdrawn
<1>10. /\ left \in Int /\ left <= Full /\ left >= 0 - Lag
       /\ left + (now - t) >= 0
       /\ k \in Kept(t) => left <= buckets[k].tokens + (t - buckets[k].at)
       /\ left < Every => /\ k \in Kept(t)
                          /\ left = buckets[k].tokens + (t - buckets[k].at)
  <2> HIDE DEF k, t, left
  <2> QED BY <1>1, <1>2, <1>7, <1>8, <1>9, Constants DEF Least
<1>11. buckets' = [x \in Kept(t) \cup {k} |->
                     IF x = k THEN [tokens |-> Charge(left), at |-> t]
                              ELSE buckets[x]]
  BY DEF Allow, Store
<1>12. /\ DOMAIN buckets' = Kept(t) \cup {k}
       /\ \A x \in Kept(t) : x # k => buckets'[x] = buckets[x]
       /\ buckets'[k] = [tokens |-> Charge(left), at |-> t]
  <2> HIDE DEF k, t, left
  <2> QED BY <1>11
<1>13. Charge(left) \in Int
  <2> HIDE DEF k, t, left
  <2> QED BY <1>10, Constants DEF Charge
<1>14. now' = now
  BY DEF Allow
<1> HIDE DEF left
<1> QED BY <1>1, <1>2, <1>3, <1>5, <1>6, <1>10, <1>12, <1>13, <1>14 DEF left

(***************************************************************************)
(* The steps that leave the map alone.                                     *)
(***************************************************************************)
LEMMA TickInv == IInv /\ Tick => IInv'
<1> SUFFICES ASSUME IInv, Tick PROVE IInv'
  OBVIOUS
<1>1. /\ now \in Nat /\ now' = now + 1 /\ now' <= Horizon
      /\ buckets' = buckets /\ swept' = swept /\ latest' = latest
      /\ until' = until /\ window' = window /\ spent' = spent
      /\ sweeps' = sweeps /\ stamp' = stamp
  BY Constants DEF Tick, map, history, IInv, TypeOK
<1>2. \A k \in DOMAIN buckets : buckets[k].tokens \in Int /\ buckets[k].at \in Int
  BY DEF IInv, TypeOK, Bucket
<1>3. TypeOK'
  <2>1. \A h \in Handlers : stamp[h] # NoCall =>
          stamp[h].at \in Int /\ now < stamp[h].at + Lag
    BY DEF Tick, IInv, TypeOK, Call
  <2>2. \A h \in Handlers : stamp[h] # NoCall =>
          stamp[h].at <= now' /\ now' <= stamp[h].at + Lag
    BY <1>1, <2>1, Constants DEF IInv, TypeOK
  <2>3. \A k \in DOMAIN buckets : buckets[k].at <= now' /\ buckets[k].tokens <= Full
    BY <1>1, <1>2 DEF IInv, TypeOK
  <2>4. swept' <= now' /\ latest' <= now'
    BY <1>1 DEF IInv, TypeOK
  <2> QED BY <1>1, <2>2, <2>3, <2>4 DEF IInv, TypeOK
<1>4. NotOverdrawn' /\ Promised' /\ Recent'
  BY <1>1, <1>2, Constants DEF IInv, NotOverdrawn, Promised, Recent
<1>5. Balance'
  <2> SUFFICES ASSUME NEW k \in Keys
               PROVE  spent[k] + Level(k)' <= Full + (now' - window) + Slack
    BY <1>1 DEF Balance, Slack
  <2>1. spent[k] + Level(k) <= Full + (now - window) + Slack
    BY DEF IInv, Balance
  <2>2. Level(k) \in Int /\ Level(k)' \in Int /\ Level(k)' <= Level(k) + 1
    BY <1>1, <1>2, Constants DEF Level, Least
  <2>3. spent[k] \in Nat /\ window \in Nat /\ Slack \in Nat
    BY SlackGrows DEF IInv, TypeOK, Slack
  <2> QED BY <1>1, <2>1, <2>2, <2>3, Constants
<1> QED BY <1>3, <1>4, <1>5 DEF IInv

LEMMA StampInv ==
  ASSUME IInv, NEW h \in Handlers, NEW k \in Keys, Stamp(h, k)
  PROVE  IInv'
<1>1. /\ now' = now /\ now \in Nat
      /\ buckets' = buckets /\ swept' = swept /\ latest' = latest
      /\ until' = until /\ window' = window /\ spent' = spent
      /\ sweeps' = sweeps
      /\ stamp' = [stamp EXCEPT ![h] = [key |-> k, at |-> now]]
  BY DEF Stamp, map, history, IInv, TypeOK
<1>2. TypeOK'
  <2>1. stamp' \in [Handlers -> Call \cup {NoCall}]
    BY <1>1 DEF IInv, TypeOK, Call
  <2>2. \A g \in Handlers : stamp'[g] # NoCall =>
          stamp'[g].at <= now /\ now <= stamp'[g].at + Lag
    BY <1>1, Constants DEF IInv, TypeOK
  <2> QED BY <1>1, <2>1, <2>2 DEF IInv, TypeOK
<1>3. NotOverdrawn' /\ Promised' /\ Recent' /\ Balance'
  BY <1>1 DEF IInv, NotOverdrawn, Promised, Recent, Balance, Level, Slack
<1> QED BY <1>2, <1>3 DEF IInv

LEMMA OpenWindowInv == IInv /\ OpenWindow => IInv'
<1> SUFFICES ASSUME IInv, OpenWindow PROVE IInv'
  OBVIOUS
<1>1. /\ now' = now /\ now \in Nat /\ window' = now
      /\ buckets' = buckets /\ swept' = swept /\ latest' = latest
      /\ until' = until /\ stamp' = stamp
      /\ spent' = [k \in Keys |-> 0] /\ sweeps' = 0
  BY DEF OpenWindow, map, IInv, TypeOK
<1>2. TypeOK'
  BY <1>1 DEF IInv, TypeOK
<1>3. NotOverdrawn' /\ Promised' /\ Recent'
  BY <1>1 DEF IInv, NotOverdrawn, Promised, Recent
<1>4. Balance'
  <2> SUFFICES ASSUME NEW k \in Keys
               PROVE  spent'[k] + Level(k)' <= Full + (now' - window') + Slack'
    BY DEF Balance
  <2>1. Slack' \in Nat /\ Slack' >= Lag
    BY <1>1, SlackGrows DEF Slack
  <2>2. Level(k)' = Level(k)
    BY <1>1 DEF Level
  <2>3. Level(k) \in Int /\ Level(k) <= Full + Lag
    <3>1. \A x \in DOMAIN buckets : buckets[x].tokens \in Int /\ buckets[x].at \in Int
      BY DEF IInv, TypeOK, Bucket
    <3> QED BY <1>1, <3>1, Constants DEF Level, Least
  <2> QED BY <1>1, <2>1, <2>2, <2>3, Constants
<1> QED BY <1>2, <1>3, <1>4 DEF IInv

(***************************************************************************)
(* allow.                                                                  *)
(***************************************************************************)
LEMMA AllowInv ==
  ASSUME IInv, NEW h \in Handlers, Allow(h)
  PROVE  IInv'
<1> DEFINE k == stamp[h].key
           t == stamp[h].at
           left == Refilled(k, t)
           kept == Kept(t)
<1>1. /\ k \in Keys /\ t \in Int /\ t <= now /\ now <= t + Lag
      /\ kept \subseteq DOMAIN buckets
      /\ ~ Sweeping(t) => kept = DOMAIN buckets
      /\ \A x \in DOMAIN buckets \ kept :
           buckets[x].tokens + (t - buckets[x].at) >= Full
      /\ \A x \in kept : Sweeping(t) =>
           buckets[x].tokens + (t - buckets[x].at) < Full
      /\ left \in Int /\ left <= Full /\ left >= 0 - Lag
      /\ left + (now - t) >= 0
      /\ k \in kept => left <= buckets[k].tokens + (t - buckets[k].at)
      /\ left < Every => /\ k \in kept
                         /\ left = buckets[k].tokens + (t - buckets[k].at)
      /\ DOMAIN buckets' = kept \cup {k}
      /\ \A x \in kept : x # k => buckets'[x] = buckets[x]
      /\ buckets'[k] = [tokens |-> Charge(left), at |-> t]
      /\ Charge(left) \in Int
      /\ now' = now
  BY AllowStep
<1>2. /\ stamp' = [stamp EXCEPT ![h] = NoCall]
      /\ swept' = IF Sweeping(t) THEN t ELSE swept
      /\ latest' = t
      /\ sweeps' = IF Sweeping(t) THEN sweeps + 1 ELSE sweeps
      /\ window' = window
  BY DEF Allow, Sweep
<1>3. \/ /\ left >= Every
         /\ spent' = [spent EXCEPT ![k] = @ + Every]
         /\ until' = [until EXCEPT ![k] = NoPromise]
         /\ Charge(left) = left - Every
      \/ /\ left < Every
         /\ until' = [until EXCEPT ![k] = t + (Every - left)]
         /\ spent' = spent
         /\ Charge(left) = left
  <2>1. \/ /\ left >= Every
           /\ spent' = [spent EXCEPT ![k] = @ + Every]
           /\ until' = [until EXCEPT ![k] = NoPromise]
        \/ /\ ~ (left >= Every)
           /\ until' = [until EXCEPT ![k] = t + (Every - left)]
           /\ spent' = spent
    BY DEF Allow
  <2> HIDE DEF left, k, t
  <2> QED BY <1>1, <2>1, Constants DEF Charge
<1>4. /\ \A x \in DOMAIN buckets :
           /\ buckets[x].tokens \in Int /\ buckets[x].at \in Int
           /\ buckets[x].at <= now /\ buckets[x].tokens <= Full
      /\ now \in Nat /\ now <= Horizon /\ window \in Nat
      /\ spent \in [Keys -> Nat] /\ until \in [Keys -> Int]
      /\ sweeps \in Nat /\ swept \in Int /\ swept <= now /\ latest \in Int
      /\ DOMAIN buckets \subseteq Keys
      /\ buckets \in [DOMAIN buckets -> Bucket]
  BY DEF IInv, TypeOK, Bucket
<1>5. Sweeping(t) <=> t - swept > SweepAfter
  BY DEF Sweeping
<1>6. /\ buckets'[k].tokens = Charge(left)
      /\ buckets'[k].at = t
  BY <1>1
<1>7. \A x \in DOMAIN buckets' : x # k => x \in kept /\ buckets'[x] = buckets[x]
  BY <1>1
<1> HIDE DEF k, t, left, kept
<1>8. TypeOK'
  <2>1. stamp' \in [Handlers -> Call \cup {NoCall}]
    BY <1>2 DEF IInv, TypeOK
  <2>2. \A g \in Handlers : stamp'[g] # NoCall =>
          stamp'[g].at <= now' /\ now' <= stamp'[g].at + Lag
    BY <1>1, <1>2 DEF IInv, TypeOK
  <2>3. DOMAIN buckets' \subseteq Keys
    BY <1>1, <1>4
  <2>4. \A x \in DOMAIN buckets' : buckets'[x] \in Bucket
    BY <1>1, <1>4, <1>7 DEF Bucket
  <2>5. buckets' = [x \in DOMAIN buckets' |-> buckets'[x]]
    BY DEF Allow, Store
  <2>6. buckets' \in [DOMAIN buckets' -> Bucket]
    BY <2>4, <2>5
  <2>7. \A x \in DOMAIN buckets' :
          buckets'[x].at <= now' /\ buckets'[x].tokens <= Full
    BY <1>1, <1>3, <1>4, <1>6, <1>7, Constants
  <2>8. swept' \in Int /\ swept' <= now' /\ latest' \in Int /\ latest' <= now'
    BY <1>1, <1>2, <1>4
  <2>9. spent' \in [Keys -> Nat] /\ until' \in [Keys -> Int] /\ sweeps' \in Nat
    BY <1>1, <1>2, <1>3, <1>4, Constants
  <2>10. now' \in Nat /\ now' <= Horizon /\ window' \in Nat
    BY <1>1, <1>2, <1>4
  <2> QED BY <2>1, <2>2, <2>3, <2>6, <2>7, <2>8, <2>9, <2>10 DEF TypeOK
<1>9. NotOverdrawn'
  BY <1>1, <1>3, <1>4, <1>6, <1>7, Constants DEF IInv, NotOverdrawn
<1>10. Promised'
  <2> SUFFICES ASSUME NEW x \in DOMAIN buckets'
               PROVE  buckets'[x].tokens + (until'[x] - buckets'[x].at) >= Every
    BY DEF Promised
  <2>1. CASE x = k
    BY <2>1, <1>1, <1>3, <1>4, <1>6, Constants
  <2>2. CASE x # k
    BY <2>2, <1>1, <1>3, <1>4, <1>7 DEF IInv, Promised
  <2> QED BY <2>1, <2>2
<1>11. Recent'
  <2> SUFFICES ASSUME NEW x \in DOMAIN buckets'
               PROVE  /\ latest' - swept' <= SweepAfter
                      /\ buckets'[x].at > swept' - Full - Lag
    BY DEF Recent
  <2>1. latest' - swept' <= SweepAfter
    BY <1>1, <1>2, <1>4, <1>5, Constants
  <2>2. CASE x = k
    BY <2>1, <2>2, <1>1, <1>2, <1>4, <1>6, Constants
  <2>3. CASE x # k
    BY <2>1, <2>3, <1>1, <1>2, <1>4, <1>7, Constants DEF IInv, Recent, NotOverdrawn
  <2> QED BY <2>1, <2>2, <2>3
<1>12. Balance'
  <2> SUFFICES ASSUME NEW x \in Keys
               PROVE  spent'[x] + Level(x)' <= Full + (now' - window') + Slack'
    BY DEF Balance
  <2>1. spent[x] + Level(x) <= Full + (now - window) + Slack
    BY DEF IInv, Balance
  <2>2. /\ Slack \in Nat /\ Slack' \in Nat
        /\ Sweeping(t) => Slack' = Slack + Lag
        /\ ~ Sweeping(t) => Slack' = Slack
    BY <1>2, <1>4, SlackGrows DEF Slack
  <2>3. Level(x) \in Int /\ Level(x) <= Full + Lag
    BY <1>4, Constants DEF Level, Least
  <2>4. CASE x = k
    <3>1. Level(x)' = Least(Full + Lag, Charge(left) + (now - t))
      BY <2>4, <1>1, <1>6 DEF Level
    <3>2. left + (now - t) <= Level(x) + (IF Sweeping(t) THEN Lag ELSE 0)
      <4>1. CASE k \in kept
        BY <4>1, <2>4, <1>1, <1>4, Constants DEF Level, Least
      <4>2. CASE k \notin DOMAIN buckets
        BY <4>2, <2>4, <1>1, <1>4, Constants DEF Level
      <4>3. CASE k \in DOMAIN buckets \ kept
        <5>1. Sweeping(t)
          BY <4>3, <1>1
        <5>2. Level(x) >= Full
          BY <4>3, <2>4, <1>1, <1>4, Constants DEF Level, Least
        <5> QED BY <5>1, <5>2, <2>3, <1>1, <1>4, Constants
      <4> QED BY <4>1, <4>2, <4>3
    <3>3. Level(x)' <= Charge(left) + (now - t) /\ Level(x)' \in Int
      BY <3>1, <1>1, <1>4, Constants DEF Least
    <3>4. spent'[x] + Charge(left) = spent[x] + left
      BY <2>4, <1>1, <1>3, <1>4, Constants
    <3>5. spent[x] \in Nat /\ spent'[x] \in Nat
      BY <1>1, <1>3, <1>4, Constants
    <3> QED BY <3>2, <3>3, <3>4, <3>5, <2>1, <2>2, <2>3, <1>1, <1>2, <1>4, Constants
  <2>5. CASE x # k
    <3>1. spent'[x] = spent[x] /\ spent[x] \in Nat
      BY <2>5, <1>1, <1>3, <1>4
    <3>2. CASE x \in kept
      <4>1. x \in DOMAIN buckets /\ x \in DOMAIN buckets' /\ buckets'[x] = buckets[x]
        BY <3>2, <2>5, <1>1
      <4>2. Level(x)' = Level(x)
        BY <4>1, <1>1 DEF Level
      <4> QED BY <4>2, <3>1, <2>1, <2>2, <2>3, <1>1, <1>2, <1>4, Constants
    <3>3. CASE x \notin DOMAIN buckets
      <4>1. x \notin DOMAIN buckets'
        BY <3>3, <2>5, <1>1
      <4>2. Level(x)' = Level(x)
        BY <4>1, <3>3 DEF Level
      <4> QED BY <4>2, <3>1, <2>1, <2>2, <2>3, <1>1, <1>2, <1>4, Constants
    <3>4. CASE x \in DOMAIN buckets \ kept
      <4>1. Sweeping(t)
        BY <3>4, <1>1
      <4>2. Level(x) >= Full
        BY <3>4, <1>1, <1>4, Constants DEF Level, Least
      <4>3. x \notin DOMAIN buckets'
        BY <3>4, <2>5, <1>1
      <4>4. Level(x)' = Full + Lag
        BY <4>3 DEF Level
      <4> QED BY <4>1, <4>2, <4>4, <3>1, <2>1, <2>2, <2>3, <1>1, <1>2, <1>4, Constants
    <3> QED BY <3>2, <3>3, <3>4
  <2> QED BY <2>4, <2>5
<1> QED BY <1>8, <1>9, <1>10, <1>11, <1>12 DEF IInv

LEMMA NextInv == IInv /\ [Next]_vars => IInv'
<1> SUFFICES ASSUME IInv, [Next]_vars PROVE IInv'
  OBVIOUS
<1>1. CASE Tick
  BY <1>1, TickInv
<1>2. ASSUME NEW h \in Handlers, Allow(h) PROVE IInv'
  BY <1>2, AllowInv
<1>3. ASSUME NEW h \in Handlers, NEW k \in Keys, Stamp(h, k) PROVE IInv'
  BY <1>3, StampInv
<1>4. CASE OpenWindow
  BY <1>4, OpenWindowInv
<1>5. CASE UNCHANGED vars
  BY <1>5 DEF vars, map, history, IInv, TypeOK, NotOverdrawn, Balance, Promised, Recent, Level, Slack
<1> QED BY <1>1, <1>2, <1>3, <1>4, <1>5 DEF Next

(***************************************************************************)
(* The inductive invariant: nothing overdrawn, the balance of every        *)
(* address, every promise, and a map no older than its last sweep.         *)
(***************************************************************************)
THEOREM Invariance == Spec => []IInv
BY InitInv, NextInv, PTL DEF Spec

(***************************************************************************)
(* limiter.allow keeps its types, with at most a burst in any bucket.      *)
(***************************************************************************)
THEOREM TypeCorrect == Spec => []TypeOK
<1>1. IInv => TypeOK
  BY DEF IInv
<1> QED BY Invariance, <1>1, PTL

(***************************************************************************)
(* In any window of time an address is admitted at most a burst, its       *)
(* refill, and one Lag for each sweep.                                     *)
(***************************************************************************)
THEOREM WithinBurst == Spec => []AdmitsWithinBurst
<1>1. IInv => AdmitsWithinBurst
  <2> SUFFICES ASSUME IInv, NEW k \in Keys
               PROVE  spent[k] <= Full + (now - window) + Lag * (1 + sweeps)
    BY DEF AdmitsWithinBurst
  <2>1. spent[k] + Level(k) <= Full + (now - window) + Slack
    BY DEF IInv, Balance
  <2>2. Level(k) \in Int /\ Level(k) >= 0
    BY Constants DEF IInv, TypeOK, NotOverdrawn, Bucket, Level, Least
  <2>3. Slack \in Nat /\ spent[k] \in Nat /\ now \in Nat /\ window \in Nat
    BY SlackGrows DEF IInv, TypeOK, Slack
  <2>4. spent[k] <= Full + (now - window) + Slack
    BY <2>1, <2>2, <2>3, Constants
  <2> QED BY <2>4 DEF Slack
<1> QED BY Invariance, <1>1, PTL

(***************************************************************************)
(* The map forgets every address it may forget.                            *)
(***************************************************************************)
THEOREM ForgetsTheIdle == Spec => []IdleAreDropped
<1>1. IInv => IdleAreDropped
  BY Constants DEF IInv, TypeOK, Bucket, Recent, IdleAreDropped
<1> QED BY Invariance, <1>1, PTL

(***************************************************************************)
(* A client that comes back when its refusal told it to is let in.         *)
(***************************************************************************)
THEOREM HonoursItsWait == Spec => WaitIsKept
<1>1. IInv /\ [Next]_vars =>
        [\A h \in Handlers : Refused(h) => stamp[h].at < until[stamp[h].key]]_vars
  <2> SUFFICES ASSUME IInv, Next, NEW h \in Handlers, Refused(h)
               PROVE  stamp[h].at < until[stamp[h].key]
    OBVIOUS
  <2>1. Allow(h)
    <3>1. ASSUME NEW g \in Handlers, Allow(g) PROVE Allow(h)
      <4>1. g = h
        BY <3>1 DEF Allow, Refused, IInv, TypeOK
      <4> QED BY <3>1, <4>1
    <3>2. ASSUME NEW g \in Handlers, NEW k \in Keys, Stamp(g, k) PROVE FALSE
      BY <3>2 DEF Stamp, Refused, IInv, TypeOK
    <3>3. Tick => FALSE
      BY DEF Tick, Refused
    <3>4. OpenWindow => FALSE
      BY DEF OpenWindow, Refused
    <3> QED BY <3>1, <3>2, <3>3, <3>4 DEF Next
  <2> DEFINE k == stamp[h].key
             t == stamp[h].at
             left == Refilled(k, t)
  <2>2. /\ k \in Keys /\ t \in Int
        /\ Kept(t) \subseteq DOMAIN buckets
        /\ left \in Int
        /\ left < Every => /\ k \in Kept(t)
                           /\ left = buckets[k].tokens + (t - buckets[k].at)
    BY <2>1, AllowStep
  <2>3. left < Every
    <3>1. left >= Every => spent' = [spent EXCEPT ![k] = @ + Every]
      BY <2>1 DEF Allow
    <3>2. spent' = spent /\ spent \in [Keys -> Nat]
      BY DEF Refused, IInv, TypeOK
    <3> HIDE DEF left, t, k
    <3> QED BY <3>1, <3>2, <2>2, Constants
  <2>4. buckets[k].tokens + (until[k] - buckets[k].at) >= Every
    BY <2>2, <2>3 DEF IInv, Promised
  <2>5. buckets[k].tokens \in Int /\ buckets[k].at \in Int /\ until[k] \in Int
    BY <2>2, <2>3 DEF IInv, TypeOK, Bucket
  <2> HIDE DEF left, t, k
  <2>6. t < until[k]
    BY <2>2, <2>3, <2>4, <2>5, Constants
  <2> QED BY <2>6 DEF t, k
<1> QED BY Invariance, <1>1, PTL DEF Spec, WaitIsKept
=============================================================================
