------------------------------ MODULE Limiter ------------------------------
(***************************************************************************)
(* The mint's rate limiter (api/httpapi/limiter.go): a bucket of Burst     *)
(* tokens per address, one regained every `Every', and a sweep that drops  *)
(* the buckets that are full again.  A handler reads the clock before it   *)
(* takes the limiter's lock (handleMint calls allow(ip, s.now())), so two  *)
(* handlers may enter with their clocks in the other order.                *)
(*                                                                         *)
(* Tokens are counted in ticks: one token is Every of them and a tick of   *)
(* time regains one, which is exact where the code divides.                *)
(***************************************************************************)
EXTENDS Integers

CONSTANTS
  Keys,        \* client addresses
  Handlers,    \* requests being served at once
  Burst,       \* tokens a full bucket holds
  Every,       \* ticks a token takes to come back
  SweepAfter,  \* the sweep's period: a minute, in ticks
  Lag,         \* how long a handler may wait between its clock and the lock
  Horizon,     \* bound: the last tick of a behaviour
  NoCall       \* a handler with no call under way

ASSUME LimiterAssumption ==
  /\ Burst \in Nat \ {0}
  /\ Every \in Nat \ {0}
  /\ SweepAfter \in Nat
  /\ Lag \in Nat
  /\ Lag < Burst * Every
  /\ Horizon \in Nat
  /\ NoCall \notin [key : Keys, at : Int]

VARIABLES
  now,        \* the clock
  stamp,      \* stamp[h]: the call handler h is about to make, or NoCall
  buckets,    \* the map: a function on the addresses it holds
  swept,      \* when the map was last swept
  latest,     \* history: the stamp last let in
  window,     \* history: since when spent and sweeps are counted
  spent,      \* history: spent[k]: ticks of tokens admitted to k since then
  sweeps,     \* history: sweeps since then
  until       \* history: until[k]: when k's last refusal said to come back

map == <<buckets, swept>>
history == <<latest, window, spent, sweeps, until>>
vars == <<now, stamp, map, history>>

Full == Burst * Every
Never == 0 - SweepAfter - 1      \* the zero time.Time
NoPromise == Horizon + Full + Every + Lag

Least(a, b) == IF a <= b THEN a ELSE b

Init ==
  /\ now = 0
  /\ stamp = [h \in Handlers |-> NoCall]
  /\ buckets = [k \in {} |-> 0]
  /\ swept = Never
  /\ latest = 0
  /\ window = 0
  /\ spent = [k \in Keys |-> 0]
  /\ sweeps = 0
  /\ until = [k \in Keys |-> NoPromise]

(***************************************************************************)
(* Time passes, but not past a handler that has waited Lag for the lock.   *)
(***************************************************************************)
Tick ==
  /\ now < Horizon
  /\ \A h \in Handlers : stamp[h] # NoCall => now < stamp[h].at + Lag
  /\ now' = now + 1
  /\ UNCHANGED <<stamp, map, history>>

(***************************************************************************)
(* handleMint resolves the address and reads the clock.                    *)
(***************************************************************************)
Stamp(h, k) ==
  /\ stamp[h] = NoCall
  /\ stamp' = [stamp EXCEPT ![h] = [key |-> k, at |-> now]]
  /\ UNCHANGED <<now, map, history>>

\* A fault IdleAreDropped must catch: the tokens last stored, not today's.
IdleAsStored(b, t) == b.tokens >= Full

Idle(b, t) == b.tokens + (t - b.at) >= Full

Sweeping(t) == t - swept > SweepAfter

(***************************************************************************)
(* The addresses still in the map once a call stamped t has swept it.      *)
(***************************************************************************)
Kept(t) ==
  IF Sweeping(t) THEN {k \in DOMAIN buckets : ~ Idle(buckets[k], t)}
                 ELSE DOMAIN buckets

\* A fault AdmitsWithinBurst must catch: no cap on what comes back.
RefilledUncapped(k, t) ==
  IF k \in Kept(t) THEN buckets[k].tokens + (t - buckets[k].at) ELSE Full

(***************************************************************************)
(* The tokens of address k at t: what is left plus what came back, never   *)
(* more than the burst, and the burst for an address the map does not hold.*)
(***************************************************************************)
Refilled(k, t) ==
  IF k \in Kept(t)
  THEN Least(Full, buckets[k].tokens + (t - buckets[k].at))
  ELSE Full

\* A fault WaitIsKept must catch: a refusal costs a token too.
ChargeAlways(tokens) == tokens - Every

Charge(tokens) == IF tokens >= Every THEN tokens - Every ELSE tokens

Sweep(t) == swept' = IF Sweeping(t) THEN t ELSE swept

Store(k, t) ==
  buckets' = [x \in Kept(t) \cup {k} |->
                IF x = k THEN [tokens |-> Charge(Refilled(k, t)), at |-> t]
                         ELSE buckets[x]]

(***************************************************************************)
(* allow: the whole call runs under the lock.  A refusal says how long     *)
(* until there is a token.                                                 *)
(***************************************************************************)
Allow(h) ==
  /\ stamp[h] # NoCall
  /\ stamp' = [stamp EXCEPT ![h] = NoCall]
  /\ LET k == stamp[h].key
         t == stamp[h].at
         left == Refilled(k, t)
     IN /\ Store(k, t)
        /\ Sweep(t)
        /\ latest' = t
        /\ sweeps' = IF Sweeping(t) THEN sweeps + 1 ELSE sweeps
        /\ IF left >= Every
           THEN /\ spent' = [spent EXCEPT ![k] = @ + Every]
                /\ until' = [until EXCEPT ![k] = NoPromise]
           ELSE /\ until' = [until EXCEPT ![k] = t + (Every - left)]
                /\ UNCHANGED spent
  /\ UNCHANGED <<now, window>>

(***************************************************************************)
(* The observer starts counting afresh, once a behaviour: any instant will *)
(* do, so one window is every window.  The limiter does nothing.           *)
(***************************************************************************)
OpenWindow ==
  /\ window = 0
  /\ window' = now
  /\ spent' = [k \in Keys |-> 0]
  /\ sweeps' = 0
  /\ UNCHANGED <<now, stamp, map, latest, until>>

Next ==
  \/ Tick
  \/ \E h \in Handlers : Allow(h) \/ \E k \in Keys : Stamp(h, k)
  \/ OpenWindow

Spec == Init /\ [][Next]_vars
-----------------------------------------------------------------------------
Call == [key : Keys, at : Int]
Bucket == [tokens : Int, at : Int]

(***************************************************************************)
(* Types, with what bounds them: no handler waits longer than Lag, nothing *)
(* is stamped in the future, and no bucket holds more than the burst.      *)
(***************************************************************************)
TypeOK ==
  /\ now \in Nat /\ now <= Horizon
  /\ stamp \in [Handlers -> Call \cup {NoCall}]
  /\ \A h \in Handlers : stamp[h] # NoCall =>
       stamp[h].at <= now /\ now <= stamp[h].at + Lag
  /\ DOMAIN buckets \subseteq Keys
  /\ buckets \in [DOMAIN buckets -> Bucket]
  /\ \A k \in DOMAIN buckets :
       /\ buckets[k].at <= now
       /\ buckets[k].tokens <= Full
  /\ swept \in Int /\ swept <= now
  /\ latest \in Int /\ latest <= now
  /\ window \in Nat
  /\ spent \in [Keys -> Nat]
  /\ sweeps \in Nat
  /\ until \in [Keys -> Int]

(***************************************************************************)
(* From any instant on, an address is admitted a burst and what time has   *)
(* given back, whatever was swept in between ("Idle keys are full buckets  *)
(* and carry no information", limiter.go).  The lock's Lag is the only     *)
(* slack: once for the clocks, once for each sweep that was followed by a  *)
(* call with an older stamp.                                               *)
(***************************************************************************)
AdmitsWithinBurst ==
  \A k \in Keys : spent[k] <= Full + (now - window) + Lag * (1 + sweeps)

(***************************************************************************)
(* A refusal's wait is honoured: a client that comes back when it was told *)
(* to, and has not been admitted in between, is not refused again, however *)
(* often it tried too early and whatever was swept (the Retry-After of     *)
(* handleMint).                                                            *)
(***************************************************************************)
Refused(h) ==
  /\ stamp[h] # NoCall /\ stamp'[h] = NoCall
  /\ spent' = spent

WaitIsKept ==
  [][\A h \in Handlers : Refused(h) => stamp[h].at < until[stamp[h].key]]_vars

(***************************************************************************)
(* The map holds only addresses heard of within a sweep's period and the   *)
(* time a bucket takes to fill, counted back from the last call, so that a *)
(* scan of addresses does not grow it without bound.                       *)
(***************************************************************************)
IdleAreDropped ==
  \A k \in DOMAIN buckets : latest - buckets[k].at < SweepAfter + Full + Lag
=============================================================================
