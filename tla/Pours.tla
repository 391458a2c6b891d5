------------------------------- MODULE Pours -------------------------------
(***************************************************************************)
(* The pour ledger's data, shared by the abstract register and by both of  *)
(* its implementations (api/pour/pour.go, store.go): what a request asks,  *)
(* the row a mint writes, and the reads the Store interface offers.        *)
(*                                                                         *)
(* The telemetry of a pour is one member of Claims; that pour.Mint accepts *)
(* a request (tier in range, start inside the clock-skew window) is the    *)
(* Boolean `legal` the request carries.  Seed is the sigil hash; note that *)
(* it does not read the owner, so two owners may share a seed.             *)
(***************************************************************************)
EXTENDS Integers, FiniteSets

CONSTANTS
  Requests,   \* HTTP requests; each calls the store once
  Owners,     \* owner ids, as the session cookie names them
  Starts,     \* pour-start timestamps (MintKey.TimestampMs)
  Tiers,      \* tier indices
  Claims,     \* telemetry payloads
  Seed,       \* the sigil hash, a function of <<tier, start, claim>>
  Allowed,    \* the calls requests may make
  Legacies    \* registers an earlier release may have left behind

ASSUME SeedAssumption == Seed \in [Tiers \X Starts \X Claims -> Nat]

Row == [position : Nat \ {0}, owner : Owners, start : Starts,
        tier : Tiers, claim : Claims, seed : Nat]

Appends == [op : {"append"}, owner : Owners, start : Starts, tier : Tiers,
            claim : Claims, legal : BOOLEAN]
Ids     == Nat \X (Nat \ {0})
Lists   == [op : {"list"}, owner : Owners]
Gets    == [op : {"get"}, owner : Owners, id : Ids]
Asks    == Appends \cup Lists \cup Gets

(***************************************************************************)
(* pour.Mint, for a request it accepts.                                    *)
(***************************************************************************)
Mint(a, pos) ==
  [position |-> pos, owner |-> a.owner, start |-> a.start, tier |-> a.tier,
   claim |-> a.claim, seed |-> Seed[a.tier, a.start, a.claim]]

IdOf(row)     == <<row.seed, row.position>>              \* %08x-%d
SerialOf(row) == <<row.position, row.seed % 65536>>      \* MP-%07d-%04X

Positions(rows) == {row.position : row \in rows}

(***************************************************************************)
(* The rows already minted at the request's (owner, start): byStart in the *)
(* memory store, the pours_owner_start index in SQLite.                    *)
(***************************************************************************)
Prior(rows, a) == {row \in rows : row.owner = a.owner /\ row.start = a.start}

(***************************************************************************)
(* The answers.  A read that finds nothing is "notfound" whether the row   *)
(* is missing or belongs to someone else.                                  *)
(***************************************************************************)
Minted(row)   == [result |-> "minted", row |-> row]
Replayed(row) == [result |-> "replayed", row |-> row]
Conflict      == [result |-> "conflict"]
Rejected      == [result |-> "rejected"]
Unanswered    == [result |-> "none"]
Failed(why)   == [result |-> why]

Causes == {"cancelled", "busy", "disk", "upgrade", "constraint"}

Owned(rows, o) == {row \in rows : row.owner = o}
Hits(rows, a)  == {row \in Owned(rows, a.owner) : IdOf(row) = a.id}

AnyOf(S) == CHOOSE row \in S : TRUE

Ranked(S, i) ==
  {row \in S : Cardinality({later \in S : later.position > row.position}) = i - 1}
NewestFirst(S) ==
  [i \in 1..Cardinality(S) |-> AnyOf(Ranked(S, i))]

ReadAnswer(rows, a) ==
  IF a.op = "list"
  THEN [result |-> "listed", rows |-> NewestFirst(Owned(rows, a.owner))]
  ELSE IF Hits(rows, a) = {} THEN [result |-> "notfound"]
  ELSE [result |-> "found", row |-> AnyOf(Hits(rows, a))]

AppendAnswers ==
  [result : {"minted", "replayed"}, row : Row]
    \cup [result : {"conflict", "rejected", "none"} \cup Causes]

(***************************************************************************)
(* One pour per start, and a register without gaps: positions are 1..n,    *)
(* no two rows share one.                                                  *)
(***************************************************************************)
StartsUnique(rows) ==
  \A r1, r2 \in rows : r1.owner = r2.owner /\ r1.start = r2.start => r1 = r2
Continuous(rows) ==
  /\ Positions(rows) = 1..Cardinality(rows)
  /\ \A r1, r2 \in rows : r1.position = r2.position => r1 = r2

ASSUME AllowedAssumption == Allowed \subseteq Asks /\ Allowed # {}
ASSUME LegacyAssumption ==
  \A rows \in Legacies : /\ rows \subseteq Row
                         /\ IsFiniteSet(rows)
                         /\ Continuous(rows)
=============================================================================
