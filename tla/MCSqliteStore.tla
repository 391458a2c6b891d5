--------------------------- MODULE MCSqliteStore ---------------------------
(***************************************************************************)
(* A small instance of SqliteStore: two server processes on one file, two  *)
(* requests on the first and one on the second.                            *)
(***************************************************************************)
EXTENDS SqliteStore

CONSTANTS r1, r2, r3, s1, s2, ann, bob, t1, t2, c1, c2

MCRequests == {r1, r2, r3}
MCServers  == {s1, s2}
MCHome     == [r \in MCRequests |-> IF r = r3 THEN s2 ELSE s1]
MCOwners   == {ann, bob}
MCStarts   == {t1, t2}
MCClaims   == {c1, c2}
MCTiers    == {0, 1}
MCSeed     == [x \in MCTiers \X MCStarts \X MCClaims |-> 65536 * x[1] + 7]

Pour(o, t, tier, c, ok) ==
  [op |-> "append", owner |-> o, start |-> t, tier |-> tier, claim |-> c, legal |-> ok]

(***************************************************************************)
(* A pour; the same start under another tier and with other telemetry,     *)
(* after the clock-skew window; another visitor's pour; and a reading of   *)
(* the pour that comes second.                                             *)
(***************************************************************************)
MCAllowed ==
  { Pour(ann, t1, 0, c1, TRUE), Pour(ann, t1, 1, c2, FALSE),
    Pour(bob, t1, 0, c1, TRUE), [op |-> "get", owner |-> ann, id |-> <<7, 2>>] }

OldRow(o, t, tier, pos) == Mint(Pour(o, t, tier, c1, TRUE), pos)

(***************************************************************************)
(* An empty file, and one in which an earlier release minted the same      *)
(* start twice.                                                            *)
(***************************************************************************)
MCLegacies == { {}, {OldRow(ann, t2, 0, 1), OldRow(ann, t2, 0, 2)} }
=============================================================================
