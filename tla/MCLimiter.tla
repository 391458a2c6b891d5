----------------------------- MODULE MCLimiter -----------------------------
(***************************************************************************)
(* The limiter with two addresses and two requests at once.  Addresses and *)
(* handlers are interchangeable, and no property is a liveness property.   *)
(***************************************************************************)
EXTENDS Limiter, TLC

CONSTANTS k1, k2, h1, h2

Symmetry == Permutations({k1, k2}) \cup Permutations({h1, h2})
=============================================================================
