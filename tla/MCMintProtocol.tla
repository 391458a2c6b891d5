--------------------------- MODULE MCMintProtocol ---------------------------
(***************************************************************************)
(* MintProtocol for one visitor, as a first visit (no cookie) and as a     *)
(* return visit (owner 1).                                                 *)
(***************************************************************************)
EXTENDS MintProtocol

MCOwners   == 1..3
MCStarts   == 0..MaxNow
MCTiers    == {0, 1}
MCClaims   == {Telemetry}
MCSeed     == [x \in Tiers \X Starts \X Claims |-> 7]
MCLegacies == {{}}
MCAllowed  == Appends
=============================================================================
