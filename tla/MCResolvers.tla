---------------------------- MODULE MCResolvers ----------------------------
(* Resolvers for TLC. *)
EXTENDS Resolvers, TLC

CONSTANTS alice, bob, carol

MCAccounts == {alice, bob, carol}
MCPair == {alice, bob}
MCEndowed == {alice, bob}
MCSymmetry == Permutations(MCEndowed)
=============================================================================
