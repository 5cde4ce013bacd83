---------------------------- MODULE MCP2pPayment ----------------------------
(* The whole pallet for TLC. *)
EXTENDS P2pPayment, TLC

CONSTANTS alice, bob, carol, lost

MCAccounts == {alice, bob, carol}
MCPair == {alice, bob}
MCSymmetry == Permutations(MCAccounts)
MCPairSymmetry == Permutations(MCPair)
=============================================================================
