----------------------------- MODULE MCPayments -----------------------------
(* Payments for TLC: the accounts are interchangeable within a set. *)
EXTENDS Payments, TLC

CONSTANTS alice, bob, carol

MCAccounts == {alice, bob, carol}
MCPair == {alice, bob}
MCOnlyAlice == {alice}
MCOthers == {bob, carol}
MCSymmetry == Permutations(MCOthers)
=============================================================================
