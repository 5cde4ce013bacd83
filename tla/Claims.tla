------------------------------- MODULE Claims -------------------------------
(* The proof of existence pallet of lab 05: digests claimed and revoked.   *)
EXTENDS Naturals

CONSTANTS
    Digests,        \* proofs, as the pallet calls the bytes claimed
    DefaultAccount, \* the account an empty entry decodes to
    MaxBlock        \* blocks of a behaviour

ASSUME ClaimsAssumption == MaxBlock \in Nat \ {0}

VARIABLES
    proofs,         \* Proofs: digest -> who claimed it, and in which block
    block           \* block_number

claimVars == <<proofs, block>>

(* Proofs is a ValueQuery: an entry that is not there reads as the default.*)
NoProof == [owner |-> DefaultAccount, block |-> 0]
ProofOf(d) == IF d \in DOMAIN proofs THEN proofs[d] ELSE NoProof

ClaimsInit == proofs = <<>> /\ block = 1

CreateClaim(a, d) ==
    /\ d \notin DOMAIN proofs
    /\ proofs' = [x \in DOMAIN proofs \cup {d} |->
                    IF x = d THEN [owner |-> a, block |-> block] ELSE proofs[x]]
    /\ UNCHANGED block

RevokeClaim(a, d) ==
    /\ d \in DOMAIN proofs /\ proofs[d].owner = a
    /\ proofs' = [x \in DOMAIN proofs \ {d} |-> proofs[x]]
    /\ UNCHANGED block

NewBlock ==
    /\ block < MaxBlock
    /\ block' = block + 1
    /\ UNCHANGED proofs
=============================================================================
