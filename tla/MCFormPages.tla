---------------------------- MODULE MCFormPages ----------------------------
(* The forms and their pages for TLC. *)
EXTENDS FormPages

CONSTANTS alice, bob, carol, ext, key1, key2

MCAccounts == {alice, bob, carol}

(* alice's pair is in the keyring, bob's was injected by an extension,     *)
(* carol is a stranger.                                                    *)
MCSourceOf == [a \in MCAccounts |-> IF a = bob THEN ext ELSE NoSource]
MCKeyring == {alice, bob}

MCForms == DOMAIN Row

Page(forms, status, payer, dispute, images, presses, steps, others) ==
    [forms |-> forms, status |-> status, payer |-> payer, dispute |-> dispute,
     images |-> images, presses |-> presses, moves |-> steps, foreign |-> others]

(* The buyer's page before and after a deposit, the seller's table with a  *)
(* stranger as payer, the detail of a dispute, and the other forms. Three  *)
(* presses are a deposit that lands late and two releases; two images may  *)
(* be stored under one key.                                                *)
MCViews ==
    {Page({"depositPayment", "completePayment", "disputePayment"},
          "WaitingForDeposit", NoAccount, "none", 0, 3, 4, 1),
     Page({"completePayment", "disputePayment"}, "Deposited", bob, "none", 0, 2, 4, 1),
     Page({"cancelPayment", "disputeOwned"}, "Deposited", carol, "none", 1, 2, 5, 1),
     Page({"submitProof", "solveDispute"}, "Disputed", carol, "Processing", 1, 2, 4, 1),
     Page({"createPayment"}, "WaitingForDeposit", NoAccount, "none", 1, 2, 5, 0),
     Page({"createPayment"}, "WaitingForDeposit", NoAccount, "none", 2, 2, 4, 0),
     Page({"applyToBeResolver"}, "WaitingForDeposit", NoAccount, "none", 0, 2, 4, 0),
     Page({"stakeToResolver"}, "WaitingForDeposit", NoAccount, "none", 0, 2, 4, 0),
     Page({"faucet"}, "WaitingForDeposit", NoAccount, "none", 0, 2, 3, 0)}
=============================================================================
