----------------------------- MODULE MCLabPages -----------------------------
(* The pages on the transaction button for TLC. *)
EXTENDS LabPages

CONSTANTS alice, bob, ext, empty, d1

MCAccounts == {alice, bob}
MCSourceOf == [a \in MCAccounts |-> IF a = bob THEN ext ELSE NoSource]
MCButtons == {"unsigned", "signed", "sudo", "submit", "create", "transfer", "claim", "revoke",
              "upgrade", "store"}

Field(type, optional) == [type |-> type, optional |-> optional]

(* Names recur across types and pallets; "new" has no description.         *)
MCApi ==
    "EXTRINSIC" :> [p |-> [f |-> <<Field("Option<Vec<u8>>", TRUE), Field("u32", FALSE)>>, g |-> <<>>],
                    none |-> <<>>]
    @@ "QUERY" :> [p |-> [f |-> <<Field("Vec<u32>", FALSE)>>], q |-> [g |-> <<>>]]
    @@ "RPC" :> [q |-> [f |-> <<>>, new |-> <<>>]]
    @@ "CONSTANT" :> [p |-> [h |-> <<>>]]

MCJsonRpc == [q |-> [f |-> <<Field("u32", TRUE), Field("Hash", TRUE)>>]]

View(page, who, steps, presses, others) ==
    [page |-> page, account |-> who, moves |-> steps, sends |-> presses, calls |-> others]

MCViews ==
    {View("market", alice, 0, 0, 4), View("kitties", alice, 3, 1, 1), View("kitties", alice, 0, 0, 2),
     View("claims", alice, 3, 1, 1), View("interactor", bob, 5, 2, 0), View("transfer", bob, 3, 2, 0),
     View("upgrade", alice, 3, 2, 0), View("template", alice, 2, 1, 2)}
=============================================================================
