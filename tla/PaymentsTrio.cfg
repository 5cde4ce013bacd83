CONSTANTS
    alice = alice
    bob = bob
    carol = carol
    NoAccount = NoAccount
    Accounts <- MCAccounts
    EndowedAccounts <- MCOnlyAlice
    Endowment = 5
    ExistentialDeposit = 2
    Fee = 0
    FaucetAmount = 6
    MaxBalance = 5
    Amounts = {0, 2, 3}
    MaxOrder = 1
    MaxHistory = 2
SPECIFICATION PaymentsSpec
SYMMETRY MCSymmetry
CHECK_DEADLOCK FALSE
INVARIANTS
    NoDust
PROPERTIES
    CompletionPays
    SupplyAccounted
