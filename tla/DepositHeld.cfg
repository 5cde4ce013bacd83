CONSTANTS
    alice = alice
    bob = bob
    carol = carol
    NoAccount = NoAccount
    Accounts <- MCPair
    EndowedAccounts <- MCOnlyAlice
    Endowment = 3
    ExistentialDeposit = 1
    Fee = 1
    FaucetAmount = 2
    MaxBalance = 4
    Amounts = {1, 2}
    MaxOrder = 2
    MaxHistory = 2
SPECIFICATION PaymentsSpec
CHECK_DEADLOCK FALSE
INVARIANTS
    DepositHeld
