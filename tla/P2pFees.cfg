CONSTANTS
    alice = alice
    bob = bob
    carol = carol
    lost = lost
    NoAccount = NoAccount
    Accounts <- MCPair
    EndowedAccounts <- MCPair
    Endowment = 4
    ExistentialDeposit = 1
    Fee = 1
    FaucetAmount = 4
    MaxBalance = 4
    Amounts = {1}
    MaxOrder = 1
    MaxHistory = 1
    ResolverInitialAmount = 2
    ResolverActiveRequiredAmount = 3
    RandomBytes = 2
    MaxResolvers = 1
    MaxDelegations = 1
    Reasons = {lost}
    MaxDisputes = 2
    MaxProofs = 2
SPECIFICATION Spec
SYMMETRY MCPairSymmetry
CHECK_DEADLOCK FALSE
INVARIANTS
    LocksBacked
    DisputesIndexed
    PayerInvolved
