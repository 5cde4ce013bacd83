CONSTANTS
    alice = alice
    bob = bob
    carol = carol
    Accounts <- MCPair
    EndowedAccounts <- MCEndowed
    Endowment = 4
    ExistentialDeposit = 1
    Fee = 1
    FaucetAmount = 2
    MaxBalance = 4
    Amounts = {0, 1, 2}
    ResolverInitialAmount = 1
    ResolverActiveRequiredAmount = 2
    RandomBytes = 3
    MaxResolvers = 2
    MaxDelegations = 2
SPECIFICATION ResolversSpec
SYMMETRY MCSymmetry
CHECK_DEADLOCK FALSE
INVARIANTS
    CommunityBacked
