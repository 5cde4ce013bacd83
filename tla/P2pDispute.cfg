CONSTANTS
    alice = alice
    bob = bob
    carol = carol
    lost = lost
    NoAccount = NoAccount
    Accounts <- MCAccounts
    EndowedAccounts <- MCAccounts
    Endowment = 2
    ExistentialDeposit = 1
    Fee = 0
    FaucetAmount = 5
    MaxBalance = 3
    Amounts = {1}
    MaxOrder = 1
    MaxHistory = 1
    ResolverInitialAmount = 1
    ResolverActiveRequiredAmount = 2
    RandomBytes = 2
    MaxResolvers = 1
    MaxDelegations = 1
    Reasons = {lost}
    MaxDisputes = 1
    MaxProofs = 1
SPECIFICATION Spec
SYMMETRY MCSymmetry
CHECK_DEADLOCK FALSE
INVARIANTS
    TypeOK
    
PROPERTIES
    ResolutionSettles
