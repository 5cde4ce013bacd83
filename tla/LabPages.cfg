CONSTANTS
    alice = alice
    bob = bob
    ext = ext
    empty = empty
    d1 = d1
    Accounts <- MCAccounts
    EndowedAccounts <- MCAccounts
    Endowment = 3
    ExistentialDeposit = 1
    Fee = 0
    FaucetAmount = 1
    MaxBalance = 6
    Amounts = {}
    Bits = {1}
    Prices = {1, 2}
    MaxKittyOwned = 2
    MaxCount = 3
    Buttons <- MCButtons
    SourceOf <- MCSourceOf
    NoSource = NoSource
    SudoKey = alice
    NoKey = NoKey
    MaxSends = 2
    Api <- MCApi
    JsonRpc <- MCJsonRpc
    Digests = {empty, d1}
    EmptyDigest = empty
    NoFile = NoFile
    DefaultAccount = DefaultAccount
    MaxBlock = 2
    NoValue = NoValue
    MaxU32 = 2
    Texts = {"text", "blank", "bytes"}
    MaxFiles = 2
    Views <- MCViews
SPECIFICATION Spec
CHECK_DEADLOCK FALSE
INVARIANTS
    LabTypeOK
    
    StatusIsLatest
    ArgsFit
    CallExists
PROPERTIES
    SaleFair
    EventuallyShown
