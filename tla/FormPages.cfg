CONSTANTS
    alice = alice
    bob = bob
    carol = carol
    ext = ext
    key1 = key1
    key2 = key2
    Forms <- MCForms
    Keys = {key1}
    NoUrl = NoUrl
    MaxUploads = 2
    Accounts <- MCAccounts
    SourceOf <- MCSourceOf
    NoSource = NoSource
    NoImage = NoImage
    MaxTyped = 1
    MaxMounts = 2
    MaxTxs = 3
    Keyring <- MCKeyring
    FirstAccount = alice
    NoAccount = NoAccount
    Payee = alice
    Resolver = bob
    NoRecord = NoRecord
    Views <- MCViews
SPECIFICATION Spec
CHECK_DEADLOCK FALSE
INVARIANTS
    FormPagesTypeOK
    BusyIsPending
    
    ImagesStored
    TypingKept
PROPERTIES
    SignedAsShown
    PressEnds
