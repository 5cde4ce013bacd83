CONSTANTS
    alice = alice
    bob = bob
    pay1 = pay1
    pay2 = pay2
    dis1 = dis1
    Accounts = {alice, bob}
    FirstAccount = alice
    NoAccount = NoAccount
    Paths = {"/", "/payments/:id", "/disputes"}
    MaxDrops = 1
    Payments = {pay1}
    Disputes = {dis1}
    Involves <- MCInvolves
    RouteId = pay1
    NoValue = NoValue
    Views <- MCViews
    MaxChanges = 1
    MaxTimers = 2
SPECIFICATION Spec
CHECK_DEADLOCK FALSE
INVARIANTS
    PagesTypeOK
    SelectorAgrees
    
    
PROPERTIES
    EventuallyMirrors
