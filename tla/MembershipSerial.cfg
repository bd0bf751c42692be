SPECIFICATION FairSpec
CONSTANTS
    Users = {u1}
    Payments = {p1, p2}
    Names = {n1, n2}
    Calls = {c1}
    Orders <- MCOrders
    Ops = {"buy", "poll", "notify", "cancel", "expire", "provision", "delete"}
    InvoiceTtl = 0
    Month = 1
    Year = 2
    Lifetime = 9
    NoDate <- NullDate
    BusinessLimit = 2
    MaxTime = 2
    MaxCredits = 2
CHECK_DEADLOCK FALSE
INVARIANTS
    NamesWithinLimit
    FreeHasNoNames
PROPERTIES
    IsAnEntitlement
    ConfirmedIsCredited
