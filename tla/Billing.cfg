SPECIFICATION Spec
CONSTANTS
    Users = {u1}
    Payments = {p1, p2}
    Names = {}
    Calls = {c1, c2}
    Orders <- MCOrders
    Ops = {"buy", "poll", "notify", "cancel", "expire", "crash"}
    InvoiceTtl = 0
    Month = 1
    Year = 2
    Lifetime = 9
    NoDate <- NullDate
    BusinessLimit = 2
    MaxTime = 2
    MaxCredits = 2
CHECK_DEADLOCK FALSE
SYMMETRY MCSymmetry
INVARIANTS
    TypeOK
    PaidIsSettled
    TierIsPaidFor
