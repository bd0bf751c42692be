SPECIFICATION Spec
CONSTANTS
    Users = {u1}
    Payments = {p1}
    Names = {}
    Calls = {c1, c2}
    Orders <- OneOrder
    Ops = {"buy", "poll", "notify"}
    InvoiceTtl = 0
    Month = 1
    Year = 2
    Lifetime = 9
    NoDate <- NullDate
    BusinessLimit = 2
    MaxTime = 1
    MaxCredits = 2
CHECK_DEADLOCK FALSE
INVARIANTS
    CreditedOnce
