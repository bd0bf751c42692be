SPECIFICATION Spec
CONSTANTS
    Users = {u1, u2}
    Payments = {p1, p2}
    Names = {n1}
    Calls = {c1, c2}
    Orders <- OneOrder
    Ops = {"buy", "notify", "provision", "delete", "admin"}
    InvoiceTtl = 0
    Month = 1
    Year = 2
    Lifetime = 9
    NoDate <- NullDate
    BusinessLimit = 2
    MaxTime = 1
    MaxCredits = 1
CHECK_DEADLOCK FALSE
SYMMETRY MCSymmetry
INVARIANTS
    NameHasReceipt
