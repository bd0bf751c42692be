SPECIFICATION Spec
CONSTANTS
    Bidders = {b1,b2}
    Amounts = {10}
    Dates = {0, 1, 2}
    Hashes = {}
    Invoices = {i1,i2,i3}
    Calls = {c1, c2}
    Listings <- TwoReserves
    Ops = {"bidInvoice", "settle", "chance", "edit", "cancel"}
    Nobody = nobody
    NoInvoice = noInvoice
    SnipeWindow = 1
    SnipeExtension = 2
    WinnerWindow = 2
    ChanceWindow = 1
    MaxTime = 2
    MaxBids = 2
    MaxEdits = 1
CHECK_DEADLOCK FALSE
SYMMETRY MCSymmetry
INVARIANTS
    TypeOK
    SettlementIsOfABid
    SettledIsPaid
