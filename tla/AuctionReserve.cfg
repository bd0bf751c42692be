SPECIFICATION Spec
CONSTANTS
    Bidders = {b1}
    Amounts = {10}
    Dates = {0, 1, 2}
    Hashes = {h1}
    Invoices = {i1}
    Calls = {c1}
    Listings <- OneListing
    Ops = {"zap","settle","chance"}
    Nobody = nobody
    NoInvoice = noInvoice
    SnipeWindow = 1
    SnipeExtension = 2
    WinnerWindow = 2
    ChanceWindow = 1
    MaxTime = 3
    MaxBids = 1
    MaxEdits = 0
CHECK_DEADLOCK FALSE
INVARIANTS
    NoSaleBelowReserve
