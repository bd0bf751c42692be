SPECIFICATION Spec
CONSTANTS
    Bidders = {b1,b2}
    Amounts = {11}
    Dates = {0, 1, 2}
    Hashes = {h1}
    Invoices = {i1,i2}
    Calls = {c1,c2}
    Listings <- OneListing
    Ops = {"zap","settle"}
    Nobody = nobody
    NoInvoice = noInvoice
    SnipeWindow = 1
    SnipeExtension = 2
    WinnerWindow = 2
    ChanceWindow = 1
    MaxTime = 4
    MaxBids = 2
    MaxEdits = 0
CHECK_DEADLOCK FALSE
PROPERTIES
    WinnerIsFinal
