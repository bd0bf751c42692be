SPECIFICATION FlowSpec
CONSTANTS
    Operator = operator
    Bidders = {b1,b2}
    Amounts = {10,11,12}
    Dates = {0, 2}
    Hashes = {h1,h2}
    Invoices = {i1,i2,i3}
    Calls = {operator, c1}
    Listings <- OneListing
    Ops = {}
    Nobody = nobody
    NoInvoice = noInvoice
    SnipeWindow = 1
    SnipeExtension = 2
    WinnerWindow = 2
    ChanceWindow = 1
    MaxTime = 13
    MaxBids = 2
    MaxEdits = 0
CHECK_DEADLOCK FALSE
INVARIANTS
    OneActiveSettlement
    OffersAgreeWithInvoices
PROPERTIES
    IsASale
    FlowConcludes
