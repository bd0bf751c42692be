SPECIFICATION Spec
CONSTANTS
    Bidders = {b1}
    Amounts = {10, 11, 12}
    Dates = {2, 4}
    Hashes = {h1}
    Invoices = {i1}
    Calls = {c1, c2}
    Listings <- BidListings
    Ops = {"zap", "track", "bidInvoice"}
    Nobody = nobody
    NoInvoice = noInvoice
    SnipeWindow = 1
    SnipeExtension = 2
    WinnerWindow = 2
    ChanceWindow = 1
    MaxTime = 3
    MaxBids = 2
    MaxEdits = 0
CHECK_DEADLOCK FALSE
SYMMETRY MCSymmetry
INVARIANTS
    ZapBidsOutbid
    RoomToAnswerZap
    OneBidPerPayment
    PaidInvoiceIsBid
PROPERTIES
    BidsAreALedger
