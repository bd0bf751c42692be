------------------------------ MODULE Auction ------------------------------
(***************************************************************************)
(* The auction service: one name put up for auction, the Lightning bids it *)
(* takes (zap receipts, and invoices issued for a bid), its settlement and *)
(* the second chance offers that follow an unpaid settlement.              *)
(*                                                                         *)
(* The service is a single-threaded Node process that keeps everything in  *)
(* Maps.  A handler runs to its next `await`; what it read before is then  *)
(* held in `calls` and the rest of the handler is an action of its own.    *)
(* Every other action is a handler that has no `await`.                    *)
(***************************************************************************)
EXTENDS Maps, Integers, Sequences, FiniteSets

CONSTANTS
    Bidders,          \* public keys that bid
    Amounts,          \* amounts in sats that are bid
    Dates,            \* created_at of zap receipts, which their publishers choose
    Hashes,           \* payment hashes of zapped invoices
    Invoices,         \* invoice ids the payment provider hands out
    Calls,            \* handlers that may be suspended at the same time
    Listings,         \* creation inputs: [startsAt, endsAt, starting, reserve]
    Ops,              \* the operations a run exercises
    Nobody,           \* winnerPubkey before there is a winner
    NoInvoice,        \* settlementInvoiceId before there is one
    SnipeWindow, SnipeExtension, WinnerWindow, ChanceWindow,
    MaxTime,          \* bound: the clock stops here
    MaxBids,          \* bound: bids recorded
    MaxEdits          \* bound: administrator edits of the listing

AllOps == {"zap", "track", "bidInvoice", "settle", "chance", "edit", "cancel"}

ASSUME ConstantsAssumption ==
    /\ Amounts \subseteq Nat \ {0} /\ Dates \subseteq Nat
    /\ SnipeWindow \in Nat /\ SnipeExtension \in Nat
    /\ WinnerWindow \in Nat /\ ChanceWindow \in Nat
    /\ MaxTime \in Nat /\ MaxBids \in Nat /\ MaxEdits \in Nat
    /\ Listings \subseteq [startsAt : Nat, endsAt : Nat, starting : Nat, reserve : Nat]
    /\ Ops \subseteq AllOps
    /\ Nobody \notin Bidders /\ NoInvoice \notin Invoices /\ "none" \notin Calls

\* SNIPE_WINDOW_SECONDS and SNIPE_EXTENSION_SECONDS: five and ten minutes.
ASSUME SnipeAssumption == SnipeWindow <= SnipeExtension

VARIABLES
    now,              \* Date.now(), in units of the model
    listing,          \* the listing objects: `edits` + 1 generations of them
    current,          \* the generation the `auctions` Map holds
    edits,            \* administrator edits so far
    bids,             \* bidsByAuction, in insertion order
    tracked,          \* invoicesByPaymentHash
    bidInvoices,      \* pendingBidInvoices
    settlements,      \* settlementInvoices
    offers,           \* second chance offers: the arrays, by who made them
    offerList,        \* the array secondChanceOffersByAuction holds
    calls,            \* handlers suspended at an await
    disputed          \* history: hashes of which two terms were on record at once

clock == <<now>>
bidding == <<bids, tracked, bidInvoices, disputed>>
selling == <<settlements, offers, offerList>>
vars == <<now, listing, current, edits, bidding, selling, calls>>

Explicit == {"UPCOMING", "LIVE", "ENDED", "SETTLED", "FAILED"}

(***************************************************************************)
(* What the handlers compute                                               *)
(***************************************************************************)

\* validateAuctionInput: what createAuction refuses.
ValidInput(in) ==
    /\ in.starting > 0 /\ in.reserve > 0
    /\ in.reserve >= in.starting
    /\ in.endsAt > in.startsAt

StateOf(l) ==
    IF l.state \in {"SETTLED", "FAILED"} THEN l.state
    ELSE IF now < l.startsAt THEN "UPCOMING"
    ELSE IF now <= l.endsAt THEN "LIVE"
    ELSE "ENDED"

\* The double nearest to 1.1 is 1.1 + 0.8 * 2^-53.  For a multiple x of ten the
\* product x * 1.1 is rounded to a double above the integer 11x/10, which
\* Math.ceil then carries to the next one, when the error exceeds half the
\* spacing of doubles at 11x/10.
ProductRoundsUp(x) ==
    \E k \in 0..24 : /\ 10 * 2^k <= 11 * x /\ 11 * x < 10 * 2^(k + 1)
                     /\ 4 * x > 5 * 2^k

\* (mutant) The product is rounded down.
FloorMinimumBid(x) == (11 * x) \div 10

\* Math.ceil(x * (1 + MIN_INCREMENT_RATE))
MinimumBid(x) ==
    IF x % 10 = 0 /\ ~ProductRoundsUp(x) THEN (11 * x) \div 10
    ELSE (11 * x) \div 10 + 1

\* The order getBids sorts in: amount, then createdAt, then (the sort is stable)
\* insertion.
Outranks(i, j) ==
    \/ bids[i].amount > bids[j].amount
    \/ /\ bids[i].amount = bids[j].amount
       /\ \/ bids[i].at < bids[j].at
          \/ bids[i].at = bids[j].at /\ i < j

\* The first of the bids I in the order of getBids, as the set of its index.
First(I) == {i \in I : \A j \in I \ {i} : Outranks(i, j)}

\* calculateMinimumBid for the highest bid: MinimumBid grows with its argument,
\* so exceeding it for the highest bid is exceeding it for every bid.
MeetsMinimum(l, amount) ==
    IF bids = <<>> THEN amount >= l.starting
    ELSE \A i \in DOMAIN bids : amount >= MinimumBid(bids[i].amount)

InTime(l) == {i \in DOMAIN bids : bids[i].at <= l.endsAt}

\* (mutant) The reserve price is not asked for.
WinnerBelowReserve(l) == First(InTime(l))

\* determineWinner: the first bid in time when it meets the reserve.
Winner(l) == {i \in First(InTime(l)) : bids[i].amount >= l.reserve}

\* (mutant) A bid in the last moment of the auction is not seen as sniping.
SnipedTooLate(l, at) == at >= l.endsAt - SnipeWindow /\ at < l.endsAt

\* A bid made in the snipe window, or after it.
Sniped(l, at) == at >= l.endsAt - SnipeWindow

Idle == [op |-> "idle"]

(***************************************************************************)
(* Creation                                                                *)
(***************************************************************************)

Slots == Calls \cup {"hook"}

NewListing(in) ==
    [startsAt |-> in.startsAt, endsAt |-> in.endsAt, starting |-> in.starting,
     reserve |-> in.reserve, state |-> IF in.startsAt > 0 THEN "UPCOMING" ELSE "LIVE",
     winner |-> Nobody, amount |-> 0, invoice |-> NoInvoice]

Init ==
    /\ now = 0
    /\ \E in \in Listings : ValidInput(in) /\ listing = [g \in {0} |-> NewListing(in)]
    /\ current = 0 /\ edits = 0
    /\ bids = <<>> /\ disputed = {}
    /\ tracked = EmptyMap /\ bidInvoices = EmptyMap
    /\ settlements = EmptyMap
    /\ offers = [s \in Slots |-> {}] /\ offerList = "none"
    /\ calls = [c \in Calls |-> Idle]

(***************************************************************************)
(* Bids by zap                                                             *)
(***************************************************************************)

\* What parseZapReceiptToBid makes of an event that anyone may publish.  Neither its
\* signature nor its date is looked at, and several may name one payment hash, with
\* bidders and amounts of their own.
Receipt == [hash : Hashes, bidder : Bidders, amount : Amounts, at : Dates]

TrackedFor(b, a, paid) == [bidder |-> b, amount |-> a, paid |-> paid]

OfTerms(x, b, a) == x.bidder = b /\ x.amount = a

\* A handler asks the node about h for other terms than these.
Contested(h, b, a) ==
    \E d \in Calls : /\ calls[d].op = "verifying" /\ calls[d].zap.hash = h
                     /\ ~OfTerms(calls[d].zap, b, a)

TrackInvoice(h, b, a, paid) ==
    /\ tracked' = Put(tracked, h, TrackedFor(b, a, paid))
    /\ disputed' = IF \/ h \in DOMAIN tracked /\ ~OfTerms(tracked[h], b, a)
                      \/ Contested(h, b, a)
                   THEN disputed \cup {h} ELSE disputed
    /\ UNCHANGED <<now, listing, current, edits, bids, bidInvoices, selling, calls>>

MarkInvoicePaid(h) ==
    /\ h \in DOMAIN tracked
    /\ tracked' = [tracked EXCEPT ![h].paid = TRUE]
    /\ UNCHANGED <<now, listing, current, edits, bids, bidInvoices, selling, calls, disputed>>

\* A handler of ingestZapBid.  History: `ahead` says that the date of its receipt lies
\* in the future.
Verification(op, z) == [op |-> op, zap |-> z, on |-> current, ahead |-> z.at > now]

\* (mutant) The node is asked again about an invoice that is tracked.
IngestZapBidAsking(c, z) ==
    /\ calls[c] = Idle
    /\ StateOf(listing[current]) = "LIVE"
    /\ calls' = [calls EXCEPT ![c] = Verification("verifying", z)]
    /\ disputed' = IF Contested(z.hash, z.bidder, z.amount) THEN disputed \cup {z.hash}
                   ELSE disputed
    /\ UNCHANGED <<now, listing, current, edits, bids, tracked, bidInvoices, selling>>

\* ingestZapBid up to the await of verifyZapPayment.  A tracked invoice is
\* compared with the receipt at once; an untracked one is asked of the node.
\* A receipt may be delivered any number of times.
IngestZapBid(c, z) ==
    /\ calls[c] = Idle
    /\ StateOf(listing[current]) = "LIVE"
    /\ \/ /\ z.hash \in DOMAIN tracked
          /\ tracked[z.hash] = TrackedFor(z.bidder, z.amount, TRUE)
          /\ calls' = [calls EXCEPT ![c] = Verification("verified", z)]
          /\ UNCHANGED disputed
       \/ /\ z.hash \notin DOMAIN tracked
          /\ calls' = [calls EXCEPT ![c] = Verification("verifying", z)]
          /\ disputed' = IF Contested(z.hash, z.bidder, z.amount)
                         THEN disputed \cup {z.hash} ELSE disputed
    /\ UNCHANGED <<now, listing, current, edits, bids, tracked, bidInvoices, selling>>

\* The node says the invoice is settled: it is tracked under the receipt's terms,
\* whatever the tracker has learnt of that hash meanwhile.
VerifyZapPayment(c) ==
    /\ calls[c].op = "verifying"
    /\ LET z == calls[c].zap
       IN tracked' = Put(tracked, z.hash, TrackedFor(z.bidder, z.amount, TRUE))
    /\ calls' = [calls EXCEPT ![c].op = "verified"]
    /\ UNCHANGED <<now, listing, current, edits, bids, bidInvoices, selling, disputed>>

\* ingestZapBid after the await, on the listing object read before it: neither
\* the clock nor the Map is consulted again.
RecordZapBid(c) ==
    /\ calls[c].op = "verified"
    /\ Len(bids) < MaxBids
    /\ LET z == calls[c].zap
           l == listing[calls[c].on]
       IN /\ MeetsMinimum(l, z.amount)
          /\ bids' = Append(bids, [via |-> "zap", ref |-> z.hash, bidder |-> z.bidder,
                                   amount |-> z.amount, at |-> z.at, ahead |-> calls[c].ahead])
          /\ listing' = IF Sniped(l, z.at)
                        THEN [listing EXCEPT ![calls[c].on].endsAt = @ + SnipeExtension]
                        ELSE listing
    /\ calls' = [calls EXCEPT ![c] = Idle]
    /\ UNCHANGED <<now, current, edits, tracked, bidInvoices, selling, disputed>>

\* The node does not know the payment, or the bid is below the minimum.
RejectZapBid(c) ==
    /\ \/ calls[c].op = "verifying"
       \/ /\ calls[c].op = "verified"
          /\ ~MeetsMinimum(listing[calls[c].on], calls[c].zap.amount)
    /\ calls' = [calls EXCEPT ![c] = Idle]
    /\ UNCHANGED <<now, listing, current, edits, bidding, selling>>

(***************************************************************************)
(* Invoices                                                                *)
(***************************************************************************)

\* createInvoice of the payment provider: a fresh id.
Fresh(i) == i \notin DOMAIN bidInvoices \cup DOMAIN settlements

CreateBidInvoice(c, b, a) ==
    /\ calls[c] = Idle
    /\ StateOf(listing[current]) = "LIVE"
    /\ calls' = [calls EXCEPT ![c] = [op |-> "bidInvoice", bidder |-> b, amount |-> a]]
    /\ UNCHANGED <<now, listing, current, edits, bidding, selling>>

BidInvoiceCreated(c, i) ==
    /\ calls[c].op = "bidInvoice"
    /\ Fresh(i)
    /\ bidInvoices' = Put(bidInvoices, i, [bidder |-> calls[c].bidder, amount |-> calls[c].amount,
                                           status |-> "pending"])
    /\ calls' = [calls EXCEPT ![c] = Idle]
    /\ UNCHANGED <<now, listing, current, edits, bids, tracked, selling, disputed>>

\* The provider refuses: the handler throws and has changed nothing.
CreateInvoiceFails(c) ==
    /\ calls[c].op \in {"bidInvoice", "settle", "chance"}
    /\ calls' = [calls EXCEPT ![c] = Idle]
    /\ UNCHANGED <<now, listing, current, edits, bidding, selling>>

\* (mutant) A repeated notice records the bid again.
BidInvoicePaidAgain(i) ==
    /\ i \in DOMAIN bidInvoices
    /\ Len(bids) < MaxBids
    /\ bidInvoices' = [bidInvoices EXCEPT ![i].status = "paid"]
    /\ bids' = Append(bids, [via |-> "invoice", ref |-> i, bidder |-> bidInvoices[i].bidder,
                             amount |-> bidInvoices[i].amount, at |-> now,
                             ahead |-> FALSE])
    /\ UNCHANGED <<now, listing, current, edits, tracked, selling, calls, disputed>>

\* (mutant) The payment of an auction that has ended is taken and the bid dropped.
BidInvoicePaidLate(i) ==
    /\ i \in DOMAIN bidInvoices
    /\ bidInvoices[i].status # "paid"
    /\ Len(bids) < MaxBids
    /\ bidInvoices' = [bidInvoices EXCEPT ![i].status = "paid"]
    /\ bids' = IF StateOf(listing[current]) = "LIVE"
               THEN Append(bids, [via |-> "invoice", ref |-> i, bidder |-> bidInvoices[i].bidder,
                                  amount |-> bidInvoices[i].amount, at |-> now,
                             ahead |-> FALSE])
               ELSE bids
    /\ UNCHANGED <<now, listing, current, edits, tracked, selling, calls, disputed>>

\* handlePaymentReceived for a bid invoice: the bid is recorded now, whatever the
\* state of the auction and the other bids.  A repeated notice finds the invoice
\* paid and no settlement under its id: it changes nothing.
BidInvoicePaid(i) ==
    /\ i \in DOMAIN bidInvoices
    /\ bidInvoices[i].status # "paid"
    /\ Len(bids) < MaxBids
    /\ bidInvoices' = [bidInvoices EXCEPT ![i].status = "paid"]
    /\ bids' = Append(bids, [via |-> "invoice", ref |-> i, bidder |-> bidInvoices[i].bidder,
                             amount |-> bidInvoices[i].amount, at |-> now,
                             ahead |-> FALSE])
    /\ UNCHANGED <<now, listing, current, edits, tracked, selling, calls, disputed>>

(***************************************************************************)
(* Settlement and second chance                                            *)
(***************************************************************************)

Settlement(b, a, exp, src) ==
    [bidder |-> b, amount |-> a, expiresAt |-> exp, status |-> "pending", source |-> src]

\* (mutant) Winner and amount are swapped.
AwardedSwapped(l, b, a, i) == [l EXCEPT !.winner = a, !.amount = b, !.invoice = i]

\* (mutant) The name is handed over with the invoice, before the payment.
AwardedAtOnce(l, b, a, i) ==
    [l EXCEPT !.winner = b, !.amount = a, !.invoice = i, !.state = "SETTLED"]

\* The listing after a settlement invoice i for bidder b was issued.
Awarded(l, b, a, i) == [l EXCEPT !.winner = b, !.amount = a, !.invoice = i]

\* settleAuction up to its await; finalizeAuction of the admin service is the same
\* call.  Neither FAILED nor an invoice already issued stops it.
SettleAuction(c) ==
    /\ calls[c] = Idle
    /\ LET l == listing[current]
       IN /\ StateOf(l) \notin {"UPCOMING", "LIVE", "SETTLED"}
          /\ \/ /\ Winner(l) = {}
                /\ listing' = [listing EXCEPT ![current].state = "ENDED"]
                /\ UNCHANGED calls
             \/ \E w \in Winner(l) :
                /\ calls' = [calls EXCEPT ![c] =
                                [op |-> "settle", on |-> current,
                                 bidder |-> bids[w].bidder, amount |-> bids[w].amount]]
                /\ UNCHANGED listing
    /\ UNCHANGED <<now, current, edits, bidding, selling>>

\* settleAuction after the await: the object read before it is written and put
\* back into the Map, over whatever the Map holds by now.
SettlementCreated(c, i) ==
    /\ calls[c].op = "settle"
    /\ Fresh(i)
    /\ LET k == calls[c]
       IN /\ settlements' = Put(settlements, i,
                Settlement(k.bidder, k.amount, now + WinnerWindow, "winner"))
          /\ listing' = [listing EXCEPT ![k.on] =
                [Awarded(@, k.bidder, k.amount, i) EXCEPT !.state = "ENDED"]]
          /\ current' = k.on
    /\ calls' = [calls EXCEPT ![c] = Idle]
    /\ UNCHANGED <<now, edits, bidding, offers, offerList>>

\* The settlement invoice of listing l, when it has one.
Standing(l) == {i \in DOMAIN settlements : i = l.invoice}

\* (mutant) The window closes a moment early.
StillActiveBefore(l) ==
    \E i \in Standing(l) : settlements[i].status = "pending" /\ now < settlements[i].expiresAt

StillActive(l) ==
    \E i \in Standing(l) : settlements[i].status = "pending" /\ now <= settlements[i].expiresAt

\* The array of offers a call reads: the Map's, or a new one that is its own.
OfferArray(c) == IF offerList = "none" THEN c ELSE offerList
OfferSet(c) == IF offerList = "none" THEN {} ELSE offers[offerList]

\* (mutant) Who had an offer may be made another.
EligibleAgain(l, c) ==
    {j \in DOMAIN bids :
        /\ bids[j].bidder # l.winner
        /\ \A i \in Standing(l) : settlements[i].bidder # bids[j].bidder}

\* (mutant) Who let the settlement invoice lapse is next.
EligibleHolder(l, c) ==
    {j \in DOMAIN bids : \A o \in OfferSet(c) : o.bidder # bids[j].bidder}

\* Bids that may be offered a second chance: in time or not, above the reserve
\* or not, of bidders who have not had the name offered.
Eligible(l, c) ==
    {j \in DOMAIN bids :
        /\ bids[j].bidder # l.winner
        /\ \A i \in Standing(l) : settlements[i].bidder # bids[j].bidder
        /\ \A o \in OfferSet(c) : o.bidder # bids[j].bidder}

\* An invoice and an offer whose window has closed.
Expire(s) ==
    IF s.status = "pending" /\ now > s.expiresAt THEN [s EXCEPT !.status = "expired"] ELSE s
Lapse(o) ==
    IF o.status = "pending" /\ o.expiresAt <= now THEN [o EXCEPT !.status = "expired"] ELSE o

\* processSecondChance up to its await.  It does not ask whether the auction has
\* ended or been settled unsuccessfully, only that it is not SETTLED.
ProcessSecondChance(c) ==
    /\ calls[c] = Idle
    /\ LET l == listing[current]
       IN /\ l.state # "SETTLED"
          /\ ~StillActive(l)
          /\ settlements' = [i \in DOMAIN settlements |->
                IF i \in Standing(l) THEN Expire(settlements[i]) ELSE settlements[i]]
          /\ offers' = [offers EXCEPT ![OfferArray(c)] = {Lapse(o) : o \in OfferSet(c)}]
          /\ \/ /\ Eligible(l, c) = {}
                /\ listing' = [listing EXCEPT ![current].state = "FAILED"]
                /\ UNCHANGED calls
             \/ \E n \in First(Eligible(l, c)) :
                /\ calls' = [calls EXCEPT ![c] =
                                [op |-> "chance", on |-> current, bidder |-> bids[n].bidder,
                                 amount |-> bids[n].amount, at |-> now, array |-> OfferArray(c)]]
                /\ UNCHANGED listing
    /\ UNCHANGED <<now, current, edits, bidding, offerList>>

\* processSecondChance after the await: the window runs from the time read before.
SecondChanceCreated(c, i) ==
    /\ calls[c].op = "chance"
    /\ Fresh(i)
    /\ LET k == calls[c]
       IN /\ settlements' = Put(settlements, i,
                Settlement(k.bidder, k.amount, k.at + ChanceWindow, "second_chance"))
          /\ offers' = [offers EXCEPT ![k.array] = @ \cup
                {[bidder |-> k.bidder, invoice |-> i, expiresAt |-> k.at + ChanceWindow,
                  status |-> "pending"]}]
          /\ offerList' = k.array
          /\ listing' = [listing EXCEPT ![k.on] = Awarded(@, k.bidder, k.amount, i)]
          /\ current' = k.on
    /\ calls' = [calls EXCEPT ![c] = Idle]
    /\ UNCHANGED <<now, edits, bidding>>

\* (mutant) Pending offers are declined before the paid one is looked for.
DecideDeclined(o, i) ==
    IF o.status = "pending" THEN [o EXCEPT !.status = "declined"]
    ELSE IF o.invoice = i THEN [o EXCEPT !.status = "accepted"] ELSE o

\* What becomes of an offer when invoice i is paid.
Decide(o, i) ==
    IF o.invoice = i THEN [o EXCEPT !.status = "accepted"]
    ELSE IF o.status = "pending" THEN [o EXCEPT !.status = "declined"] ELSE o

\* handlePaymentReceived for a settlement invoice: at any time, expired or not,
\* and again for every repeated notice.
SettlementPaid(i) ==
    /\ i \in DOMAIN settlements
    /\ LET s == settlements[i]
           array == OfferArray("hook")
       IN /\ settlements' = [settlements EXCEPT ![i].status = "paid"]
          /\ listing' = [listing EXCEPT ![current] =
                [@ EXCEPT !.state = "SETTLED", !.winner = s.bidder, !.amount = s.amount]]
          /\ offers' = [offers EXCEPT ![array] = {Decide(o, i) : o \in OfferSet("hook")}]
          /\ offerList' = array
    /\ UNCHANGED <<now, current, edits, bidding, calls>>

(***************************************************************************)
(* The administrator                                                       *)
(***************************************************************************)

\* The admin service puts a changed COPY of the listing into the Map, with the
\* state the auction has now.
Replace(copy) ==
    /\ edits < MaxEdits
    /\ edits' = edits + 1
    /\ listing' = Put(listing, edits + 1, copy)
    /\ current' = edits + 1
    /\ UNCHANGED <<now, bidding, selling, calls>>

Snapshot == [listing[current] EXCEPT !.state = StateOf(listing[current])]

\* updateAuction writes the fields it is given without validating them.
UpdateAuction(startsAt, endsAt, starting, reserve) ==
    Replace([Snapshot EXCEPT !.startsAt = startsAt, !.endsAt = endsAt,
                             !.starting = starting, !.reserve = reserve])

ExtendAuction(d) == Replace([Snapshot EXCEPT !.endsAt = @ + d])

CancelAuction == Replace([Snapshot EXCEPT !.state = "FAILED"])

Tick ==
    /\ now < MaxTime
    /\ now' = now + 1
    /\ UNCHANGED <<listing, current, edits, bidding, selling, calls>>

(***************************************************************************)
(* The service                                                             *)
(***************************************************************************)

BidByZap ==
    \/ \E c \in Calls, z \in Receipt : IngestZapBid(c, z)
    \/ \E c \in Calls : VerifyZapPayment(c) \/ RecordZapBid(c) \/ RejectZapBid(c)

Track ==
    \/ \E h \in Hashes, b \in Bidders, a \in Amounts, paid \in BOOLEAN :
          TrackInvoice(h, b, a, paid)
    \/ \E h \in Hashes : MarkInvoicePaid(h)

BidByInvoice ==
    \/ \E c \in Calls, b \in Bidders, a \in Amounts : CreateBidInvoice(c, b, a)
    \/ \E c \in Calls, i \in Invoices : BidInvoiceCreated(c, i)
    \/ \E i \in Invoices : BidInvoicePaid(i)

Settle ==
    \/ \E c \in Calls : SettleAuction(c)
    \/ \E c \in Calls, i \in Invoices : SettlementCreated(c, i)

SecondChance ==
    \/ \E c \in Calls : ProcessSecondChance(c)
    \/ \E c \in Calls, i \in Invoices : SecondChanceCreated(c, i)

Edit ==
    \/ \E s \in {0, now + 1}, e \in {now, now + 1}, a \in Amounts, r \in Amounts :
          UpdateAuction(s, e, a, r)
    \/ \E d \in {1, 2} : ExtendAuction(d)

Next ==
    \/ "zap" \in Ops /\ BidByZap
    \/ "track" \in Ops /\ Track
    \/ "bidInvoice" \in Ops /\ BidByInvoice
    \/ "settle" \in Ops /\ Settle
    \/ "chance" \in Ops /\ SecondChance
    \/ "edit" \in Ops /\ Edit
    \/ "cancel" \in Ops /\ CancelAuction
    \/ \E i \in Invoices : SettlementPaid(i)
    \/ \E c \in Calls : CreateInvoiceFails(c)
    \/ Tick

Spec == Init /\ [][Next]_vars

(***************************************************************************)
(* Properties                                                              *)
(***************************************************************************)

Listing ==
    [startsAt : Nat, endsAt : Nat, starting : Nat, reserve : Nat, state : Explicit,
     winner : Bidders \cup {Nobody}, amount : Nat, invoice : Invoices \cup {NoInvoice}]
Tracked == [bidder : Bidders, amount : Amounts, paid : BOOLEAN]
BidInvoice == [bidder : Bidders, amount : Amounts, status : {"pending", "paid"}]
SettlementInvoice ==
    [bidder : Bidders, amount : Amounts, expiresAt : Nat,
     status : {"pending", "paid", "expired"}, source : {"winner", "second_chance"}]
Offer == [bidder : Bidders, invoice : Invoices, expiresAt : Nat,
          status : {"pending", "expired", "accepted", "declined"}]
Bid == [via : {"zap", "invoice"}, ref : Hashes \cup Invoices, bidder : Bidders,
        amount : Amounts, at : Nat, ahead : BOOLEAN]
ZapCall == [op : {"verifying", "verified"}, zap : Receipt, on : Nat, ahead : BOOLEAN]
InvoiceCall == [op : {"bidInvoice"}, bidder : Bidders, amount : Amounts]
SettleCall == [op : {"settle"}, on : Nat, bidder : Bidders, amount : Amounts]
ChanceCall == [op : {"chance"}, on : Nat, bidder : Bidders, amount : Amounts, at : Nat,
               array : Slots]
Call == {Idle} \cup ZapCall \cup InvoiceCall \cup SettleCall \cup ChanceCall

\* Every variable of the service holds a value of its kind; a suspended handler
\* refers to a listing object that exists.
TypeOK ==
    /\ now \in Nat /\ edits \in Nat /\ current \in 0..edits
    /\ listing \in [0..edits -> Listing]
    /\ bids \in Seq(Bid)
    /\ disputed \subseteq Hashes
    /\ MapOf(tracked, Hashes, Tracked)
    /\ MapOf(bidInvoices, Invoices, BidInvoice)
    /\ MapOf(settlements, Invoices, SettlementInvoice)
    /\ offers \in [Slots -> SUBSET Offer]
    /\ offerList \in Slots \cup {"none"}
    /\ calls \in [Calls -> Call]
    /\ \A c \in Calls : calls[c].op \in {"verifying", "verified", "settle", "chance"} =>
          calls[c].on \in 0..edits

\* A zap bid is at least ten percent above every bid recorded before it, whatever
\* was recorded while its payment was being verified (ingestZapBid,
\* calculateMinimumBid).
ZapBidsOutbid ==
    \A i, j \in DOMAIN bids :
        i < j /\ bids[j].via = "zap" => 10 * bids[j].amount >= 11 * bids[i].amount

\* One payment is one bid: a receipt delivered again, also while its first delivery
\* is still being verified, another receipt of the payment with terms of its own, and a
\* payment notice that is repeated add no second bid.  They do when receipts of different
\* terms are verified at the same time, or trackInvoice replaces the terms: each handler
\* then overwrites the tracker with its own (ingestZapBid, handlePaymentReceived).
OneBidPerPayment ==
    \A i, j \in DOMAIN bids :
        /\ bids[i].via = bids[j].via /\ bids[i].ref = bids[j].ref
        /\ bids[i].via = "zap" => bids[i].ref \notin disputed
        => i = j

\* A bid invoice has been paid exactly when a bid stands for it, with the bidder and
\* the amount it was issued for (createBidInvoice, handlePaymentReceived).
PaidInvoiceIsBid ==
    \A i \in DOMAIN bidInvoices :
        bidInvoices[i].status = "paid" <=>
            \E j \in DOMAIN bids :
                /\ bids[j].via = "invoice" /\ bids[j].ref = i
                /\ bids[j].bidder = bidInvoices[i].bidder
                /\ bids[j].amount = bidInvoices[i].amount

\* The record of bids is such a ledger, as an observer who sees nothing else would
\* put it, who knows which payments are in dispute (ingestZapBid, handlePaymentReceived).
Ledger == INSTANCE BidLedger WITH ledger <- bids
BidsAreALedger == Ledger!Spec

\* As long as no administrator edits the listing, the auction ends no earlier than the
\* snipe window after the date of a zap bid, however long its verification took and
\* however often the end was moved.  The date is the receipt's own: one that lay in the
\* future when the receipt was delivered is not covered, and one that was set back buys
\* its author a bid in the last second that moves no end (ingestZapBid).
RoomToAnswerZap ==
    \A j \in DOMAIN bids :
        bids[j].via = "zap" /\ ~bids[j].ahead =>
            listing[current].endsAt >= bids[j].at + SnipeWindow

\* A settlement invoice asks a bidder for what that bidder bid, a winner's invoice
\* for at least the reserve of the listing it settles (determineWinner, settleAuction,
\* processSecondChance).
SettlementIsOfABid ==
    \A i \in DOMAIN settlements :
        /\ \E j \in DOMAIN bids : /\ bids[j].bidder = settlements[i].bidder
                                  /\ bids[j].amount = settlements[i].amount
        /\ settlements[i].source = "winner" =>
              \E g \in 0..edits : settlements[i].amount >= listing[g].reserve

\* A listing is SETTLED only when a settlement invoice has been paid, also across
\* the copies an administrator makes and the stale objects that are put back.
SettledIsPaid ==
    \A g \in 0..edits : listing[g].state = "SETTLED" =>
        \E i \in DOMAIN settlements : settlements[i].status = "paid"

\* Why OneBidPerPayment and PaidInvoiceIsBid hold: as long as a payment hash is not in
\* dispute, the tracker, the handlers that verify a receipt of it and the bids recorded
\* for it agree on its terms, and a bid by invoice comes from an invoice that is marked
\* paid.  A second bid of the same terms would have to outbid the first
\* (ingestZapBid, verifyZapPayment, handlePaymentReceived).
Verifies(c) == calls[c].op \in {"verifying", "verified"}
TrackedAs(x, h) == h \in DOMAIN tracked /\ OfTerms(tracked[h], x.bidder, x.amount)
Agreed(c, z) ==
    /\ calls[c].op = "verified" \/ z.hash \in DOMAIN tracked => TrackedAs(z, z.hash)
    /\ calls[c].op = "verifying" => ~Contested(z.hash, z.bidder, z.amount)
HandlersAgree ==
    \A c \in Calls :
        Verifies(c) /\ calls[c].zap.hash \notin disputed => Agreed(c, calls[c].zap)
BidsHavePayments ==
    \A j \in DOMAIN bids :
        /\ bids[j].via = "zap" /\ bids[j].ref \notin disputed => TrackedAs(bids[j], bids[j].ref)
        /\ bids[j].via = "invoice" =>
              /\ bids[j].ref \in DOMAIN bidInvoices
              /\ bidInvoices[bids[j].ref].status = "paid"
LedgerInv ==
    /\ HandlersAgree /\ BidsHavePayments
    /\ ZapBidsOutbid /\ OneBidPerPayment /\ PaidInvoiceIsBid

\* Why RoomToAnswerZap holds as long as there is one listing object: a receipt that is
\* being verified and was not dated ahead is dated before the end the auction had when
\* it was ingested, and the end is only ever moved back (ingestZapBid).
ReceiptsInTime ==
    \A c \in Calls : Verifies(c) /\ ~calls[c].ahead => calls[c].zap.at <= listing[0].endsAt
RoomInv == edits = 0 /\ ReceiptsInTime /\ RoomToAnswerZap

\* Why SettlementIsOfABid holds: a handler suspended while its invoice is issued
\* asks for the amount of a bid, settleAuction for one that meets the reserve of the
\* listing object it holds.
OfABid(k) ==
    \E j \in DOMAIN bids : bids[j].bidder = k.bidder /\ bids[j].amount = k.amount
CallsAreOfBids ==
    \A c \in Calls :
        /\ calls[c].op \in {"settle", "chance"} => OfABid(calls[c])
        /\ calls[c].op = "settle" => calls[c].amount >= listing[calls[c].on].reserve

=============================================================================
