--------------------------- MODULE AuctionProofs ---------------------------
(***************************************************************************)
(* What holds of the auction service for every set of bidders, amounts,    *)
(* invoices and suspended handlers, and however long it runs.              *)
(***************************************************************************)
EXTENDS Auction, MapTheorems, TLAPS

\* calculateMinimumBid asks for at least ten percent more, however the floating
\* point product is rounded.
LEMMA MinimumBidIsTenPercent ==
    ASSUME NEW x \in Nat
    PROVE  MinimumBid(x) \in Nat /\ 10 * MinimumBid(x) >= 11 * x
    <1>1. CASE x % 10 = 0 /\ ~ProductRoundsUp(x)
        BY <1>1 DEF MinimumBid
    <1>2. CASE ~(x % 10 = 0 /\ ~ProductRoundsUp(x))
        BY <1>2 DEF MinimumBid
    <1>3. QED BY <1>1, <1>2

\* The state of a listing is one of the five, at any time.
LEMMA StateOfIsExplicit ==
    ASSUME NEW l \in Listing
    PROVE  StateOf(l) \in Explicit
    BY DEF StateOf, Listing, Explicit

(***************************************************************************)
(* Types                                                                   *)
(***************************************************************************)

USE ConstantsAssumption

\* What a suspended handler holds, by its operation.
LEMMA CallKinds ==
    ASSUME TypeOK, NEW c \in Calls
    PROVE  /\ calls[c].op \in {"verifying", "verified"} =>
                 calls[c] \in ZapCall /\ calls[c].on \in 0..edits
           /\ calls[c].op = "bidInvoice" => calls[c] \in InvoiceCall
           /\ calls[c].op = "settle" => calls[c] \in SettleCall /\ calls[c].on \in 0..edits
           /\ calls[c].op = "chance" => calls[c] \in ChanceCall /\ calls[c].on \in 0..edits
    <1>1. calls[c] \in Call
        BY DEF TypeOK
    <1>2. calls[c].op \in {"verifying", "verified", "settle", "chance"} => calls[c].on \in 0..edits
        BY DEF TypeOK
    <1>3. QED
        BY <1>1, <1>2 DEF Call, Idle, ZapCall, InvoiceCall, SettleCall, ChanceCall

\* A handler that ends, or is suspended anew, leaves the other handlers as they are.
LEMMA CallsStayTyped ==
    ASSUME TypeOK, NEW c \in Calls, NEW k \in Call,
           k.op \in {"verifying", "verified", "settle", "chance"} => k.on \in 0..edits,
           calls' = [calls EXCEPT ![c] = k]
    PROVE  /\ calls' \in [Calls -> Call]
           /\ \A d \in Calls : calls'[d].op \in {"verifying", "verified", "settle", "chance"} =>
                 calls'[d].on \in 0..edits
    BY DEF TypeOK

\* A handler that has ended is of no kind that holds a listing.
LEMMA IdleIsACall == Idle \in Call /\ Idle.op \notin {"verifying", "verified", "settle", "chance"}
    BY DEF Idle, Call

\* A created auction is well typed.
LEMMA InitType == Init => TypeOK
    <1> SUFFICES ASSUME Init PROVE TypeOK
        OBVIOUS
    <1>1. PICK in \in Listings : ValidInput(in) /\ listing = [g \in {0} |-> NewListing(in)]
        BY DEF Init
    <1>2. NewListing(in) \in Listing
        BY <1>1 DEF NewListing, Listing, Explicit
    <1>3. listing \in [0..edits -> Listing]
        BY <1>1, <1>2 DEF Init
    <1>4. QED
        BY <1>3 DEF Init, TypeOK, MapOf, EmptyMap, Call, Idle, Slots

\* Zap bids keep the types.
LEMMA ZapType == TypeOK /\ BidByZap => TypeOK'
    <1> SUFFICES ASSUME TypeOK, BidByZap PROVE TypeOK'
        OBVIOUS
    <1>2. ASSUME NEW c \in Calls, NEW z \in Receipt, IngestZapBid(c, z)
          PROVE  TypeOK'
        <2>1. ASSUME NEW op \in {"verifying", "verified"},
                     calls' = [calls EXCEPT ![c] = Verification(op, z)]
              PROVE  TypeOK'
            <3> DEFINE k == Verification(op, z)
            <3>1. k \in ZapCall /\ k.on \in 0..edits
                BY DEF TypeOK, ZapCall, Receipt, Verification
            <3>2. k \in Call
                BY <3>1 DEF Call
            <3>3. calls' = [calls EXCEPT ![c] = k]
                BY <2>1
            <3> HIDE DEF k
            <3>4. disputed' \subseteq Hashes
                BY <1>2 DEF TypeOK, IngestZapBid, Receipt
            <3>5. QED
                BY <1>2, <3>1, <3>2, <3>3, <3>4, CallsStayTyped DEF TypeOK, IngestZapBid, selling
        <2>2. QED
            BY <1>2, <2>1 DEF IngestZapBid
    <1>3. ASSUME NEW c \in Calls, VerifyZapPayment(c)
          PROVE  TypeOK'
        <2>1. calls[c].zap \in Receipt
            BY <1>3, CallKinds DEF VerifyZapPayment, ZapCall
        <2>2. TrackedFor(calls[c].zap.bidder, calls[c].zap.amount, TRUE) \in Tracked
            BY <2>1 DEF TrackedFor, Tracked, Receipt
        <2>3. MapOf(tracked, Hashes, Tracked)'
            BY <1>3, <2>1, <2>2, PutMapOf DEF TypeOK, VerifyZapPayment, Receipt
        <2> DEFINE k == [calls[c] EXCEPT !.op = "verified"]
        <2>4. k \in ZapCall /\ k.on \in 0..edits
            BY <1>3, CallKinds DEF VerifyZapPayment, ZapCall
        <2>5. k \in Call
            BY <2>4 DEF Call
        <2>6. calls' = [calls EXCEPT ![c] = k]
            BY <1>3 DEF VerifyZapPayment
        <2> HIDE DEF k
        <2>7. QED
            BY <1>3, <2>3, <2>4, <2>5, <2>6, CallsStayTyped DEF TypeOK, VerifyZapPayment, selling
    <1>4. ASSUME NEW c \in Calls, RecordZapBid(c)
          PROVE  TypeOK'
        <2> DEFINE z == calls[c].zap
                   l == listing[calls[c].on]
        <2>1. z \in Receipt /\ calls[c].on \in 0..edits
            BY <1>4, CallKinds DEF RecordZapBid, ZapCall
        <2>2. [via |-> "zap", ref |-> z.hash, bidder |-> z.bidder,
               amount |-> z.amount, at |-> z.at, ahead |-> calls[c].ahead] \in Bid
            BY <1>4, <2>1, CallKinds DEF RecordZapBid, ZapCall, Bid, Receipt
        <2>3. bids' \in Seq(Bid)
            BY <1>4, <2>2 DEF TypeOK, RecordZapBid
        <2>4. l \in Listing
            BY <2>1 DEF TypeOK
        <2>5. [l EXCEPT !.endsAt = @ + SnipeExtension] \in Listing
            BY <2>4 DEF Listing
        <2>6. listing' \in [0..edits -> Listing]
            BY <1>4, <2>1, <2>5 DEF TypeOK, RecordZapBid
        <2>7. QED
            BY <1>4, <2>3, <2>6, IdleIsACall, CallsStayTyped DEF TypeOK, RecordZapBid, selling
    <1>5. ASSUME NEW c \in Calls, RejectZapBid(c)
          PROVE  TypeOK'
        BY <1>5, IdleIsACall, CallsStayTyped DEF TypeOK, RejectZapBid, bidding, selling
    <1>6. QED
        BY <1>2, <1>3, <1>4, <1>5 DEF BidByZap

\* The invoice tracker keeps the types.
LEMMA TrackType == TypeOK /\ Track => TypeOK'
    <1> SUFFICES ASSUME TypeOK, Track PROVE TypeOK'
        OBVIOUS
    <1>1. ASSUME NEW h \in Hashes, NEW b \in Bidders, NEW a \in Amounts, NEW paid \in BOOLEAN,
                 TrackInvoice(h, b, a, paid)
          PROVE  TypeOK'
        <2>1. TrackedFor(b, a, paid) \in Tracked
            BY DEF TrackedFor, Tracked
        <2>2. MapOf(tracked, Hashes, Tracked)'
            BY <1>1, <2>1, PutMapOf DEF TypeOK, TrackInvoice
        <2>3. QED
            BY <1>1, <2>2 DEF TypeOK, TrackInvoice, selling
    <1>2. ASSUME NEW h \in Hashes, MarkInvoicePaid(h)
          PROVE  TypeOK'
        <2>1. [tracked[h] EXCEPT !.paid = TRUE] \in Tracked
            BY <1>2 DEF TypeOK, MarkInvoicePaid, MapOf, Tracked
        <2>2. MapOf(tracked, Hashes, Tracked)'
            BY <1>2, <2>1, ExceptMapOf DEF TypeOK, MarkInvoicePaid
        <2>3. QED
            BY <1>2, <2>2 DEF TypeOK, MarkInvoicePaid, selling
    <1>3. QED
        BY <1>1, <1>2 DEF Track

\* Bid invoices keep the types.
LEMMA BidInvoiceType == TypeOK /\ BidByInvoice => TypeOK'
    <1> SUFFICES ASSUME TypeOK, BidByInvoice PROVE TypeOK'
        OBVIOUS
    <1>1. ASSUME NEW c \in Calls, NEW b \in Bidders, NEW a \in Amounts, CreateBidInvoice(c, b, a)
          PROVE  TypeOK'
        <2> DEFINE k == [op |-> "bidInvoice", bidder |-> b, amount |-> a]
        <2>1. k \in Call /\ k.op = "bidInvoice"
            BY DEF Call, InvoiceCall
        <2>2. calls' = [calls EXCEPT ![c] = k]
            BY <1>1 DEF CreateBidInvoice
        <2> HIDE DEF k
        <2>3. QED
            BY <1>1, <2>1, <2>2, CallsStayTyped DEF TypeOK, CreateBidInvoice, bidding, selling
    <1>2. ASSUME NEW c \in Calls, NEW i \in Invoices, BidInvoiceCreated(c, i)
          PROVE  TypeOK'
        <2>1. [bidder |-> calls[c].bidder, amount |-> calls[c].amount, status |-> "pending"]
              \in BidInvoice
            BY <1>2, CallKinds DEF BidInvoiceCreated, InvoiceCall, BidInvoice
        <2>2. MapOf(bidInvoices, Invoices, BidInvoice)'
            BY <1>2, <2>1, PutMapOf DEF TypeOK, BidInvoiceCreated
        <2>3. QED
            BY <1>2, <2>2, IdleIsACall, CallsStayTyped DEF TypeOK, BidInvoiceCreated, selling
    <1>3. ASSUME NEW i \in Invoices, BidInvoicePaid(i)
          PROVE  TypeOK'
        <2>1. bidInvoices[i] \in BidInvoice
            BY <1>3 DEF TypeOK, BidInvoicePaid, MapOf
        <2>2. MapOf(bidInvoices, Invoices, BidInvoice)'
            BY <1>3, <2>1, ExceptMapOf DEF TypeOK, BidInvoicePaid, BidInvoice
        <2>3. [via |-> "invoice", ref |-> i, bidder |-> bidInvoices[i].bidder,
               amount |-> bidInvoices[i].amount, at |-> now, ahead |-> FALSE] \in Bid
            BY <2>1 DEF TypeOK, BidInvoice, Bid
        <2>4. QED
            BY <1>3, <2>2, <2>3 DEF TypeOK, BidInvoicePaid, selling
    <1>4. QED
        BY <1>1, <1>2, <1>3 DEF BidByInvoice

\* A listing that is awarded, and one whose state is set, is a listing.
LEMMA AwardedType ==
    ASSUME NEW l \in Listing, NEW b \in Bidders, NEW a \in Amounts, NEW i \in Invoices
    PROVE  Awarded(l, b, a, i) \in Listing
    BY DEF Awarded, Listing

\* Changing one listing object leaves the others listings.
LEMMA ListingExcept ==
    ASSUME TypeOK, NEW g \in 0..edits, NEW l \in Listing,
           listing' = [listing EXCEPT ![g] = l]
    PROVE  listing' \in [0..edits -> Listing]
    BY DEF TypeOK

\* The record settleAuction and processSecondChance make of an invoice is a settlement.
LEMMA SettlementType ==
    ASSUME NEW b \in Bidders, NEW a \in Amounts, NEW exp \in Nat,
           NEW src \in {"winner", "second_chance"}
    PROVE  Settlement(b, a, exp, src) \in SettlementInvoice
    BY DEF Settlement, SettlementInvoice

\* Settling keeps the types.
LEMMA SettleType == TypeOK /\ Settle => TypeOK'
    <1> SUFFICES ASSUME TypeOK, Settle PROVE TypeOK'
        OBVIOUS
    <1>1. ASSUME NEW c \in Calls, SettleAuction(c)
          PROVE  TypeOK'
        <2>1. listing[current] \in Listing /\ current \in 0..edits
            BY DEF TypeOK
        <2>2. CASE listing' = [listing EXCEPT ![current].state = "ENDED"] /\ UNCHANGED calls
            <3>1. [listing[current] EXCEPT !.state = "ENDED"] \in Listing
                BY <2>1 DEF Listing, Explicit
            <3>2. listing' \in [0..edits -> Listing]
                BY <2>1, <2>2, <3>1, ListingExcept
            <3>3. QED
                BY <1>1, <2>2, <3>2 DEF TypeOK, SettleAuction, bidding, selling
        <2>3. ASSUME NEW w \in Winner(listing[current]), UNCHANGED listing,
                     calls' = [calls EXCEPT ![c] =
                                 [op |-> "settle", on |-> current,
                                  bidder |-> bids[w].bidder, amount |-> bids[w].amount]]
              PROVE  TypeOK'
            <3> DEFINE k == [op |-> "settle", on |-> current,
                             bidder |-> bids[w].bidder, amount |-> bids[w].amount]
            <3>1. bids[w] \in Bid
                BY <2>3 DEF TypeOK, Winner, First, InTime
            <3>2. k \in SettleCall /\ k.on \in 0..edits
                BY <2>1, <3>1 DEF SettleCall, Bid
            <3>3. k \in Call
                BY <3>2 DEF Call
            <3>4. calls' = [calls EXCEPT ![c] = k]
                BY <2>3
            <3> HIDE DEF k
            <3>5. QED
                BY <1>1, <2>3, <3>2, <3>3, <3>4, CallsStayTyped
                DEF TypeOK, SettleAuction, bidding, selling
        <2>4. QED
            BY <1>1, <2>2, <2>3 DEF SettleAuction
    <1>2. ASSUME NEW c \in Calls, NEW i \in Invoices, SettlementCreated(c, i)
          PROVE  TypeOK'
        <2> DEFINE k == calls[c]
                   l == listing[k.on]
        <2>1. k \in SettleCall /\ k.on \in 0..edits
            BY <1>2, CallKinds DEF SettlementCreated
        <2>2. k.bidder \in Bidders /\ k.amount \in Amounts
            BY <2>1 DEF SettleCall
        <2>3. l \in Listing
            BY <2>1 DEF TypeOK
        <2>4. [Awarded(l, k.bidder, k.amount, i) EXCEPT !.state = "ENDED"] \in Listing
            BY <2>2, <2>3 DEF Awarded, Listing, Explicit
        <2>5. listing' = [listing EXCEPT ![k.on] =
                            [Awarded(l, k.bidder, k.amount, i) EXCEPT !.state = "ENDED"]]
            BY <1>2 DEF SettlementCreated
        <2>6. listing' \in [0..edits -> Listing]
            BY <2>1, <2>4, <2>5, ListingExcept
        <2>7. now + WinnerWindow \in Nat
            BY DEF TypeOK
        <2>8. Settlement(k.bidder, k.amount, now + WinnerWindow, "winner") \in SettlementInvoice
            BY <2>2, <2>7, SettlementType
        <2>9. MapOf(settlements, Invoices, SettlementInvoice)'
            BY <1>2, <2>8, PutMapOf DEF TypeOK, SettlementCreated
        <2>10. QED
            BY <1>2, <2>1, <2>6, <2>9, IdleIsACall, CallsStayTyped
            DEF TypeOK, SettlementCreated, bidding
    <1>3. QED
        BY <1>1, <1>2 DEF Settle

\* Writing offers into one array leaves the others arrays of offers.
LEMMA OffersExcept ==
    ASSUME TypeOK, NEW slot \in Slots, NEW S \in SUBSET Offer,
           offers' = [offers EXCEPT ![slot] = S]
    PROVE  offers' \in [Slots -> SUBSET Offer]
    BY DEF TypeOK

\* The array of offers a caller reads is one of the arrays, and holds offers.
LEMMA OfferArrayType ==
    ASSUME TypeOK, NEW c \in Slots
    PROVE  OfferArray(c) \in Slots /\ OfferSet(c) \subseteq Offer
    BY DEF TypeOK, OfferArray, OfferSet, Slots

\* The second chance keeps the types.
LEMMA SecondChanceType == TypeOK /\ SecondChance => TypeOK'
    <1> SUFFICES ASSUME TypeOK, SecondChance PROVE TypeOK'
        OBVIOUS
    <1>1. ASSUME NEW c \in Calls, ProcessSecondChance(c)
          PROVE  TypeOK'
        <2> DEFINE l == listing[current]
                   array == OfferArray(c)
                   lapsed == {Lapse(o) : o \in OfferSet(c)}
        <2>1. l \in Listing /\ current \in 0..edits
            BY DEF TypeOK
        <2>2. array \in Slots /\ OfferSet(c) \subseteq Offer
            BY OfferArrayType DEF Slots
        <2>3. lapsed \in SUBSET Offer
            BY <2>2 DEF Offer, Lapse
        <2>4. offers' \in [Slots -> SUBSET Offer]
            <3>1. offers' = [offers EXCEPT ![array] = lapsed]
                BY <1>1 DEF ProcessSecondChance
            <3> HIDE DEF lapsed, array
            <3>2. QED
                BY <2>2, <2>3, <3>1, OffersExcept
        <2>5. MapOf(settlements, Invoices, SettlementInvoice)'
            <3>1. settlements' = [i \in DOMAIN settlements |->
                        IF i \in Standing(l) THEN Expire(settlements[i]) ELSE settlements[i]]
                BY <1>1 DEF ProcessSecondChance
            <3>2. \A i \in DOMAIN settlements : settlements[i] \in SettlementInvoice
                BY DEF TypeOK, MapOf
            <3>3. \A i \in DOMAIN settlements :
                    Expire(settlements[i]) \in SettlementInvoice
                BY <3>2 DEF SettlementInvoice, Expire
            <3>4. QED
                BY <3>1, <3>2, <3>3 DEF TypeOK, MapOf
        <2>6. CASE listing' = [listing EXCEPT ![current].state = "FAILED"] /\ UNCHANGED calls
            <3>1. [l EXCEPT !.state = "FAILED"] \in Listing
                BY <2>1 DEF Listing, Explicit
            <3>2. listing' \in [0..edits -> Listing]
                BY <2>1, <2>6, <3>1, ListingExcept
            <3>3. QED
                BY <1>1, <2>4, <2>5, <2>6, <3>2 DEF TypeOK, ProcessSecondChance, bidding
        <2>7. ASSUME NEW n \in First(Eligible(l, c)), UNCHANGED listing,
                     calls' = [calls EXCEPT ![c] =
                                 [op |-> "chance", on |-> current, bidder |-> bids[n].bidder,
                                  amount |-> bids[n].amount, at |-> now, array |-> array]]
              PROVE  TypeOK'
            <3> DEFINE k == [op |-> "chance", on |-> current, bidder |-> bids[n].bidder,
                             amount |-> bids[n].amount, at |-> now, array |-> array]
            <3>1. bids[n] \in Bid
                BY <2>7 DEF TypeOK, First, Eligible
            <3>2. k \in ChanceCall /\ k.on \in 0..edits
                BY <2>1, <2>2, <3>1 DEF TypeOK, ChanceCall, Bid
            <3>3. k \in Call
                BY <3>2 DEF Call
            <3>4. calls' = [calls EXCEPT ![c] = k]
                BY <2>7
            <3> HIDE DEF k, l, array, lapsed
            <3>5. QED
                BY <1>1, <2>4, <2>5, <2>7, <3>2, <3>3, <3>4, CallsStayTyped
                DEF TypeOK, ProcessSecondChance, bidding
        <2>8. QED
            BY <1>1, <2>6, <2>7 DEF ProcessSecondChance
    <1>2. ASSUME NEW c \in Calls, NEW i \in Invoices, SecondChanceCreated(c, i)
          PROVE  TypeOK'
        <2> DEFINE k == calls[c]
                   l == listing[k.on]
                   offer == [bidder |-> k.bidder, invoice |-> i,
                             expiresAt |-> k.at + ChanceWindow, status |-> "pending"]
        <2>1. k \in ChanceCall /\ k.on \in 0..edits
            BY <1>2, CallKinds DEF SecondChanceCreated
        <2>2. /\ k.bidder \in Bidders /\ k.amount \in Amounts /\ k.array \in Slots
              /\ k.at + ChanceWindow \in Nat
            BY <2>1 DEF ChanceCall
        <2>3. l \in Listing
            BY <2>1 DEF TypeOK
        <2>4. Awarded(l, k.bidder, k.amount, i) \in Listing
            BY <2>2, <2>3, AwardedType
        <2>5. listing' = [listing EXCEPT ![k.on] = Awarded(l, k.bidder, k.amount, i)]
            BY <1>2 DEF SecondChanceCreated
        <2>6. listing' \in [0..edits -> Listing]
            BY <2>1, <2>4, <2>5, ListingExcept
        <2>7. Settlement(k.bidder, k.amount, k.at + ChanceWindow, "second_chance")
              \in SettlementInvoice
            BY <2>2, SettlementType
        <2>8. MapOf(settlements, Invoices, SettlementInvoice)'
            BY <1>2, <2>7, PutMapOf DEF TypeOK, SecondChanceCreated
        <2>9. offer \in Offer
            BY <2>2 DEF Offer
        <2>10. offers[k.array] \cup {offer} \in SUBSET Offer
            BY <2>2, <2>9 DEF TypeOK
        <2>11. offers' = [offers EXCEPT ![k.array] = offers[k.array] \cup {offer}]
            BY <1>2 DEF SecondChanceCreated
        <2>12. offers' \in [Slots -> SUBSET Offer]
            BY <2>2, <2>10, <2>11, OffersExcept
        <2>13. QED
            BY <1>2, <2>1, <2>2, <2>6, <2>8, <2>12, IdleIsACall, CallsStayTyped
            DEF TypeOK, SecondChanceCreated, bidding
    <1>3. QED
        BY <1>1, <1>2 DEF SecondChance

\* A paid settlement keeps the types.
LEMMA PaymentType ==
    ASSUME TypeOK, NEW i \in Invoices, SettlementPaid(i)
    PROVE  TypeOK'
    <1> DEFINE s == settlements[i]
               l == listing[current]
               array == OfferArray("hook")
               decided == {Decide(o, i) : o \in OfferSet("hook")}
    <1>1. s \in SettlementInvoice
        BY DEF TypeOK, SettlementPaid, MapOf
    <1>2. MapOf(settlements, Invoices, SettlementInvoice)'
        <2>1. [s EXCEPT !.status = "paid"] \in SettlementInvoice
            BY <1>1 DEF SettlementInvoice
        <2>2. QED
            BY <2>1, ExceptMapOf DEF TypeOK, SettlementPaid
    <1>3. l \in Listing /\ current \in 0..edits
        BY DEF TypeOK
    <1>4. [l EXCEPT !.state = "SETTLED", !.winner = s.bidder, !.amount = s.amount] \in Listing
        BY <1>1, <1>3 DEF Listing, SettlementInvoice, Explicit
    <1>5. listing' \in [0..edits -> Listing]
        BY <1>3, <1>4, ListingExcept DEF SettlementPaid
    <1>6. array \in Slots /\ OfferSet("hook") \subseteq Offer
        BY OfferArrayType DEF Slots
    <1>7. decided \in SUBSET Offer
        BY <1>6 DEF Offer, Decide
    <1>8. offers' \in [Slots -> SUBSET Offer]
        <2>1. offers' = [offers EXCEPT ![array] = decided]
            BY DEF SettlementPaid
        <2> HIDE DEF array, decided
        <2>2. QED
            BY <1>6, <1>7, <2>1, OffersExcept
    <1>9. QED
        BY <1>2, <1>5, <1>6, <1>8 DEF TypeOK, SettlementPaid, bidding

\* The administrator's copies keep the types.
LEMMA ReplaceType ==
    ASSUME TypeOK, NEW copy \in Listing, Replace(copy)
    PROVE  TypeOK'
    <1>1. listing' \in [0..edits' -> Listing]
        BY DEF TypeOK, Replace, Put
    <1>2. edits' \in Nat /\ current' \in 0..edits' /\ 0..edits \subseteq 0..edits'
        BY DEF TypeOK, Replace
    <1>3. QED
        BY <1>1, <1>2 DEF TypeOK, Replace, bidding, selling

\* The copy the administrator changes is a listing with a state that is written down.
LEMMA SnapshotType ==
    ASSUME TypeOK
    PROVE  Snapshot \in Listing
    <1>1. listing[current] \in Listing
        BY DEF TypeOK
    <1>2. StateOf(listing[current]) \in Explicit
        BY <1>1, StateOfIsExplicit
    <1>3. QED
        BY <1>1, <1>2 DEF Snapshot, Listing

\* updateAuction, extendAuction and cancelAuction keep the types.
LEMMA EditType == TypeOK /\ (Edit \/ CancelAuction) => TypeOK'
    <1> SUFFICES ASSUME TypeOK, Edit \/ CancelAuction PROVE TypeOK'
        OBVIOUS
    <1>1. Snapshot \in Listing
        BY SnapshotType
    <1>2. ASSUME NEW s \in {0, now + 1}, NEW e \in {now, now + 1}, NEW a \in Amounts,
                 NEW r \in Amounts, UpdateAuction(s, e, a, r)
          PROVE  TypeOK'
        <2>1. s \in Nat /\ e \in Nat /\ a \in Nat /\ r \in Nat
            BY DEF TypeOK
        <2>2. [Snapshot EXCEPT !.startsAt = s, !.endsAt = e, !.starting = a, !.reserve = r]
              \in Listing
            BY <1>1, <2>1 DEF Listing
        <2>3. QED
            BY <1>2, <2>2, ReplaceType DEF UpdateAuction
    <1>3. ASSUME NEW d \in {1, 2}, ExtendAuction(d)
          PROVE  TypeOK'
        <2>1. [Snapshot EXCEPT !.endsAt = @ + d] \in Listing
            BY <1>1 DEF Listing
        <2>2. QED
            BY <1>3, <2>1, ReplaceType DEF ExtendAuction
    <1>4. ASSUME CancelAuction
          PROVE  TypeOK'
        <2>1. [Snapshot EXCEPT !.state = "FAILED"] \in Listing
            BY <1>1 DEF Listing, Explicit
        <2>2. QED
            BY <1>4, <2>1, ReplaceType DEF CancelAuction
    <1>5. QED
        BY <1>2, <1>3, <1>4 DEF Edit

\* Every step of the service keeps the types.
LEMMA TypeStep == TypeOK /\ [Next]_vars => TypeOK'
    <1> SUFFICES ASSUME TypeOK, [Next]_vars PROVE TypeOK'
        OBVIOUS
    <1>1. ASSUME NEW c \in Calls, CreateInvoiceFails(c)
          PROVE  TypeOK'
        BY <1>1, IdleIsACall, CallsStayTyped DEF TypeOK, CreateInvoiceFails, bidding, selling
    <1>2. CASE Tick
        BY <1>2 DEF TypeOK, Tick, bidding, selling
    <1>3. CASE UNCHANGED vars
        BY <1>3 DEF TypeOK, vars, bidding, selling
    <1>4. QED
        BY <1>1, <1>2, <1>3, ZapType, TrackType, BidInvoiceType, SettleType,
           SecondChanceType, PaymentType, EditType
        DEF Next

\* Every variable of the auction service always holds a value of its kind, and a
\* suspended handler refers to a listing object that exists.
THEOREM TypeCorrect == Spec => []TypeOK
    <1>1. QED
        BY InitType, TypeStep, PTL DEF Spec

(***************************************************************************)
(* The ledger of bids                                                      *)
(***************************************************************************)

\* Amounts are counted from one satoshi.
LEMMA AmountsArePositive == \A a \in Amounts : a \in Nat /\ a > 0
    BY ConstantsAssumption

\* A zap bid that meets the minimum is ten percent above every bid there is.
LEMMA MeetsMinimumOutbids ==
    ASSUME TypeOK, NEW l, NEW a \in Nat, MeetsMinimum(l, a), NEW i \in DOMAIN bids
    PROVE  10 * a >= 11 * bids[i].amount
    <1>1. bids[i].amount \in Nat
        <2>1. bids[i] \in Bid
            BY DEF TypeOK
        <2>2. QED
            BY <2>1 DEF Bid
    <1>2. a >= MinimumBid(bids[i].amount)
        <2>1. bids # <<>>
            BY DEF TypeOK
        <2>2. QED
            BY <2>1 DEF MeetsMinimum
    <1>3. QED
        BY <1>1, <1>2, MinimumBidIsTenPercent

\* What appending an entry does to a sequence.
LEMMA AppendFacts ==
    ASSUME NEW S, NEW s \in Seq(S), NEW e \in S
    PROVE  /\ DOMAIN Append(s, e) = DOMAIN s \cup {Len(s) + 1}
           /\ Len(s) + 1 \notin DOMAIN s
           /\ Append(s, e)[Len(s) + 1] = e
           /\ \A i \in DOMAIN s : Append(s, e)[i] = s[i] /\ i \in Nat /\ i < Len(s) + 1
    OBVIOUS

\* The ledger of a new auction is empty.
LEMMA InitLedger == Init => LedgerInv
    BY DEF Init, LedgerInv, HandlersAgree, Verifies, BidsHavePayments,
           ZapBidsOutbid, OneBidPerPayment, PaidInvoiceIsBid, EmptyMap, Idle

\* The handlers that verify a receipt after a step have done so before it.
NoNewReceipt ==
    \A d \in Calls : calls'[d].op \in {"verifying", "verified"} => calls'[d] = calls[d]

\* Handlers agree when each agrees on the receipt that it holds.
LEMMA AgreedNext ==
    ASSUME \A c \in Calls : \A y :
              Verifies(c)' /\ y = calls'[c].zap /\ y.hash \notin disputed' => Agreed(c, y)'
    PROVE  HandlersAgree'
    BY DEF HandlersAgree, Verifies, Agreed, TrackedAs, Contested

\* Handlers that agreed agree as long as neither tracker nor receipts change.
LEMMA AgreementStays ==
    ASSUME HandlersAgree, NoNewReceipt, UNCHANGED <<tracked, disputed>>
    PROVE  HandlersAgree'
    <1>1. ASSUME NEW c \in Calls, NEW y, Verifies(c)', y = calls'[c].zap, y.hash \notin disputed'
          PROVE  Agreed(c, y)'
        <2>1. calls'[c] = calls[c] /\ Verifies(c) /\ y = calls[c].zap /\ y.hash \notin disputed
            BY <1>1 DEF NoNewReceipt, Verifies
        <2>2. Agreed(c, y)
            BY <2>1 DEF HandlersAgree
        <2>3. Contested(y.hash, y.bidder, y.amount)' => Contested(y.hash, y.bidder, y.amount)
            BY DEF NoNewReceipt, Contested
        <2>4. QED
            BY <2>1, <2>2, <2>3 DEF Agreed, TrackedAs
    <1>2. QED
        BY <1>1, AgreedNext

\* Steps that leave bids, tracker and bid invoices alone and suspend no zap bid.
LEMMA LedgerUntouched ==
    ASSUME LedgerInv, UNCHANGED <<bids, tracked, bidInvoices, disputed>>, NoNewReceipt
    PROVE  LedgerInv'
    <1>1. HandlersAgree'
        BY AgreementStays DEF LedgerInv
    <1>2. QED
        BY <1>1 DEF LedgerInv, BidsHavePayments, TrackedAs, ZapBidsOutbid, OneBidPerPayment,
                    PaidInvoiceIsBid

\* Steps that leave bids and bid invoices alone, and the tracker as far as it stands for
\* bids that are not in dispute.
LEMMA TrackerTouched ==
    ASSUME LedgerInv, UNCHANGED <<bids, bidInvoices>>, disputed \subseteq disputed',
           HandlersAgree',
           \A h \in DOMAIN tracked \ disputed' :
              /\ h \in DOMAIN tracked'
              /\ tracked'[h].bidder = tracked[h].bidder /\ tracked'[h].amount = tracked[h].amount
    PROVE  LedgerInv'
    <1>1. BidsHavePayments'
        BY DEF LedgerInv, BidsHavePayments, TrackedAs, OfTerms
    <1>2. OneBidPerPayment'
        BY DEF LedgerInv, OneBidPerPayment
    <1>3. QED
        BY <1>1, <1>2 DEF LedgerInv, ZapBidsOutbid, PaidInvoiceIsBid

\* A handler other than a zap bid takes a place or gives it back.
LEMMA OtherCall ==
    ASSUME TypeOK, NEW c \in Calls, NEW k,
           k.op \notin {"verifying", "verified"}, calls' = [calls EXCEPT ![c] = k]
    PROVE  NoNewReceipt
    BY DEF TypeOK, NoNewReceipt

\* Recording a zap bid keeps the ledger.
LEMMA RecordZapLedger ==
    ASSUME TypeOK, LedgerInv, NEW c \in Calls, RecordZapBid(c)
    PROVE  LedgerInv'
    <1> DEFINE z == calls[c].zap
               e == [via |-> "zap", ref |-> z.hash, bidder |-> z.bidder,
                     amount |-> z.amount, at |-> z.at, ahead |-> calls[c].ahead]
               n == Len(bids) + 1
    <1>1. /\ z \in Receipt /\ e \in Bid /\ calls[c].op = "verified"
        BY CallKinds DEF RecordZapBid, ZapCall, Receipt, Bid
    <1>2. /\ bids' = Append(bids, e) /\ UNCHANGED <<tracked, bidInvoices, disputed>>
          /\ calls' = [calls EXCEPT ![c] = Idle]
        BY DEF RecordZapBid
    <1>3. /\ DOMAIN bids' = DOMAIN bids \cup {n} /\ n \notin DOMAIN bids
          /\ bids'[n] = e
          /\ \A i \in DOMAIN bids : bids'[i] = bids[i] /\ i \in Nat /\ i < n
        BY <1>1, <1>2, AppendFacts DEF TypeOK
    <1>4. \A i \in DOMAIN bids : 10 * z.amount >= 11 * bids[i].amount
        BY <1>1, MeetsMinimumOutbids DEF RecordZapBid, Receipt
    <1>5. z.hash \notin disputed => TrackedAs(z, z.hash)
        BY <1>1 DEF LedgerInv, HandlersAgree, Agreed, Verifies
    <1>6. z.hash \notin disputed =>
             \A i \in DOMAIN bids : ~(bids[i].via = "zap" /\ bids[i].ref = z.hash)
        <2> SUFFICES ASSUME NEW i \in DOMAIN bids, bids[i].via = "zap", bids[i].ref = z.hash,
                            z.hash \notin disputed
                     PROVE  FALSE
            OBVIOUS
        <2>1. TrackedAs(bids[i], z.hash)
            BY DEF LedgerInv, BidsHavePayments
        <2>2. bids[i].amount = z.amount
            BY <1>5, <2>1 DEF TrackedAs, OfTerms
        <2>3. z.amount \in Nat /\ z.amount > 0
            <3>1. z.amount \in Amounts
                BY <1>1 DEF Receipt
            <3>2. QED
                BY <3>1, AmountsArePositive
        <2>4. 10 * z.amount >= 11 * z.amount
            BY <1>4, <2>2
        <2>5. QED
            BY <2>3, <2>4
    <1>7. HandlersAgree'
        <2>1. NoNewReceipt
            BY <1>2, OtherCall DEF Idle
        <2>2. QED
            BY <1>2, <2>1, AgreementStays DEF LedgerInv
    <1>8. /\ e.via = "zap" /\ e.ref = z.hash /\ e.bidder = z.bidder /\ e.amount = z.amount
          /\ n \in Nat
        BY DEF TypeOK
    <1> HIDE DEF e, z, n
    <1>9. BidsHavePayments'
        BY <1>2, <1>3, <1>5, <1>8 DEF LedgerInv, BidsHavePayments, TrackedAs, OfTerms
    <1>10. ZapBidsOutbid'
        <2>1. \A i \in DOMAIN bids : 10 * e.amount >= 11 * bids[i].amount
            BY <1>4, <1>8
        <2>2. QED
            BY <1>3, <1>8, <2>1 DEF LedgerInv, ZapBidsOutbid
    <1>11. OneBidPerPayment'
        BY <1>2, <1>3, <1>6, <1>8 DEF LedgerInv, OneBidPerPayment
    <1>12. PaidInvoiceIsBid'
        BY <1>2, <1>3, <1>8 DEF LedgerInv, PaidInvoiceIsBid
    <1>13. QED
        BY <1>7, <1>9, <1>10, <1>11, <1>12 DEF LedgerInv

\* Recording the bid of a paid invoice keeps the ledger.
LEMMA InvoicePaidLedger ==
    ASSUME TypeOK, LedgerInv, NEW i \in Invoices, BidInvoicePaid(i)
    PROVE  LedgerInv'
    <1> DEFINE v == bidInvoices[i]
               e == [via |-> "invoice", ref |-> i, bidder |-> v.bidder,
                     amount |-> v.amount, at |-> now, ahead |-> FALSE]
               n == Len(bids) + 1
    <1>1. e \in Bid /\ v \in BidInvoice /\ v.status # "paid"
        BY DEF BidInvoicePaid, TypeOK, MapOf, BidInvoice, Bid
    <1>2. /\ bids' = Append(bids, e) /\ UNCHANGED <<tracked, calls, disputed>>
          /\ bidInvoices' = [bidInvoices EXCEPT ![i].status = "paid"]
        BY DEF BidInvoicePaid
    <1>3. /\ DOMAIN bids' = DOMAIN bids \cup {n} /\ n \notin DOMAIN bids
          /\ bids'[n] = e
          /\ \A j \in DOMAIN bids : bids'[j] = bids[j] /\ j \in Nat /\ j < n
        BY <1>1, <1>2, AppendFacts DEF TypeOK
    <1>4. /\ DOMAIN bidInvoices' = DOMAIN bidInvoices /\ i \in DOMAIN bidInvoices
          /\ \A k \in DOMAIN bidInvoices : k # i => bidInvoices'[k] = bidInvoices[k]
          /\ bidInvoices'[i].status = "paid"
          /\ bidInvoices'[i].bidder = v.bidder /\ bidInvoices'[i].amount = v.amount
        BY <1>1, <1>2 DEF BidInvoicePaid, BidInvoice
    <1>5. \A j \in DOMAIN bids : ~(bids[j].via = "invoice" /\ bids[j].ref = i)
        BY <1>1 DEF LedgerInv, BidsHavePayments
    <1>6. e.via = "invoice" /\ e.ref = i /\ e.bidder = v.bidder /\ e.amount = v.amount
        OBVIOUS
    <1> HIDE DEF e, v, n
    <1>7. BidsHavePayments'
        <2> SUFFICES ASSUME NEW j \in DOMAIN bids'
                     PROVE  /\ bids'[j].via = "zap" /\ bids'[j].ref \notin disputed =>
                                  TrackedAs(bids'[j], bids'[j].ref)
                            /\ bids'[j].via = "invoice" =>
                                  /\ bids'[j].ref \in DOMAIN bidInvoices'
                                  /\ bidInvoices'[bids'[j].ref].status = "paid"
            BY <1>2 DEF BidsHavePayments, TrackedAs
        <2>1. CASE j = n
            BY <1>3, <1>4, <1>6, <2>1
        <2>2. CASE j \in DOMAIN bids
            BY <1>3, <1>4, <2>2 DEF LedgerInv, BidsHavePayments
        <2>3. QED
            BY <1>3, <2>1, <2>2
    <1>8. ZapBidsOutbid'
        <2> SUFFICES ASSUME NEW j \in DOMAIN bids', NEW k \in DOMAIN bids',
                            j < k, bids'[k].via = "zap"
                     PROVE  10 * bids'[k].amount >= 11 * bids'[j].amount
            BY DEF ZapBidsOutbid
        <2>1. k \in DOMAIN bids
            BY <1>3, <1>6
        <2>2. n \in Nat
            BY DEF n, TypeOK
        <2>3. j \in DOMAIN bids
            BY <1>3, <2>1, <2>2
        <2>4. QED
            BY <1>3, <2>1, <2>3 DEF LedgerInv, ZapBidsOutbid
    <1>9. OneBidPerPayment'
        BY <1>2, <1>3, <1>5, <1>6 DEF LedgerInv, OneBidPerPayment
    <1>10. PaidInvoiceIsBid'
        <2> SUFFICES ASSUME NEW k \in DOMAIN bidInvoices
                     PROVE  bidInvoices'[k].status = "paid" <=>
                                \E j \in DOMAIN bids' :
                                    /\ bids'[j].via = "invoice" /\ bids'[j].ref = k
                                    /\ bids'[j].bidder = bidInvoices'[k].bidder
                                    /\ bids'[j].amount = bidInvoices'[k].amount
            BY <1>4 DEF PaidInvoiceIsBid
        <2>1. CASE k = i
            BY <1>3, <1>4, <1>6, <2>1
        <2>2. CASE k # i
            BY <1>3, <1>4, <1>6, <2>2 DEF LedgerInv, PaidInvoiceIsBid
        <2>3. QED
            BY <2>1, <2>2
    <1>11. HandlersAgree'
        BY <1>2, AgreementStays DEF LedgerInv, NoNewReceipt
    <1>12. QED
        BY <1>7, <1>8, <1>9, <1>10, <1>11 DEF LedgerInv

\* A new bid invoice is pending and no bid stands for it.
LEMMA InvoiceCreatedLedger ==
    ASSUME TypeOK, LedgerInv, NEW c \in Calls, NEW i \in Invoices, BidInvoiceCreated(c, i)
    PROVE  LedgerInv'
    <1> DEFINE v == [bidder |-> calls[c].bidder, amount |-> calls[c].amount, status |-> "pending"]
    <1>1. /\ bidInvoices' = Put(bidInvoices, i, v) /\ UNCHANGED <<bids, tracked, disputed>>
          /\ calls' = [calls EXCEPT ![c] = Idle]
        BY DEF BidInvoiceCreated
    <1>2. v.status = "pending" /\ i \notin DOMAIN bidInvoices
        BY DEF BidInvoiceCreated, Fresh
    <1> HIDE DEF v
    <1>3. /\ DOMAIN bidInvoices' = DOMAIN bidInvoices \cup {i} /\ bidInvoices'[i] = v
          /\ \A k \in DOMAIN bidInvoices : bidInvoices'[k] = bidInvoices[k]
        BY <1>1, <1>2 DEF Put
    <1>4. BidsHavePayments'
        BY <1>1, <1>3 DEF LedgerInv, BidsHavePayments, TrackedAs
    <1>5. PaidInvoiceIsBid'
        <2>1. \A j \in DOMAIN bids : ~(bids[j].via = "invoice" /\ bids[j].ref = i)
            BY <1>2 DEF LedgerInv, BidsHavePayments
        <2>2. QED
            BY <1>1, <1>2, <1>3, <2>1 DEF LedgerInv, PaidInvoiceIsBid
    <1>6. NoNewReceipt
        BY <1>1, OtherCall DEF Idle
    <1>7. HandlersAgree'
        BY <1>1, <1>6, AgreementStays DEF LedgerInv
    <1>8. QED
        BY <1>1, <1>4, <1>5, <1>7
        DEF LedgerInv, ZapBidsOutbid, OneBidPerPayment

\* What ingestZapBid suspends verifies the receipt, which is dated ahead or not.
LEMMA VerificationFields ==
    ASSUME NEW op, NEW z
    PROVE  /\ Verification(op, z).op = op /\ Verification(op, z).zap = z
           /\ Verification(op, z).ahead = (z.at > now)
    BY DEF Verification

LEMMA IngestSuspends ==
    ASSUME NEW c \in Calls, NEW z \in Receipt, IngestZapBid(c, z)
    PROVE  \E op \in {"verifying", "verified"} :
              /\ calls' = [calls EXCEPT ![c] = Verification(op, z)]
              /\ op = "verified" => /\ z.hash \in DOMAIN tracked
                                    /\ tracked[z.hash] = TrackedFor(z.bidder, z.amount, TRUE)
                                    /\ UNCHANGED disputed
              /\ op = "verifying" =>
                    /\ z.hash \notin DOMAIN tracked
                    /\ disputed' = IF Contested(z.hash, z.bidder, z.amount)
                                   THEN disputed \cup {z.hash} ELSE disputed
    BY DEF IngestZapBid

\* A handler that takes up a receipt agrees with the tracker, or puts the payment in
\* dispute with those that verify another receipt of it.
LEMMA IngestLedger ==
    ASSUME TypeOK, LedgerInv, NEW c \in Calls, NEW z \in Receipt, IngestZapBid(c, z)
    PROVE  LedgerInv'
    <1>1. /\ UNCHANGED <<bids, tracked, bidInvoices>> /\ disputed \subseteq disputed'
          /\ calls[c].op = "idle"
        <2>1. UNCHANGED <<bids, tracked, bidInvoices>> /\ calls[c].op = "idle"
            BY DEF IngestZapBid, Idle
        <2>2. disputed \subseteq disputed'
            BY IngestSuspends
        <2>3. QED
            BY <2>1, <2>2
    <1>2. PICK k : /\ calls' = [calls EXCEPT ![c] = k] /\ k.zap = z
                   /\ \/ /\ k.op = "verified" /\ z.hash \in DOMAIN tracked
                         /\ tracked[z.hash] = TrackedFor(z.bidder, z.amount, TRUE)
                         /\ UNCHANGED disputed
                      \/ /\ k.op = "verifying" /\ z.hash \notin DOMAIN tracked
                         /\ disputed' = IF Contested(z.hash, z.bidder, z.amount)
                                        THEN disputed \cup {z.hash} ELSE disputed
        <2>1. PICK op \in {"verifying", "verified"} :
                 /\ calls' = [calls EXCEPT ![c] = Verification(op, z)]
                 /\ op = "verified" => /\ z.hash \in DOMAIN tracked
                                       /\ tracked[z.hash] = TrackedFor(z.bidder, z.amount, TRUE)
                                       /\ UNCHANGED disputed
                 /\ op = "verifying" =>
                       /\ z.hash \notin DOMAIN tracked
                       /\ disputed' = IF Contested(z.hash, z.bidder, z.amount)
                                      THEN disputed \cup {z.hash} ELSE disputed
            BY IngestSuspends
        <2>2. PICK k : k = Verification(op, z)
            OBVIOUS
        <2>3. k.op = op /\ k.zap = z
            BY <2>2, VerificationFields
        <2>4. QED
            BY <2>1, <2>2, <2>3
    <1>3. /\ calls'[c] = k
          /\ \A d \in Calls \ {c} : calls'[d] = calls[d]
        BY <1>2 DEF TypeOK
    <1>4. ASSUME NEW d \in Calls, NEW y, Verifies(d)', y = calls'[d].zap, y.hash \notin disputed'
          PROVE  Agreed(d, y)'
        <2>1. CASE d = c
            <3>1. y = z
                BY <1>2, <1>3, <1>4, <2>1
            <3>2. CASE k.op = "verified"
                BY <1>1, <1>2, <1>3, <2>1, <3>1, <3>2 DEF Agreed, TrackedAs, OfTerms, TrackedFor
            <3>3. CASE k.op = "verifying"
                <4>1. ~Contested(z.hash, z.bidder, z.amount) /\ z.hash \notin DOMAIN tracked
                    BY <1>2, <1>4, <3>1, <3>3
                <4>2. ~Contested(z.hash, z.bidder, z.amount)'
                    BY <1>2, <1>3, <4>1 DEF Contested, OfTerms
                <4>3. QED
                    BY <1>1, <1>3, <2>1, <3>1, <3>3, <4>1, <4>2 DEF Agreed
            <3>4. QED
                BY <1>2, <3>2, <3>3
        <2>2. CASE d # c
            <3>1. calls'[d] = calls[d] /\ Verifies(d) /\ y = calls[d].zap /\ y.hash \notin disputed
                BY <1>1, <1>3, <1>4, <2>2 DEF Verifies
            <3>2. Agreed(d, y)
                BY <3>1 DEF LedgerInv, HandlersAgree
            <3>3. ASSUME calls[d].op = "verifying", Contested(y.hash, y.bidder, y.amount)'
                  PROVE  FALSE
                <4>1. ~Contested(y.hash, y.bidder, y.amount)
                    BY <3>2, <3>3 DEF Agreed
                <4>2. /\ k.op = "verifying" /\ z.hash = y.hash
                      /\ ~OfTerms(z, y.bidder, y.amount)
                    BY <1>2, <1>3, <3>3, <4>1 DEF Contested
                <4>3. Contested(z.hash, z.bidder, z.amount)
                    BY <3>1, <3>3, <4>2 DEF Contested, OfTerms
                <4>4. z.hash \in disputed'
                    BY <1>2, <4>2, <4>3
                <4>5. QED
                    BY <1>4, <4>2, <4>4
            <3>4. QED
                BY <1>1, <3>1, <3>2, <3>3 DEF Agreed, TrackedAs
        <2>3. QED
            BY <2>1, <2>2
    <1>5. HandlersAgree'
        BY <1>4, AgreedNext
    <1>6. QED
        BY <1>1, <1>5, TrackerTouched

\* What the tracker is given for a payment that is not in dispute is what it held, and
\* what every handler that verifies a receipt of the payment was given.
LEMMA TrackedLedger ==
    ASSUME TypeOK, LedgerInv, NEW h \in Hashes, NEW v, disputed \subseteq disputed',
           UNCHANGED <<bids, bidInvoices>>,
           tracked' = Put(tracked, h, v),
           h \notin disputed' =>
              /\ h \in DOMAIN tracked => OfTerms(tracked[h], v.bidder, v.amount)
              /\ ~Contested(h, v.bidder, v.amount),
           \A d \in Calls : calls'[d].op \in {"verifying", "verified"} =>
              /\ calls[d].op \in {"verifying", "verified"} /\ calls'[d].zap = calls[d].zap
              /\ calls'[d].op = "verified" =>
                    calls[d].op = "verified" \/ OfTerms(calls[d].zap, v.bidder, v.amount)
              /\ calls'[d].op = "verified" /\ calls[d].op # "verified" => calls[d].zap.hash = h
              /\ calls'[d].op = "verifying" => calls[d].op = "verifying"
    PROVE  LedgerInv'
    <1>1. /\ DOMAIN tracked' = DOMAIN tracked \cup {h} /\ tracked'[h] = v
          /\ \A g \in DOMAIN tracked \ {h} : tracked'[g] = tracked[g]
        BY DEF Put
    <1>2. \A g \in DOMAIN tracked \ disputed' :
              /\ g \in DOMAIN tracked'
              /\ tracked'[g].bidder = tracked[g].bidder /\ tracked'[g].amount = tracked[g].amount
        BY <1>1 DEF OfTerms
    <1>3. ASSUME NEW d \in Calls, NEW y, Verifies(d)', y = calls'[d].zap, y.hash \notin disputed'
          PROVE  Agreed(d, y)'
        <2>1. Verifies(d) /\ y = calls[d].zap /\ y.hash \notin disputed
            BY <1>3 DEF Verifies
        <2>2. Agreed(d, y)
            BY <2>1 DEF LedgerInv, HandlersAgree
        <2>3. Contested(y.hash, y.bidder, y.amount)' => Contested(y.hash, y.bidder, y.amount)
            BY DEF Contested
        <2>4. calls'[d].op = "verifying" => ~Contested(y.hash, y.bidder, y.amount)'
            BY <1>3, <2>2, <2>3 DEF Agreed
        <2>5. CASE y.hash = h
            <3>1. calls[d].op = "verifying" => OfTerms(y, v.bidder, v.amount)
                BY <1>3, <2>1, <2>5 DEF Contested
            <3>2. calls[d].op = "verified" => OfTerms(y, v.bidder, v.amount)
                BY <1>3, <2>2, <2>5 DEF Agreed, TrackedAs, OfTerms
            <3>3. OfTerms(v, y.bidder, y.amount)
                BY <2>1, <3>1, <3>2 DEF Verifies, OfTerms
            <3>4. QED
                BY <1>1, <2>4, <2>5, <3>3 DEF Agreed, TrackedAs
        <2>6. CASE y.hash # h
            <3>1. calls'[d].op = "verified" => calls[d].op = "verified"
                BY <1>3, <2>1, <2>6 DEF Verifies
            <3>2. y.hash \in DOMAIN tracked' => y.hash \in DOMAIN tracked
                BY <1>1, <2>6
            <3>3. TrackedAs(y, y.hash) => TrackedAs(y, y.hash)'
                BY <1>1, <2>6 DEF TrackedAs
            <3>4. QED
                BY <2>2, <2>4, <3>1, <3>2, <3>3 DEF Agreed
        <2>7. QED
            BY <2>5, <2>6
    <1>4. HandlersAgree'
        BY <1>3, AgreedNext
    <1>5. QED
        BY <1>2, <1>4, TrackerTouched

\* The node's answer is tracked under the terms of the receipt that was verified.
LEMMA VerifyLedger ==
    ASSUME TypeOK, LedgerInv, NEW c \in Calls, VerifyZapPayment(c)
    PROVE  LedgerInv'
    <1>1. calls[c] \in ZapCall /\ calls[c].op = "verifying"
        BY CallKinds DEF VerifyZapPayment
    <1>2. PICK z : z = calls[c].zap
        OBVIOUS
    <1>3. z \in Receipt
        BY <1>1, <1>2 DEF ZapCall
    <1>4. PICK v : v = TrackedFor(z.bidder, z.amount, TRUE)
        OBVIOUS
    <1>5. v.bidder = z.bidder /\ v.amount = z.amount
        BY <1>4 DEF TrackedFor
    <1>6. tracked' = Put(tracked, z.hash, v) /\ UNCHANGED <<bids, bidInvoices, disputed>>
        BY <1>2, <1>4 DEF VerifyZapPayment
    <1>7. PICK k : k = [calls[c] EXCEPT !.op = "verified"]
        OBVIOUS
    <1>8. calls' = [calls EXCEPT ![c] = k] /\ k.op = "verified" /\ k.zap = z
        BY <1>1, <1>2, <1>7 DEF VerifyZapPayment, ZapCall
    <1>9. calls'[c] = k /\ \A d \in Calls \ {c} : calls'[d] = calls[d]
        BY <1>8 DEF TypeOK
    <1>10. z.hash \notin disputed =>
              /\ z.hash \in DOMAIN tracked => OfTerms(tracked[z.hash], v.bidder, v.amount)
              /\ ~Contested(z.hash, v.bidder, v.amount)
        BY <1>1, <1>2, <1>5 DEF LedgerInv, HandlersAgree, Agreed, Verifies, TrackedAs
    <1>11. OfTerms(z, v.bidder, v.amount)
        BY <1>5 DEF OfTerms
    <1>12. z.hash \in Hashes
        BY <1>3 DEF Receipt
    <1>13. ASSUME NEW d \in Calls, calls'[d].op \in {"verifying", "verified"}
           PROVE  /\ calls[d].op \in {"verifying", "verified"} /\ calls'[d].zap = calls[d].zap
                  /\ calls'[d].op = "verified" =>
                        calls[d].op = "verified" \/ OfTerms(calls[d].zap, v.bidder, v.amount)
                  /\ calls'[d].op = "verified" /\ calls[d].op # "verified" =>
                        calls[d].zap.hash = z.hash
                  /\ calls'[d].op = "verifying" => calls[d].op = "verifying"
        BY <1>1, <1>2, <1>8, <1>9, <1>11, <1>13
    <1>14. QED
        BY <1>6, <1>10, <1>12, <1>13, TrackedLedger

\* The steps of a zap bid keep the ledger.
LEMMA ZapLedger == TypeOK /\ LedgerInv /\ BidByZap => LedgerInv'
    <1> SUFFICES ASSUME TypeOK, LedgerInv, BidByZap PROVE LedgerInv'
        OBVIOUS
    <1>1. ASSUME NEW c \in Calls, RejectZapBid(c)
          PROVE  LedgerInv'
        <2>1. NoNewReceipt
            BY <1>1, OtherCall DEF RejectZapBid, Idle
        <2>2. QED
            BY <1>1, <2>1, LedgerUntouched DEF RejectZapBid, bidding
    <1>2. QED
        BY <1>1, IngestLedger, VerifyLedger, RecordZapLedger DEF BidByZap

\* So do the steps of the tracker: terms that change put the payment in dispute.
LEMMA TrackLedger == TypeOK /\ LedgerInv /\ Track => LedgerInv'
    <1> SUFFICES ASSUME TypeOK, LedgerInv, Track PROVE LedgerInv'
        OBVIOUS
    <1>1. ASSUME NEW h \in Hashes, NEW b \in Bidders, NEW a \in Amounts, NEW paid \in BOOLEAN,
                 TrackInvoice(h, b, a, paid)
          PROVE  LedgerInv'
        <2>1. PICK v : v = TrackedFor(b, a, paid)
            OBVIOUS
        <2>2. v.bidder = b /\ v.amount = a
            BY <2>1 DEF TrackedFor
        <2>3. /\ tracked' = Put(tracked, h, v) /\ UNCHANGED <<bids, bidInvoices, calls>>
              /\ disputed \subseteq disputed'
            BY <1>1, <2>1 DEF TrackInvoice
        <2>4. h \notin disputed' =>
                /\ h \in DOMAIN tracked => OfTerms(tracked[h], v.bidder, v.amount)
                /\ ~Contested(h, v.bidder, v.amount)
            BY <1>1, <2>2 DEF TrackInvoice
        <2>5. QED
            BY <2>3, <2>4, TrackedLedger
    <1>2. ASSUME NEW h \in Hashes, MarkInvoicePaid(h)
          PROVE  LedgerInv'
        <2>1. /\ h \in DOMAIN tracked /\ UNCHANGED <<bids, bidInvoices, calls, disputed>>
              /\ tracked' = [tracked EXCEPT ![h].paid = TRUE]
            BY <1>2 DEF MarkInvoicePaid
        <2>2. \A g \in DOMAIN tracked : tracked[g] \in Tracked
            BY DEF TypeOK, MapOf
        <2>3. /\ DOMAIN tracked' = DOMAIN tracked
              /\ \A g \in DOMAIN tracked : /\ tracked'[g].bidder = tracked[g].bidder
                                           /\ tracked'[g].amount = tracked[g].amount
            BY <2>1, <2>2 DEF Tracked
        <2>4. HandlersAgree'
            BY <2>1, <2>3
            DEF LedgerInv, HandlersAgree, Agreed, Verifies, Contested, TrackedAs, OfTerms
        <2>5. QED
            BY <2>1, <2>3, <2>4, TrackerTouched
    <1>3. QED
        BY <1>1, <1>2 DEF Track

\* What settleAuction suspends is a settlement.
LEMMA SettleSuspends ==
    ASSUME NEW c \in Calls, SettleAuction(c)
    PROVE  \/ UNCHANGED calls
           \/ \E k : k.op = "settle" /\ calls' = [calls EXCEPT ![c] = k]
    <1>1. ASSUME NEW w,
                 calls' = [calls EXCEPT ![c] =
                    [op |-> "settle", on |-> current,
                     bidder |-> bids[w].bidder, amount |-> bids[w].amount]]
          PROVE  \E k : k.op = "settle" /\ calls' = [calls EXCEPT ![c] = k]
        <2> DEFINE k == [op |-> "settle", on |-> current,
                         bidder |-> bids[w].bidder, amount |-> bids[w].amount]
        <2>1. k.op = "settle" /\ calls' = [calls EXCEPT ![c] = k]
            BY <1>1
        <2> HIDE DEF k
        <2>2. QED
            BY <2>1
    <1>2. QED
        BY <1>1 DEF SettleAuction

\* What processSecondChance suspends is a second chance.
LEMMA ChanceSuspends ==
    ASSUME NEW c \in Calls, ProcessSecondChance(c)
    PROVE  \/ UNCHANGED calls
           \/ \E k : k.op = "chance" /\ calls' = [calls EXCEPT ![c] = k]
    <1>1. ASSUME NEW n, NEW on, NEW array,
                 calls' = [calls EXCEPT ![c] =
                    [op |-> "chance", on |-> on, bidder |-> bids[n].bidder,
                     amount |-> bids[n].amount, at |-> now, array |-> array]]
          PROVE  \E k : k.op = "chance" /\ calls' = [calls EXCEPT ![c] = k]
        <2> DEFINE k == [op |-> "chance", on |-> on, bidder |-> bids[n].bidder,
                         amount |-> bids[n].amount, at |-> now, array |-> array]
        <2>1. k.op = "chance" /\ calls' = [calls EXCEPT ![c] = k]
            BY <1>1
        <2> HIDE DEF k
        <2>2. QED
            BY <2>1
    <1>2. QED
        BY <1>1 DEF ProcessSecondChance

\* Settlement, second chance, payment of a settlement and the administrator do not
\* touch the ledger.
LEMMA SellingLedger ==
    TypeOK /\ LedgerInv /\ (Settle \/ SecondChance \/ Edit \/ CancelAuction
                           \/ \E i \in Invoices : SettlementPaid(i)) => LedgerInv'
    <1> SUFFICES ASSUME TypeOK, LedgerInv,
                        Settle \/ SecondChance \/ Edit \/ CancelAuction
                            \/ \E i \in Invoices : SettlementPaid(i)
                 PROVE  LedgerInv'
        OBVIOUS
    <1>1. Idle.op = "idle"
        BY DEF Idle
    <1>2. UNCHANGED calls => NoNewReceipt
        BY DEF NoNewReceipt
    <1>3. CASE Settle
        <2>1. UNCHANGED <<bids, tracked, bidInvoices, disputed>>
            BY <1>3 DEF Settle, SettleAuction, SettlementCreated, bidding
        <2>2. ASSUME NEW c \in Calls, SettleAuction(c)
              PROVE  NoNewReceipt
            BY <1>2, <2>2, SettleSuspends, OtherCall
        <2>3. ASSUME NEW c \in Calls, NEW i \in Invoices, SettlementCreated(c, i)
              PROVE  NoNewReceipt
            BY <1>1, <2>3, OtherCall DEF SettlementCreated
        <2>4. QED
            BY <1>3, <2>1, <2>2, <2>3, LedgerUntouched DEF Settle
    <1>4. CASE SecondChance
        <2>1. UNCHANGED <<bids, tracked, bidInvoices, disputed>>
            BY <1>4 DEF SecondChance, ProcessSecondChance, SecondChanceCreated, bidding
        <2>2. ASSUME NEW c \in Calls, ProcessSecondChance(c)
              PROVE  NoNewReceipt
            BY <1>2, <2>2, ChanceSuspends, OtherCall
        <2>3. ASSUME NEW c \in Calls, NEW i \in Invoices, SecondChanceCreated(c, i)
              PROVE  NoNewReceipt
            BY <1>1, <2>3, OtherCall DEF SecondChanceCreated
        <2>4. QED
            BY <1>4, <2>1, <2>2, <2>3, LedgerUntouched DEF SecondChance
    <1>5. CASE Edit \/ CancelAuction
        <2>1. UNCHANGED <<bids, tracked, bidInvoices, disputed, calls>>
            BY <1>5 DEF Edit, UpdateAuction, ExtendAuction, CancelAuction, Replace, bidding
        <2>2. QED
            BY <1>2, <2>1, LedgerUntouched
    <1>6. CASE \E i \in Invoices : SettlementPaid(i)
        <2>1. UNCHANGED <<bids, tracked, bidInvoices, disputed, calls>>
            BY <1>6 DEF SettlementPaid, bidding
        <2>2. QED
            BY <1>2, <2>1, LedgerUntouched
    <1>7. QED
        BY <1>3, <1>4, <1>5, <1>6

\* The ledger invariant is inductive.
LEMMA LedgerStep == TypeOK /\ LedgerInv /\ [Next]_vars => LedgerInv'
    <1> SUFFICES ASSUME TypeOK, LedgerInv, [Next]_vars PROVE LedgerInv'
        OBVIOUS
    <1>1. CASE BidByInvoice
        <2>1. ASSUME NEW c \in Calls, NEW b \in Bidders, NEW a \in Amounts, CreateBidInvoice(c, b, a)
              PROVE  LedgerInv'
            <3> DEFINE k == [op |-> "bidInvoice", bidder |-> b, amount |-> a]
            <3>1. k.op = "bidInvoice" /\ calls' = [calls EXCEPT ![c] = k]
                BY <2>1 DEF CreateBidInvoice
            <3> HIDE DEF k
            <3>2. NoNewReceipt
                BY <3>1, OtherCall
            <3>3. QED
                BY <2>1, <3>2, LedgerUntouched DEF CreateBidInvoice, bidding
        <2>2. QED
            BY <1>1, <2>1, InvoiceCreatedLedger, InvoicePaidLedger DEF BidByInvoice
    <1>2. ASSUME NEW c \in Calls, CreateInvoiceFails(c)
          PROVE  LedgerInv'
        <2>1. NoNewReceipt
            BY <1>2, OtherCall DEF CreateInvoiceFails, Idle
        <2>2. QED
            BY <1>2, <2>1, LedgerUntouched DEF CreateInvoiceFails, bidding
    <1>3. CASE Tick \/ UNCHANGED vars
        <2>1. UNCHANGED <<bids, tracked, bidInvoices, disputed, calls>>
            BY <1>3 DEF Tick, vars, bidding
        <2>2. QED
            BY <2>1, LedgerUntouched DEF NoNewReceipt
    <1>4. QED
        BY <1>1, <1>2, <1>3, ZapLedger, TrackLedger, SellingLedger DEF Next

\* The ledger invariant holds of the service.
THEOREM LedgerCorrect == Spec => []LedgerInv
    <1>1. Init => LedgerInv
        BY InitLedger
    <1>2. TypeOK /\ LedgerInv /\ [Next]_vars => LedgerInv'
        BY LedgerStep
    <1>3. QED
        BY <1>1, <1>2, TypeCorrect, PTL DEF Spec

\* However many handlers are suspended and however often receipts and payment notices are
\* repeated, with terms of their own or not, a payment whose terms never were in dispute
\* is at most one bid.
THEOREM NoPaymentBidsTwice == Spec => []OneBidPerPayment
    <1>1. LedgerInv => OneBidPerPayment
        BY DEF LedgerInv
    <1>2. QED
        BY <1>1, LedgerCorrect, PTL

\* A bid invoice has been paid exactly when its bid is in the ledger.
THEOREM NoPaidInvoiceIsLost == Spec => []PaidInvoiceIsBid
    <1>1. LedgerInv => PaidInvoiceIsBid
        BY DEF LedgerInv
    <1>2. QED
        BY <1>1, LedgerCorrect, PTL

\* A zap bid is ten percent above all bids before it.
THEOREM ZapBidsRise == Spec => []ZapBidsOutbid
    <1>1. LedgerInv => ZapBidsOutbid
        BY DEF LedgerInv
    <1>2. QED
        BY <1>1, LedgerCorrect, PTL

(***************************************************************************)
(* The service implements the ledger                                       *)
(***************************************************************************)

\* Recording a bid by zap is a step of the ledger.
LEMMA RecordZapIsRecord ==
    ASSUME TypeOK, LedgerInv, LedgerInv', NEW c \in Calls, RecordZapBid(c)
    PROVE  Ledger!Next
    <1> DEFINE z == calls[c].zap
               e == [via |-> "zap", ref |-> z.hash, bidder |-> z.bidder,
                     amount |-> z.amount, at |-> z.at, ahead |-> calls[c].ahead]
               n == Len(bids) + 1
    <1>1. e \in Bid
        BY CallKinds DEF RecordZapBid, ZapCall, Receipt, Bid
    <1>2. bids' = Append(bids, e) /\ UNCHANGED disputed
        BY DEF RecordZapBid
    <1>3. /\ Len(bids') = n /\ bids'[n] = e /\ DOMAIN bids' = DOMAIN bids \cup {n}
          /\ n \notin DOMAIN bids
          /\ \A i \in DOMAIN bids : bids'[i] = bids[i] /\ i < n
        BY <1>1, <1>2 DEF TypeOK
    <1>4. e.via = "zap"
        OBVIOUS
    <1> HIDE DEF e, n
    <1>5. Ledger!Unseen(e) \/ e.ref \in disputed
        BY <1>2, <1>3 DEF LedgerInv, OneBidPerPayment, Ledger!Unseen
    <1>6. Ledger!Outbids(e)
        BY <1>3, <1>4 DEF LedgerInv, ZapBidsOutbid, Ledger!Outbids
    <1>7. QED
        BY <1>2, <1>3, <1>4, <1>5, <1>6 DEF Ledger!Next, Ledger!Record, n

\* So is recording the bid of a paid invoice.
LEMMA InvoicePaidIsRecord ==
    ASSUME TypeOK, LedgerInv, LedgerInv', NEW i \in Invoices, BidInvoicePaid(i)
    PROVE  Ledger!Next
    <1> DEFINE v == bidInvoices[i]
               e == [via |-> "invoice", ref |-> i, bidder |-> v.bidder,
                     amount |-> v.amount, at |-> now, ahead |-> FALSE]
               n == Len(bids) + 1
    <1>1. e \in Bid
        BY DEF BidInvoicePaid, TypeOK, MapOf, BidInvoice, Bid
    <1>2. bids' = Append(bids, e) /\ UNCHANGED disputed
        BY DEF BidInvoicePaid
    <1>3. /\ Len(bids') = n /\ bids'[n] = e /\ DOMAIN bids' = DOMAIN bids \cup {n}
          /\ n \notin DOMAIN bids
          /\ \A j \in DOMAIN bids : bids'[j] = bids[j]
        BY <1>1, <1>2 DEF TypeOK
    <1>4. e.via = "invoice"
        OBVIOUS
    <1> HIDE DEF e, n
    <1>5. Ledger!Unseen(e)
        BY <1>3, <1>4 DEF LedgerInv, OneBidPerPayment, Ledger!Unseen
    <1>6. QED
        BY <1>2, <1>3, <1>4, <1>5 DEF Ledger!Next, Ledger!Record, n

\* Every step of the service is a step of the ledger: one that leaves the bids alone at
\* most adds to the payments in dispute.
LEMMA StepIsLedgerStep ==
    ASSUME TypeOK, LedgerInv, LedgerInv', [Next]_vars
    PROVE  Ledger!Next
    <1> SUFFICES \/ Ledger!Next
                 \/ UNCHANGED bids /\ disputed \subseteq disputed'
        BY DEF Ledger!Next, Ledger!Dispute
    <1>1. CASE BidByZap
        <2>1. CASE \E c \in Calls : RecordZapBid(c)
            BY <2>1, RecordZapIsRecord
        <2>2. CASE ~\E c \in Calls : RecordZapBid(c)
            BY <1>1, <2>2 DEF BidByZap, IngestZapBid, VerifyZapPayment, RejectZapBid, bidding
        <2>3. QED
            BY <2>1, <2>2
    <1>2. CASE BidByInvoice
        <2>1. CASE \E i \in Invoices : BidInvoicePaid(i)
            BY <2>1, InvoicePaidIsRecord
        <2>2. CASE ~\E i \in Invoices : BidInvoicePaid(i)
            BY <1>2, <2>2 DEF BidByInvoice, CreateBidInvoice, BidInvoiceCreated, bidding
        <2>3. QED
            BY <2>1, <2>2
    <1>3. CASE Track
        BY <1>3 DEF Track, TrackInvoice, MarkInvoicePaid
    <1>4. CASE Settle
        BY <1>4 DEF Settle, SettleAuction, SettlementCreated, bidding
    <1>5. CASE SecondChance
        BY <1>5 DEF SecondChance, ProcessSecondChance, SecondChanceCreated, bidding
    <1>6. CASE Edit \/ CancelAuction
        BY <1>6 DEF Edit, UpdateAuction, ExtendAuction, CancelAuction, Replace, bidding
    <1>7. CASE \E i \in Invoices : SettlementPaid(i)
        BY <1>7 DEF SettlementPaid, bidding
    <1>8. CASE \E c \in Calls : CreateInvoiceFails(c)
        BY <1>8 DEF CreateInvoiceFails, bidding
    <1>9. CASE Tick \/ UNCHANGED vars
        BY <1>9 DEF Tick, vars, bidding
    <1>10. QED
        BY <1>1, <1>2, <1>3, <1>4, <1>5, <1>6, <1>7, <1>8, <1>9 DEF Next

\* The auction service implements the ledger of bids.
THEOREM AuctionKeepsALedger == Spec => BidsAreALedger
    <1>1. Init => Ledger!Init
        BY DEF Init, Ledger!Init
    <1>2. TypeOK /\ LedgerInv /\ LedgerInv' /\ [Next]_vars => [Ledger!Next]_<<bids, disputed>>
        BY StepIsLedgerStep
    <1>3. QED
        BY <1>1, <1>2, TypeCorrect, LedgerCorrect, PTL DEF Spec, BidsAreALedger, Ledger!Spec

(***************************************************************************)
(* The listing objects and the bids, across a step                         *)
(***************************************************************************)

\* A step is one of the service, the payment of a settlement, or neither: the cases
\* in which listings, settlements and suspended handlers can change.
Quiet == UNCHANGED <<listing, current, edits, settlements>>

\* Bidding, tracking, a refused invoice and the clock leave the sale alone, except
\* that a zap bid may move the end of a listing.
LEMMA QuietSteps ==
    ASSUME TypeOK, [Next]_vars,
           ~Settle, ~SecondChance, ~("edit" \in Ops /\ Edit), ~("cancel" \in Ops /\ CancelAuction),
           ~\E i \in Invoices : SettlementPaid(i), ~\E c \in Calls : RecordZapBid(c)
    PROVE  Quiet
    <1>1. CASE BidByZap
        BY <1>1 DEF BidByZap, IngestZapBid, VerifyZapPayment, RejectZapBid,
                    selling, Quiet
    <1>2. CASE Track \/ BidByInvoice
        BY <1>2 DEF Track, TrackInvoice, MarkInvoicePaid, BidByInvoice, CreateBidInvoice,
                    BidInvoiceCreated, BidInvoicePaid, selling, Quiet
    <1>3. CASE (\E c \in Calls : CreateInvoiceFails(c)) \/ Tick \/ UNCHANGED vars
        BY <1>3 DEF CreateInvoiceFails, Tick, vars, selling, Quiet
    <1>4. QED
        BY <1>1, <1>2, <1>3 DEF Next

\* A zap bid changes one listing object, and of it the end alone.
LEMMA RecordedListing ==
    ASSUME TypeOK, NEW c \in Calls, RecordZapBid(c)
    PROVE  /\ UNCHANGED <<current, edits, settlements>>
           /\ \A g \in 0..edits :
                 /\ listing'[g].state = listing[g].state
                 /\ listing'[g].reserve = listing[g].reserve
                 /\ listing'[g].endsAt >= listing[g].endsAt
    <1> DEFINE l == listing[calls[c].on]
    <1>1. calls[c].on \in 0..edits
        BY CallKinds DEF RecordZapBid
    <1>2. \A g \in 0..edits : listing[g] \in Listing
        BY DEF TypeOK
    <1>3. \/ listing' = listing
          \/ listing' = [listing EXCEPT ![calls[c].on].endsAt = @ + SnipeExtension]
        BY DEF RecordZapBid
    <1>4. UNCHANGED <<current, edits, settlements>>
        BY DEF RecordZapBid, selling
    <1>5. ASSUME NEW g \in 0..edits
          PROVE  /\ listing'[g].state = listing[g].state
                 /\ listing'[g].reserve = listing[g].reserve
                 /\ listing'[g].endsAt >= listing[g].endsAt
        <2>1. listing[g].endsAt \in Nat /\ SnipeExtension \in Nat
            BY <1>2 DEF Listing
        <2>2. CASE listing' = listing
            BY <2>1, <2>2
        <2>3. CASE listing' = [listing EXCEPT ![calls[c].on].endsAt = @ + SnipeExtension]
            <3>1. listing'[g] = IF g = calls[c].on
                                THEN [listing[g] EXCEPT !.endsAt = @ + SnipeExtension]
                                ELSE listing[g]
                BY <1>1, <2>3 DEF TypeOK
            <3>2. listing[g] \in Listing
                BY <1>2
            <3>3. QED
                BY <2>1, <3>1, <3>2 DEF Listing
        <2>4. QED
            BY <1>3, <2>2, <2>3
    <1>6. QED
        BY <1>4, <1>5

\* No step changes the reserve of a listing object, and only the payment of a
\* settlement makes one SETTLED.
KeptListing(g) ==
    /\ listing'[g].reserve = listing[g].reserve
    /\ listing'[g].state = "SETTLED" => listing[g].state = "SETTLED"

LEMMA OneListingWritten ==
    ASSUME TypeOK, NEW o \in 0..edits, NEW l, l.reserve = listing[o].reserve,
           l.state = "SETTLED" => listing[o].state = "SETTLED",
           listing' = [listing EXCEPT ![o] = l]
    PROVE  \A g \in 0..edits : KeptListing(g)
    BY DEF TypeOK, KeptListing

LEMMA SettleKeeps ==
    ASSUME TypeOK, Settle
    PROVE  UNCHANGED edits /\ \A g \in 0..edits : KeptListing(g)
    <1>1. ASSUME NEW c \in Calls, SettleAuction(c)
          PROVE  UNCHANGED edits /\ \A g \in 0..edits : KeptListing(g)
        <2> DEFINE l == [listing[current] EXCEPT !.state = "ENDED"]
        <2>1. listing[current] \in Listing /\ current \in 0..edits
            BY DEF TypeOK
        <2>2. l.reserve = listing[current].reserve /\ l.state = "ENDED"
            BY <2>1 DEF Listing
        <2>3. UNCHANGED edits /\ (UNCHANGED listing \/ listing' = [listing EXCEPT ![current] = l])
            BY <1>1 DEF SettleAuction
        <2> HIDE DEF l
        <2>4. QED
            BY <2>1, <2>2, <2>3, OneListingWritten DEF KeptListing
    <1>2. ASSUME NEW c \in Calls, NEW i \in Invoices, SettlementCreated(c, i)
          PROVE  UNCHANGED edits /\ \A g \in 0..edits : KeptListing(g)
        <2> DEFINE k == calls[c]
                   l == [Awarded(listing[k.on], k.bidder, k.amount, i) EXCEPT !.state = "ENDED"]
        <2>1. k.on \in 0..edits
            BY <1>2, CallKinds DEF SettlementCreated
        <2>2. listing[k.on] \in Listing
            BY <2>1 DEF TypeOK
        <2>3. l.reserve = listing[k.on].reserve /\ l.state = "ENDED"
            BY <2>2 DEF Listing, Awarded
        <2>4. UNCHANGED edits /\ listing' = [listing EXCEPT ![k.on] = l]
            BY <1>2 DEF SettlementCreated
        <2> HIDE DEF l
        <2>5. QED
            BY <2>1, <2>3, <2>4, OneListingWritten
    <1>3. QED
        BY <1>1, <1>2 DEF Settle

LEMMA SecondChanceKeeps ==
    ASSUME TypeOK, SecondChance
    PROVE  UNCHANGED edits /\ \A g \in 0..edits : KeptListing(g)
    <1>1. ASSUME NEW c \in Calls, ProcessSecondChance(c)
          PROVE  UNCHANGED edits /\ \A g \in 0..edits : KeptListing(g)
        <2> DEFINE l == [listing[current] EXCEPT !.state = "FAILED"]
        <2>1. listing[current] \in Listing /\ current \in 0..edits
            BY DEF TypeOK
        <2>2. l.reserve = listing[current].reserve /\ l.state = "FAILED"
            BY <2>1 DEF Listing
        <2>3. UNCHANGED edits /\ (UNCHANGED listing \/ listing' = [listing EXCEPT ![current] = l])
            BY <1>1 DEF ProcessSecondChance
        <2> HIDE DEF l
        <2>4. QED
            BY <2>1, <2>2, <2>3, OneListingWritten DEF KeptListing
    <1>2. ASSUME NEW c \in Calls, NEW i \in Invoices, SecondChanceCreated(c, i)
          PROVE  UNCHANGED edits /\ \A g \in 0..edits : KeptListing(g)
        <2> DEFINE k == calls[c]
                   l == Awarded(listing[k.on], k.bidder, k.amount, i)
        <2>1. k.on \in 0..edits
            BY <1>2, CallKinds DEF SecondChanceCreated
        <2>2. listing[k.on] \in Listing
            BY <2>1 DEF TypeOK
        <2>3. l.reserve = listing[k.on].reserve /\ l.state = listing[k.on].state
            BY <2>2 DEF Listing, Awarded
        <2>4. UNCHANGED edits /\ listing' = [listing EXCEPT ![k.on] = l]
            BY <1>2 DEF SecondChanceCreated
        <2> HIDE DEF l
        <2>5. QED
            BY <2>1, <2>3, <2>4, OneListingWritten
    <1>3. QED
        BY <1>1, <1>2 DEF SecondChance

\* An administrator adds a listing object, SETTLED only when the current one is, and
\* changes none.
LEMMA EditKeeps ==
    ASSUME TypeOK, Edit \/ CancelAuction
    PROVE  /\ edits' = edits + 1 /\ UNCHANGED <<bids, settlements, calls>>
           /\ \A g \in 0..edits : KeptListing(g)
           /\ listing'[edits + 1].state = "SETTLED" => listing[current].state = "SETTLED"
    <1>1. ASSUME NEW copy, Replace(copy), copy.state \in {Snapshot.state, "FAILED"}
          PROVE  /\ edits' = edits + 1 /\ UNCHANGED <<bids, settlements, calls>>
                 /\ \A g \in 0..edits : listing'[g] = listing[g]
                 /\ listing'[edits + 1].state \in {Snapshot.state, "FAILED"}
        BY <1>1 DEF Replace, Put, TypeOK, bidding, selling
    <1>2. Snapshot \in Listing
        BY SnapshotType
    <1>3. listing[current] \in Listing
        BY DEF TypeOK
    <1>4. Snapshot.state = "SETTLED" => listing[current].state = "SETTLED"
        BY <1>3 DEF Snapshot, StateOf, Listing
    <1>5. ASSUME NEW s, NEW e, NEW a, NEW r, UpdateAuction(s, e, a, r)
          PROVE  \E copy : Replace(copy) /\ copy.state \in {Snapshot.state, "FAILED"}
        <2> DEFINE copy == [Snapshot EXCEPT !.startsAt = s, !.endsAt = e,
                                            !.starting = a, !.reserve = r]
        <2>1. copy.state = Snapshot.state
            BY <1>2 DEF Listing
        <2>2. QED
            BY <1>5, <2>1 DEF UpdateAuction
    <1>6. ASSUME NEW d, ExtendAuction(d)
          PROVE  \E copy : Replace(copy) /\ copy.state \in {Snapshot.state, "FAILED"}
        <2> DEFINE copy == [Snapshot EXCEPT !.endsAt = @ + d]
        <2>1. copy.state = Snapshot.state
            BY <1>2 DEF Listing
        <2>2. QED
            BY <1>6, <2>1 DEF ExtendAuction
    <1>7. ASSUME CancelAuction
          PROVE  \E copy : Replace(copy) /\ copy.state \in {Snapshot.state, "FAILED"}
        <2> DEFINE copy == [Snapshot EXCEPT !.state = "FAILED"]
        <2>1. copy.state = "FAILED"
            BY <1>2 DEF Listing
        <2>2. QED
            BY <1>7, <2>1 DEF CancelAuction
    <1>8. \E copy : Replace(copy) /\ copy.state \in {Snapshot.state, "FAILED"}
        BY <1>5, <1>6, <1>7 DEF Edit
    <1>9. QED
        BY <1>1, <1>4, <1>8 DEF KeptListing

\* The payment of a settlement changes no reserve.
LEMMA PaymentKeeps ==
    ASSUME TypeOK, NEW i \in Invoices, SettlementPaid(i)
    PROVE  /\ UNCHANGED <<edits, bids, calls>>
           /\ \A g \in 0..edits : listing'[g].reserve = listing[g].reserve
           /\ settlements'[i].status = "paid" /\ i \in DOMAIN settlements'
    <1> DEFINE s == settlements[i]
               l == [listing[current] EXCEPT !.state = "SETTLED", !.winner = s.bidder,
                                             !.amount = s.amount]
    <1>1. listing[current] \in Listing /\ current \in 0..edits
        BY DEF TypeOK
    <1>2. l.reserve = listing[current].reserve
        BY <1>1 DEF Listing
    <1>3. listing' = [listing EXCEPT ![current] = l] /\ UNCHANGED <<edits, bids, calls>>
        BY DEF SettlementPaid, bidding
    <1>4. settlements' = [settlements EXCEPT ![i].status = "paid"] /\ i \in DOMAIN settlements
        BY DEF SettlementPaid
    <1>5. settlements[i] \in SettlementInvoice
        BY <1>4 DEF TypeOK, MapOf
    <1> HIDE DEF l
    <1>6. settlements'[i].status = "paid" /\ i \in DOMAIN settlements'
        BY <1>4, <1>5 DEF SettlementInvoice
    <1>7. \A g \in 0..edits : listing'[g].reserve = listing[g].reserve
        BY <1>1, <1>2, <1>3 DEF TypeOK
    <1>8. QED
        BY <1>3, <1>6, <1>7

(***************************************************************************)
(* Settlements, across a step                                              *)
(***************************************************************************)

\* A settlement is there for good: who pays it, what it asks and why stay as they
\* were issued, and once paid it is never expired or pending again.
SameTerms(s, t) ==
    /\ s.bidder = t.bidder /\ s.amount = t.amount /\ s.source = t.source
    /\ t.status = "paid" => s.status = "paid"
SettlementStays(i) ==
    i \in DOMAIN settlements' /\ SameTerms(settlements'[i], settlements[i])

\* A new settlement is issued to the bidder, and for the amount, that a suspended
\* handler holds.
IssuedTo(i) ==
    \E c \in Calls :
        /\ calls[c].op \in {"settle", "chance"}
        /\ settlements'[i].bidder = calls[c].bidder
        /\ settlements'[i].amount = calls[c].amount
        /\ settlements'[i].source = "winner" => calls[c].op = "settle"

LEMMA NewSettlement ==
    ASSUME TypeOK, NEW c \in Calls, NEW i \in Invoices, NEW t, NEW src,
           settlements' = Put(settlements, i,
                              Settlement(calls[c].bidder, calls[c].amount, t, src)),
           i \notin DOMAIN settlements, calls[c].op \in {"settle", "chance"},
           src = "winner" => calls[c].op = "settle"
    PROVE  /\ \A j \in DOMAIN settlements : SettlementStays(j)
           /\ \A j \in DOMAIN settlements' : j \in DOMAIN settlements \/ IssuedTo(j)
    <1> DEFINE v == Settlement(calls[c].bidder, calls[c].amount, t, src)
    <1>1. v.bidder = calls[c].bidder /\ v.amount = calls[c].amount /\ v.source = src
        BY DEF Settlement
    <1> HIDE DEF v
    <1>2. /\ DOMAIN settlements' = DOMAIN settlements \cup {i} /\ settlements'[i] = v
          /\ \A j \in DOMAIN settlements : settlements'[j] = settlements[j]
        BY DEF Put, v
    <1>3. IssuedTo(i)
        BY <1>1, <1>2 DEF IssuedTo
    <1>4. QED
        BY <1>2, <1>3 DEF SettlementStays, SameTerms

LEMMA SettlementStep ==
    ASSUME TypeOK, [Next]_vars
    PROVE  /\ \A j \in DOMAIN settlements : SettlementStays(j)
           /\ \A j \in DOMAIN settlements' : j \in DOMAIN settlements \/ IssuedTo(j)
    <1>1. ASSUME UNCHANGED settlements
          PROVE  /\ \A j \in DOMAIN settlements : SettlementStays(j)
                 /\ \A j \in DOMAIN settlements' : j \in DOMAIN settlements \/ IssuedTo(j)
        BY <1>1 DEF SettlementStays, SameTerms
    <1>2. ASSUME NEW c \in Calls, NEW i \in Invoices, SettlementCreated(c, i)
          PROVE  /\ \A j \in DOMAIN settlements : SettlementStays(j)
                 /\ \A j \in DOMAIN settlements' : j \in DOMAIN settlements \/ IssuedTo(j)
        <2>1. i \notin DOMAIN settlements /\ calls[c].op = "settle"
            BY <1>2 DEF SettlementCreated, Fresh
        <2>2. settlements' = Put(settlements, i,
                Settlement(calls[c].bidder, calls[c].amount, now + WinnerWindow, "winner"))
            BY <1>2 DEF SettlementCreated
        <2>3. QED
            BY <2>1, <2>2, NewSettlement
    <1>3. ASSUME NEW c \in Calls, NEW i \in Invoices, SecondChanceCreated(c, i)
          PROVE  /\ \A j \in DOMAIN settlements : SettlementStays(j)
                 /\ \A j \in DOMAIN settlements' : j \in DOMAIN settlements \/ IssuedTo(j)
        <2>1. i \notin DOMAIN settlements /\ calls[c].op = "chance"
            BY <1>3 DEF SecondChanceCreated, Fresh
        <2> DEFINE src == "second_chance"
        <2>2. settlements' = Put(settlements, i,
                Settlement(calls[c].bidder, calls[c].amount, calls[c].at + ChanceWindow, src))
            BY <1>3 DEF SecondChanceCreated
        <2>3. src # "winner" /\ calls[c].op \in {"settle", "chance"}
            BY <2>1
        <2> HIDE DEF src
        <2>4. QED
            BY <2>1, <2>2, <2>3, NewSettlement
    <1>4. ASSUME NEW c \in Calls, ProcessSecondChance(c)
          PROVE  /\ \A j \in DOMAIN settlements : SettlementStays(j)
                 /\ \A j \in DOMAIN settlements' : j \in DOMAIN settlements \/ IssuedTo(j)
        <2>1. settlements' = [j \in DOMAIN settlements |->
                IF j \in Standing(listing[current]) THEN Expire(settlements[j])
                ELSE settlements[j]]
            BY <1>4 DEF ProcessSecondChance
        <2>2. ASSUME NEW j \in DOMAIN settlements
              PROVE  SettlementStays(j)
            <3>1. settlements[j] \in SettlementInvoice
                BY DEF TypeOK, MapOf
            <3>2. SameTerms(Expire(settlements[j]), settlements[j])
                BY <3>1 DEF Expire, SameTerms, SettlementInvoice
            <3>3. QED
                BY <2>1, <3>2 DEF SettlementStays, SameTerms
        <2>3. DOMAIN settlements' = DOMAIN settlements
            BY <2>1
        <2>4. QED
            BY <2>2, <2>3
    <1>5. ASSUME NEW i \in Invoices, SettlementPaid(i)
          PROVE  /\ \A j \in DOMAIN settlements : SettlementStays(j)
                 /\ \A j \in DOMAIN settlements' : j \in DOMAIN settlements \/ IssuedTo(j)
        <2>1. settlements' = [settlements EXCEPT ![i].status = "paid"]
            BY <1>5 DEF SettlementPaid
        <2>2. \A j \in DOMAIN settlements : settlements[j] \in SettlementInvoice
            BY DEF TypeOK, MapOf
        <2>3. QED
            BY <2>1, <2>2 DEF SettlementStays, SameTerms, SettlementInvoice
    <1>6. CASE Edit \/ CancelAuction
        BY <1>1, <1>6, EditKeeps
    <1>7. CASE \E c \in Calls : RecordZapBid(c)
        BY <1>1, <1>7, RecordedListing
    <1>8. CASE Settle
        <2>1. ASSUME NEW c \in Calls, SettleAuction(c) PROVE UNCHANGED settlements
            BY <2>1 DEF SettleAuction, selling
        <2>2. QED
            BY <1>1, <1>2, <1>8, <2>1 DEF Settle
    <1>9. CASE SecondChance
        BY <1>3, <1>4, <1>9 DEF SecondChance
    <1>10. QED
        BY <1>1, <1>5, <1>6, <1>7, <1>8, <1>9, QuietSteps DEF Quiet

(***************************************************************************)
(* SETTLED means paid                                                      *)
(***************************************************************************)

\* A step that makes or keeps a listing object SETTLED finds one SETTLED already, or
\* is the payment of a settlement.
LEMMA SettledComesFromSettled ==
    ASSUME TypeOK, [Next]_vars, ~\E i \in Invoices : SettlementPaid(i),
           NEW g \in 0..edits', listing'[g].state = "SETTLED"
    PROVE  \E h \in 0..edits : listing[h].state = "SETTLED"
    <1>1. edits \in Nat /\ current \in 0..edits
        BY DEF TypeOK
    <1>2. CASE Edit \/ CancelAuction
        <2>1. g \in 0..edits \/ g = edits + 1
            BY <1>1, <1>2, EditKeeps
        <2>2. QED
            BY <1>1, <1>2, <2>1, EditKeeps DEF KeptListing
    <1>3. CASE Settle
        BY <1>3, SettleKeeps DEF KeptListing
    <1>4. CASE SecondChance
        BY <1>4, SecondChanceKeeps DEF KeptListing
    <1>5. CASE \E c \in Calls : RecordZapBid(c)
        BY <1>5, RecordedListing
    <1>6. QED
        BY <1>2, <1>3, <1>4, <1>5, QuietSteps DEF Quiet

LEMMA SettledIsPaidStep == TypeOK /\ SettledIsPaid /\ [Next]_vars => SettledIsPaid'
    <1> SUFFICES ASSUME TypeOK, SettledIsPaid, [Next]_vars,
                        NEW g \in 0..edits', listing'[g].state = "SETTLED"
                 PROVE  \E i \in DOMAIN settlements' : settlements'[i].status = "paid"
        BY DEF SettledIsPaid
    <1>1. CASE \E i \in Invoices : SettlementPaid(i)
        BY <1>1, PaymentKeeps
    <1>2. CASE ~\E i \in Invoices : SettlementPaid(i)
        <2>1. \E i \in DOMAIN settlements : settlements[i].status = "paid"
            BY <1>2, SettledComesFromSettled DEF SettledIsPaid
        <2>2. QED
            BY <2>1, SettlementStep DEF SettlementStays, SameTerms
    <1>3. QED
        BY <1>1, <1>2

\* A listing object is SETTLED only when a settlement has been paid.
THEOREM SaleNeedsPayment == Spec => []SettledIsPaid
    <1>1. Init => SettledIsPaid
        <2> SUFFICES ASSUME Init PROVE SettledIsPaid
            OBVIOUS
        <2>1. PICK in \in Listings : listing = [g \in {0} |-> NewListing(in)]
            BY DEF Init
        <2>2. NewListing(in).state # "SETTLED"
            BY DEF NewListing
        <2>3. edits = 0
            BY DEF Init
        <2>4. QED
            BY <2>1, <2>2, <2>3 DEF SettledIsPaid
    <1>2. QED
        BY <1>1, SettledIsPaidStep, TypeCorrect, PTL DEF Spec

(***************************************************************************)
(* A settlement is of a bid                                                *)
(***************************************************************************)

\* Only a zap bid and a paid bid invoice are recorded.
LEMMA BidsUntouched ==
    ASSUME TypeOK, [Next]_vars,
           ~\E c \in Calls : RecordZapBid(c), ~\E i \in Invoices : BidInvoicePaid(i)
    PROVE  UNCHANGED bids
    <1>1. CASE BidByZap
        BY <1>1 DEF BidByZap, IngestZapBid, VerifyZapPayment, RejectZapBid, bidding
    <1>2. CASE BidByInvoice
        BY <1>2 DEF BidByInvoice, CreateBidInvoice, BidInvoiceCreated, bidding
    <1>3. CASE Track
        BY <1>3 DEF Track, TrackInvoice, MarkInvoicePaid
    <1>4. CASE Settle
        BY <1>4 DEF Settle, SettleAuction, SettlementCreated, bidding
    <1>5. CASE SecondChance
        BY <1>5 DEF SecondChance, ProcessSecondChance, SecondChanceCreated, bidding
    <1>6. CASE Edit \/ CancelAuction
        BY <1>6, EditKeeps
    <1>7. CASE \E i \in Invoices : SettlementPaid(i)
        BY <1>7, PaymentKeeps
    <1>8. CASE (\E c \in Calls : CreateInvoiceFails(c)) \/ Tick \/ UNCHANGED vars
        BY <1>8 DEF CreateInvoiceFails, Tick, vars, bidding
    <1>9. QED
        BY <1>1, <1>2, <1>3, <1>4, <1>5, <1>6, <1>7, <1>8 DEF Next

\* A bid that was recorded is recorded for good.
LEMMA BidsStay ==
    ASSUME TypeOK, [Next]_vars
    PROVE  \A j \in DOMAIN bids : j \in DOMAIN bids' /\ bids'[j] = bids[j]
    <1>1. ASSUME NEW e \in Bid, bids' = Append(bids, e)
          PROVE  \A j \in DOMAIN bids : j \in DOMAIN bids' /\ bids'[j] = bids[j]
        BY <1>1 DEF TypeOK
    <1>2. ASSUME NEW c \in Calls, RecordZapBid(c)
          PROVE  \A j \in DOMAIN bids : j \in DOMAIN bids' /\ bids'[j] = bids[j]
        <2> DEFINE z == calls[c].zap
                   e == [via |-> "zap", ref |-> z.hash, bidder |-> z.bidder,
                         amount |-> z.amount, at |-> z.at, ahead |-> calls[c].ahead]
        <2>1. z \in Receipt /\ calls[c].ahead \in BOOLEAN
            BY <1>2, CallKinds DEF RecordZapBid, ZapCall
        <2>2. e \in Bid
            BY <2>1 DEF Receipt, Bid
        <2>3. bids' = Append(bids, e)
            BY <1>2 DEF RecordZapBid
        <2> HIDE DEF e
        <2>4. QED
            BY <1>1, <2>2, <2>3
    <1>3. ASSUME NEW i \in Invoices, BidInvoicePaid(i)
          PROVE  \A j \in DOMAIN bids : j \in DOMAIN bids' /\ bids'[j] = bids[j]
        <2> DEFINE v == bidInvoices[i]
                   e == [via |-> "invoice", ref |-> i, bidder |-> v.bidder,
                         amount |-> v.amount, at |-> now, ahead |-> FALSE]
        <2>1. v \in BidInvoice
            BY <1>3 DEF BidInvoicePaid, TypeOK, MapOf
        <2>2. e \in Bid
            BY <2>1 DEF TypeOK, BidInvoice, Bid
        <2>3. bids' = Append(bids, e)
            BY <1>3 DEF BidInvoicePaid
        <2> HIDE DEF e
        <2>4. QED
            BY <1>1, <2>2, <2>3
    <1>4. QED
        BY <1>2, <1>3, BidsUntouched

\* What a handler that has just been suspended at the creation of a settlement
\* invoice holds: a bid, and for settleAuction one that meets the reserve.
StartedOn(c) ==
    \E j \in DOMAIN bids :
        /\ calls'[c].bidder = bids[j].bidder /\ calls'[c].amount = bids[j].amount
        /\ calls'[c].op = "settle" =>
              calls'[c].on = current /\ bids[j].amount >= listing[current].reserve
HeldOrStarted(c) ==
    calls'[c].op \in {"settle", "chance"} => calls'[c] = calls[c] \/ StartedOn(c)

LEMMA OtherOperation ==
    ASSUME TypeOK, NEW c \in Calls, NEW k, k.op \notin {"settle", "chance"},
           calls' = [calls EXCEPT ![c] = k]
    PROVE  \A d \in Calls : HeldOrStarted(d)
    BY DEF TypeOK, HeldOrStarted

LEMMA SettleStarts ==
    ASSUME TypeOK, NEW c \in Calls, SettleAuction(c)
    PROVE  \A d \in Calls : HeldOrStarted(d)
    <1>1. CASE UNCHANGED calls
        BY <1>1 DEF HeldOrStarted
    <1>2. ASSUME NEW w \in Winner(listing[current]),
                 calls' = [calls EXCEPT ![c] =
                             [op |-> "settle", on |-> current,
                              bidder |-> bids[w].bidder, amount |-> bids[w].amount]]
          PROVE  \A d \in Calls : HeldOrStarted(d)
        <2> DEFINE k == [op |-> "settle", on |-> current,
                         bidder |-> bids[w].bidder, amount |-> bids[w].amount]
        <2>1. w \in DOMAIN bids /\ bids[w].amount >= listing[current].reserve
            BY <1>2 DEF Winner, First, InTime
        <2>2. /\ k.op = "settle" /\ k.on = current
              /\ k.bidder = bids[w].bidder /\ k.amount = bids[w].amount
            OBVIOUS
        <2>3. calls' = [calls EXCEPT ![c] = k]
            BY <1>2
        <2> HIDE DEF k
        <2>4. calls'[c] = k /\ \A d \in Calls \ {c} : calls'[d] = calls[d]
            BY <2>3 DEF TypeOK
        <2>5. StartedOn(c)
            BY <2>1, <2>2, <2>4 DEF StartedOn
        <2>6. QED
            BY <2>4, <2>5 DEF HeldOrStarted
    <1>3. QED
        BY <1>1, <1>2 DEF SettleAuction

LEMMA SecondChanceStarts ==
    ASSUME TypeOK, NEW c \in Calls, ProcessSecondChance(c)
    PROVE  \A d \in Calls : HeldOrStarted(d)
    <1>1. CASE UNCHANGED calls
        BY <1>1 DEF HeldOrStarted
    <1>2. ASSUME NEW n \in First(Eligible(listing[current], c)),
                 calls' = [calls EXCEPT ![c] =
                             [op |-> "chance", on |-> current, bidder |-> bids[n].bidder,
                              amount |-> bids[n].amount, at |-> now, array |-> OfferArray(c)]]
          PROVE  \A d \in Calls : HeldOrStarted(d)
        <2> DEFINE k == [op |-> "chance", on |-> current, bidder |-> bids[n].bidder,
                         amount |-> bids[n].amount, at |-> now, array |-> OfferArray(c)]
        <2>1. n \in DOMAIN bids
            BY <1>2 DEF First, Eligible
        <2>2. k.op = "chance" /\ k.bidder = bids[n].bidder /\ k.amount = bids[n].amount
            OBVIOUS
        <2>3. calls' = [calls EXCEPT ![c] = k]
            BY <1>2
        <2> HIDE DEF k
        <2>4. calls'[c] = k /\ \A d \in Calls \ {c} : calls'[d] = calls[d]
            BY <2>3 DEF TypeOK
        <2>5. StartedOn(c)
            BY <2>1, <2>2, <2>4 DEF StartedOn
        <2>6. QED
            BY <2>4, <2>5 DEF HeldOrStarted
    <1>3. QED
        BY <1>1, <1>2 DEF ProcessSecondChance

LEMMA CallStep ==
    ASSUME TypeOK, [Next]_vars
    PROVE  \A d \in Calls : HeldOrStarted(d)
    <1>1. ASSUME UNCHANGED calls
          PROVE  \A d \in Calls : HeldOrStarted(d)
        BY <1>1 DEF HeldOrStarted
    <1>2. ASSUME NEW c \in Calls, calls' = [calls EXCEPT ![c] = Idle]
          PROVE  \A d \in Calls : HeldOrStarted(d)
        BY <1>2, OtherOperation DEF Idle
    <1>3. CASE BidByZap
        <2>1. ASSUME NEW c \in Calls, NEW z \in Receipt, IngestZapBid(c, z)
              PROVE  \A d \in Calls : HeldOrStarted(d)
            <3>1. PICK op \in {"verifying", "verified"} :
                     calls' = [calls EXCEPT ![c] = Verification(op, z)]
                BY <2>1, IngestSuspends
            <3>2. PICK k : k = Verification(op, z)
                OBVIOUS
            <3>3. calls' = [calls EXCEPT ![c] = k] /\ k.op \notin {"settle", "chance"}
                BY <3>1, <3>2, VerificationFields
            <3>4. QED
                BY <3>3, OtherOperation
        <2>2. ASSUME NEW c \in Calls, VerifyZapPayment(c)
              PROVE  \A d \in Calls : HeldOrStarted(d)
            <3> DEFINE k == [calls[c] EXCEPT !.op = "verified"]
            <3>1. calls[c] \in ZapCall
                BY <2>2, CallKinds DEF VerifyZapPayment
            <3>2. k.op = "verified"
                BY <3>1 DEF ZapCall
            <3>3. calls' = [calls EXCEPT ![c] = k]
                BY <2>2 DEF VerifyZapPayment
            <3> HIDE DEF k
            <3>4. QED
                BY <3>2, <3>3, OtherOperation
        <2>3. ASSUME NEW c \in Calls, RecordZapBid(c) \/ RejectZapBid(c)
              PROVE  \A d \in Calls : HeldOrStarted(d)
            BY <1>2, <2>3 DEF RecordZapBid, RejectZapBid
        <2>4. QED
            BY <1>3, <2>1, <2>2, <2>3 DEF BidByZap
    <1>4. CASE BidByInvoice
        <2>1. ASSUME NEW c \in Calls, NEW b, NEW a, CreateBidInvoice(c, b, a)
              PROVE  \A d \in Calls : HeldOrStarted(d)
            <3> DEFINE k == [op |-> "bidInvoice", bidder |-> b, amount |-> a]
            <3>1. k.op \notin {"settle", "chance"}
                OBVIOUS
            <3>2. calls' = [calls EXCEPT ![c] = k]
                BY <2>1 DEF CreateBidInvoice
            <3> HIDE DEF k
            <3>3. QED
                BY <3>1, <3>2, OtherOperation
        <2>2. ASSUME NEW c \in Calls, NEW i, BidInvoiceCreated(c, i)
              PROVE  \A d \in Calls : HeldOrStarted(d)
            BY <1>2, <2>2 DEF BidInvoiceCreated
        <2>3. ASSUME NEW i, BidInvoicePaid(i)
              PROVE  \A d \in Calls : HeldOrStarted(d)
            BY <1>1, <2>3 DEF BidInvoicePaid
        <2>4. QED
            BY <1>4, <2>1, <2>2, <2>3 DEF BidByInvoice
    <1>5. CASE Settle
        <2>1. ASSUME NEW c \in Calls, NEW i, SettlementCreated(c, i)
              PROVE  \A d \in Calls : HeldOrStarted(d)
            BY <1>2, <2>1 DEF SettlementCreated
        <2>2. QED
            BY <1>5, <2>1, SettleStarts DEF Settle
    <1>6. CASE SecondChance
        <2>1. ASSUME NEW c \in Calls, NEW i, SecondChanceCreated(c, i)
              PROVE  \A d \in Calls : HeldOrStarted(d)
            BY <1>2, <2>1 DEF SecondChanceCreated
        <2>2. QED
            BY <1>6, <2>1, SecondChanceStarts DEF SecondChance
    <1>7. CASE Edit \/ CancelAuction
        BY <1>1, <1>7, EditKeeps
    <1>8. CASE \E i \in Invoices : SettlementPaid(i)
        BY <1>1, <1>8, PaymentKeeps
    <1>9. CASE \E c \in Calls : CreateInvoiceFails(c)
        BY <1>2, <1>9 DEF CreateInvoiceFails
    <1>10. CASE Track \/ Tick \/ UNCHANGED vars
        BY <1>1, <1>10 DEF Track, TrackInvoice, MarkInvoicePaid, Tick, vars
    <1>11. QED
        BY <1>3, <1>4, <1>5, <1>6, <1>7, <1>8, <1>9, <1>10 DEF Next

\* The listing objects stay, with the reserve they have.
LEMMA ReservesStay ==
    ASSUME TypeOK, [Next]_vars
    PROVE  \A g \in 0..edits : g \in 0..edits' /\ listing'[g].reserve = listing[g].reserve
    <1>1. edits \in Nat
        BY DEF TypeOK
    <1>2. CASE Edit \/ CancelAuction
        BY <1>1, <1>2, EditKeeps DEF KeptListing
    <1>3. CASE Settle \/ SecondChance
        BY <1>3, SettleKeeps, SecondChanceKeeps DEF KeptListing
    <1>4. CASE \E c \in Calls : RecordZapBid(c)
        BY <1>4, RecordedListing
    <1>5. CASE \E i \in Invoices : SettlementPaid(i)
        BY <1>5, PaymentKeeps
    <1>6. QED
        BY <1>2, <1>3, <1>4, <1>5, QuietSteps DEF Quiet

LEMMA CallsAreOfBidsStep == TypeOK /\ CallsAreOfBids /\ [Next]_vars => CallsAreOfBids'
    <1> SUFFICES ASSUME TypeOK, CallsAreOfBids, [Next]_vars,
                        NEW c \in Calls, calls'[c].op \in {"settle", "chance"}
                 PROVE  /\ \E j \in DOMAIN bids' : /\ bids'[j].bidder = calls'[c].bidder
                                                   /\ bids'[j].amount = calls'[c].amount
                        /\ calls'[c].op = "settle" =>
                              calls'[c].amount >= listing'[calls'[c].on].reserve
        BY DEF CallsAreOfBids, OfABid
    <1>1. current \in 0..edits
        BY DEF TypeOK
    <1>2. CASE calls'[c] = calls[c]
        <2>1. calls[c].on \in 0..edits
            BY <1>2, CallKinds
        <2>2. OfABid(calls[c])
            BY <1>2 DEF CallsAreOfBids
        <2>3. calls[c].op = "settle" => calls[c].amount >= listing[calls[c].on].reserve
            BY DEF CallsAreOfBids
        <2>4. QED
            BY <1>2, <2>1, <2>2, <2>3, BidsStay, ReservesStay DEF OfABid
    <1>3. CASE StartedOn(c)
        BY <1>1, <1>3, BidsStay, ReservesStay DEF StartedOn
    <1>4. QED
        BY <1>2, <1>3, CallStep DEF HeldOrStarted

LEMMA SettlementIsOfABidStep ==
    TypeOK /\ CallsAreOfBids /\ SettlementIsOfABid /\ [Next]_vars => SettlementIsOfABid'
    <1> SUFFICES ASSUME TypeOK, CallsAreOfBids, SettlementIsOfABid, [Next]_vars,
                        NEW i \in DOMAIN settlements'
                 PROVE  /\ \E j \in DOMAIN bids' : /\ bids'[j].bidder = settlements'[i].bidder
                                                   /\ bids'[j].amount = settlements'[i].amount
                        /\ settlements'[i].source = "winner" =>
                              \E g \in 0..edits' :
                                 settlements'[i].amount >= listing'[g].reserve
        BY DEF SettlementIsOfABid
    <1>1. CASE i \in DOMAIN settlements
        <2>1. SameTerms(settlements'[i], settlements[i])
            BY <1>1, SettlementStep DEF SettlementStays
        <2>2. /\ \E j \in DOMAIN bids : /\ bids[j].bidder = settlements[i].bidder
                                        /\ bids[j].amount = settlements[i].amount
              /\ settlements[i].source = "winner" =>
                    \E g \in 0..edits : settlements[i].amount >= listing[g].reserve
            BY <1>1 DEF SettlementIsOfABid
        <2>3. QED
            BY <2>1, <2>2, BidsStay, ReservesStay DEF SameTerms
    <1>2. CASE IssuedTo(i)
        <2>1. PICK c \in Calls :
                    /\ calls[c].op \in {"settle", "chance"}
                    /\ settlements'[i].bidder = calls[c].bidder
                    /\ settlements'[i].amount = calls[c].amount
                    /\ settlements'[i].source = "winner" => calls[c].op = "settle"
            BY <1>2 DEF IssuedTo
        <2>2. calls[c].on \in 0..edits
            BY <2>1, CallKinds
        <2>3. /\ OfABid(calls[c])
              /\ calls[c].op = "settle" => calls[c].amount >= listing[calls[c].on].reserve
            BY <2>1 DEF CallsAreOfBids
        <2>4. QED
            BY <2>1, <2>2, <2>3, BidsStay, ReservesStay DEF OfABid
    <1>3. QED
        BY <1>1, <1>2, SettlementStep

\* What a settlement asks is what its bidder bid, and a winner's at least the reserve.
THEOREM SettlementsAreOfBids == Spec => []SettlementIsOfABid
    <1>1. Init => CallsAreOfBids /\ SettlementIsOfABid
        BY DEF Init, CallsAreOfBids, SettlementIsOfABid, Idle, EmptyMap
    <1>2. TypeOK /\ CallsAreOfBids /\ SettlementIsOfABid /\ [Next]_vars
            => (CallsAreOfBids /\ SettlementIsOfABid)'
        BY CallsAreOfBidsStep, SettlementIsOfABidStep
    <1>3. QED
        BY <1>1, <1>2, TypeCorrect, PTL DEF Spec

(***************************************************************************)
(* Room to answer a zap bid                                                *)
(***************************************************************************)

\* Without an administrator there is one listing object, and its end is only moved back.
LEMMA EndsStay ==
    ASSUME TypeOK, [Next]_vars, Ops \cap {"edit", "cancel"} = {}
    PROVE  /\ UNCHANGED edits
           /\ \A g \in 0..edits : listing'[g].endsAt >= listing[g].endsAt
    <1>1. \A g \in 0..edits : listing[g].endsAt \in Nat
        BY DEF TypeOK, Listing
    <1>2. ASSUME NEW o \in 0..edits, NEW l, l.endsAt = listing[o].endsAt,
                 listing' = [listing EXCEPT ![o] = l]
          PROVE  \A g \in 0..edits : listing'[g].endsAt >= listing[g].endsAt
        BY <1>1, <1>2 DEF TypeOK
    <1>3. ASSUME UNCHANGED listing
          PROVE  \A g \in 0..edits : listing'[g].endsAt >= listing[g].endsAt
        BY <1>1, <1>3
    <1>4. ASSUME NEW g \in 0..edits, NEW st, NEW b, NEW a, NEW i
          PROVE  /\ [listing[g] EXCEPT !.state = st].endsAt = listing[g].endsAt
                 /\ Awarded(listing[g], b, a, i).endsAt = listing[g].endsAt
                 /\ [Awarded(listing[g], b, a, i) EXCEPT !.state = st].endsAt
                        = listing[g].endsAt
                 /\ [listing[g] EXCEPT !.state = st, !.winner = b, !.amount = a].endsAt
                        = listing[g].endsAt
        <2>1. listing[g] \in Listing
            BY DEF TypeOK
        <2>2. QED
            BY <2>1 DEF Listing, Awarded
    <1>5. current \in 0..edits
        BY DEF TypeOK
    <1>6. CASE Settle
        <2>1. ASSUME NEW c \in Calls, SettleAuction(c)
              PROVE  \A g \in 0..edits : listing'[g].endsAt >= listing[g].endsAt
            <3> DEFINE l == [listing[current] EXCEPT !.state = "ENDED"]
            <3>1. l.endsAt = listing[current].endsAt
                BY <1>4, <1>5
            <3>2. UNCHANGED listing \/ listing' = [listing EXCEPT ![current] = l]
                BY <2>1 DEF SettleAuction
            <3> HIDE DEF l
            <3>3. QED
                BY <1>2, <1>3, <1>5, <3>1, <3>2
        <2>2. ASSUME NEW c \in Calls, NEW i \in Invoices, SettlementCreated(c, i)
              PROVE  \A g \in 0..edits : listing'[g].endsAt >= listing[g].endsAt
            <3> DEFINE k == calls[c]
                       l == [Awarded(listing[k.on], k.bidder, k.amount, i)
                                EXCEPT !.state = "ENDED"]
            <3>1. k.on \in 0..edits
                BY <2>2, CallKinds DEF SettlementCreated
            <3>2. l.endsAt = listing[k.on].endsAt
                BY <1>4, <3>1
            <3>3. listing' = [listing EXCEPT ![k.on] = l]
                BY <2>2 DEF SettlementCreated
            <3> HIDE DEF l
            <3>4. QED
                BY <1>2, <3>1, <3>2, <3>3
        <2>3. QED
            BY <1>6, <2>1, <2>2, SettleKeeps DEF Settle
    <1>7. CASE SecondChance
        <2>1. ASSUME NEW c \in Calls, ProcessSecondChance(c)
              PROVE  \A g \in 0..edits : listing'[g].endsAt >= listing[g].endsAt
            <3> DEFINE l == [listing[current] EXCEPT !.state = "FAILED"]
            <3>1. l.endsAt = listing[current].endsAt
                BY <1>4, <1>5
            <3>2. UNCHANGED listing \/ listing' = [listing EXCEPT ![current] = l]
                BY <2>1 DEF ProcessSecondChance
            <3> HIDE DEF l
            <3>3. QED
                BY <1>2, <1>3, <1>5, <3>1, <3>2
        <2>2. ASSUME NEW c \in Calls, NEW i \in Invoices, SecondChanceCreated(c, i)
              PROVE  \A g \in 0..edits : listing'[g].endsAt >= listing[g].endsAt
            <3> DEFINE k == calls[c]
                       l == Awarded(listing[k.on], k.bidder, k.amount, i)
            <3>1. k.on \in 0..edits
                BY <2>2, CallKinds DEF SecondChanceCreated
            <3>2. l.endsAt = listing[k.on].endsAt
                BY <1>4, <3>1
            <3>3. listing' = [listing EXCEPT ![k.on] = l]
                BY <2>2 DEF SecondChanceCreated
            <3> HIDE DEF l
            <3>4. QED
                BY <1>2, <3>1, <3>2, <3>3
        <2>3. QED
            BY <1>7, <2>1, <2>2, SecondChanceKeeps DEF SecondChance
    <1>8. ASSUME NEW i \in Invoices, SettlementPaid(i)
          PROVE  \A g \in 0..edits : listing'[g].endsAt >= listing[g].endsAt
        <2> DEFINE s == settlements[i]
                   l == [listing[current] EXCEPT !.state = "SETTLED", !.winner = s.bidder,
                                                 !.amount = s.amount]
        <2>1. l.endsAt = listing[current].endsAt
            BY <1>4, <1>5
        <2>2. listing' = [listing EXCEPT ![current] = l]
            BY <1>8 DEF SettlementPaid
        <2> HIDE DEF l
        <2>3. QED
            BY <1>2, <1>5, <2>1, <2>2
    <1>9. CASE \E i \in Invoices : SettlementPaid(i)
        BY <1>8, <1>9, PaymentKeeps
    <1>10. CASE \E c \in Calls : RecordZapBid(c)
        BY <1>10, RecordedListing
    <1>11. CASE /\ ~Settle /\ ~SecondChance
                /\ ~\E i \in Invoices : SettlementPaid(i)
                /\ ~\E c \in Calls : RecordZapBid(c)
        BY <1>3, <1>11, QuietSteps DEF Quiet
    <1>12. QED
        BY <1>6, <1>7, <1>9, <1>10, <1>11

\* A handler verifies the receipt it had, or one that was ingested LIVE.
HeldOrIngested(c) ==
    Verifies(c)' =>
        \/ /\ Verifies(c) /\ calls'[c].zap = calls[c].zap
           /\ calls'[c].ahead = calls[c].ahead
        \/ /\ calls'[c].zap \in Receipt /\ StateOf(listing[current]) = "LIVE"
           /\ calls'[c].ahead = (calls'[c].zap.at > now)

LEMMA OtherThanZap ==
    ASSUME TypeOK, NEW c \in Calls, NEW k, k.op \notin {"verifying", "verified"},
           calls' = [calls EXCEPT ![c] = k]
    PROVE  \A d \in Calls : HeldOrIngested(d)
    BY DEF TypeOK, HeldOrIngested, Verifies

LEMMA ZapCallStep ==
    ASSUME TypeOK, [Next]_vars
    PROVE  \A d \in Calls : HeldOrIngested(d)
    <1>1. ASSUME UNCHANGED calls
          PROVE  \A d \in Calls : HeldOrIngested(d)
        BY <1>1 DEF HeldOrIngested, Verifies
    <1>2. ASSUME NEW c \in Calls, calls' = [calls EXCEPT ![c] = Idle]
          PROVE  \A d \in Calls : HeldOrIngested(d)
        BY <1>2, OtherThanZap DEF Idle
    <1>3. CASE BidByZap
        <2>1. ASSUME NEW c \in Calls, NEW z \in Receipt, IngestZapBid(c, z)
              PROVE  \A d \in Calls : HeldOrIngested(d)
            <3>1. PICK op \in {"verifying", "verified"} :
                     calls' = [calls EXCEPT ![c] = Verification(op, z)]
                BY <2>1, IngestSuspends
            <3>2. PICK k : k = Verification(op, z)
                OBVIOUS
            <3>3. k.zap = z /\ k.ahead = (z.at > now)
                BY <3>2, VerificationFields
            <3>4. /\ calls'[c] = k /\ \A d \in Calls \ {c} : calls'[d] = calls[d]
                BY <3>1, <3>2 DEF TypeOK
            <3>5. StateOf(listing[current]) = "LIVE"
                BY <2>1 DEF IngestZapBid
            <3>6. QED
                BY <3>3, <3>4, <3>5 DEF HeldOrIngested, Verifies
        <2>2. ASSUME NEW c \in Calls, VerifyZapPayment(c)
              PROVE  \A d \in Calls : HeldOrIngested(d)
            <3>1. calls[c] \in ZapCall
                BY <2>2, CallKinds DEF VerifyZapPayment
            <3>2. /\ calls'[c].zap = calls[c].zap /\ Verifies(c)
                  /\ calls'[c].ahead = calls[c].ahead
                  /\ \A d \in Calls \ {c} : calls'[d] = calls[d]
                BY <2>2, <3>1 DEF VerifyZapPayment, ZapCall, TypeOK, Verifies
            <3>3. QED
                BY <3>2 DEF HeldOrIngested, Verifies
        <2>3. ASSUME NEW c \in Calls, RecordZapBid(c) \/ RejectZapBid(c)
              PROVE  \A d \in Calls : HeldOrIngested(d)
            BY <1>2, <2>3 DEF RecordZapBid, RejectZapBid
        <2>4. QED
            BY <1>3, <2>1, <2>2, <2>3 DEF BidByZap
    <1>4. CASE BidByInvoice
        <2>1. ASSUME NEW c \in Calls, NEW b, NEW a, CreateBidInvoice(c, b, a)
              PROVE  \A d \in Calls : HeldOrIngested(d)
            <3> DEFINE k == [op |-> "bidInvoice", bidder |-> b, amount |-> a]
            <3>1. k.op \notin {"verifying", "verified"}
                OBVIOUS
            <3>2. calls' = [calls EXCEPT ![c] = k]
                BY <2>1 DEF CreateBidInvoice
            <3> HIDE DEF k
            <3>3. QED
                BY <3>1, <3>2, OtherThanZap
        <2>2. ASSUME NEW c \in Calls, NEW i, BidInvoiceCreated(c, i)
              PROVE  \A d \in Calls : HeldOrIngested(d)
            BY <1>2, <2>2 DEF BidInvoiceCreated
        <2>3. ASSUME NEW i, BidInvoicePaid(i)
              PROVE  \A d \in Calls : HeldOrIngested(d)
            BY <1>1, <2>3 DEF BidInvoicePaid
        <2>4. QED
            BY <1>4, <2>1, <2>2, <2>3 DEF BidByInvoice
    <1>5. ASSUME NEW c \in Calls, NEW op, op \notin {"verifying", "verified"},
                 \E k : k.op = op /\ calls' = [calls EXCEPT ![c] = k]
          PROVE  \A d \in Calls : HeldOrIngested(d)
        BY <1>5, OtherThanZap
    <1>6. CASE Settle
        <2>1. ASSUME NEW c \in Calls, NEW i, SettlementCreated(c, i)
              PROVE  \A d \in Calls : HeldOrIngested(d)
            BY <1>2, <2>1 DEF SettlementCreated
        <2>2. ASSUME NEW c \in Calls, SettleAuction(c)
              PROVE  \A d \in Calls : HeldOrIngested(d)
            BY <1>1, <1>5, <2>2, SettleSuspends
        <2>3. QED
            BY <1>6, <2>1, <2>2 DEF Settle
    <1>7. CASE SecondChance
        <2>1. ASSUME NEW c \in Calls, NEW i, SecondChanceCreated(c, i)
              PROVE  \A d \in Calls : HeldOrIngested(d)
            BY <1>2, <2>1 DEF SecondChanceCreated
        <2>2. ASSUME NEW c \in Calls, ProcessSecondChance(c)
              PROVE  \A d \in Calls : HeldOrIngested(d)
            BY <1>1, <1>5, <2>2, ChanceSuspends
        <2>3. QED
            BY <1>7, <2>1, <2>2 DEF SecondChance
    <1>8. CASE Edit \/ CancelAuction
        BY <1>1, <1>8, EditKeeps
    <1>9. CASE \E i \in Invoices : SettlementPaid(i)
        BY <1>1, <1>9, PaymentKeeps
    <1>10. CASE \E c \in Calls : CreateInvoiceFails(c)
        BY <1>2, <1>10 DEF CreateInvoiceFails
    <1>11. CASE Track \/ Tick \/ UNCHANGED vars
        BY <1>1, <1>11 DEF Track, TrackInvoice, MarkInvoicePaid, Tick, vars
    <1>12. QED
        BY <1>3, <1>4, <1>6, <1>7, <1>8, <1>9, <1>10, <1>11 DEF Next

\* A receipt that is being verified and was not dated ahead is dated before the
\* auction's end.
LEMMA ReceiptsInTimeStep ==
    ASSUME TypeOK, RoomInv, [Next]_vars, Ops \cap {"edit", "cancel"} = {}
    PROVE  ReceiptsInTime'
    <1>1. now \in Nat /\ edits = 0 /\ current = 0 /\ listing[0] \in Listing
        BY DEF TypeOK, RoomInv
    <1>2. listing'[0].endsAt >= listing[0].endsAt
        BY <1>1, EndsStay
    <1>3. /\ listing[0].endsAt \in Nat
          /\ listing'[0].endsAt \in Nat
        <2>1. TypeOK'
            BY TypeStep
        <2>2. edits' = 0
            BY <1>1, EndsStay
        <2>3. QED
            BY <1>1, <2>1, <2>2 DEF TypeOK, Listing
    <1>4. ASSUME NEW c \in Calls, Verifies(c)', ~calls'[c].ahead
          PROVE  calls'[c].zap.at <= listing'[0].endsAt
        <2>1. CASE Verifies(c) /\ calls'[c].zap = calls[c].zap /\ calls'[c].ahead = calls[c].ahead
            <3>1. calls[c].zap.at <= listing[0].endsAt
                BY <1>4, <2>1 DEF RoomInv, ReceiptsInTime
            <3>2. calls[c].zap.at \in Nat
                BY <2>1, CallKinds DEF Verifies, ZapCall, Receipt
            <3>3. QED
                BY <1>2, <1>3, <2>1, <3>1, <3>2
        <2>2. CASE /\ calls'[c].zap \in Receipt /\ StateOf(listing[0]) = "LIVE"
                   /\ calls'[c].ahead = (calls'[c].zap.at > now)
            <3>1. calls'[c].zap.at \in Nat /\ ~(calls'[c].zap.at > now)
                BY <1>4, <2>2 DEF Receipt
            <3>2. now <= listing[0].endsAt
                BY <1>1, <2>2 DEF StateOf
            <3>3. QED
                BY <1>1, <1>2, <1>3, <3>1, <3>2
        <2>3. QED
            BY <1>1, <1>4, <2>1, <2>2, ZapCallStep DEF HeldOrIngested
    <1>5. QED
        BY <1>4 DEF ReceiptsInTime

\* A zap bid that is recorded leaves the snipe window after its date: either it is dated
\* before the window, or the end is moved back by more than the window.
LEMMA RoomToAnswerZapStep ==
    ASSUME TypeOK, RoomInv, [Next]_vars, Ops \cap {"edit", "cancel"} = {}
    PROVE  RoomToAnswerZap'
    <1>1. TypeOK' /\ edits = 0 /\ edits' = 0
        BY TypeStep, EndsStay DEF RoomInv
    <1>2. /\ current = 0 /\ current' = 0
          /\ listing[0].endsAt \in Nat /\ listing'[0].endsAt \in Nat
        BY <1>1 DEF TypeOK, Listing
    <1>3. listing'[0].endsAt >= listing[0].endsAt
        BY <1>1, EndsStay
    <1>4. /\ \A j \in DOMAIN bids : bids[j].at \in Nat
          /\ \A j \in DOMAIN bids : bids[j].via = "zap" /\ ~bids[j].ahead =>
                listing[0].endsAt >= bids[j].at + SnipeWindow
        <2>1. \A j \in DOMAIN bids : bids[j] \in Bid
            BY DEF TypeOK
        <2>2. RoomToAnswerZap
            BY DEF RoomInv
        <2>3. QED
            BY <1>2, <2>1, <2>2 DEF Bid, RoomToAnswerZap
    <1>5. CASE \E c \in Calls : RecordZapBid(c)
        <2>1. PICK c \in Calls : RecordZapBid(c)
            BY <1>5
        <2> DEFINE z == calls[c].zap
                   e == [via |-> "zap", ref |-> z.hash, bidder |-> z.bidder,
                         amount |-> z.amount, at |-> z.at, ahead |-> calls[c].ahead]
        <2>2. /\ calls[c].on = 0 /\ z \in Receipt /\ z.at \in Nat /\ calls[c].ahead \in BOOLEAN
              /\ ~calls[c].ahead => z.at <= listing[0].endsAt
            BY <1>1, <2>1, CallKinds
            DEF RecordZapBid, ZapCall, Receipt, RoomInv, ReceiptsInTime, Verifies
        <2>3. e \in Bid /\ e.at = z.at /\ e.ahead = calls[c].ahead
            BY <2>2 DEF Bid, Receipt
        <2>4. bids' = Append(bids, e)
            BY <2>1 DEF RecordZapBid
        <2>5. ~calls[c].ahead => listing'[0].endsAt >= z.at + SnipeWindow
            <3>1. CASE Sniped(listing[0], z.at)
                <4>1. listing' = [listing EXCEPT ![0].endsAt = @ + SnipeExtension]
                    BY <2>1, <2>2, <3>1 DEF RecordZapBid
                <4>2. listing'[0].endsAt = listing[0].endsAt + SnipeExtension
                    BY <1>1, <4>1 DEF TypeOK, Listing
                <4>3. QED
                    BY <1>2, <2>2, <4>2, SnipeAssumption
            <3>2. CASE ~Sniped(listing[0], z.at)
                BY <1>2, <1>3, <2>2, <3>2 DEF Sniped
            <3>3. QED
                BY <3>1, <3>2
        <2> HIDE DEF e, z
        <2>6. ASSUME NEW j \in DOMAIN bids', bids'[j].via = "zap", ~bids'[j].ahead
              PROVE  listing'[0].endsAt >= bids'[j].at + SnipeWindow
            <3>1. CASE j \in DOMAIN bids
                <4>1. bids'[j] = bids[j]
                    BY <3>1, BidsStay
                <4>2. QED
                    BY <1>2, <1>3, <1>4, <2>6, <3>1, <4>1
            <3>2. CASE j \notin DOMAIN bids
                <4>1. bids'[j] = e
                    BY <2>3, <2>4, <2>6, <3>2 DEF TypeOK
                <4>2. QED
                    BY <2>3, <2>5, <2>6, <4>1
            <3>3. QED
                BY <3>1, <3>2
        <2>7. QED
            BY <1>2, <2>6 DEF RoomToAnswerZap
    <1>6. CASE ~\E c \in Calls : RecordZapBid(c)
        <2>1. ASSUME NEW j \in DOMAIN bids', bids'[j].via = "zap"
              PROVE  j \in DOMAIN bids /\ bids'[j] = bids[j]
            <3>1. CASE \E i \in Invoices : BidInvoicePaid(i)
                <4>1. PICK i \in Invoices : BidInvoicePaid(i)
                    BY <3>1
                <4> DEFINE v == bidInvoices[i]
                           e == [via |-> "invoice", ref |-> i, bidder |-> v.bidder,
                                 amount |-> v.amount, at |-> now, ahead |-> FALSE]
                <4>2. v \in BidInvoice
                    BY <4>1 DEF BidInvoicePaid, TypeOK, MapOf
                <4>3. e \in Bid /\ e.via = "invoice"
                    BY <4>2 DEF TypeOK, BidInvoice, Bid
                <4>4. bids' = Append(bids, e)
                    BY <4>1 DEF BidInvoicePaid
                <4> HIDE DEF e
                <4>5. j = Len(bids) + 1 => bids'[j].via = "invoice"
                    BY <4>3, <4>4 DEF TypeOK
                <4>6. QED
                    BY <2>1, <4>3, <4>4, <4>5 DEF TypeOK
            <3>2. CASE ~\E i \in Invoices : BidInvoicePaid(i)
                <4>1. bids' = bids
                    BY <1>6, <3>2, BidsUntouched
                <4>2. QED
                    BY <2>1, <4>1
            <3>3. QED
                BY <3>1, <3>2
        <2>2. QED
            BY <1>2, <1>3, <1>4, <2>1 DEF RoomToAnswerZap
    <1>7. QED
        BY <1>5, <1>6

\* Without an administrator, whoever is outbid by zap has the snipe window from the date
\* of the receipt to answer, unless that date lay ahead of its delivery.
THEOREM ZapsCanBeAnswered ==
    ASSUME Ops \cap {"edit", "cancel"} = {}
    PROVE  Spec => []RoomToAnswerZap
    <1>1. Init => RoomInv
        BY DEF Init, RoomInv, ReceiptsInTime, RoomToAnswerZap, Idle
    <1>2. TypeOK /\ RoomInv /\ [Next]_vars => RoomInv'
        BY EndsStay, ReceiptsInTimeStep, RoomToAnswerZapStep DEF RoomInv
    <1>3. RoomInv => RoomToAnswerZap
        BY DEF RoomInv
    <1>4. QED
        BY <1>1, <1>2, <1>3, TypeCorrect, PTL DEF Spec
=============================================================================
