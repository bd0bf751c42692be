------------------------- MODULE AuctionFlowProofs -------------------------
(***************************************************************************)
(* What holds of the documented auction flow however many bidders, bids    *)
(* and windows there are: it is a sale, and one settlement stands at a     *)
(* time.                                                                   *)
(***************************************************************************)
EXTENDS AuctionFlow, AuctionProofs

USE OperatorAssumption

\* The steps of the flow are steps of the service, whatever operations it enables.
LEMMA FlowType == TypeOK /\ [FlowNext]_vars => TypeOK'
    <1> SUFFICES ASSUME TypeOK, [FlowNext]_vars PROVE TypeOK'
        OBVIOUS
    <1>1. CASE Bidding
        <2>1. BidByZap
            BY <1>1 DEF Bidding, BidByZap
        <2>2. QED
            BY <2>1, ZapType
    <1>2. CASE OperatorSettles
        <2>1. Settle
            BY <1>2 DEF OperatorSettles, Settle
        <2>2. QED
            BY <2>1, SettleType
    <1>3. CASE OperatorOffers
        <2>1. SecondChance
            BY <1>3 DEF OperatorOffers, SecondChance
        <2>2. QED
            BY <2>1, SecondChanceType
    <1>4. CASE \E i \in Invoices : BidderPays(i)
        BY <1>4, PaymentType DEF BidderPays
    <1>5. CASE CreateInvoiceFails(Operator)
        BY <1>5, IdleIsACall, CallsStayTyped DEF TypeOK, CreateInvoiceFails, bidding, selling
    <1>6. CASE Day \/ UNCHANGED vars
        BY <1>6 DEF TypeOK, Day, Tick, vars, bidding, selling
    <1>7. QED
        BY <1>1, <1>2, <1>3, <1>4, <1>5, <1>6 DEF FlowNext

\* The flow keeps its types.
THEOREM FlowTypeCorrect == FlowSpec => []TypeOK
    <1>1. QED
        BY InitType, FlowType, PTL DEF FlowSpec

(***************************************************************************)
(* The invariant of the flow                                               *)
(***************************************************************************)

\* There is one listing object, and it holds the names of bidders and invoices.
LEMMA TheListing ==
    ASSUME TypeOK, FlowInv
    PROVE  /\ edits = 0 /\ current = 0 /\ Auctioned = listing[0] /\ Auctioned \in Listing
           /\ now \in Nat
           /\ \A i \in DOMAIN settlements : settlements[i] \in SettlementInvoice
           /\ \A i \in DOMAIN settlements : settlements[i].expiresAt \in Nat
    <1>1. edits = 0
        BY DEF FlowInv, FlowCalls
    <1>2. current = 0 /\ Auctioned = listing[0] /\ Auctioned \in Listing
        BY <1>1 DEF TypeOK, Auctioned
    <1>3. \A i \in DOMAIN settlements : settlements[i] \in SettlementInvoice
        BY DEF TypeOK, MapOf
    <1>4. \A i \in DOMAIN settlements : settlements[i].expiresAt \in Nat
        BY <1>3 DEF SettlementInvoice
    <1>5. now \in Nat
        BY DEF TypeOK
    <1>6. QED
        BY <1>1, <1>2, <1>3, <1>4, <1>5

\* A settlement makes the auction an invoiced one.
LEMMA InvoicedHasSettlements ==
    /\ \A i \in DOMAIN settlements : Invoiced
    /\ ~Invoiced => DOMAIN settlements = {}
    BY DEF Invoiced, EmptyMap

LEMMA InvoicedHasSettlementsNext ==
    /\ \A i \in DOMAIN settlements' : Invoiced'
    /\ ~Invoiced' => DOMAIN settlements' = {}
    BY DEF Invoiced, EmptyMap

\* Steps outside the sale: the listing keeps winner, invoice and state, the clock may
\* move when the operator holds nothing.
LEMMA OutsideTheSale ==
    ASSUME TypeOK, FlowInv,
           UNCHANGED <<current, edits, settlements, offers, offerList>>,
           listing'[0].winner = listing[0].winner,
           listing'[0].invoice = listing[0].invoice,
           listing'[0].state = listing[0].state,
           now' \in Nat, now' >= now,
           \/ calls'[Operator].op = "idle"
           \/ calls'[Operator] = calls[Operator] /\ now' = now,
           \A c \in Calls \ {Operator} : calls'[c].op \in {"idle", "verifying", "verified"}
    PROVE  FlowInv'
    <1>1. /\ current = 0 /\ current' = 0 /\ Auctioned = listing[0] /\ now \in Nat
          /\ \A i \in DOMAIN settlements : settlements[i].expiresAt \in Nat
        BY TheListing
    <1>2. /\ Auctioned'.winner = Auctioned.winner /\ Auctioned'.invoice = Auctioned.invoice
          /\ Auctioned'.state = Auctioned.state
        BY <1>1 DEF Auctioned
    <1>3. Invoiced' <=> Invoiced
        BY DEF Invoiced
    <1>4. OfferSet(Operator)' = OfferSet(Operator) /\ OfferArray(Operator)' = OfferArray(Operator)
        BY DEF OfferSet, OfferArray
    <1>5. FlowCalls'
        BY <1>3 DEF FlowInv, FlowCalls
    <1>6. NotYetAwarded'
        BY <1>2, <1>3 DEF FlowInv, NotYetAwarded
    <1>7. \A i \in DOMAIN settlements : Lapsed(settlements[i]) => Lapsed(settlements[i])'
        BY <1>1 DEF Lapsed
    <1>8. OneStanding'
        <2>1. Latest' = Latest
            BY <1>2 DEF Latest
        <2>2. Invoiced => (Latest.status = "expired" => Latest.expiresAt < now')
            BY <1>1 DEF FlowInv, OneStanding, Latest
        <2>3. QED
            BY <1>2, <1>3, <1>7, <2>1, <2>2 DEF FlowInv, OneStanding
    <1>9. OffersAreInvoiced'
        BY <1>4 DEF FlowInv, OffersAreInvoiced
    <1>10. OfferInTheMaking'
        <2>1. CASE calls'[Operator].op = "idle"
            BY <2>1 DEF OfferInTheMaking
        <2>2. CASE calls'[Operator] = calls[Operator] /\ now' = now
            <3>1. Latest' = Latest
                BY <1>2 DEF Latest
            <3>2. QED
                BY <1>2, <1>4, <2>2, <3>1 DEF FlowInv, OfferInTheMaking
        <2>3. QED
            BY <2>1, <2>2
    <1>11. OffersAgreeWithInvoices'
        <2>1. Concluded' <=> Concluded
            BY <1>2 DEF Concluded
        <2>2. \A o \in OfferSet(Operator) : o.expiresAt \in Nat
            BY <1>1 DEF FlowInv, OffersAreInvoiced
        <2>3. \A o \in OfferSet(Operator) : now' < o.expiresAt => now < o.expiresAt
            BY <1>1, <2>2
        <2>4. QED
            BY <2>1, <2>3 DEF FlowInv, OffersAgreeWithInvoices, OfferSet
    <1>12. QED
        BY <1>5, <1>6, <1>8, <1>9, <1>10, <1>11 DEF FlowInv

\* Bids, meanwhile, leave the operator's handler and the sale as they are.
LEMMA BiddingFrame ==
    ASSUME TypeOK, FlowInv, Bidding
    PROVE  FlowInv'
    <1>1. current = 0 /\ now \in Nat /\ edits = 0
        BY TheListing
    <1>2. \A c \in Calls \ {Operator} : calls[c].op \in {"idle", "verifying", "verified"}
        BY DEF FlowInv, FlowCalls
    <1>3. ASSUME NEW c \in Calls \ {Operator}, \A d \in Calls \ {c} : calls'[d] = calls[d],
                 calls'[c].op \in {"idle", "verifying", "verified"}
          PROVE  /\ calls'[Operator] = calls[Operator]
                 /\ \A d \in Calls \ {Operator} : calls'[d].op \in {"idle", "verifying", "verified"}
        BY <1>2, <1>3
    <1>4. ASSUME UNCHANGED <<now, listing, current, edits, selling, calls>>
          PROVE  FlowInv'
        BY <1>1, <1>2, <1>4, OutsideTheSale DEF selling
    <1>6. ASSUME NEW c \in Calls \ {Operator}, \A d \in Calls \ {c} : calls'[d] = calls[d],
                 calls'[c].op \in {"idle", "verifying", "verified"},
                 UNCHANGED <<now, listing, current, edits, selling>>
          PROVE  FlowInv'
        <2>1. /\ calls'[Operator] = calls[Operator]
              /\ \A d \in Calls \ {Operator} : calls'[d].op \in {"idle", "verifying", "verified"}
            BY <1>3, <1>6
        <2>2. QED
            BY <1>1, <1>6, <2>1, OutsideTheSale DEF selling
    <1>7. ASSUME NEW c \in Calls \ {Operator}, NEW z \in Receipt, IngestZapBid(c, z)
          PROVE  FlowInv'
        <2>1. /\ \A d \in Calls \ {c} : calls'[d] = calls[d]
              /\ calls'[c].op \in {"verifying", "verified"}
            <3>1. PICK op \in {"verifying", "verified"} :
                     calls' = [calls EXCEPT ![c] = Verification(op, z)]
                BY <1>7, IngestSuspends
            <3>2. calls'[c].op = op
                BY <3>1, VerificationFields DEF TypeOK
            <3>3. QED
                BY <3>1, <3>2 DEF TypeOK
        <2>2. UNCHANGED <<now, listing, current, edits, selling>>
            BY <1>7 DEF IngestZapBid
        <2>3. QED
            BY <1>6, <2>1, <2>2
    <1>8. ASSUME NEW c \in Calls \ {Operator}, VerifyZapPayment(c)
          PROVE  FlowInv'
        <2>1. calls[c] \in ZapCall
            BY <1>8, CallKinds DEF VerifyZapPayment
        <2>2. /\ \A d \in Calls \ {c} : calls'[d] = calls[d]
              /\ calls'[c].op = "verified"
            BY <1>8, <2>1 DEF VerifyZapPayment, ZapCall, TypeOK
        <2>3. UNCHANGED <<now, listing, current, edits, selling>>
            BY <1>8 DEF VerifyZapPayment
        <2>4. QED
            BY <1>6, <2>2, <2>3
    <1>9. ASSUME NEW c \in Calls \ {Operator}, RejectZapBid(c)
          PROVE  FlowInv'
        <2>1. /\ \A d \in Calls \ {c} : calls'[d] = calls[d]
              /\ calls'[c].op = "idle"
            BY <1>9 DEF RejectZapBid, TypeOK, Idle
        <2>2. UNCHANGED <<now, listing, current, edits, selling>>
            BY <1>9 DEF RejectZapBid
        <2>3. QED
            BY <1>6, <2>1, <2>2
    <1>10. ASSUME NEW c \in Calls \ {Operator}, RecordZapBid(c)
           PROVE  FlowInv'
        <2>1. /\ \A d \in Calls \ {c} : calls'[d] = calls[d]
              /\ calls'[c].op = "idle" /\ UNCHANGED <<now, current, edits, selling>>
            BY <1>10 DEF RecordZapBid, TypeOK, Idle
        <2>2. /\ calls'[Operator] = calls[Operator]
              /\ \A d \in Calls \ {Operator} : calls'[d].op \in {"idle", "verifying", "verified"}
            BY <1>3, <2>1
        <2>3. /\ listing[0] \in Listing
              /\ \/ listing' = listing
                 \/ listing' = [listing EXCEPT ![calls[c].on].endsAt = @ + SnipeExtension]
            BY <1>1, <1>10 DEF RecordZapBid, TypeOK
        <2>4. listing \in [0..0 -> Listing]
            BY <1>1 DEF TypeOK
        <2>5. /\ listing'[0].winner = listing[0].winner
              /\ listing'[0].invoice = listing[0].invoice
              /\ listing'[0].state = listing[0].state
            BY <2>3, <2>4 DEF Listing
        <2>6. QED
            BY <1>1, <2>1, <2>2, <2>5, OutsideTheSale DEF selling
    <1>11. QED
        BY <1>7, <1>8, <1>9, <1>10 DEF Bidding

\* The operator settles: either there is no winner, or its handler asks for an invoice.
LEMMA OperatorStartsSettling ==
    ASSUME TypeOK, FlowInv, ~Invoiced, SettleAuction(Operator)
    PROVE  FlowInv'
    <1>1. /\ edits = 0 /\ current = 0 /\ Auctioned = listing[0] /\ Auctioned \in Listing
        BY TheListing
    <1>2. UNCHANGED <<now, current, edits, settlements, offers, offerList>>
        BY DEF SettleAuction, selling
    <1>3. DOMAIN settlements = {} /\ ~Invoiced'
        BY <1>2, InvoicedHasSettlements DEF Invoiced
    <1>4. /\ Auctioned'.winner = Auctioned.winner
          /\ Auctioned'.state \in {Auctioned.state, "ENDED"}
        <2>1. listing \in [0..0 -> Listing]
            BY <1>1 DEF TypeOK
        <2>2. listing' = listing \/ listing' = [listing EXCEPT ![0].state = "ENDED"]
            BY <1>1 DEF SettleAuction
        <2>3. QED
            BY <1>1, <1>2, <2>1, <2>2 DEF Auctioned, Listing
    <1>5. /\ calls'[Operator].op \in {"idle", "settle"}
          /\ \A d \in Calls \ {Operator} : calls'[d] = calls[d]
        <2>1. calls[Operator].op = "idle"
            BY DEF SettleAuction, Idle
        <2>2. \/ UNCHANGED calls
              \/ \E k : k.op = "settle" /\ calls' = [calls EXCEPT ![Operator] = k]
            BY SettleSuspends
        <2>3. QED
            BY <2>1, <2>2 DEF TypeOK
    <1>6. FlowCalls'
        BY <1>1, <1>2, <1>3, <1>5 DEF FlowInv, FlowCalls
    <1>7. NotYetAwarded'
        BY <1>2, <1>4 DEF FlowInv, NotYetAwarded
    <1>8. OneStanding'
        BY <1>3 DEF OneStanding
    <1>9. OfferSet(Operator) = {} /\ OfferSet(Operator)' = {}
        BY <1>2 DEF FlowInv, NotYetAwarded, OfferSet
    <1>10. OffersAreInvoiced'
        BY <1>2, <1>3, <1>9 DEF FlowInv, OffersAreInvoiced
    <1>11. OfferInTheMaking'
        BY <1>5 DEF OfferInTheMaking
    <1>12. OffersAgreeWithInvoices'
        BY <1>2 DEF FlowInv, NotYetAwarded, OffersAgreeWithInvoices
    <1>13. QED
        BY <1>6, <1>7, <1>8, <1>10, <1>11, <1>12 DEF FlowInv

\* The winner is invoiced.
LEMMA WinnerInvoiced ==
    ASSUME TypeOK, FlowInv, ~Invoiced, NEW i \in Invoices, SettlementCreated(Operator, i)
    PROVE  /\ FlowInv' /\ Invoiced'
           /\ Auctioned'.state = "ENDED" /\ Auctioned'.winner \in Bidders
           /\ DOMAIN settlements' = {i} /\ settlements'[i].source = "winner"
    <1> DEFINE k == calls[Operator]
    <1>1. /\ edits = 0 /\ current = 0 /\ Auctioned = listing[0] /\ Auctioned \in Listing
        BY TheListing
    <1>2. k \in SettleCall /\ k.on = 0
        BY <1>1, CallKinds DEF SettlementCreated
    <1>3. k.bidder \in Bidders
        BY <1>2 DEF SettleCall
    <1>4. /\ settlements' = Put(settlements, i,
                Settlement(k.bidder, k.amount, now + WinnerWindow, "winner"))
          /\ i \notin DOMAIN settlements
        BY DEF SettlementCreated, Fresh
    <1>5. DOMAIN settlements = {}
        BY InvoicedHasSettlements
    <1>6. /\ DOMAIN settlements' = {i} /\ settlements'[i].bidder = k.bidder
          /\ settlements'[i].status = "pending" /\ settlements'[i].source = "winner"
        <2> HIDE DEF k
        <2>1. DOMAIN settlements' = {i} /\ settlements'[i] =
                    Settlement(k.bidder, k.amount, now + WinnerWindow, "winner")
            BY <1>4, <1>5 DEF Put
        <2>2. QED
            BY <2>1 DEF Settlement
    <1>7. /\ calls' = [calls EXCEPT ![Operator] = Idle]
          /\ UNCHANGED <<now, edits, offers, offerList>> /\ current' = 0
        BY <1>2 DEF SettlementCreated
    <1>8. /\ Auctioned'.winner = k.bidder /\ Auctioned'.invoice = i /\ Auctioned'.state = "ENDED"
        <2>1. listing' = [listing EXCEPT ![0] =
                    [Awarded(@, k.bidder, k.amount, i) EXCEPT !.state = "ENDED"]]
            BY <1>2 DEF SettlementCreated
        <2>2. 0 \in DOMAIN listing
            BY <1>1 DEF TypeOK
        <2>3. listing'[0] = [Awarded(listing[0], k.bidder, k.amount, i) EXCEPT !.state = "ENDED"]
            BY <2>1, <2>2
        <2>4. listing[0] \in Listing
            BY <1>1
        <2>5. /\ listing'[0].winner = k.bidder /\ listing'[0].invoice = i
              /\ listing'[0].state = "ENDED"
            BY <2>3, <2>4 DEF Awarded, Listing
        <2>6. QED
            BY <1>7, <2>5 DEF Auctioned
    <1> HIDE DEF k
    <1>9. Invoiced'
        BY <1>6, InvoicedHasSettlementsNext
    <1>10. FlowCalls'
        BY <1>1, <1>7, <1>9 DEF FlowInv, FlowCalls, TypeOK, Idle
    <1>11. NotYetAwarded'
        BY <1>9 DEF NotYetAwarded
    <1>12. OneStanding'
        <2>1. Latest' = settlements'[i]
            BY <1>8 DEF Latest
        <2>2. QED
            BY <1>6, <1>8, <2>1 DEF OneStanding
    <1>13. OfferSet(Operator)' = {} /\ offerList = "none"
        BY <1>7 DEF FlowInv, NotYetAwarded, OfferSet
    <1>14. OffersAreInvoiced'
        <2>1. \A j \in DOMAIN settlements' : settlements'[j].source # "second_chance"
            BY <1>6
        <2>2. QED
            BY <1>7, <1>13, <2>1 DEF FlowInv, OffersAreInvoiced
    <1>15. OfferInTheMaking'
        BY <1>7 DEF OfferInTheMaking, TypeOK, Idle
    <1>16. OffersAgreeWithInvoices'
        BY <1>7, <1>13 DEF OffersAgreeWithInvoices
    <1>17. FlowInv'
        BY <1>10, <1>11, <1>12, <1>14, <1>15, <1>16 DEF FlowInv
    <1>18. QED
        BY <1>3, <1>6, <1>8, <1>9, <1>17

\* The settlements and the offers after processSecondChance has run to its await: what
\* stood has expired, and the offers whose window has closed have lapsed.
LEMMA StandingExpires ==
    ASSUME TypeOK, FlowInv, Invoiced, Auctioned.state # "FAILED", ProcessSecondChance(Operator)
    PROVE  /\ Auctioned.state = "ENDED" /\ Latest.expiresAt < now
           /\ DOMAIN settlements' = DOMAIN settlements
           /\ settlements'[Auctioned.invoice] = [Latest EXCEPT !.status = "expired"]
           /\ \A i \in DOMAIN settlements \ {Auctioned.invoice} :
                 settlements'[i] = settlements[i] /\ Lapsed(settlements[i])
           /\ \A i \in DOMAIN settlements : settlements[i].status # "paid"
    <1>1. /\ now \in Nat /\ Auctioned \in Listing
          /\ \A i \in DOMAIN settlements : settlements[i] \in SettlementInvoice
        BY TheListing
    <1>2. /\ Auctioned.invoice \in DOMAIN settlements
          /\ Auctioned.state \in {"ENDED", "SETTLED", "FAILED"}
          /\ Latest.status = "paid" <=> Auctioned.state = "SETTLED"
          /\ Latest.status = "expired" => Latest.expiresAt < now
          /\ \A i \in DOMAIN settlements \ {Auctioned.invoice} : Lapsed(settlements[i])
        BY DEF FlowInv, OneStanding
    <1>3. Auctioned.state # "SETTLED" /\ ~StillActive(Auctioned)
        BY DEF ProcessSecondChance, Auctioned
    <1>4. Latest \in SettlementInvoice
        BY <1>1, <1>2 DEF Latest
    <1>5. /\ Latest.status \in {"pending", "expired"} /\ Latest.expiresAt \in Nat
        BY <1>2, <1>3, <1>4 DEF SettlementInvoice
    <1>6. Standing(Auctioned) = {Auctioned.invoice}
        BY <1>2 DEF Standing
    <1>7. Latest.expiresAt < now
        <2>1. Latest.status = "pending" => ~(now <= Latest.expiresAt)
            BY <1>3, <1>6 DEF StillActive, Latest
        <2>2. QED
            BY <1>1, <1>2, <1>5, <2>1
    <1>8. settlements' = [i \in DOMAIN settlements |->
                IF i \in Standing(Auctioned) THEN Expire(settlements[i]) ELSE settlements[i]]
        BY DEF ProcessSecondChance, Auctioned
    <1>9. Expire(Latest) = [Latest EXCEPT !.status = "expired"]
        BY <1>1, <1>4, <1>5, <1>7 DEF Expire, SettlementInvoice
    <1>10. /\ DOMAIN settlements' = DOMAIN settlements
           /\ settlements'[Auctioned.invoice] = [Latest EXCEPT !.status = "expired"]
           /\ \A i \in DOMAIN settlements \ {Auctioned.invoice} : settlements'[i] = settlements[i]
        BY <1>2, <1>6, <1>8, <1>9 DEF Latest
    <1>11. \A i \in DOMAIN settlements : settlements[i].status # "paid"
        BY <1>2, <1>5 DEF Lapsed, Latest
    <1>12. QED
        BY <1>2, <1>3, <1>7, <1>10, <1>11

LEMMA OffersLapse ==
    ASSUME TypeOK, FlowInv, ProcessSecondChance(Operator)
    PROVE  /\ offerList' = offerList /\ OfferArray(Operator)' = OfferArray(Operator)
           /\ OfferSet(Operator)' = {Lapse(o) : o \in OfferSet(Operator)}
           /\ offerList = "none" => \A s \in Slots : offers'[s] = {}
    <1>1. /\ offers' = [offers EXCEPT ![OfferArray(Operator)] = {Lapse(o) : o \in OfferSet(Operator)}]
          /\ offerList' = offerList
        BY DEF ProcessSecondChance
    <1>2. offers \in [Slots -> SUBSET Offer] /\ offerList \in Slots \cup {"none"}
        BY DEF TypeOK
    <1>3. CASE offerList = "none"
        <2>1. OfferSet(Operator) = {} /\ \A s \in Slots : offers[s] = {}
            BY <1>3 DEF FlowInv, OffersAreInvoiced, OfferSet
        <2>2. \A s \in Slots : offers'[s] = {}
            BY <1>1, <1>2, <2>1
        <2>3. QED
            BY <1>1, <1>3, <2>1, <2>2 DEF OfferSet, OfferArray
    <1>4. CASE offerList # "none"
        <2>1. OfferArray(Operator) = offerList /\ offerList \in DOMAIN offers
            BY <1>2, <1>4 DEF OfferArray
        <2>2. offers'[offerList] = {Lapse(o) : o \in OfferSet(Operator)}
            BY <1>1, <2>1
        <2>3. QED
            BY <1>1, <1>4, <2>2 DEF OfferSet, OfferArray
    <1>5. QED
        BY <1>3, <1>4

\* What processSecondChance does to the listing and to its handler: nobody is left, or
\* the first of those who are is about to be asked.
LEMMA NextIsChosen ==
    ASSUME TypeOK, FlowInv, ProcessSecondChance(Operator)
    PROVE  /\ UNCHANGED <<now, current, edits>>
           /\ \A d \in Calls \ {Operator} : calls'[d] = calls[d]
           /\ Auctioned'.winner = Auctioned.winner /\ Auctioned'.invoice = Auctioned.invoice
           /\ \/ Auctioned'.state = "FAILED" /\ calls'[Operator].op = "idle"
              \/ /\ Auctioned'.state = Auctioned.state
                 /\ calls'[Operator].op = "chance" /\ calls'[Operator].at = now
                 /\ calls'[Operator].array = OfferArray(Operator)
                 /\ calls'[Operator].bidder # Auctioned.winner
                 /\ \A o \in OfferSet(Operator) : o.bidder # calls'[Operator].bidder
    <1>1. /\ edits = 0 /\ current = 0 /\ Auctioned = listing[0] /\ Auctioned \in Listing
          /\ listing \in [0..0 -> Listing] /\ calls \in [Calls -> Call]
        BY TheListing DEF TypeOK
    <1>2. UNCHANGED <<now, current, edits>>
        BY DEF ProcessSecondChance
    <1>3. calls[Operator].op = "idle"
        BY DEF ProcessSecondChance, Idle
    <1>4. CASE listing' = [listing EXCEPT ![current].state = "FAILED"] /\ UNCHANGED calls
        <2>1. listing'[0] = [listing[0] EXCEPT !.state = "FAILED"]
            BY <1>1, <1>4
        <2>2. /\ Auctioned'.winner = Auctioned.winner /\ Auctioned'.invoice = Auctioned.invoice
              /\ Auctioned'.state = "FAILED"
            BY <1>1, <1>2, <2>1 DEF Auctioned, Listing
        <2>3. QED
            BY <1>2, <1>3, <1>4, <2>2
    <1>5. ASSUME NEW n \in First(Eligible(listing[current], Operator)), UNCHANGED listing,
                 calls' = [calls EXCEPT ![Operator] =
                             [op |-> "chance", on |-> current, bidder |-> bids[n].bidder,
                              amount |-> bids[n].amount, at |-> now,
                              array |-> OfferArray(Operator)]]
          PROVE  /\ Auctioned'.winner = Auctioned.winner /\ Auctioned'.invoice = Auctioned.invoice
                 /\ \A d \in Calls \ {Operator} : calls'[d] = calls[d]
                 /\ Auctioned'.state = Auctioned.state
                 /\ calls'[Operator].op = "chance" /\ calls'[Operator].at = now
                 /\ calls'[Operator].array = OfferArray(Operator)
                 /\ calls'[Operator].bidder # Auctioned.winner
                 /\ \A o \in OfferSet(Operator) : o.bidder # calls'[Operator].bidder
        <2>1. /\ bids[n].bidder # Auctioned.winner
              /\ \A o \in OfferSet(Operator) : o.bidder # bids[n].bidder
            BY <1>1, <1>5 DEF First, Eligible
        <2>2. /\ \A d \in Calls \ {Operator} : calls'[d] = calls[d]
              /\ calls'[Operator].op = "chance" /\ calls'[Operator].at = now
              /\ calls'[Operator].array = OfferArray(Operator)
              /\ calls'[Operator].bidder = bids[n].bidder
            BY <1>1, <1>5
        <2>3. Auctioned' = Auctioned
            BY <1>2, <1>5 DEF Auctioned
        <2>4. QED
            BY <2>1, <2>2, <2>3
    <1>6. QED
        BY <1>2, <1>4, <1>5 DEF ProcessSecondChance

LEMMA OperatorStartsOffering ==
    ASSUME TypeOK, FlowInv, Invoiced, Auctioned.state # "FAILED", ProcessSecondChance(Operator)
    PROVE  FlowInv'
    <1>1. /\ now \in Nat
          /\ \A i \in DOMAIN settlements : settlements[i] \in SettlementInvoice
        BY TheListing
    <1>2. Auctioned.invoice \in DOMAIN settlements /\ Latest \in SettlementInvoice
        BY <1>1 DEF FlowInv, OneStanding, Latest
    <1>3. UNCHANGED <<now, current, edits>> /\ Auctioned'.invoice = Auctioned.invoice
        BY NextIsChosen
    <1>4. /\ DOMAIN settlements' = DOMAIN settlements
          /\ \A i \in DOMAIN settlements :
                /\ settlements'[i].status = "expired" /\ settlements[i].status # "paid"
                /\ settlements'[i].expiresAt < now
                /\ settlements'[i].bidder = settlements[i].bidder
                /\ settlements'[i].source = settlements[i].source
                /\ settlements'[i].expiresAt = settlements[i].expiresAt
        <2>1. ASSUME NEW i \in DOMAIN settlements
              PROVE  /\ settlements'[i].status = "expired" /\ settlements[i].status # "paid"
                     /\ settlements'[i].expiresAt < now
                     /\ settlements'[i].bidder = settlements[i].bidder
                     /\ settlements'[i].source = settlements[i].source
                     /\ settlements'[i].expiresAt = settlements[i].expiresAt
            <3>1. CASE i = Auctioned.invoice
                <4>1. settlements'[i] = [settlements[i] EXCEPT !.status = "expired"]
                    BY <3>1, StandingExpires DEF Latest
                <4>2. settlements[i].expiresAt < now /\ settlements[i].status # "paid"
                    BY <3>1, StandingExpires DEF Latest
                <4>3. settlements[i] \in SettlementInvoice
                    BY <1>1
                <4>4. QED
                    BY <4>1, <4>2, <4>3 DEF SettlementInvoice
            <3>2. CASE i # Auctioned.invoice
                BY <3>2, StandingExpires DEF Lapsed
            <3>3. QED
                BY <3>1, <3>2
        <2>2. QED
            BY <2>1, StandingExpires
    <1>5. Invoiced'
        BY <1>2, <1>4, InvoicedHasSettlementsNext
    <1>6. FlowCalls'
        BY <1>3, <1>5, NextIsChosen DEF FlowInv, FlowCalls
    <1>7. NotYetAwarded'
        BY <1>5 DEF NotYetAwarded
    <1>8. Latest' = settlements'[Auctioned.invoice] /\ Latest'.status = "expired"
        BY <1>2, <1>3, <1>4 DEF Latest
    <1>9. Auctioned'.state \in {"ENDED", "FAILED"} /\ Auctioned'.winner = Auctioned.winner
        BY NextIsChosen, StandingExpires
    <1>10. OneStanding'
        <2>1. Latest'.bidder = Auctioned.winner
            BY <1>2, <1>4, <1>8 DEF FlowInv, OneStanding, Latest
        <2>2. Latest'.expiresAt < now'
            BY <1>2, <1>3, <1>4, <1>8
        <2>3. \A i \in DOMAIN settlements' : Lapsed(settlements[i])'
            BY <1>3, <1>4 DEF Lapsed
        <2>4. QED
            BY <1>2, <1>3, <1>4, <1>8, <1>9, <2>1, <2>2, <2>3 DEF OneStanding
    <1>11. \A o \in OfferSet(Operator)' :
                \E p \in OfferSet(Operator) :
                    /\ o.invoice = p.invoice /\ o.bidder = p.bidder /\ o.expiresAt = p.expiresAt
                    /\ o.status = "accepted" <=> p.status = "accepted"
        <2>1. OfferSet(Operator) \subseteq Offer
            BY OfferArrayType DEF Slots
        <2>2. \A p \in Offer :
                /\ Lapse(p).invoice = p.invoice /\ Lapse(p).bidder = p.bidder
                /\ Lapse(p).expiresAt = p.expiresAt
                /\ Lapse(p).status = "accepted" <=> p.status = "accepted"
            BY DEF Lapse, Offer
        <2>3. QED
            BY <2>1, <2>2, OffersLapse
    <1>12. \A p \in OfferSet(Operator) : \E o \in OfferSet(Operator)' : o.bidder = p.bidder
        <2>1. OfferSet(Operator) \subseteq Offer
            BY OfferArrayType DEF Slots
        <2>2. \A p \in Offer : Lapse(p).bidder = p.bidder
            BY DEF Lapse, Offer
        <2>3. QED
            BY <2>1, <2>2, OffersLapse
    <1>13. OffersAreInvoiced'
        <2>1. \A o \in OfferSet(Operator)' :
                    /\ o.invoice \in DOMAIN settlements'
                    /\ settlements'[o.invoice].bidder = o.bidder
                    /\ settlements'[o.invoice].expiresAt = o.expiresAt
            BY <1>4, <1>11 DEF FlowInv, OffersAreInvoiced
        <2>2. \A i \in DOMAIN settlements' : settlements'[i].source = "second_chance" =>
                    \E o \in OfferSet(Operator)' : o.bidder = settlements'[i].bidder
            BY <1>4, <1>12 DEF FlowInv, OffersAreInvoiced
        <2>3. QED
            BY <2>1, <2>2, OffersLapse DEF OffersAreInvoiced
    <1>14. OfferInTheMaking'
        <2>1. CASE calls'[Operator].op = "idle"
            BY <2>1 DEF OfferInTheMaking
        <2>2. CASE calls'[Operator].op # "idle"
            <3>1. /\ Auctioned'.state = Auctioned.state /\ Auctioned'.winner = Auctioned.winner
                  /\ calls'[Operator].at = now /\ calls'[Operator].array = OfferArray(Operator)
                  /\ calls'[Operator].bidder # Auctioned.winner
                  /\ \A p \in OfferSet(Operator) : p.bidder # calls'[Operator].bidder
                BY <2>2, NextIsChosen
            <3>2. \A o \in OfferSet(Operator)' : o.bidder # calls'[Operator].bidder
                BY <1>11, <3>1
            <3>3. Auctioned.state = "ENDED" /\ OfferArray(Operator)' = OfferArray(Operator)
                BY StandingExpires, OffersLapse
            <3>4. QED
                BY <1>3, <1>8, <3>1, <3>2, <3>3 DEF OfferInTheMaking
        <2>3. QED
            BY <2>1, <2>2
    <1>15. OffersAgreeWithInvoices'
        <2> SUFFICES ASSUME NEW o \in OfferSet(Operator)'
                     PROVE  /\ o.status = "accepted" <=> settlements'[o.invoice].status = "paid"
                            /\ settlements'[o.invoice].status # "pending"
            BY DEF OffersAgreeWithInvoices, OfferSet
        <2>1. PICK p \in OfferSet(Operator) :
                    /\ o.invoice = p.invoice
                    /\ o.status = "accepted" <=> p.status = "accepted"
            BY <1>11
        <2>2. p.invoice \in DOMAIN settlements
            BY DEF FlowInv, OffersAreInvoiced
        <2>3. settlements'[o.invoice].status = "expired" /\ settlements[p.invoice].status # "paid"
            BY <1>4, <2>1, <2>2
        <2>4. p.status # "accepted"
            BY <2>3 DEF FlowInv, OffersAgreeWithInvoices, OfferSet
        <2>5. QED
            BY <2>1, <2>3, <2>4
    <1>16. QED
        BY <1>6, <1>7, <1>10, <1>13, <1>14, <1>15 DEF FlowInv

\* What processSecondChance writes when its invoice is there: a pending settlement, its
\* offer, and the listing that names both.
LEMMA OfferIsWritten ==
    ASSUME TypeOK, FlowInv, Invoiced, NEW i \in Invoices, SecondChanceCreated(Operator, i)
    PROVE  /\ UNCHANGED <<now, edits>> /\ current' = 0 /\ calls' = [calls EXCEPT ![Operator] = Idle]
           /\ i \notin DOMAIN settlements
           /\ DOMAIN settlements' = DOMAIN settlements \cup {i}
           /\ \A j \in DOMAIN settlements : settlements'[j] = settlements[j]
           /\ settlements'[i] = Settlement(calls[Operator].bidder, calls[Operator].amount,
                                           now + ChanceWindow, "second_chance")
           /\ OfferSet(Operator)' = OfferSet(Operator) \cup
                {[bidder |-> calls[Operator].bidder, invoice |-> i,
                  expiresAt |-> now + ChanceWindow, status |-> "pending"]}
           /\ offerList' # "none"
           /\ Auctioned'.winner = calls[Operator].bidder /\ Auctioned'.invoice = i
           /\ Auctioned'.state = "ENDED"
    <1> DEFINE k == calls[Operator]
               o == [bidder |-> k.bidder, invoice |-> i,
                     expiresAt |-> now + ChanceWindow, status |-> "pending"]
    <1>1. /\ edits = 0 /\ current = 0 /\ Auctioned = listing[0] /\ Auctioned \in Listing
        BY TheListing
    <1>2. k.op = "chance" /\ k \in ChanceCall /\ k.on = 0 /\ k.array \in Slots
        BY <1>1, CallKinds DEF SecondChanceCreated, ChanceCall
    <1>3. k.at = now /\ k.array = OfferArray(Operator) /\ Auctioned.state = "ENDED"
        BY <1>2 DEF FlowInv, OfferInTheMaking
    <1>4. /\ settlements' = Put(settlements, i,
                Settlement(k.bidder, k.amount, k.at + ChanceWindow, "second_chance"))
          /\ i \notin DOMAIN settlements
        BY DEF SecondChanceCreated, Fresh
    <1>5. /\ DOMAIN settlements' = DOMAIN settlements \cup {i}
          /\ \A j \in DOMAIN settlements : settlements'[j] = settlements[j]
          /\ settlements'[i] = Settlement(k.bidder, k.amount, now + ChanceWindow, "second_chance")
        BY <1>3, <1>4 DEF Put
    <1>6. /\ offers' = [offers EXCEPT ![k.array] = @ \cup {o}]
          /\ offerList' = k.array
        BY <1>3 DEF SecondChanceCreated
    <1>7. offers' = [offers EXCEPT ![k.array] = @ \cup {o}] => offers'[k.array] = offers[k.array] \cup {o}
        BY <1>2 DEF TypeOK
    <1>8. offers[k.array] = OfferSet(Operator)
        <2>1. CASE offerList = "none"
            BY <1>2, <2>1 DEF FlowInv, OffersAreInvoiced, OfferSet
        <2>2. CASE offerList # "none"
            BY <1>3, <2>2 DEF OfferArray, OfferSet
        <2>3. QED
            BY <2>1, <2>2
    <1>9. offerList' # "none"
        <2>1. k.array # "none"
            BY <1>2, ConstantsAssumption DEF Slots
        <2>2. QED
            BY <1>6, <2>1
    <1>10. OfferSet(Operator)' = OfferSet(Operator) \cup {o}
        BY <1>6, <1>7, <1>8, <1>9 DEF OfferSet
    <1>11. /\ Auctioned'.winner = k.bidder /\ Auctioned'.invoice = i /\ Auctioned'.state = "ENDED"
           /\ current' = 0
        <2>1. listing' = [listing EXCEPT ![0] = Awarded(@, k.bidder, k.amount, i)] /\ current' = 0
            BY <1>2 DEF SecondChanceCreated
        <2>2. 0 \in DOMAIN listing
            BY <1>1 DEF TypeOK
        <2>3. listing'[0] = Awarded(listing[0], k.bidder, k.amount, i)
            BY <2>1, <2>2
        <2>4. /\ listing'[0].winner = k.bidder /\ listing'[0].invoice = i
              /\ listing'[0].state = "ENDED"
            BY <1>1, <1>3, <2>3 DEF Awarded, Listing
        <2>5. QED
            BY <2>1, <2>4 DEF Auctioned
    <1>12. /\ UNCHANGED <<now, edits>> /\ calls' = [calls EXCEPT ![Operator] = Idle]
        BY DEF SecondChanceCreated
    <1>13. QED
        BY <1>4, <1>5, <1>9, <1>10, <1>11, <1>12

LEMMA OfferMade ==
    ASSUME TypeOK, FlowInv, Invoiced, NEW i \in Invoices, SecondChanceCreated(Operator, i)
    PROVE  FlowInv'
    <1> DEFINE k == calls[Operator]
               offer == [bidder |-> k.bidder, invoice |-> i,
                         expiresAt |-> now + ChanceWindow, status |-> "pending"]
    <1>1. /\ edits = 0 /\ now \in Nat
          /\ \A j \in DOMAIN settlements : settlements[j] \in SettlementInvoice
        BY TheListing
    <1>2. k.op = "chance"
        BY DEF SecondChanceCreated
    <1>3. /\ Latest.status = "expired" /\ Latest.expiresAt < now
          /\ Auctioned.invoice \in DOMAIN settlements
          /\ \A j \in DOMAIN settlements : Lapsed(settlements[j])
        BY <1>2 DEF FlowInv, OfferInTheMaking, OneStanding, Latest, Lapsed
    <1>4. /\ UNCHANGED <<now, edits>> /\ current' = 0 /\ calls' = [calls EXCEPT ![Operator] = Idle]
          /\ i \notin DOMAIN settlements /\ DOMAIN settlements' = DOMAIN settlements \cup {i}
          /\ \A j \in DOMAIN settlements : settlements'[j] = settlements[j]
        BY OfferIsWritten
    <1>5. /\ settlements'[i].bidder = k.bidder /\ settlements'[i].expiresAt = now + ChanceWindow
          /\ settlements'[i].status = "pending" /\ settlements'[i].source = "second_chance"
        <2>1. settlements'[i] = Settlement(k.bidder, k.amount, now + ChanceWindow, "second_chance")
            BY OfferIsWritten
        <2>2. QED
            BY <2>1 DEF Settlement
    <1>6. offer.invoice = i /\ offer.bidder = k.bidder /\ offer.expiresAt = now + ChanceWindow
          /\ offer.status = "pending"
        OBVIOUS
    <1>7. OfferSet(Operator)' = OfferSet(Operator) \cup {offer} /\ offerList' # "none"
        BY OfferIsWritten
    <1>8. /\ Auctioned'.winner = k.bidder /\ Auctioned'.invoice = i /\ Auctioned'.state = "ENDED"
        BY OfferIsWritten
    <1> HIDE DEF k, offer
    <1>9. Invoiced'
        BY <1>4, InvoicedHasSettlementsNext
    <1>10. FlowCalls'
        <2>1. calls'[Operator].op = "idle" /\ \A c \in Calls \ {Operator} : calls'[c] = calls[c]
            BY <1>4 DEF TypeOK, Idle
        <2>2. QED
            BY <1>1, <1>4, <2>1 DEF FlowInv, FlowCalls
    <1>11. NotYetAwarded'
        BY <1>9 DEF NotYetAwarded
    <1>12. OneStanding'
        <2>1. Latest' = settlements'[i]
            BY <1>8 DEF Latest
        <2>2. \A j \in DOMAIN settlements' \ {i} : Lapsed(settlements[j])'
            BY <1>3, <1>4 DEF Lapsed
        <2>3. QED
            BY <1>4, <1>5, <1>8, <2>1, <2>2 DEF OneStanding
    <1>13. OffersAreInvoiced'
        <2>1. \A o \in OfferSet(Operator)' :
                    /\ o.invoice \in DOMAIN settlements'
                    /\ settlements'[o.invoice].bidder = o.bidder
                    /\ settlements'[o.invoice].expiresAt = o.expiresAt
            BY <1>4, <1>5, <1>6, <1>7 DEF FlowInv, OffersAreInvoiced
        <2>2. \A j \in DOMAIN settlements' : settlements'[j].source = "second_chance" =>
                    \E o \in OfferSet(Operator)' : o.bidder = settlements'[j].bidder
            BY <1>4, <1>5, <1>6, <1>7 DEF FlowInv, OffersAreInvoiced
        <2>3. QED
            BY <1>7, <2>1, <2>2 DEF OffersAreInvoiced
    <1>14. OfferInTheMaking'
        BY <1>4 DEF OfferInTheMaking, TypeOK, Idle
    <1>15. OffersAgreeWithInvoices'
        <2> SUFFICES ASSUME NEW o \in OfferSet(Operator)'
                     PROVE  /\ o.status = "accepted" <=> settlements'[o.invoice].status = "paid"
                            /\ settlements'[o.invoice].status = "pending" => o.status = "pending"
            BY <1>7 DEF OffersAgreeWithInvoices, OfferSet
        <2>1. CASE o = offer
            BY <1>5, <1>6, <2>1
        <2>2. CASE o \in OfferSet(Operator)
            <3>1. o.invoice \in DOMAIN settlements
                BY <2>2 DEF FlowInv, OffersAreInvoiced
            <3>2. settlements'[o.invoice].status = "expired"
                BY <1>3, <1>4, <3>1 DEF Lapsed
            <3>3. o.status = "accepted" <=> settlements[o.invoice].status = "paid"
                BY <2>2 DEF FlowInv, OffersAgreeWithInvoices, OfferSet
            <3>4. QED
                BY <1>4, <3>1, <3>2, <3>3
        <2>3. QED
            BY <1>7, <2>1, <2>2
    <1>16. QED
        BY <1>10, <1>11, <1>12, <1>13, <1>14, <1>15 DEF FlowInv

(***************************************************************************)
(* Payment                                                                 *)
(***************************************************************************)

\* Only what stands can be paid, or be reported paid again, and never while an offer
\* is being invoiced.
LEMMA OnlyTheStandingIsPaid ==
    ASSUME TypeOK, FlowInv, NEW i \in Invoices, BidderPays(i)
    PROVE  /\ Invoiced /\ i = Auctioned.invoice /\ i \in DOMAIN settlements
           /\ settlements[i] \in SettlementInvoice
           /\ Auctioned.state \in {"ENDED", "SETTLED"} /\ calls[Operator].op = "idle"
           /\ \A j \in DOMAIN settlements \ {i} : Lapsed(settlements[j])
    <1>1. i \in DOMAIN settlements /\ Invoiced
        BY InvoicedHasSettlements DEF BidderPays, SettlementPaid
    <1>2. now \in Nat /\ settlements[i] \in SettlementInvoice /\ settlements[i].expiresAt \in Nat
        BY <1>1, TheListing
    <1>3. settlements[i].status = "paid" \/ now <= settlements[i].expiresAt
        BY DEF BidderPays
    <1>4. ~Lapsed(settlements[i])
        BY <1>2, <1>3 DEF Lapsed
    <1>5. i = Auctioned.invoice /\ \A j \in DOMAIN settlements \ {i} : Lapsed(settlements[j])
        BY <1>1, <1>4 DEF FlowInv, OneStanding
    <1>6. Latest = settlements[i] /\ Latest.status # "expired"
        <2>1. Latest = settlements[i]
            BY <1>5 DEF Latest
        <2>2. Latest.status = "expired" => Latest.expiresAt < now
            BY <1>1 DEF FlowInv, OneStanding
        <2>3. QED
            BY <1>2, <1>3, <2>1, <2>2
    <1>7. Auctioned.state \in {"ENDED", "SETTLED"}
        BY <1>1, <1>6 DEF FlowInv, OneStanding
    <1>8. calls[Operator].op = "idle"
        BY <1>1, <1>6 DEF FlowInv, FlowCalls, OfferInTheMaking
    <1>9. QED
        BY <1>1, <1>2, <1>5, <1>7, <1>8

\* The payment settles the auction with the winner it has.
LEMMA PaymentIsWritten ==
    ASSUME TypeOK, FlowInv, NEW i \in Invoices, BidderPays(i)
    PROVE  /\ UNCHANGED <<now, edits, current, calls>>
           /\ settlements' = [settlements EXCEPT ![i].status = "paid"]
           /\ Auctioned'.winner = Auctioned.winner /\ Auctioned'.invoice = Auctioned.invoice
           /\ Auctioned'.state = "SETTLED"
    <1> DEFINE s == settlements[i]
    <1>1. /\ edits = 0 /\ current = 0 /\ Auctioned = listing[0] /\ Auctioned \in Listing
        BY TheListing
    <1>2. /\ UNCHANGED <<now, edits, current, calls>>
          /\ settlements' = [settlements EXCEPT ![i].status = "paid"]
          /\ listing' = [listing EXCEPT ![0] =
                [@ EXCEPT !.state = "SETTLED", !.winner = s.bidder, !.amount = s.amount]]
        BY <1>1 DEF BidderPays, SettlementPaid
    <1>3. s.bidder = Auctioned.winner
        BY OnlyTheStandingIsPaid DEF FlowInv, OneStanding, Latest
    <1>4. 0 \in DOMAIN listing
        BY <1>1 DEF TypeOK
    <1>5. listing'[0] = [listing[0] EXCEPT !.state = "SETTLED", !.winner = s.bidder, !.amount = s.amount]
        BY <1>2, <1>4
    <1> HIDE DEF s
    <1>6. /\ listing'[0].winner = s.bidder /\ listing'[0].invoice = Auctioned.invoice
          /\ listing'[0].state = "SETTLED"
        BY <1>1, <1>5 DEF Listing
    <1>7. Auctioned' = listing'[0]
        BY <1>1, <1>2 DEF Auctioned
    <1>8. QED
        BY <1>2, <1>3, <1>6, <1>7

\* The offers after a payment: its own is accepted, the pending ones are declined.
LEMMA OffersAreDecided ==
    ASSUME TypeOK, FlowInv, NEW i \in Invoices, BidderPays(i)
    PROVE  /\ OfferSet(Operator)' = {Decide(o, i) : o \in OfferSet(Operator)}
           /\ offerList' # "none"
    <1>1. /\ offers' = [offers EXCEPT ![OfferArray("hook")] = {Decide(o, i) : o \in OfferSet("hook")}]
          /\ offerList' = OfferArray("hook")
        BY DEF BidderPays, SettlementPaid
    <1>2. OfferSet("hook") = OfferSet(Operator)
        BY DEF OfferSet
    <1>3. OfferArray("hook") \in DOMAIN offers /\ OfferArray("hook") # "none"
        BY DEF OfferArray, TypeOK, Slots
    <1>4. offers'[OfferArray("hook")] = {Decide(o, i) : o \in OfferSet(Operator)}
        BY <1>1, <1>2, <1>3
    <1>5. QED
        BY <1>1, <1>3, <1>4 DEF OfferSet

LEMMA SaleIsPaid ==
    ASSUME TypeOK, FlowInv, NEW i \in Invoices, BidderPays(i)
    PROVE  FlowInv'
    <1>1. /\ UNCHANGED <<now, edits, current, calls>>
          /\ Auctioned'.winner = Auctioned.winner /\ Auctioned'.invoice = Auctioned.invoice
          /\ Auctioned'.state = "SETTLED"
        BY PaymentIsWritten
    <1>2. /\ Invoiced /\ i = Auctioned.invoice /\ i \in DOMAIN settlements
          /\ settlements[i] \in SettlementInvoice /\ calls[Operator].op = "idle"
          /\ \A j \in DOMAIN settlements \ {i} : Lapsed(settlements[j])
        BY OnlyTheStandingIsPaid
    <1>3. /\ DOMAIN settlements' = DOMAIN settlements
          /\ settlements'[i] = [settlements[i] EXCEPT !.status = "paid"]
          /\ \A j \in DOMAIN settlements \ {i} : settlements'[j] = settlements[j]
        BY <1>2, PaymentIsWritten
    <1>4. /\ settlements'[i].status = "paid" /\ settlements'[i].bidder = settlements[i].bidder
          /\ settlements'[i].source = settlements[i].source
          /\ settlements'[i].expiresAt = settlements[i].expiresAt
        BY <1>2, <1>3 DEF SettlementInvoice
    <1>5. Invoiced'
        BY <1>2, <1>3, InvoicedHasSettlementsNext
    <1>6. FlowCalls'
        BY <1>1, <1>2 DEF FlowInv, FlowCalls
    <1>7. NotYetAwarded'
        BY <1>5 DEF NotYetAwarded
    <1>8. OneStanding'
        <2>1. Latest' = settlements'[i] /\ Latest = settlements[i]
            BY <1>1, <1>2 DEF Latest
        <2>2. \A j \in DOMAIN settlements' \ {i} : Lapsed(settlements[j])'
            BY <1>1, <1>2, <1>3 DEF Lapsed
        <2>3. Latest.bidder = Auctioned.winner
            BY <1>2 DEF FlowInv, OneStanding
        <2>4. QED
            BY <1>1, <1>2, <1>3, <1>4, <2>1, <2>2, <2>3 DEF OneStanding
    <1>9. OfferSet(Operator) \subseteq Offer
        BY OfferArrayType DEF Slots
    <1>10. \A p \in Offer :
                /\ Decide(p, i).invoice = p.invoice /\ Decide(p, i).bidder = p.bidder
                /\ Decide(p, i).expiresAt = p.expiresAt
                /\ Decide(p, i).status = "accepted" <=> p.invoice = i \/ p.status = "accepted"
        BY DEF Decide, Offer
    <1>11. OffersAreInvoiced'
        <2>1. \A o \in OfferSet(Operator)' :
                    /\ o.invoice \in DOMAIN settlements'
                    /\ settlements'[o.invoice].bidder = o.bidder
                    /\ settlements'[o.invoice].expiresAt = o.expiresAt
            <3> SUFFICES ASSUME NEW p \in OfferSet(Operator)
                         PROVE  /\ p.invoice \in DOMAIN settlements'
                                /\ settlements'[p.invoice].bidder = p.bidder
                                /\ settlements'[p.invoice].expiresAt = p.expiresAt
                BY <1>9, <1>10, OffersAreDecided
            <3>1. /\ p.invoice \in DOMAIN settlements
                  /\ settlements[p.invoice].bidder = p.bidder
                  /\ settlements[p.invoice].expiresAt = p.expiresAt
                BY DEF FlowInv, OffersAreInvoiced
            <3>2. CASE p.invoice = i
                BY <1>3, <1>4, <3>1, <3>2
            <3>3. CASE p.invoice # i
                BY <1>3, <3>1, <3>3
            <3>4. QED
                BY <3>2, <3>3
        <2>2. \A j \in DOMAIN settlements' : settlements'[j].source = "second_chance" =>
                    \E o \in OfferSet(Operator)' : o.bidder = settlements'[j].bidder
            <3> SUFFICES ASSUME NEW j \in DOMAIN settlements', settlements'[j].source = "second_chance"
                         PROVE  \E o \in OfferSet(Operator)' : o.bidder = settlements'[j].bidder
                OBVIOUS
            <3>0. j \in DOMAIN settlements /\ settlements[j].source = "second_chance"
                BY <1>3, <1>4
            <3>1. PICK p \in OfferSet(Operator) : p.bidder = settlements[j].bidder
                BY <3>0 DEF FlowInv, OffersAreInvoiced
            <3>2. Decide(p, i) \in OfferSet(Operator)' /\ Decide(p, i).bidder = p.bidder
                BY <1>9, <1>10, OffersAreDecided
            <3>3. settlements'[j].bidder = settlements[j].bidder
                BY <1>3, <1>4
            <3>4. QED
                BY <3>1, <3>2, <3>3
        <2>3. QED
            BY <2>1, <2>2, OffersAreDecided DEF OffersAreInvoiced
    <1>12. OfferInTheMaking'
        BY <1>1, <1>2 DEF OfferInTheMaking
    <1>13. OffersAgreeWithInvoices'
        <2> SUFFICES ASSUME NEW p \in OfferSet(Operator)
                     PROVE  p.invoice = i \/ p.status = "accepted"
                                <=> settlements'[p.invoice].status = "paid"
            <3>1. Concluded'
                BY <1>1 DEF Concluded
            <3>2. QED
                BY <1>9, <1>10, <3>1, OffersAreDecided DEF OffersAgreeWithInvoices, OfferSet
        <2>1. p.status = "accepted" <=> settlements[p.invoice].status = "paid"
            BY DEF FlowInv, OffersAgreeWithInvoices, OfferSet
        <2>2. p.invoice \in DOMAIN settlements
            BY DEF FlowInv, OffersAreInvoiced
        <2>3. QED
            BY <1>2, <1>3, <1>4, <2>1, <2>2
    <1>14. QED
        BY <1>6, <1>7, <1>8, <1>11, <1>12, <1>13 DEF FlowInv

(***************************************************************************)
(* The theorems                                                            *)
(***************************************************************************)

\* The invariant of the flow is inductive.
LEMMA FlowStep == TypeOK /\ FlowInv /\ [FlowNext]_vars => FlowInv'
    <1> SUFFICES ASSUME TypeOK, FlowInv, [FlowNext]_vars PROVE FlowInv'
        OBVIOUS
    <1>1. /\ current = 0 /\ now \in Nat
          /\ \A c \in Calls \ {Operator} : calls[c].op \in {"idle", "verifying", "verified"}
        BY TheListing DEF FlowInv, FlowCalls
    <1>2. CASE OperatorSettles
        BY <1>2, OperatorStartsSettling, WinnerInvoiced DEF OperatorSettles
    <1>3. CASE OperatorOffers
        BY <1>3, OperatorStartsOffering, OfferMade DEF OperatorOffers
    <1>4. CASE CreateInvoiceFails(Operator)
        <2>1. /\ calls'[Operator].op = "idle"
              /\ \A c \in Calls \ {Operator} : calls'[c] = calls[c]
            BY <1>4 DEF CreateInvoiceFails, TypeOK, Idle
        <2>2. UNCHANGED <<now, listing, current, edits, settlements, offers, offerList>>
            BY <1>4 DEF CreateInvoiceFails, selling
        <2>3. QED
            BY <1>1, <2>1, <2>2, OutsideTheSale
    <1>5. CASE Day
        <2>1. /\ UNCHANGED <<listing, current, edits, settlements, offers, offerList, calls>>
              /\ now' \in Nat /\ now' >= now /\ calls'[Operator].op = "idle"
            BY <1>1, <1>5 DEF Day, Waiting, Tick, selling, Idle
        <2>2. QED
            BY <1>1, <2>1, OutsideTheSale
    <1>6. CASE UNCHANGED vars
        <2>1. UNCHANGED <<now, listing, current, edits, settlements, offers, offerList, calls>>
            BY <1>6 DEF vars, selling
        <2>2. QED
            BY <1>1, <2>1, OutsideTheSale
    <1>7. QED
        BY <1>2, <1>3, <1>4, <1>5, <1>6, BiddingFrame, SaleIsPaid DEF FlowNext

LEMMA FlowInit == Init => FlowInv
    <1> SUFFICES ASSUME Init PROVE FlowInv
        OBVIOUS
    <1>1. PICK in \in Listings : listing = [g \in {0} |-> NewListing(in)]
        BY DEF Init
    <1>2. /\ Auctioned.winner = Nobody /\ Auctioned.state \in {"UPCOMING", "LIVE"}
        BY <1>1 DEF Init, NewListing, Auctioned
    <1>3. ~Invoiced /\ DOMAIN settlements = {}
        BY DEF Init, Invoiced, EmptyMap
    <1>4. /\ offerList = "none" /\ edits = 0 /\ \A s \in Slots : offers[s] = {}
          /\ \A c \in Calls : calls[c].op = "idle"
        BY DEF Init, Idle
    <1>5. QED
        BY <1>2, <1>3, <1>4
        DEF FlowInv, FlowCalls, NotYetAwarded, OneStanding, OffersAreInvoiced, OfferSet,
            OfferInTheMaking, OffersAgreeWithInvoices

\* The invariant of the documented flow.
THEOREM FlowCorrect == FlowSpec => []FlowInv
    <1>1. QED
        BY FlowInit, FlowStep, FlowTypeCorrect, PTL DEF FlowSpec

\* Two bidders are never asked to pay for the name at the same time.
THEOREM OneBidderIsAsked == FlowSpec => []OneActiveSettlement
    <1>1. TypeOK /\ FlowInv => OneActiveSettlement
        <2> SUFFICES ASSUME TypeOK, FlowInv, NEW i \in DOMAIN settlements,
                            settlements[i].status = "pending"
                     PROVE  i = Auctioned.invoice
            BY DEF OneActiveSettlement
        <2>1. ~Lapsed(settlements[i]) /\ Invoiced
            BY InvoicedHasSettlements DEF Lapsed
        <2>2. QED
            BY <2>1 DEF FlowInv, OneStanding
    <1>2. QED
        BY <1>1, FlowCorrect, FlowTypeCorrect, PTL

\* An offer is accepted exactly when its invoice is paid, and pending while it can be.
THEOREM OffersAreKept == FlowSpec => []OffersAgreeWithInvoices
    <1>1. FlowInv => OffersAgreeWithInvoices
        BY DEF FlowInv
    <1>2. QED
        BY <1>1, FlowCorrect, PTL

(***************************************************************************)
(* The flow implements the sale                                            *)
(***************************************************************************)

\* Where the sale stands, by what the listing and the settlements say.
LEMMA PhaseOfSale ==
    ASSUME TypeOK, FlowInv
    PROVE  /\ ~Invoiced => SalePhase = "open" /\ SecondChances = {} /\ Auctioned.winner = Nobody
           /\ Invoiced => Auctioned.winner \in Bidders
           /\ Invoiced /\ Auctioned.state = "ENDED" => SalePhase = "awarded"
           /\ Auctioned.state = "SETTLED" => SalePhase = "sold"
           /\ Auctioned.state = "FAILED" => SalePhase = "failed"
    <1>1. \A i \in DOMAIN settlements : settlements[i] \in SettlementInvoice
        BY TheListing
    <1>2. Invoiced => Auctioned.winner \in Bidders
        BY <1>1 DEF FlowInv, OneStanding, Latest, SettlementInvoice
    <1>3. Nobody \notin Bidders
        BY ConstantsAssumption
    <1>4. ~Invoiced => SecondChances = {}
        BY InvoicedHasSettlements DEF SecondChances
    <1>5. QED
        BY <1>2, <1>3, <1>4 DEF FlowInv, NotYetAwarded, SalePhase

\* Settlements that keep their bidder and their source are the same second chances.
LEMMA SameChances ==
    ASSUME DOMAIN settlements' = DOMAIN settlements,
           \A i \in DOMAIN settlements :
              /\ settlements'[i].bidder = settlements[i].bidder
              /\ settlements'[i].source = settlements[i].source
    PROVE  SecondChances' = SecondChances
    BY DEF SecondChances

\* A step that keeps the listing's buyer and state, and the settlements, keeps the sale.
LEMMA SaleUntouched ==
    ASSUME UNCHANGED settlements,
           Auctioned'.winner = Auctioned.winner, Auctioned'.state = Auctioned.state
    PROVE  UNCHANGED <<SalePhase, Auctioned.winner, SecondChances>>
    BY DEF SalePhase, SecondChances

LEMMA BiddingKeepsTheSale ==
    ASSUME TypeOK, FlowInv, Bidding
    PROVE  UNCHANGED <<SalePhase, Auctioned.winner, SecondChances>>
    <1>1. /\ edits = 0 /\ current = 0
        BY TheListing
    <1>2. UNCHANGED <<current, settlements>>
        BY DEF Bidding, IngestZapBid, VerifyZapPayment, RecordZapBid, RejectZapBid, selling
    <1>3. Auctioned'.winner = Auctioned.winner /\ Auctioned'.state = Auctioned.state
        <2>1. CASE UNCHANGED listing
            BY <1>2, <2>1 DEF Auctioned
        <2>2. ASSUME NEW c \in Calls, RecordZapBid(c), ~UNCHANGED listing
              PROVE  Auctioned'.winner = Auctioned.winner /\ Auctioned'.state = Auctioned.state
            <3>1. listing' = [listing EXCEPT ![calls[c].on].endsAt = @ + SnipeExtension]
                BY <2>2 DEF RecordZapBid
            <3>2. listing \in [0..0 -> Listing]
                BY <1>1 DEF TypeOK
            <3>3. listing'[0].winner = listing[0].winner /\ listing'[0].state = listing[0].state
                BY <3>1, <3>2 DEF Listing
            <3>4. QED
                BY <1>1, <1>2, <3>3 DEF Auctioned
        <2>3. UNCHANGED listing \/ \E c \in Calls : RecordZapBid(c)
            BY DEF Bidding, IngestZapBid, VerifyZapPayment, RejectZapBid
        <2>4. QED
            BY <2>1, <2>2, <2>3
    <1>4. QED
        BY <1>2, <1>3, SaleUntouched

\* The invoice of the winner awards the name.
LEMMA WinnerIsAwarded ==
    ASSUME TypeOK, FlowInv, ~Invoiced, NEW i \in Invoices, SettlementCreated(Operator, i)
    PROVE  TheSale!Next
    <1>1. TypeOK'
        <2>1. Settle
            BY DEF Settle
        <2>2. QED
            BY <2>1, SettleType
    <1>2. /\ FlowInv' /\ Invoiced' /\ Auctioned'.state = "ENDED" /\ Auctioned'.winner \in Bidders
          /\ DOMAIN settlements' = {i} /\ settlements'[i].source = "winner"
        BY WinnerInvoiced
    <1>3. SalePhase = "open" /\ SecondChances = {}
        BY PhaseOfSale
    <1>4. SalePhase' = "awarded"
        BY <1>2, ConstantsAssumption DEF SalePhase
    <1>5. SecondChances' = {}
        BY <1>2 DEF SecondChances
    <1>6. TheSale!Award(Auctioned'.winner)
        BY <1>3, <1>4, <1>5 DEF TheSale!Award
    <1>7. QED
        BY <1>2, <1>6 DEF TheSale!Next

\* processSecondChance, to its await, fails the sale or leaves it.
LEMMA ChoiceIsFailOrNothing ==
    ASSUME TypeOK, FlowInv, Invoiced, Auctioned.state # "FAILED", ProcessSecondChance(Operator)
    PROVE  TheSale!Next \/ UNCHANGED <<SalePhase, Auctioned.winner, SecondChances>>
    <1>1. Auctioned'.winner = Auctioned.winner /\ Auctioned'.state \in {"FAILED", Auctioned.state}
        BY NextIsChosen
    <1>2. SalePhase = "awarded"
        BY PhaseOfSale, StandingExpires
    <1>3. SecondChances' = SecondChances
        <2>1. DOMAIN settlements' = DOMAIN settlements
            BY StandingExpires
        <2>2. ASSUME NEW i \in DOMAIN settlements
              PROVE  /\ settlements'[i].bidder = settlements[i].bidder
                     /\ settlements'[i].source = settlements[i].source
            <3>1. settlements[i] \in SettlementInvoice
                BY TheListing
            <3>2. settlements'[i] \in {settlements[i], [settlements[i] EXCEPT !.status = "expired"]}
                BY StandingExpires DEF Latest
            <3>3. QED
                BY <3>1, <3>2 DEF SettlementInvoice
        <2>3. QED
            BY <2>1, <2>2, SameChances
    <1>4. CASE Auctioned'.state = "FAILED"
        <2>1. SalePhase' = "failed"
            BY <1>4 DEF SalePhase
        <2>2. TheSale!Fail
            BY <1>1, <1>2, <1>3, <2>1 DEF TheSale!Fail
        <2>3. QED
            BY <2>2 DEF TheSale!Next
    <1>5. CASE Auctioned'.state = Auctioned.state
        <2>1. SalePhase' = SalePhase
            BY <1>1, <1>5 DEF SalePhase
        <2>2. QED
            BY <1>1, <1>3, <2>1
    <1>6. QED
        BY <1>1, <1>4, <1>5

\* The invoice of a second chance offers the name to someone new.
LEMMA OfferIsAnOffer ==
    ASSUME TypeOK, FlowInv, Invoiced, NEW i \in Invoices, SecondChanceCreated(Operator, i)
    PROVE  TheSale!Next
    <1> DEFINE b == calls[Operator].bidder
    <1>1. calls[Operator].op = "chance" /\ b \in Bidders
        BY CallKinds DEF SecondChanceCreated, ChanceCall
    <1>2. /\ Auctioned.state = "ENDED" /\ b # Auctioned.winner
          /\ \A o \in OfferSet(Operator) : o.bidder # b
        BY <1>1 DEF FlowInv, OfferInTheMaking
    <1>3. SalePhase = "awarded"
        BY <1>2, PhaseOfSale
    <1>4. b \notin SecondChances
        BY <1>2 DEF FlowInv, OffersAreInvoiced, SecondChances
    <1>5. /\ Auctioned'.winner = b /\ Auctioned'.state = "ENDED"
          /\ i \notin DOMAIN settlements /\ DOMAIN settlements' = DOMAIN settlements \cup {i}
          /\ \A j \in DOMAIN settlements : settlements'[j] = settlements[j]
        BY OfferIsWritten
    <1>6. settlements'[i].bidder = b /\ settlements'[i].source = "second_chance"
        <2>1. settlements'[i] =
                Settlement(b, calls[Operator].amount, now + ChanceWindow, "second_chance")
            BY OfferIsWritten
        <2>2. QED
            BY <2>1 DEF Settlement
    <1> HIDE DEF b
    <1>7. SecondChances' = SecondChances \cup {b}
        BY <1>5, <1>6 DEF SecondChances
    <1>8. SalePhase' = "awarded"
        BY <1>1, <1>5, ConstantsAssumption DEF SalePhase
    <1>9. TheSale!Offer(b)
        BY <1>2, <1>3, <1>4, <1>5, <1>7, <1>8 DEF TheSale!Offer
    <1>10. QED
        BY <1>1, <1>9 DEF TheSale!Next

\* A payment makes the sale, and a repeated notice leaves it made.
LEMMA PaymentIsPay ==
    ASSUME TypeOK, FlowInv, NEW i \in Invoices, BidderPays(i)
    PROVE  TheSale!Next \/ UNCHANGED <<SalePhase, Auctioned.winner, SecondChances>>
    <1>1. Auctioned'.winner = Auctioned.winner /\ Auctioned'.state = "SETTLED"
        BY PaymentIsWritten
    <1>2. SalePhase' = "sold"
        BY <1>1 DEF SalePhase
    <1>3. SecondChances' = SecondChances
        <2>1. settlements' = [settlements EXCEPT ![i].status = "paid"]
            BY PaymentIsWritten
        <2>2. \A j \in DOMAIN settlements : settlements[j] \in SettlementInvoice
            BY TheListing
        <2>3. \A j \in DOMAIN settlements :
                /\ settlements'[j].bidder = settlements[j].bidder
                /\ settlements'[j].source = settlements[j].source
            BY <2>1, <2>2 DEF SettlementInvoice
        <2>4. DOMAIN settlements' = DOMAIN settlements
            BY <2>1
        <2>5. QED
            BY <2>3, <2>4, SameChances
    <1>4. SalePhase \in {"awarded", "sold"}
        BY OnlyTheStandingIsPaid, PhaseOfSale
    <1>5. CASE SalePhase = "awarded"
        BY <1>1, <1>2, <1>3, <1>5 DEF TheSale!Next, TheSale!Pay
    <1>6. CASE SalePhase = "sold"
        BY <1>1, <1>2, <1>3, <1>6
    <1>7. QED
        BY <1>4, <1>5, <1>6

\* Settling, before there is an invoice, leaves the sale open.
LEMMA SettlingKeepsTheSale ==
    ASSUME TypeOK, FlowInv, ~Invoiced, SettleAuction(Operator)
    PROVE  UNCHANGED <<SalePhase, Auctioned.winner, SecondChances>>
    <1>1. /\ edits = 0 /\ current = 0 /\ Auctioned = listing[0] /\ Auctioned \in Listing
          /\ listing \in [0..0 -> Listing]
        BY TheListing DEF TypeOK
    <1>2. UNCHANGED <<current, settlements>>
        BY DEF SettleAuction, selling
    <1>3. listing' = listing \/ listing' = [listing EXCEPT ![0].state = "ENDED"]
        BY <1>1 DEF SettleAuction
    <1>4. /\ Auctioned'.winner = Auctioned.winner
          /\ Auctioned'.state \in {Auctioned.state, "ENDED"}
        BY <1>1, <1>2, <1>3 DEF Auctioned, Listing
    <1>5. Auctioned.winner = Nobody /\ Auctioned.state \in {"UPCOMING", "LIVE", "ENDED"}
        BY DEF FlowInv, NotYetAwarded
    <1>6. SalePhase = "open" /\ SalePhase' = "open"
        BY <1>4, <1>5 DEF SalePhase
    <1>7. SecondChances' = SecondChances
        BY <1>2, SameChances
    <1>8. QED
        BY <1>4, <1>6, <1>7

LEMMA StepOfTheSale ==
    ASSUME TypeOK, FlowInv, [FlowNext]_vars
    PROVE  TheSale!Next \/ UNCHANGED <<SalePhase, Auctioned.winner, SecondChances>>
    <1>1. CASE OperatorSettles
        BY <1>1, SettlingKeepsTheSale, WinnerIsAwarded DEF OperatorSettles
    <1>2. CASE OperatorOffers
        BY <1>2, ChoiceIsFailOrNothing, OfferIsAnOffer DEF OperatorOffers
    <1>3. CASE CreateInvoiceFails(Operator) \/ Day \/ UNCHANGED vars
        <2>1. UNCHANGED <<listing, current, settlements>>
            BY <1>3 DEF CreateInvoiceFails, Day, Tick, vars, selling
        <2>2. QED
            BY <2>1, SaleUntouched DEF Auctioned
    <1>4. QED
        BY <1>1, <1>2, <1>3, BiddingKeepsTheSale, PaymentIsPay DEF FlowNext

\* The documented flow implements the sale.
THEOREM FlowIsASale == FlowSpec => IsASale
    <1>1. Init => TheSale!Init
        <2> SUFFICES ASSUME Init PROVE TheSale!Init
            OBVIOUS
        <2>1. TypeOK /\ FlowInv /\ ~Invoiced
            BY InitType, FlowInit DEF Init, Invoiced
        <2>2. QED
            BY <2>1, PhaseOfSale DEF TheSale!Init
    <1>2. TypeOK /\ FlowInv /\ [FlowNext]_vars
            => [TheSale!Next]_<<SalePhase, Auctioned.winner, SecondChances>>
        BY StepOfTheSale
    <1>3. QED
        BY <1>1, <1>2, FlowTypeCorrect, FlowCorrect, PTL DEF FlowSpec, IsASale, TheSale!Spec
=============================================================================
