---------------------------- MODULE AuctionFlow ----------------------------
(***************************************************************************)
(* The auction service driven the way docs/AUCTION-SYSTEM.md describes     *)
(* ("Settlement + Second Chance Flow"): one operator settles the ended     *)
(* auction once and then keeps calling processSecondChance, one call at a  *)
(* time, until the auction is settled or failed, and bidders pay within    *)
(* the window they are given.  The service itself enforces none of this;   *)
(* module AuctionClaims shows what happens without it.  Bids, payment      *)
(* notices and refusals of the provider still interleave with the operator,*)
(* and a notice may be repeated at any time.                               *)
(***************************************************************************)
EXTENDS Auction

CONSTANT Operator      \* the call the operator's requests use

ASSUME OperatorAssumption == Operator \in Calls

Auctioned == listing[current]
Concluded == Auctioned.state \in {"SETTLED", "FAILED"}
Invoiced == settlements # EmptyMap

OperatorSettles ==
    /\ ~Invoiced
    /\ \/ SettleAuction(Operator)
       \/ \E i \in Invoices : SettlementCreated(Operator, i)

OperatorOffers ==
    /\ Invoiced
    /\ \/ Auctioned.state # "FAILED" /\ ProcessSecondChance(Operator)
       \/ \E i \in Invoices : SecondChanceCreated(Operator, i)

BidderPays(i) ==
    /\ SettlementPaid(i)
    /\ settlements[i].status = "paid" \/ now <= settlements[i].expiresAt

\* A unit of the clock is long for the operator: it has nothing left to do now.
Waiting ==
    /\ calls[Operator] = Idle
    /\ \/ StateOf(Auctioned) \in {"UPCOMING", "LIVE"}
       \/ StillActive(Auctioned)
       \/ Concluded

Day == Waiting /\ Tick

Bidding ==
    \E c \in Calls \ {Operator} :
        \/ \E z \in Receipt : IngestZapBid(c, z)
        \/ VerifyZapPayment(c) \/ RecordZapBid(c) \/ RejectZapBid(c)

FlowNext ==
    \/ Bidding
    \/ OperatorSettles
    \/ OperatorOffers
    \/ \E i \in Invoices : BidderPays(i)
    \/ CreateInvoiceFails(Operator)
    \/ Day

\* The operator comes back whenever there is something to do, and the provider does
\* not refuse every request for ever.
FlowFairness ==
    /\ WF_vars(Day)
    /\ WF_vars(~Invoiced /\ SettleAuction(Operator))
    /\ SF_vars(\E i \in Invoices : SettlementCreated(Operator, i))
    /\ WF_vars(Invoiced /\ Auctioned.state # "FAILED" /\ ProcessSecondChance(Operator))
    /\ SF_vars(\E i \in Invoices : SecondChanceCreated(Operator, i))

FlowSpec == Init /\ [][FlowNext]_vars /\ FlowFairness

(***************************************************************************)
(* Properties                                                              *)
(***************************************************************************)

\* Where the sale stands, and who has been made a second offer.
SalePhase ==
    CASE Auctioned.state = "SETTLED" -> "sold"
      [] Auctioned.state = "FAILED" -> "failed"
      [] OTHER -> IF Auctioned.winner = Nobody THEN "open" ELSE "awarded"
SecondChances ==
    {settlements[i].bidder : i \in {j \in DOMAIN settlements :
                                        settlements[j].source = "second_chance"}}
TheSale ==
    INSTANCE Sale WITH Buyers <- Bidders, phase <- SalePhase, buyer <- Auctioned.winner,
                       offered <- SecondChances

\* The flow is a sale: it awards the name to the winner, then offers it at most once
\* to every bidder, and a sale that was paid for keeps its buyer (settleAuction,
\* processSecondChance, handlePaymentReceived).
IsASale == TheSale!Spec

\* Two bidders are never asked to pay for the name at the same time, the hour a
\* window closes included (the guards of processSecondChance on expiresAt).
OneActiveSettlement ==
    \A i, j \in DOMAIN settlements :
        /\ settlements[i].status = "pending" /\ now <= settlements[i].expiresAt
        /\ settlements[j].status = "pending" /\ now <= settlements[j].expiresAt
        => i = j

\* The offers of the auction agree with their invoices: an offer is accepted exactly
\* when its invoice was paid, and one that can still be paid is pending
\* (handlePaymentReceived, processSecondChance).
OffersAgreeWithInvoices ==
    offerList # "none" =>
        \A o \in offers[offerList] :
            /\ o.status = "accepted" <=> settlements[o.invoice].status = "paid"
            /\ settlements[o.invoice].status = "pending" /\ now < o.expiresAt /\ ~Concluded
               => o.status = "pending"

\* "Flow continues down ranked bidders until paid or no bidders remain": once the
\* winner is invoiced the auction ends up settled or failed (processSecondChance).
FlowConcludes == Invoiced ~> Concluded

\* Why these hold.  The handlers of the flow: the operator's, and bidders'.
FlowCalls ==
    /\ edits = 0
    /\ \A c \in Calls \ {Operator} : calls[c].op \in {"idle", "verifying", "verified"}
    /\ calls[Operator].op \in {"idle", IF Invoiced THEN "chance" ELSE "settle"}

\* Until the winner is invoiced there is neither a winner nor an offer.
NotYetAwarded ==
    ~Invoiced =>
        /\ Auctioned.winner = Nobody /\ offerList = "none"
        /\ Auctioned.state \in {"UPCOMING", "LIVE", "ENDED"}

\* From then on one settlement stands, the one that the listing names; the windows of
\* all the others have closed, and it is paid exactly when the auction is SETTLED.
Lapsed(s) == s.status = "expired" /\ s.expiresAt < now
Latest == settlements[Auctioned.invoice]
OneStanding ==
    Invoiced =>
        /\ Auctioned.invoice \in DOMAIN settlements
        /\ Latest.bidder = Auctioned.winner
        /\ Auctioned.state \in {"ENDED", "SETTLED", "FAILED"}
        /\ Latest.status = "paid" <=> Auctioned.state = "SETTLED"
        /\ Latest.status = "expired" => Latest.expiresAt < now
        /\ Auctioned.state = "FAILED" => Latest.status = "expired"
        /\ \A i \in DOMAIN settlements \ {Auctioned.invoice} : Lapsed(settlements[i])

\* An offer has its settlement and a second chance its offer.
OffersAreInvoiced ==
    /\ offerList = "none" => \A s \in Slots : offers[s] = {}
    /\ \A o \in OfferSet(Operator) :
          /\ o.invoice \in DOMAIN settlements
          /\ settlements[o.invoice].bidder = o.bidder
          /\ settlements[o.invoice].expiresAt = o.expiresAt
    /\ \A i \in DOMAIN settlements : settlements[i].source = "second_chance" =>
          \E o \in OfferSet(Operator) : o.bidder = settlements[i].bidder

\* While an offer is being invoiced no settlement can be paid, and it goes to someone
\* who neither is the winner nor had an offer.
OfferInTheMaking ==
    calls[Operator].op = "chance" =>
        /\ Auctioned.state = "ENDED" /\ Latest.status = "expired"
        /\ calls[Operator].at = now /\ calls[Operator].array = OfferArray(Operator)
        /\ calls[Operator].bidder # Auctioned.winner
        /\ \A o \in OfferSet(Operator) : o.bidder # calls[Operator].bidder

FlowInv ==
    /\ FlowCalls /\ NotYetAwarded /\ OneStanding
    /\ OffersAreInvoiced /\ OfferInTheMaking /\ OffersAgreeWithInvoices
=============================================================================
