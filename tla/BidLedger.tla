----------------------------- MODULE BidLedger -----------------------------
(***************************************************************************)
(* What the auction service promises of its record of bids: a ledger that  *)
(* only grows, in which a payment appears once, unless its terms are in    *)
(* dispute, and a bid that comes by zap is at least ten percent above all  *)
(* that precede it.                                                        *)
(***************************************************************************)
EXTENDS Integers, Sequences

VARIABLES
    ledger,           \* entries [via, ref, bidder, amount, at, ahead]
    disputed          \* payments by zap that are claimed for different terms

Outbids(e) == \A i \in DOMAIN ledger : 10 * e.amount >= 11 * ledger[i].amount
Unseen(e) ==
    \A i \in DOMAIN ledger : ~(ledger[i].via = e.via /\ ledger[i].ref = e.ref)

Init == ledger = <<>> /\ disputed = {}

Record(e) ==
    /\ Unseen(e) \/ (e.via = "zap" /\ e.ref \in disputed)
    /\ e.via = "zap" => Outbids(e)
    /\ ledger' = Append(ledger, e)
    /\ UNCHANGED disputed

\* A dispute is for good, and takes back no entry.
Dispute == disputed \subseteq disputed' /\ UNCHANGED ledger

\* The entry is whatever the ledger ends with.
Next ==
    \/ /\ Len(ledger') = Len(ledger) + 1
       /\ Record(ledger'[Len(ledger')])
    \/ Dispute

Spec == Init /\ [][Next]_<<ledger, disputed>>
=============================================================================
