----------------------------- MODULE MCAuction -----------------------------
(* Instances of the auction service small enough for TLC. *)
EXTENDS AuctionClaims, TLC

OneListing == {[startsAt |-> 0, endsAt |-> 1, starting |-> 10, reserve |-> 11]}

\* Listings with a moment before their snipe window, open at once or later, and one
\* createAuction refuses.
BidListings ==
    {[startsAt |-> s, endsAt |-> 2, starting |-> 10, reserve |-> 10] : s \in {0, 1}}
    \cup {[startsAt |-> 0, endsAt |-> 2, starting |-> 10, reserve |-> 5]}

\* A bid of ten meets the reserve of the one and not of the other.
TwoReserves ==
    {[startsAt |-> 0, endsAt |-> 1, starting |-> 10, reserve |-> r] : r \in {10, 11}}

MCSymmetry ==
    Permutations(Bidders) \cup Permutations(Hashes)
    \cup Permutations(Invoices) \cup Permutations(Calls)
=============================================================================
