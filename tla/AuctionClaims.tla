--------------------------- MODULE AuctionClaims ---------------------------
(***************************************************************************)
(* What docs/AUCTION-SYSTEM.md says of the auction and the code does not   *)
(* keep.  Each of these is refuted by a run of its own.                    *)
(***************************************************************************)
EXTENDS Auction

\* "If highest bid < reserve -> auction ends without winner."  A sale is never made
\* below the reserve price.  processSecondChance offers the name to the highest
\* bidder of an auction whose reserve was not met.
NoSaleBelowReserve ==
    listing[current].state = "SETTLED" =>
        listing[current].amount >= listing[current].reserve

\* "SETTLED: winner finalized": a settled sale stays settled with its winner.  A
\* settleAuction or processSecondChance suspended while the payment arrives
\* overwrites it, and so does a payment that comes after the window.
WinnerIsFinal ==
    [][listing[current].state = "SETTLED" =>
          /\ listing'[current'].state = "SETTLED"
          /\ listing'[current'].winner = listing[current].winner]_vars
=============================================================================
