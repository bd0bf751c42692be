--------------------------- MODULE MCAuctionFlow ---------------------------
(* Instances of the documented auction flow small enough for TLC. *)
EXTENDS AuctionFlow

OneListing == {[startsAt |-> 0, endsAt |-> 1, starting |-> 10, reserve |-> 11]}
=============================================================================
