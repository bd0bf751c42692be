--------------------------- MODULE MCMembership ----------------------------
(* Instances of billing and identities small enough for TLC. *)
EXTENDS MembershipClaims, TLC

\* A short plan, a long one of a larger tier, and one for ever.
MCOrders == {[tier |-> "PRO", cycle |-> "monthly"], [tier |-> "BUSINESS", cycle |-> "annual"],
             [tier |-> "PRO", cycle |-> "lifetime"]}
TwoOrders == {[tier |-> "PRO", cycle |-> "monthly"], [tier |-> "BUSINESS", cycle |-> "annual"]}
OneOrder == {[tier |-> "PRO", cycle |-> "monthly"]}
NullDate == -1

MCSymmetry ==
    Permutations(Users) \cup Permutations(Payments) \cup Permutations(Names)
    \cup Permutations(Calls)
=============================================================================
