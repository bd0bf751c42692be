------------------------- MODULE MembershipClaims --------------------------
(***************************************************************************)
(* What the code says of itself and does not keep when handlers overlap or *)
(* are cut short.  It is refuted by a run of its own.                      *)
(***************************************************************************)
EXTENDS Membership

\* "If already processed, return current status": a payment extends its subscription
\* once.  Whether it was processed is read before the subscription is extended and
\* recorded after, by checkInvoiceStatus and handleWebhook at the same time or before
\* and after a crash.
CreditedOnce == \A p \in Payments : credits[p] <= 1
=============================================================================
