---------------------------- MODULE Membership -----------------------------
(***************************************************************************)
(* Billing and identities together: what a paying member can rely on.      *)
(***************************************************************************)
EXTENDS Nip05

Next == BillingNext \/ NamesNext

Spec == Init /\ [][Next]_vars

Tier == Paid \cup {"FREE"}
Date == Nat \cup {NoDate}
Decision == {"expired", "failed"}
Payment == [user : Users, order : [tier : Paid, cycle : Cycles],
            status : {"pending", "paid"} \cup Decision, created : Nat]
Subscription == [tier : Tier, until : Date, cancelled : BOOLEAN]
Name == [owner : Users, receipt : Payments, active : BOOLEAN]

AboutPayment == {"ask", "verify", "process", "mark", "write", "lapse", "extend"}
PaymentCall == [op : {"ask", "verify", "process", "mark"}, payment : Payments]
StatusCall == [op : {"write", "lapse"}, payment : Payments, status : Decision]
ExtendCall == [op : {"extend"}, payment : Payments, until : Date]
UserCall == [op : {"cancel", "reactivate"}, user : Users]
CronCall == [op : {"downgrade"}, todo : SUBSET Users]
            \cup [op : {"deactivate"}, user : Users, todo : SUBSET Users]
NameCall == [op : {"readUser", "findReceipt"}, user : Users, name : Names]
            \cup [op : {"create"}, user : Users, name : Names, receipt : Payments]
            \cup [op : {"delete"}, name : Names]
Call == {Idle} \cup PaymentCall \cup StatusCall \cup ExtendCall \cup UserCall
        \cup CronCall \cup NameCall

\* The rows a suspended handler works on.
OnRows(k) ==
    /\ k.op \in AboutPayment => k.payment \in DOMAIN payments
    /\ k.op = "create" => k.receipt \in DOMAIN payments
    /\ k.op = "delete" => k.name \in DOMAIN names

\* Every column holds a value of its kind; a suspended handler works on rows that
\* exist.
TypeOK ==
    /\ now \in Nat
    /\ MapOf(payments, Payments, Payment)
    /\ provider \in [DOMAIN payments -> {"pending", "paid"} \cup Decision]
    /\ subs \in [Users -> Subscription]
    /\ MapOf(names, Names, Name)
    /\ \A n \in DOMAIN names : names[n].receipt \in DOMAIN payments
    /\ calls \in [Calls -> Call]
    /\ \A c \in Calls : OnRows(calls[c])
    /\ credits \in [Payments -> Nat]

\* Whatever is polled, delivered twice, delayed or interrupted: a payment is marked
\* paid only when its invoice was settled at the provider and its subscription was
\* extended for it, so that a crash in between costs the user nothing
\* (handleWebhook, checkInvoiceStatus, processPayment).
PaidIsSettled ==
    \A p \in DOMAIN payments :
        payments[p].status = "paid" => provider[p] = "paid" /\ credits[p] > 0

\* A user who is not on the FREE tier ordered that tier, and the order was settled and
\* credited (processPayment; not so once an administrator grants a tier).
TierIsPaidFor ==
    "admin" \notin Ops => \A u \in Users : subs[u].tier # "FREE" =>
        \E p \in DOMAIN payments :
            /\ payments[p].user = u /\ payments[p].order.tier = subs[u].tier
            /\ provider[p] = "paid" /\ credits[p] > 0

\* An identity was given for a settled payment, also when tiers are granted by an
\* administrator and payments are decided while the identity is claimed (provision).
NameHasReceipt ==
    \A n \in DOMAIN names : provider[names[n].receipt] = "paid"

\* Why these hold: a handler that is processing a payment knows that the invoice was
\* settled, one that is about to mark it has extended the subscription, and one that
\* creates an identity holds a receipt.  Together they are inductive.
HandlerSettled(k) ==
    /\ k.op \in {"process", "extend", "mark"} => provider[k.payment] = "paid"
    /\ k.op = "mark" => credits[k.payment] > 0
    /\ k.op = "create" => provider[k.receipt] = "paid"
SettlementInv ==
    /\ \A c \in Calls : HandlerSettled(calls[c])
    /\ PaidIsSettled /\ NameHasReceipt /\ TierIsPaidFor

\* A user has no more identities than some order of theirs allows
\* (provision, when no two requests of a user overlap and no administrator grants any).
NamesWithinLimit ==
    \A u \in Users : ActiveNames(u) # {} =>
        \E p \in DOMAIN payments :
            /\ payments[p].user = u /\ credits[p] > 0
            /\ Cardinality(ActiveNames(u)) <= Limit(payments[p].order.tier)

\* "NIP-05 is paid-only. Deactivate all active NIP-05 identities on downgrade to
\* FREE": apart from the moment between its two writes the downgrade leaves no active
\* identity behind, and none is made later (processExpiredSubscriptions, provision).
FreeHasNoNames ==
    \A u \in Users :
        /\ subs[u].tier = "FREE"
        /\ \A c \in Calls : ~(calls[c].op = "deactivate" /\ calls[c].user = u)
        => ActiveNames(u) = {}

\* Handled one request at a time, and to the end, billing is an entitlement: every
\* payment is credited once, on top of what is left.  A payment that is being marked
\* has been credited.
Account ==
    INSTANCE Entitlement WITH
        orders <- [p \in DOMAIN payments |->
                    [user |-> payments[p].user, tier |-> payments[p].order.tier,
                     cycle |-> payments[p].order.cycle]],
        credited <- {p \in DOMAIN payments : credits[p] > 0},
        account <- subs
IsAnEntitlement == Account!Spec

\* Handlers that were started are run to their end.  Nothing is assumed of the
\* provider, which need not repeat a notice, nor of the users, who need not ask.
Fairness ==
    \A c \in Calls :
        /\ WF_vars(Verified(c)) /\ WF_vars(ProcessPayment(c))
        /\ WF_vars(CheckAnswered(c) \/ WriteStatus(c) \/ LapseStatus(c))
        /\ WF_vars(WriteCancelled(c) \/ Downgrade(c) \/ DeactivateNames(c))
        /\ WF_vars(ReadUser(c) \/ FindReceipt(c) \/ CreateName(c) \/ WriteDeleted(c))
FairSpec == Spec /\ Fairness

\* The provider has told a handler that the invoice is settled.
Confirmed(p) == \E c \in Calls : calls[c] = [op |-> "process", payment |-> p]

\* An invoice that the provider has once confirmed to be settled is credited, whatever
\* the service had made of the payment before: also when its status is "expired" or
\* "failed" by then (checkInvoiceStatus, handleWebhook, processPayment).
ConfirmedIsCredited == \A p \in Payments : Confirmed(p) ~> credits[p] > 0
=============================================================================
