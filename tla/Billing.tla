------------------------------ MODULE Billing ------------------------------
(***************************************************************************)
(* Payments and subscriptions: invoices for a tier, the ways the service   *)
(* learns that one was paid (a client that asks, a notice of the payment   *)
(* provider), the extension of the subscription, its cancellation and its  *)
(* expiry.                                                                 *)
(*                                                                         *)
(* The rows are in a database that every handler reads and writes without  *)
(* a transaction.  A handler is suspended at each `await`; `calls` holds   *)
(* what it has read, and each database write is an action of its own.      *)
(***************************************************************************)
EXTENDS Maps, Integers, FiniteSets

CONSTANTS
    Users,            \* users, each with the one subscription row it has
    Payments,         \* ids of payment rows
    Names,            \* NIP-05 local parts that may be registered directly
    Calls,            \* handlers that may be suspended at the same time
    Orders,           \* the [tier, cycle] users order
    Ops,              \* the operations a run exercises
    InvoiceTtl,       \* after how long a pending invoice is given up
    Month, Year, Lifetime,
    NoDate,           \* a date column that is null
    MaxTime,          \* bound: the clock stops here
    MaxCredits        \* bound: times one payment extends its subscription

Paid == {"PRO", "BUSINESS", "LIFETIME"}
Cycles == {"monthly", "annual", "lifetime"}
AllOps == {"buy", "poll", "notify", "cancel", "expire", "crash",
           "provision", "delete", "admin"}

ASSUME BillingAssumption ==
    /\ Orders \subseteq [tier : Paid, cycle : Cycles]
    /\ Ops \subseteq AllOps
    /\ InvoiceTtl \in Nat /\ Month \in Nat /\ Year \in Nat /\ Lifetime \in Nat
    /\ NoDate \notin Nat
    /\ MaxTime \in Nat /\ MaxCredits \in Nat

VARIABLES
    now,              \* the clock
    payments,         \* Payment rows, by id
    provider,         \* what the payment provider knows of their invoices
    subs,             \* Subscription rows, by user
    names,            \* Nip05 rows, by local part
    calls,            \* handlers suspended at an await
    credits           \* history: how often a payment extended a subscription

vars == <<now, payments, provider, subs, names, calls, credits>>

Idle == [op |-> "idle"]

Free == [tier |-> "FREE", until |-> NoDate, cancelled |-> FALSE]

Init ==
    /\ now = 0
    /\ payments = EmptyMap /\ provider = EmptyMap
    /\ subs = [u \in Users |-> Free]
    /\ names = EmptyMap
    /\ calls = [c \in Calls |-> Idle]
    /\ credits = [p \in Payments |-> 0]

\* Handler c goes on with k.
Suspend(c, k) == calls' = [calls EXCEPT ![c] = k]
Return(c) == Suspend(c, Idle)

(***************************************************************************)
(* Payments                                                                *)
(***************************************************************************)

\* createInvoice: what is ordered.  The provider's invoice, the payment row and the
\* audit entry that keeps the order are made before anyone is told the invoice, so
\* the order of these writes is not observable.
Ordered(o) ==
    IF o.cycle = "lifetime" \/ o.tier = "LIFETIME"
    THEN [tier |-> "LIFETIME", cycle |-> "lifetime"] ELSE o

CreateInvoice(u, o, p) ==
    /\ p \notin DOMAIN payments
    /\ payments' = Put(payments, p, [user |-> u, order |-> Ordered(o),
                                     status |-> "pending", created |-> now])
    /\ provider' = Put(provider, p, "pending")
    /\ UNCHANGED <<now, subs, names, calls, credits>>

\* The invoice is settled, expires or becomes invalid at the provider, for good.
ProviderDecides(p, state) ==
    /\ p \in DOMAIN provider /\ provider[p] = "pending"
    /\ provider' = [provider EXCEPT ![p] = state]
    /\ UNCHANGED <<now, payments, subs, names, calls, credits>>

\* checkInvoiceStatus up to the provider's answer; a decided payment is returned.
CheckInvoiceStatus(c, p) ==
    /\ calls[c] = Idle
    /\ p \in DOMAIN payments /\ payments[p].status = "pending"
    /\ Suspend(c, [op |-> "ask", payment |-> p])
    /\ UNCHANGED <<now, payments, provider, subs, names, credits>>

\* The provider's answer, "unknown" when it could not be reached.
Answer(p) == {provider[p], "unknown"}

\* (mutant) The provider's answer is written as it came.
CheckAnsweredVerbatim(c) ==
    /\ calls[c].op = "ask"
    /\ LET p == calls[c].payment
       IN \E answer \in Answer(p) :
            CASE answer = "paid" -> Suspend(c, [op |-> "process", payment |-> p])
              [] OTHER -> Suspend(c, [op |-> "write", payment |-> p, status |-> answer])
    /\ UNCHANGED <<now, payments, provider, subs, names, credits>>

CheckAnswered(c) ==
    /\ calls[c].op = "ask"
    /\ LET p == calls[c].payment
       IN \E answer \in Answer(p) :
            CASE answer = "paid" -> Suspend(c, [op |-> "process", payment |-> p])
              [] answer \in {"expired", "failed"} ->
                    Suspend(c, [op |-> "write", payment |-> p, status |-> answer])
              [] OTHER ->
                    IF now - payments[p].created > InvoiceTtl
                    THEN Suspend(c, [op |-> "write", payment |-> p, status |-> "expired"])
                    ELSE Return(c)
    /\ UNCHANGED <<now, payments, provider, subs, names, credits>>

\* The update has no condition on the status the row has by now.
WriteStatus(c) ==
    /\ calls[c].op = "write"
    /\ payments' = [payments EXCEPT ![calls[c].payment].status = calls[c].status]
    /\ Return(c)
    /\ UNCHANGED <<now, provider, subs, names, credits>>

\* handleWebhook: a notice of the provider, delivered any number of times.  A refusal
\* is written where the row is pending; everything else is verified with the provider.
HandleWebhook(c, p) ==
    /\ calls[c] = Idle
    /\ p \in DOMAIN payments /\ payments[p].status # "paid"
    /\ \/ /\ provider[p] \in {"expired", "failed"}
          /\ Suspend(c, [op |-> "lapse", payment |-> p, status |-> provider[p]])
       \/ Suspend(c, [op |-> "verify", payment |-> p])
    /\ UNCHANGED <<now, payments, provider, subs, names, credits>>

LapseStatus(c) ==
    /\ calls[c].op = "lapse"
    /\ payments' = IF payments[calls[c].payment].status = "pending"
                   THEN [payments EXCEPT ![calls[c].payment].status = calls[c].status]
                   ELSE payments
    /\ Return(c)
    /\ UNCHANGED <<now, provider, subs, names, credits>>

Verified(c) ==
    /\ calls[c].op = "verify"
    /\ \E answer \in Answer(calls[c].payment) :
          IF answer = "paid"
          THEN Suspend(c, [op |-> "process", payment |-> calls[c].payment])
          ELSE Return(c)
    /\ UNCHANGED <<now, payments, provider, subs, names, credits>>

\* (mutant) The payment is marked before the subscription is extended.
ReadPaymentMarking(c) ==
    /\ calls[c].op = "process"
    /\ LET p == calls[c].payment
       IN IF payments[p].status = "paid" THEN Return(c) /\ UNCHANGED payments
          ELSE /\ Suspend(c, [op |-> "extend", payment |-> p,
                              until |-> subs[payments[p].user].until])
               /\ payments' = [payments EXCEPT ![p].status = "paid"]
    /\ UNCHANGED <<now, provider, subs, names, credits>>

\* (mutant) A payment that is no longer pending counts as processed.
ReadPaymentPendingOnly(c) ==
    /\ calls[c].op = "process"
    /\ LET p == calls[c].payment
       IN IF payments[p].status # "pending" THEN Return(c)
          ELSE Suspend(c, [op |-> "extend", payment |-> p,
                           until |-> subs[payments[p].user].until])
    /\ UNCHANGED <<now, payments, provider, subs, names, credits>>

\* processPayment, first read: the payment and the subscription as they are now.
ReadPayment(c) ==
    /\ calls[c].op = "process"
    /\ LET p == calls[c].payment
       IN IF payments[p].status = "paid" THEN Return(c)
          ELSE Suspend(c, [op |-> "extend", payment |-> p,
                           until |-> subs[payments[p].user].until])
    /\ UNCHANGED <<now, payments, provider, subs, names, credits>>

\* The end of the period an order buys on top of one that ends at `until`.
Extended(order, until) ==
    LET base == IF until \in Nat /\ until > now THEN until ELSE now
    IN CASE order.cycle = "lifetime" -> now + Lifetime
         [] order.cycle = "annual" -> base + Year
         [] OTHER -> base + Month

\* (mutant) The order is forgotten: every payment buys PRO.
ExtendToPro(c) ==
    /\ calls[c].op = "extend"
    /\ LET p == calls[c].payment
       IN /\ credits[p] < MaxCredits
          /\ credits' = [credits EXCEPT ![p] = @ + 1]
          /\ subs' = [subs EXCEPT ![payments[p].user] =
                [tier |-> "PRO", until |-> Extended(payments[p].order, calls[c].until),
                 cancelled |-> FALSE]]
          /\ Suspend(c, [op |-> "mark", payment |-> p])
    /\ UNCHANGED <<now, payments, provider, names>>

\* processPayment writes the subscription: its tier whatever it was, the period from
\* the end that was read before, and no cancellation.
ExtendSubscription(c) ==
    /\ calls[c].op = "extend"
    /\ LET p == calls[c].payment
       IN /\ credits[p] < MaxCredits
          /\ credits' = [credits EXCEPT ![p] = @ + 1]
          /\ subs' = [subs EXCEPT ![payments[p].user] =
                [tier |-> payments[p].order.tier,
                 until |-> Extended(payments[p].order, calls[c].until),
                 cancelled |-> FALSE]]
          /\ Suspend(c, [op |-> "mark", payment |-> p])
    /\ UNCHANGED <<now, payments, provider, names>>

\* (mutant) Only a pending payment is marked.
MarkPaidPendingOnly(c) ==
    /\ calls[c].op = "mark"
    /\ payments' = IF payments[calls[c].payment].status = "pending"
                   THEN [payments EXCEPT ![calls[c].payment].status = "paid"] ELSE payments
    /\ Return(c)
    /\ UNCHANGED <<now, provider, subs, names, credits>>

\* processPayment ends by marking the payment, whatever its status is by now.
MarkPaid(c) ==
    /\ calls[c].op = "mark"
    /\ payments' = [payments EXCEPT ![calls[c].payment].status = "paid"]
    /\ Return(c)
    /\ UNCHANGED <<now, provider, subs, names, credits>>

ProcessPayment(c) == ReadPayment(c) \/ ExtendSubscription(c) \/ MarkPaid(c)

(***************************************************************************)
(* Subscriptions                                                           *)
(***************************************************************************)

\* downgrade and cancel read the tier and then write the same column.
Cancel(c, u) ==
    /\ calls[c] = Idle
    /\ subs[u].tier # "FREE"
    /\ Suspend(c, [op |-> "cancel", user |-> u])
    /\ UNCHANGED <<now, payments, provider, subs, names, credits>>

Reactivate(c, u) ==
    /\ calls[c] = Idle
    /\ subs[u].cancelled
    /\ ~(subs[u].until \in Nat /\ subs[u].until < now)
    /\ Suspend(c, [op |-> "reactivate", user |-> u])
    /\ UNCHANGED <<now, payments, provider, subs, names, credits>>

WriteCancelled(c) ==
    /\ calls[c].op \in {"cancel", "reactivate"}
    /\ subs' = [subs EXCEPT ![calls[c].user].cancelled = (calls[c].op = "cancel")]
    /\ Return(c)
    /\ UNCHANGED <<now, payments, provider, names, credits>>

\* The rows processExpiredSubscriptions finds, less those it then passes over.
Lapsed(u) ==
    /\ subs[u].tier # "FREE" /\ subs[u].cancelled
    /\ subs[u].until \in Nat /\ subs[u].until < now

\* processExpiredSubscriptions: one read, then two writes for every row read.
ProcessExpired(c) ==
    /\ calls[c] = Idle
    /\ \E u \in Users : Lapsed(u)
    /\ Suspend(c, [op |-> "downgrade", todo |-> {u \in Users : Lapsed(u)}])
    /\ UNCHANGED <<now, payments, provider, subs, names, credits>>

Downgrade(c) ==
    /\ calls[c].op = "downgrade"
    /\ \E u \in calls[c].todo :
          /\ subs' = [subs EXCEPT ![u] = Free]
          /\ Suspend(c, [op |-> "deactivate", user |-> u, todo |-> calls[c].todo \ {u}])
    /\ UNCHANGED <<now, payments, provider, names, credits>>

\* (mutant) The identities of the user stay as they are.
DeactivateNobody(c) ==
    /\ calls[c].op = "deactivate"
    /\ IF calls[c].todo = {} THEN Return(c)
       ELSE Suspend(c, [op |-> "downgrade", todo |-> calls[c].todo])
    /\ UNCHANGED <<now, payments, provider, subs, names, credits>>

DeactivateNames(c) ==
    /\ calls[c].op = "deactivate"
    /\ names' = [n \in DOMAIN names |->
                    IF names[n].owner = calls[c].user
                    THEN [names[n] EXCEPT !.active = FALSE] ELSE names[n]]
    /\ IF calls[c].todo = {} THEN Return(c)
       ELSE Suspend(c, [op |-> "downgrade", todo |-> calls[c].todo])
    /\ UNCHANGED <<now, payments, provider, subs, credits>>

(***************************************************************************)
(* The parts, for the modules that compose them                            *)
(***************************************************************************)

\* A write fails, or the process stops: the rest of the handler is not run.
CallFails(c) ==
    /\ calls[c] # Idle
    /\ Return(c)
    /\ UNCHANGED <<now, payments, provider, subs, names, credits>>

Tick ==
    /\ now < MaxTime
    /\ now' = now + 1
    /\ UNCHANGED <<payments, provider, subs, names, calls, credits>>

Buy ==
    \/ \E u \in Users, o \in Orders, p \in Payments : CreateInvoice(u, o, p)
    \/ \E p \in Payments, state \in {"paid", "expired", "failed"} : ProviderDecides(p, state)
Poll ==
    \E c \in Calls :
        (\E p \in Payments : CheckInvoiceStatus(c, p)) \/ CheckAnswered(c) \/ WriteStatus(c)
Notify ==
    \E c \in Calls : (\E p \in Payments : HandleWebhook(c, p)) \/ Verified(c) \/ LapseStatus(c)
Cancellation ==
    \E c \in Calls : (\E u \in Users : Cancel(c, u) \/ Reactivate(c, u)) \/ WriteCancelled(c)
Expiry == \E c \in Calls : ProcessExpired(c) \/ Downgrade(c) \/ DeactivateNames(c)

BillingNext ==
    \/ "buy" \in Ops /\ Buy
    \/ "poll" \in Ops /\ Poll
    \/ "notify" \in Ops /\ Notify
    \/ \E c \in Calls : ProcessPayment(c)
    \/ "cancel" \in Ops /\ Cancellation
    \/ "expire" \in Ops /\ Expiry
    \/ "crash" \in Ops /\ \E c \in Calls : CallFails(c)
    \/ Tick
=============================================================================
